-------------------------- MODULE LivoxDriverProofs --------------------------
(* Proofs about LivoxDriver for every number of lidars, settings and packets,   *)
(* every queue size and every lap of the counters: the types, the separation of *)
(* the slot being written from the slot being read, the configuration of every  *)
(* lidar that samples, and that each ring is a first-in first-out queue.        *)
EXTENDS LivoxDriver, SequenceTheorems, TLAPS

----------------------------------------------------------------------------
(* Arithmetic of the counters and of their slots. *)

(* The parameters are whole and positive. *)
LEMMA Sizes == /\ Size \in Nat \ {0}
               /\ Laps \in Nat \ {0, 1}
               /\ Wrap \in Nat \ {0}
               /\ Wrap >= 2 * Size
               /\ Wrap = Size * Laps
<1>1. Size \in Nat \ {0} /\ Laps \in Nat \ {0, 1}
  BY QueueAssumption
<1>2. Size * Laps >= 2 * Size /\ Size * Laps \in Nat
  BY <1>1, SMT
<1> QED
  BY <1>1, <1>2 DEF Wrap

(* Division with remainder. *)
LEMMA DivMod == ASSUME NEW n \in Nat \ {0}, NEW a \in Nat
                PROVE  /\ a % n \in 0 .. n - 1
                       /\ a \div n \in Int
                       /\ a = n * (a \div n) + (a % n)
BY SMT

(* A remainder is unique. *)
LEMMA ModUnique == ASSUME NEW n \in Nat \ {0}, NEW a \in Nat, NEW q \in Int,
                          NEW r \in 0 .. n - 1, a = n * q + r
                   PROVE  a % n = r
<1>1. /\ a % n \in 0 .. n - 1
      /\ a \div n \in Int
      /\ a = n * (a \div n) + (a % n)
  BY DivMod
<1> DEFINE s == a % n
           p == a \div n
<1>2. /\ s \in 0 .. n - 1
      /\ p \in Int
      /\ n * p + s = n * q + r
  BY <1>1
<1> HIDE DEF s, p
<1>3. s = r
  BY <1>2, SMTT(30)
<1> QED
  BY <1>3 DEF s

(* Numbers that differ by a multiple of n have the same remainder. *)
LEMMA ModShift == ASSUME NEW n \in Nat \ {0}, NEW a \in Nat, NEW q \in Int, a + n * q \in Nat
                  PROVE  (a + n * q) % n = a % n
<1> DEFINE r == a % n
           p == a \div n
<1>1. /\ r \in 0 .. n - 1
      /\ p \in Int
      /\ a = n * p + r
  BY DivMod
<1> HIDE DEF r, p
<1>2. a + n * q = n * (p + q) + r /\ p + q \in Int /\ a + n * q \in Nat
  BY <1>1, SMT
<1>3. (a + n * q) % n = r
  BY <1>1, <1>2, ModUnique
<1> QED
  BY <1>3 DEF r

(* Indices less than Size apart have different slots. *)
LEMMA SlotsDiffer == ASSUME NEW i \in Nat, NEW j \in Nat, i < j, j - i < Size
                     PROVE  SlotOf(i) # SlotOf(j)
<1> DEFINE n == Size
           r == i % n
           p == i \div n
           s == j % n
           q == j \div n
<1>1. n \in Nat \ {0} /\ i < j /\ j - i < n
  BY Sizes
<1>2. r \in 0 .. n - 1 /\ p \in Int /\ i = n * p + r
  BY <1>1, DivMod
<1>3. s \in 0 .. n - 1 /\ q \in Int /\ j = n * q + s
  BY <1>1, DivMod
<1>4. SlotOf(i) = r /\ SlotOf(j) = s
  BY DEF SlotOf
<1> HIDE DEF n, r, p, s, q
<1>5. SUFFICES ASSUME r = s PROVE FALSE
  BY <1>4
<1>6. j - i = n * (q - p) /\ q - p \in Int
  BY <1>2, <1>3, <1>5, <1>1
<1>7. CASE q - p <= 0
  <2>1. n * (q - p) <= 0
    BY <1>1, <1>6, <1>7
  <2> QED
    BY <2>1, <1>1, <1>6
<1>8. CASE q - p >= 1
  <2>1. n * (q - p) >= n
    BY <1>1, <1>6, <1>8
  <2> QED
    BY <2>1, <1>1, <1>6
<1> QED
  BY <1>6, <1>7, <1>8

(* A slot does not see the laps of a counter. *)
LEMMA SlotShift == ASSUME NEW a \in Nat, NEW q \in Int, a + Wrap * q \in Nat
                   PROVE  SlotOf(a + Wrap * q) = SlotOf(a)
<1>1. Laps * q \in Int /\ Wrap * q = Size * (Laps * q)
  BY Sizes, SMT
<1>2. (a + Size * (Laps * q)) % Size = a % Size
  BY <1>1, Sizes, ModShift
<1> QED
  BY <1>1, <1>2 DEF SlotOf

(* A slot is one of the queue's. *)
LEMMA SlotRange == ASSUME NEW a \in Nat
                   PROVE  SlotOf(a) \in Slots
BY Sizes, DivMod DEF SlotOf, Slots

(* The unsigned difference of two counters, and the next value of one. *)
LEMMA UsedValue == ASSUME NEW w \in Index, NEW r \in Index
                   PROVE  Used(w, r) = IF w >= r THEN w - r ELSE w - r + Wrap
<1>1. Wrap \in Nat \ {0} /\ w \in 0 .. Wrap - 1 /\ r \in 0 .. Wrap - 1
  BY Sizes DEF Index
<1>2. CASE w >= r
  <2>1. w + Wrap - r \in Nat /\ w - r \in 0 .. Wrap - 1 /\ w + Wrap - r = Wrap * 1 + (w - r)
    BY <1>1, <1>2
  <2>2. (w + Wrap - r) % Wrap = w - r
    BY <1>1, <2>1, ModUnique
  <2> QED
    BY <1>2, <2>2 DEF Used
<1>3. CASE ~ (w >= r)
  <2>1. /\ w + Wrap - r \in Nat
        /\ w + Wrap - r \in 0 .. Wrap - 1
        /\ w + Wrap - r = Wrap * 0 + (w + Wrap - r)
    BY <1>1, <1>3
  <2>2. (w + Wrap - r) % Wrap = w + Wrap - r
    BY <1>1, <2>1, ModUnique
  <2>3. w + Wrap - r = w - r + Wrap
    BY <1>1
  <2> QED
    BY <1>3, <2>2, <2>3 DEF Used
<1> QED
  BY <1>2, <1>3

LEMMA NextIndex == ASSUME NEW w \in Index
                   PROVE  (w + 1) % Wrap = IF w + 1 = Wrap THEN 0 ELSE w + 1
<1>1. Wrap \in Nat \ {0} /\ w \in 0 .. Wrap - 1
  BY Sizes DEF Index
<1>2. CASE w + 1 = Wrap
  <2>1. w + 1 \in Nat /\ 0 \in 0 .. Wrap - 1 /\ w + 1 = Wrap * 1 + 0
    BY <1>1, <1>2
  <2>2. (w + 1) % Wrap = 0
    BY <1>1, <2>1, ModUnique
  <2> QED
    BY <1>2, <2>2
<1>3. CASE w + 1 # Wrap
  <2>1. w + 1 \in Nat /\ w + 1 \in 0 .. Wrap - 1 /\ w + 1 = Wrap * 0 + (w + 1)
    BY <1>1, <1>3
  <2>2. (w + 1) % Wrap = w + 1
    BY <1>1, <2>1, ModUnique
  <2> QED
    BY <1>3, <2>2
<1> QED
  BY <1>2, <1>3

(* The range of the used size: it is zero exactly when the counters meet. *)
LEMMA UsedRange == ASSUME NEW w \in Index, NEW r \in Index
                   PROVE  /\ Used(w, r) \in 0 .. Wrap - 1
                          /\ Used(w, r) \in Nat
                          /\ Used(w, r) <= 0 <=> w = r
BY UsedValue, Sizes DEF Index

(* A push moves the used size up by one, also when wr_idx wraps. *)
LEMMA UsedAfterPush == ASSUME NEW w \in Index, NEW r \in Index, Used(w, r) < Size
                       PROVE  /\ (w + 1) % Wrap \in Index
                              /\ Used((w + 1) % Wrap, r) = Used(w, r) + 1
<1>1. (w + 1) % Wrap \in Index
  BY NextIndex, Sizes DEF Index
<1>2. Used((w + 1) % Wrap, r) = IF ((w + 1) % Wrap) >= r THEN ((w + 1) % Wrap) - r
                                ELSE ((w + 1) % Wrap) - r + Wrap
  BY <1>1, UsedValue
<1>3. Wrap \in Nat /\ Wrap >= 2 * Size /\ Size \in Nat \ {0}
      /\ w \in 0 .. Wrap - 1 /\ r \in 0 .. Wrap - 1
  BY Sizes DEF Index
<1>4. Used(w, r) = IF w >= r THEN w - r ELSE w - r + Wrap
  BY UsedValue
<1>5. (w + 1) % Wrap = IF w + 1 = Wrap THEN 0 ELSE w + 1
  BY NextIndex
<1> QED
  BY <1>1, <1>2, <1>3, <1>4, <1>5

(* A pop moves the used size down by one, also when rd_idx wraps. *)
LEMMA UsedAfterPop == ASSUME NEW w \in Index, NEW r \in Index, Used(w, r) > 0
                      PROVE  /\ (r + 1) % Wrap \in Index
                             /\ Used(w, (r + 1) % Wrap) = Used(w, r) - 1
<1>1. (r + 1) % Wrap \in Index
  BY NextIndex, Sizes DEF Index
<1>2. Used(w, (r + 1) % Wrap) = IF w >= ((r + 1) % Wrap) THEN w - ((r + 1) % Wrap)
                                ELSE w - ((r + 1) % Wrap) + Wrap
  BY <1>1, UsedValue
<1>3. Wrap \in Nat /\ w \in 0 .. Wrap - 1 /\ r \in 0 .. Wrap - 1
  BY Sizes DEF Index
<1>4. Used(w, r) = IF w >= r THEN w - r ELSE w - r + Wrap
  BY UsedValue
<1>5. (r + 1) % Wrap = IF r + 1 = Wrap THEN 0 ELSE r + 1
  BY NextIndex
<1> QED
  BY <1>1, <1>2, <1>3, <1>4, <1>5

(* The slot of wr_idx is the one behind the last packet. *)
LEMMA WriteSlot == ASSUME NEW w \in Index, NEW r \in Index
                   PROVE  SlotOf(r + Used(w, r)) = SlotOf(w)
<1> DEFINE u == Used(w, r)
<1>1. Wrap \in Nat \ {0} /\ w \in Nat /\ r \in Nat /\ u \in Nat
  BY Sizes, UsedRange DEF Index
<1>2. u = IF w >= r THEN w - r ELSE w - r + Wrap
  BY UsedValue
<1> SUFFICES SlotOf(r + u) = SlotOf(w)
  OBVIOUS
<1> HIDE DEF u
<1>3. CASE w >= r
  <2>1. r + u = w
    BY <1>1, <1>2, <1>3
  <2> QED
    BY <2>1, Zenon
<1>4. CASE ~ (w >= r)
  <2>1. r + u = w + Wrap * 1 /\ w + Wrap * 1 \in Nat
    BY <1>1, <1>2, <1>4
  <2>2. SlotOf(w + Wrap * 1) = SlotOf(w)
    BY <1>1, <2>1, SlotShift
  <2> QED
    BY <2>1, <2>2, Zenon
<1> QED
  BY <1>3, <1>4, Zenon

(* While the queue has room, the slot being written holds none of its packets. *)
LEMMA WriteBeyond == ASSUME NEW w \in Index, NEW r \in Index, Used(w, r) < Size,
                            NEW j \in 1 .. Used(w, r)
                     PROVE  SlotOf(r + j - 1) # SlotOf(w)
<1> DEFINE u == Used(w, r)
<1>1. r \in Nat /\ w \in Nat /\ u \in Nat /\ u < Size /\ Size \in Nat \ {0} /\ j \in 1 .. u
  BY Sizes, UsedRange DEF Index
<1>2. SlotOf(r + u) = SlotOf(w)
  BY WriteSlot
<1> HIDE DEF u
<1>3. /\ r + j - 1 \in Nat /\ r + u \in Nat
      /\ r + j - 1 < r + u
      /\ (r + u) - (r + j - 1) < Size
  BY <1>1
<1>4. SlotOf(r + j - 1) # SlotOf(r + u)
  BY <1>3, SlotsDiffer
<1> QED
  BY <1>2, <1>4

(* After a pop the packets are the same ones but the first. *)
LEMMA PopShift == ASSUME NEW r \in Index, NEW j \in Nat \ {0}
                  PROVE  SlotOf(((r + 1) % Wrap) + j - 1) = SlotOf(r + j)
<1> DEFINE v == (r + 1) % Wrap
<1>1. Wrap \in Nat \ {0} /\ r \in Nat /\ v \in Nat
  BY Sizes, NextIndex DEF Index
<1>2. v = IF r + 1 = Wrap THEN 0 ELSE r + 1
  BY NextIndex
<1> SUFFICES SlotOf(v + j - 1) = SlotOf(r + j)
  OBVIOUS
<1> HIDE DEF v
<1>3. CASE r + 1 = Wrap
  <2>1. r + j = (v + j - 1) + Wrap * 1 /\ v + j - 1 \in Nat
        /\ (v + j - 1) + Wrap * 1 \in Nat
    BY <1>1, <1>2, <1>3
  <2>2. SlotOf((v + j - 1) + Wrap * 1) = SlotOf(v + j - 1)
    BY <2>1, SlotShift
  <2> QED
    BY <2>1, <2>2
<1>4. CASE r + 1 # Wrap
  <2>1. v + j - 1 = r + j
    BY <1>1, <1>2, <1>4
  <2> QED
    BY <2>1, Zenon
<1> QED
  BY <1>3, <1>4, Zenon

----------------------------------------------------------------------------
(* What the three operations do to the packets of a ring. *)

QueueTypes == /\ storage_packet \in [Lidar -> [Slots -> Packet \cup {NoPacket, HalfPacket}]]
              /\ wr_idx \in [Lidar -> Index]
              /\ rd_idx \in [Lidar -> Index]

(* The j-th oldest packet of a queue. *)
Entry(l, j) == storage_packet[l][SlotOf(rd_idx[l] + j - 1)]

(* The queue of a lidar holds the same packets after a step as before it. *)
Kept(l) == /\ QueueUsedSize(l)' = QueueUsedSize(l)
           /\ \A j \in 1 .. QueueUsedSize(l) : Entry(l, j)' = Entry(l, j)

(* The used size is a number, and zero exactly when the counters meet. *)
LEMMA UsedTyped == ASSUME QueueTypes, NEW l \in Lidar
                   PROVE  /\ QueueUsedSize(l) \in Nat
                          /\ QueueUsedSize(l) <= 0 <=> QueueIsEmpty(l)
                          /\ wr_idx[l] \in Index
                          /\ rd_idx[l] \in Index
                          /\ rd_idx[l] \in Nat
                          /\ wr_idx[l] \in Nat
<1>1. wr_idx[l] \in Index /\ rd_idx[l] \in Index
  BY DEF QueueTypes
<1>2. rd_idx[l] \in Nat /\ wr_idx[l] \in Nat
  BY <1>1, Sizes DEF Index
<1>3. /\ Used(wr_idx[l], rd_idx[l]) \in Nat
      /\ Used(wr_idx[l], rd_idx[l]) <= 0 <=> wr_idx[l] = rd_idx[l]
  BY <1>1, UsedRange
<1> QED
  BY <1>1, <1>2, <1>3 DEF QueueUsedSize, QueueIsEmpty

(* A queue whose slots and counters stay as they are keeps its packets. *)
LEMMA SameKept == ASSUME NEW l \in Lidar,
                         storage_packet'[l] = storage_packet[l],
                         wr_idx'[l] = wr_idx[l],
                         rd_idx'[l] = rd_idx[l]
                  PROVE  Kept(l)
BY DEF Kept, QueueUsedSize, Entry

(* The beginning of a push disturbs no packet: it writes the free slot. *)
LEMMA PushBeginKeeps ==
    ASSUME QueueTypes, NEW l \in Lidar, QueueUsedSize(l) < Size, PushBegin(l)
    PROVE  /\ QueueTypes'
           /\ \A m \in Lidar : Kept(m)
<1> DEFINE w == wr_idx[l]
           r == rd_idx[l]
           s == SlotOf(w)
<1>1. /\ w \in Index /\ r \in Index /\ w \in Nat
      /\ Used(w, r) < Size
  BY UsedTyped DEF QueueUsedSize
<1>2. s \in Slots
  BY <1>1, SlotRange
<1>3. /\ storage_packet' = [storage_packet EXCEPT ![l][s] = HalfPacket]
      /\ wr_idx' = wr_idx
      /\ rd_idx' = rd_idx
  BY DEF PushBegin
<1> HIDE DEF s
<1>4. QueueTypes'
  BY <1>2, <1>3 DEF QueueTypes
<1>5. ASSUME NEW m \in Lidar, m # l PROVE Kept(m)
  <2>1. storage_packet'[m] = storage_packet[m]
    BY <1>3, <1>5 DEF QueueTypes
  <2> QED
    BY <1>3, <2>1, SameKept
<1>6. Kept(l)
  <2>1. QueueUsedSize(l)' = QueueUsedSize(l)
    BY <1>3 DEF QueueUsedSize
  <2>2. ASSUME NEW j \in 1 .. QueueUsedSize(l) PROVE Entry(l, j)' = Entry(l, j)
    <3>1. SlotOf(r + j - 1) # s
      BY <1>1, WriteBeyond DEF s, QueueUsedSize
    <3>2. storage_packet'[l] = [storage_packet[l] EXCEPT ![s] = HalfPacket]
      BY <1>3 DEF QueueTypes
    <3>3. r + j - 1 \in Nat
      BY UsedTyped
    <3>4. SlotOf(r + j - 1) \in Slots
      BY <3>3, SlotRange
    <3>5. storage_packet'[l][SlotOf(r + j - 1)] = storage_packet[l][SlotOf(r + j - 1)]
      BY <3>1, <3>2, <3>4 DEF QueueTypes
    <3> QED
      BY <3>5, <1>3 DEF Entry
  <2> QED
    BY <2>1, <2>2 DEF Kept
<1> QED
  BY <1>4, <1>5, <1>6

(* The end of a push appends its packet. *)
LEMMA PushEndAppends ==
    ASSUME QueueTypes, NEW l \in Lidar, NEW p \in Packet,
           QueueUsedSize(l) < Size, PushEnd(l, p)
    PROVE  /\ QueueTypes'
           /\ \A m \in Lidar \ {l} : Kept(m)
           /\ QueueUsedSize(l)' = QueueUsedSize(l) + 1
           /\ \A j \in 1 .. QueueUsedSize(l) : Entry(l, j)' = Entry(l, j)
           /\ Entry(l, QueueUsedSize(l))' = p
<1> DEFINE w == wr_idx[l]
           r == rd_idx[l]
           s == SlotOf(w)
           v == (w + 1) % Wrap
<1>1. /\ w \in Index /\ r \in Index /\ w \in Nat
      /\ Used(w, r) < Size
  BY UsedTyped DEF QueueUsedSize
<1>2. s \in Slots
  BY <1>1, SlotRange
<1>3. v \in Index /\ Used(v, r) = Used(w, r) + 1
  BY <1>1, UsedAfterPush
<1>4. /\ storage_packet' = [storage_packet EXCEPT ![l][s] = p]
      /\ wr_idx' = [wr_idx EXCEPT ![l] = v]
      /\ rd_idx' = rd_idx
  BY DEF PushEnd
<1> HIDE DEF s, v
<1>5. QueueTypes'
  BY <1>2, <1>3, <1>4 DEF QueueTypes
<1>6. ASSUME NEW m \in Lidar \ {l} PROVE Kept(m)
  <2>1. storage_packet'[m] = storage_packet[m] /\ wr_idx'[m] = wr_idx[m]
    BY <1>4, <1>6 DEF QueueTypes
  <2> QED
    BY <1>4, <2>1, SameKept
<1>7. QueueUsedSize(l)' = QueueUsedSize(l) + 1
  <2>1. wr_idx'[l] = v /\ rd_idx'[l] = r
    BY <1>4 DEF QueueTypes
  <2> QED
    BY <1>3, <2>1 DEF QueueUsedSize
<1>8. storage_packet'[l] = [storage_packet[l] EXCEPT ![s] = p]
  BY <1>4 DEF QueueTypes
<1>9. ASSUME NEW j \in 1 .. QueueUsedSize(l) PROVE Entry(l, j)' = Entry(l, j)
  <2>1. SlotOf(r + j - 1) # s
    BY <1>1, WriteBeyond DEF s, QueueUsedSize
  <2>2. r + j - 1 \in Nat
    BY UsedTyped
  <2>3. SlotOf(r + j - 1) \in Slots
    BY <2>2, SlotRange
  <2>4. storage_packet'[l][SlotOf(r + j - 1)] = storage_packet[l][SlotOf(r + j - 1)]
    BY <2>1, <2>3, <1>8 DEF QueueTypes
  <2> QED
    BY <2>4, <1>4 DEF Entry
<1>10. Entry(l, QueueUsedSize(l))' = p
  <2> DEFINE u == QueueUsedSize(l)
  <2>1. u \in Nat /\ r \in Nat
    BY UsedTyped
  <2>2. SlotOf(r + u) = s
    BY <1>1, WriteSlot DEF s, QueueUsedSize
  <2>3. storage_packet'[l][s] = p
    BY <1>2, <1>8 DEF QueueTypes
  <2>4. rd_idx'[l] = r
    BY <1>4
  <2>5. rd_idx'[l] + QueueUsedSize(l)' - 1 = r + u
    BY <1>7, <2>1, <2>4
  <2>6. storage_packet'[l][SlotOf(rd_idx'[l] + QueueUsedSize(l)' - 1)] = p
    BY <2>2, <2>3, <2>5
  <2> QED
    BY <2>6 DEF Entry
<1> QED
  BY <1>5, <1>6, <1>7, <1>9, <1>10

(* A pop removes the oldest packet, the one QueuePrePop copies. *)
LEMMA PopRemoves ==
    ASSUME QueueTypes, NEW l \in Lidar, QueueUsedSize(l) > 0, QueuePopUpdate(l)
    PROVE  /\ QueueTypes'
           /\ \A m \in Lidar \ {l} : Kept(m)
           /\ QueueUsedSize(l)' = QueueUsedSize(l) - 1
           /\ \A j \in 1 .. QueueUsedSize(l) - 1 : Entry(l, j)' = Entry(l, j + 1)
           /\ QueuePrePop(l) = Entry(l, 1)
<1> DEFINE w == wr_idx[l]
           r == rd_idx[l]
           v == (r + 1) % Wrap
<1>1. /\ w \in Index /\ r \in Index /\ r \in Nat
      /\ Used(w, r) > 0
  BY UsedTyped DEF QueueUsedSize
<1>2. v \in Index /\ Used(w, v) = Used(w, r) - 1
  BY <1>1, UsedAfterPop
<1>3. /\ rd_idx' = [rd_idx EXCEPT ![l] = v]
      /\ wr_idx' = wr_idx
      /\ storage_packet' = storage_packet
  BY DEF QueuePopUpdate
<1>4. ASSUME NEW j \in 1 .. QueueUsedSize(l) - 1 PROVE SlotOf(v + j - 1) = SlotOf(r + j)
  <2>1. j \in Nat \ {0}
    BY UsedTyped
  <2> QED
    BY <1>1, <2>1, PopShift
<1> HIDE DEF v
<1>5. QueueTypes'
  BY <1>2, <1>3 DEF QueueTypes
<1>6. ASSUME NEW m \in Lidar \ {l} PROVE Kept(m)
  <2>1. rd_idx'[m] = rd_idx[m]
    BY <1>3, <1>6 DEF QueueTypes
  <2> QED
    BY <1>3, <2>1, SameKept
<1>7. rd_idx'[l] = v
  BY <1>3 DEF QueueTypes
<1>8. QueueUsedSize(l)' = QueueUsedSize(l) - 1
  BY <1>2, <1>3, <1>7 DEF QueueUsedSize
<1>9. ASSUME NEW j \in 1 .. QueueUsedSize(l) - 1 PROVE Entry(l, j)' = Entry(l, j + 1)
  <2>1. r + (j + 1) - 1 = r + j
    BY <1>1, UsedTyped
  <2>2. Entry(l, j)' = storage_packet[l][SlotOf(v + j - 1)]
    BY <1>3, <1>7 DEF Entry
  <2>3. Entry(l, j + 1) = storage_packet[l][SlotOf(r + j)]
    BY <2>1 DEF Entry
  <2> QED
    BY <1>4, <2>2, <2>3
<1>10. QueuePrePop(l) = Entry(l, 1)
  <2>1. r + 1 - 1 = r
    BY <1>1
  <2> QED
    BY <2>1 DEF Entry, QueuePrePop
<1> QED
  BY <1>5, <1>6, <1>8, <1>9, <1>10

----------------------------------------------------------------------------
(* The inductive invariant. *)

(* Where the threads are, and what they hold there. *)
Places == /\ feed_at # "idle" => feed_lidar \in Lidar /\ feed_packet \in Packet
          /\ feed_at = "signal" => pcd_semaphore <= 0
          /\ poll_at \in {"polling", "pop", "copied"} => poll_lidar \in Lidar

(* Every ring holds complete packets, no more than it has slots; a push has a free *)
(* slot to write to until it ends; the copy of a packet is the oldest one's.        *)
Rings == /\ \A l \in Lidar : QueueUsedSize(l) <= Size
         /\ \A l \in Lidar : \A j \in 1 .. QueueUsedSize(l) : Entry(l, j) \in Packet
         /\ feed_at = "push" => QueueUsedSize(feed_lidar) < Size
         /\ poll_at = "copied" => /\ QueueUsedSize(poll_lidar) > 0
                                  /\ pkg = QueuePrePop(poll_lidar)

(* While a request is out, every setting is marked or accepted. *)
Requested == \A l \in Lidar, s \in Setting :
                asked[l][s] > 0 => l \in known /\ Options(l) \subseteq set_bits[l] \cup accepted[l]

(* The types hold initially. *)
LEMMA InitTypeOK == Init => TypeOK /\ Places
<1> SUFFICES ASSUME Init PROVE TypeOK /\ Places
  OBVIOUS
<1>1. Wrap \in Nat \ {0} /\ 0 \in Index
  BY Sizes DEF Index
<1>2. QueueTypes
  BY <1>1 DEF Init, InitQueue, QueueTypes
<1>3. /\ known \in SUBSET Lidar
      /\ set_bits \in [Lidar -> SUBSET Setting]
      /\ asked \in [Lidar -> [Setting -> Nat]]
      /\ accepted \in [Lidar -> SUBSET Setting]
      /\ refused \in [Lidar -> SUBSET Setting]
      /\ sampling \in SUBSET Lidar
      /\ changes \in 0 .. MaxChanges
      /\ timeouts \in 0 .. MaxTimeouts
  BY DriverAssumption DEF Init
<1>4. /\ frames \in SUBSET Packet
      /\ feed_at \in FeedPlaces
      /\ feed_lidar \in Lidar \cup {NoLidar}
      /\ feed_packet \in Packet \cup {NoPacket}
      /\ pcd_semaphore \in 0 .. 1
  BY DEF Init, FeedPlaces
<1>5. /\ poll_at \in PollPlaces
      /\ poll_todo \in SUBSET Lidar
      /\ poll_lidar \in Lidar \cup {NoLidar}
      /\ pkg \in Packet \cup {NoPacket}
      /\ published \in [Lidar -> Packet \cup {NoPacket}]
      /\ exit_at \in ExitPlaces
  BY DEF Init, PollPlaces, ExitPlaces
<1>6. Places
  BY DEF Init, Places
<1>7. feed_stored \in BOOLEAN
  BY DEF Init
<1> QED
  BY <1>2, <1>3, <1>4, <1>5, <1>6, <1>7 DEF QueueTypes, TypeOK

(* The types of the rings after each step. *)
LEMMA NextQueueTypes == TypeOK /\ Places /\ Rings /\ [Next]_vars => QueueTypes'
<1> SUFFICES ASSUME TypeOK, Places, Rings, [Next]_vars
             PROVE  QueueTypes'
  OBVIOUS
<1>1. QueueTypes
  BY DEF TypeOK, QueueTypes
<1>2. CASE UNCHANGED queueVars
  BY <1>1, <1>2 DEF queueVars, QueueTypes
<1>3. ASSUME NEW l \in Lidar, NEW p \in Packet, StoragePointData(l, p) PROVE QueueTypes'
  <2>1. CASE QueueIsFull(l)
    BY <1>2, <1>3, <2>1 DEF StoragePointData
  <2>2. CASE ~ QueueIsFull(l)
    <3>1. QueueUsedSize(l) < Size
      BY <1>1, <2>2, Sizes, UsedTyped DEF QueueIsFull, mask
    <3> QED
      BY <1>1, <1>3, <2>2, <3>1, PushBeginKeeps DEF StoragePointData
  <2> QED
    BY <2>1, <2>2
<1>4. CASE QueuePushAny
  <2>1. feed_lidar \in Lidar /\ feed_packet \in Packet /\ QueueUsedSize(feed_lidar) < Size
    BY <1>4 DEF QueuePushAny, Places, Rings
  <2>2. PushEnd(feed_lidar, feed_packet)
    BY <1>4 DEF QueuePushAny
  <2> QED
    BY <1>1, <2>1, <2>2, PushEndAppends
<1>5. CASE PublishCustomPointData
  <2>1. poll_lidar \in Lidar /\ QueueUsedSize(poll_lidar) > 0 /\ QueuePopUpdate(poll_lidar)
    BY <1>5 DEF PublishCustomPointData, Places, Rings
  <2> QED
    BY <1>1, <2>1, PopRemoves
<1>6. CASE Callbacks
  BY <1>2, <1>6 DEF Callbacks, NewLidar, Configure, SettingTimedOut, Answer,
                    SettingAccepted, SettingRefused
<1>7. CASE Wake \/ GetCount \/ Signal
  BY <1>2, <1>7 DEF Wake, GetCount, Signal
<1>8. CASE DistributePointCloudData \/ Wait \/ PollingLidarPointCloudData
           \/ PublishCustomPointcloud \/ RoundEnds \/ PollStatus
  BY <1>2, <1>8 DEF DistributePointCloudData, Wait, PollingLidarPointCloudData,
                    PublishCustomPointcloud, RoundEnds, PollStatus
<1>9. ASSUME NEW l \in Lidar, NextLidar(l) PROVE QueueTypes'
  BY <1>2, <1>9 DEF NextLidar
<1>10. CASE Exit
  BY <1>2, <1>10 DEF Exit, RequestExit, SetExitSignal, Join
<1>11. CASE UNCHANGED vars
  BY <1>2, <1>11 DEF vars
<1> QED
  BY <1>3, <1>4, <1>5, <1>6, <1>7, <1>8, <1>9, <1>10, <1>11 DEF Next, Feed, Poll

(* The copy of a packet holds one of the packets. *)
LEMMA CopiedPacket == ASSUME TypeOK, Places, Rings, poll_at = "copied"
                      PROVE  /\ poll_lidar \in Lidar
                             /\ pkg = Entry(poll_lidar, 1)
                             /\ pkg \in Packet
                             /\ QueueUsedSize(poll_lidar) \in Nat \ {0}
<1>1. QueueTypes /\ poll_lidar \in Lidar
  BY DEF TypeOK, QueueTypes, Places
<1>2. /\ QueueUsedSize(poll_lidar) \in Nat \ {0}
      /\ rd_idx[poll_lidar] \in Nat
  BY <1>1, UsedTyped DEF Rings
<1>3. pkg = Entry(poll_lidar, 1)
  <2>1. rd_idx[poll_lidar] + 1 - 1 = rd_idx[poll_lidar]
    BY <1>2
  <2> QED
    BY <2>1 DEF Rings, QueuePrePop, Entry
<1>4. 1 \in 1 .. QueueUsedSize(poll_lidar)
  BY <1>2
<1> QED
  BY <1>1, <1>2, <1>3, <1>4 DEF Rings

(* What the publishing thread copies from a queue that is not empty is a packet. *)
LEMMA PrePopPacket == ASSUME TypeOK, Rings, NEW l \in Lidar, ~ QueueIsEmpty(l)
                      PROVE  /\ QueuePrePop(l) \in Packet
                             /\ QueueUsedSize(l) > 0
<1>1. QueueTypes
  BY DEF TypeOK, QueueTypes
<1>2. QueueUsedSize(l) \in Nat \ {0} /\ rd_idx[l] \in Nat
  BY <1>1, UsedTyped
<1>3. rd_idx[l] + 1 - 1 = rd_idx[l]
  BY <1>2
<1>4. QueuePrePop(l) = Entry(l, 1)
  BY <1>3 DEF QueuePrePop, Entry
<1>5. 1 \in 1 .. QueueUsedSize(l)
  BY <1>2
<1> QED
  BY <1>2, <1>4, <1>5 DEF Rings

(* The types of the configuration after each step. *)
ConfigTypes == /\ known \in SUBSET Lidar
               /\ set_bits \in [Lidar -> SUBSET Setting]
               /\ asked \in [Lidar -> [Setting -> Nat]]
               /\ accepted \in [Lidar -> SUBSET Setting]
               /\ refused \in [Lidar -> SUBSET Setting]
               /\ sampling \in SUBSET Lidar
               /\ changes \in 0 .. MaxChanges
               /\ timeouts \in 0 .. MaxTimeouts

LEMMA NextConfigTypes == TypeOK /\ [Next]_vars => ConfigTypes'
<1> SUFFICES ASSUME TypeOK, [Next]_vars PROVE ConfigTypes'
  OBVIOUS
<1>1. ConfigTypes
  BY DEF TypeOK, ConfigTypes
<1>2. CASE UNCHANGED configVars
  BY <1>1, <1>2 DEF configVars, ConfigTypes
<1>3. ASSUME NEW l \in Lidar, NewLidar(l) PROVE ConfigTypes'
  BY <1>1, <1>3, DriverAssumption DEF NewLidar, ConfigTypes
<1>4. ASSUME NEW l \in Lidar, Configure(l) PROVE ConfigTypes'
  <2>1. Options(l) \in SUBSET Setting
    BY DriverAssumption DEF Options
  <2> DEFINE more == [s \in Setting |-> IF s \in Options(l) THEN asked[l][s] + 1 ELSE asked[l][s]]
  <2>2. more \in [Setting -> Nat]
    BY <1>1 DEF ConfigTypes
  <2>3. asked' = [asked EXCEPT ![l] = more]
    BY <1>4 DEF Configure
  <2> HIDE DEF more
  <2>4. asked' \in [Lidar -> [Setting -> Nat]]
    BY <1>1, <2>2, <2>3 DEF ConfigTypes
  <2>5. changes' \in 0 .. MaxChanges
    BY <1>1, <1>4, DriverAssumption DEF Configure, ConfigTypes
  <2>6. set_bits' \in [Lidar -> SUBSET Setting]
    BY <1>1, <1>4, <2>1 DEF Configure, ConfigTypes
  <2> QED
    BY <1>1, <1>4, <2>4, <2>5, <2>6 DEF Configure, ConfigTypes
<1>5. ASSUME NEW l \in Lidar, NEW s \in Setting, SettingTimedOut(l, s) PROVE ConfigTypes'
  BY <1>1, <1>5, DriverAssumption DEF SettingTimedOut, ConfigTypes
<1>6. ASSUME NEW l \in Lidar, NEW s \in Setting, SettingAccepted(l, s) PROVE ConfigTypes'
  <2>1. asked' \in [Lidar -> [Setting -> Nat]]
    BY <1>1, <1>6 DEF SettingAccepted, ConfigTypes
  <2>2. /\ accepted' \in [Lidar -> SUBSET Setting]
        /\ set_bits' \in [Lidar -> SUBSET Setting]
        /\ sampling' \in SUBSET Lidar
    BY <1>1, <1>6 DEF SettingAccepted, ConfigTypes
  <2> QED
    BY <1>1, <1>6, <2>1, <2>2 DEF SettingAccepted, ConfigTypes
<1>7. ASSUME NEW l \in Lidar, NEW s \in Setting, SettingRefused(l, s) PROVE ConfigTypes'
  <2>1. asked' \in [Lidar -> [Setting -> Nat]]
    BY <1>1, <1>7 DEF SettingRefused, ConfigTypes
  <2>2. refused' \in [Lidar -> SUBSET Setting]
    BY <1>1, <1>7 DEF SettingRefused, ConfigTypes
  <2> QED
    BY <1>1, <1>7, <2>1, <2>2 DEF SettingRefused, ConfigTypes
<1>8. CASE Feed
  BY <1>2, <1>8 DEF Feed, StoragePointData, QueuePushAny, Wake, GetCount, Signal
<1>9. CASE Poll
  BY <1>2, <1>9 DEF Poll, DistributePointCloudData, Wait, NextLidar,
                    PollingLidarPointCloudData, PublishCustomPointcloud,
                    PublishCustomPointData, RoundEnds, PollStatus
<1>10. CASE Exit
  BY <1>2, <1>10 DEF Exit, RequestExit, SetExitSignal, Join
<1>11. CASE UNCHANGED vars
  BY <1>2, <1>11 DEF vars
<1> QED
  BY <1>3, <1>4, <1>5, <1>6, <1>7, <1>8, <1>9, <1>10, <1>11 DEF Next, Callbacks, Answer

(* The types of PubHandler's thread, of the semaphore and of the publishing thread. *)
ThreadTypes == /\ frames \in SUBSET Packet
               /\ feed_at \in FeedPlaces
               /\ feed_lidar \in Lidar \cup {NoLidar}
               /\ feed_packet \in Packet \cup {NoPacket}
               /\ feed_stored \in BOOLEAN
               /\ pcd_semaphore \in 0 .. 1
               /\ poll_at \in PollPlaces
               /\ poll_todo \in SUBSET Lidar
               /\ poll_lidar \in Lidar \cup {NoLidar}
               /\ pkg \in Packet \cup {NoPacket}
               /\ published \in [Lidar -> Packet \cup {NoPacket}]
               /\ exit_at \in ExitPlaces

LEMMA NextThreadTypes == TypeOK /\ Places /\ Rings /\ [Next]_vars => ThreadTypes' /\ Places'
<1> SUFFICES ASSUME TypeOK, Places, Rings, [Next]_vars PROVE ThreadTypes' /\ Places'
  OBVIOUS
<1>1. ThreadTypes
  BY DEF TypeOK, ThreadTypes
<1> USE DEF ThreadTypes, Places, FeedPlaces, PollPlaces, ExitPlaces
<1>2. CASE UNCHANGED <<feedVars, pcd_semaphore, pollVars, exit_at>>
  BY <1>1, <1>2 DEF feedVars, pollVars
<1>3. ASSUME NEW l \in Lidar, NEW p \in Packet, StoragePointData(l, p)
      PROVE  ThreadTypes' /\ Places'
  <2>1. feed_stored' \in BOOLEAN
    BY <1>3 DEF StoragePointData
  <2> QED
    BY <1>1, <1>3, <2>1 DEF StoragePointData, pollVars
<1>4. CASE QueuePushAny
  BY <1>1, <1>4 DEF QueuePushAny, pollVars
<1>5. CASE Wake \/ GetCount
  BY <1>1, <1>5 DEF Wake, GetCount, pollVars
<1>6. CASE Signal
  BY <1>1, <1>6 DEF Signal, pollVars
<1>7. CASE DistributePointCloudData
  BY <1>1, <1>7 DEF DistributePointCloudData, feedVars
<1>8. CASE Wait
  BY <1>1, <1>8 DEF Wait, feedVars
<1>9. ASSUME NEW l \in Lidar, NextLidar(l) PROVE ThreadTypes' /\ Places'
  BY <1>1, <1>9 DEF NextLidar, feedVars
<1>10. CASE PollingLidarPointCloudData
  BY <1>1, <1>10 DEF PollingLidarPointCloudData, feedVars
<1>11. CASE PublishCustomPointcloud
  <2>1. poll_lidar \in Lidar
    BY <1>11 DEF PublishCustomPointcloud
  <2>2. pkg' \in Packet \cup {NoPacket}
    BY <1>1, <1>11, <2>1, PrePopPacket DEF PublishCustomPointcloud
  <2> QED
    BY <1>1, <1>11, <2>1, <2>2 DEF PublishCustomPointcloud, feedVars
<1>12. CASE PublishCustomPointData
  <2>1. poll_lidar \in Lidar /\ pkg \in Packet
    BY <1>12, CopiedPacket DEF PublishCustomPointData
  <2>2. published' \in [Lidar -> Packet \cup {NoPacket}]
    BY <1>1, <1>12, <2>1 DEF PublishCustomPointData
  <2> QED
    BY <1>1, <1>12, <2>1, <2>2 DEF PublishCustomPointData, feedVars
<1>13. CASE RoundEnds
  BY <1>1, <1>13 DEF RoundEnds, feedVars
<1>14. CASE PollStatus
  BY <1>1, <1>14 DEF PollStatus, feedVars
<1>15. CASE Callbacks
  BY <1>2, <1>15 DEF Callbacks, NewLidar, Configure, SettingTimedOut, Answer,
                     SettingAccepted, SettingRefused
<1>16. CASE Exit
  BY <1>1, <1>16 DEF Exit, RequestExit, SetExitSignal, Join, feedVars, pollVars
<1>17. CASE UNCHANGED vars
  BY <1>2, <1>17 DEF vars
<1> QED
  BY <1>3, <1>4, <1>5, <1>6, <1>7, <1>8, <1>9, <1>10, <1>11, <1>12, <1>13, <1>14,
     <1>15, <1>16, <1>17 DEF Next, Feed, Poll

(* The rings after each step. *)

(* A step that leaves the rings and where they are read and written alone. *)
LEMMA RingsKept == ASSUME Rings, Places, UNCHANGED queueVars,
                          feed_at' = "push" => feed_at = "push" /\ feed_lidar' = feed_lidar,
                          poll_at' = "copied" => /\ poll_at = "copied"
                                                 /\ poll_lidar' = poll_lidar
                                                 /\ pkg' = pkg
                   PROVE  Rings'
<1>1. \A l \in Lidar : QueueUsedSize(l)' <= Size
  BY DEF Rings, queueVars, QueueUsedSize
<1>2. \A l \in Lidar : \A j \in 1 .. QueueUsedSize(l)' : Entry(l, j)' \in Packet
  BY DEF Rings, queueVars, QueueUsedSize, Entry
<1>3. feed_at' = "push" => QueueUsedSize(feed_lidar)' < Size
  BY DEF Rings, queueVars, QueueUsedSize
<1>4. poll_at' = "copied" => /\ QueueUsedSize(poll_lidar)' > 0
                             /\ pkg' = QueuePrePop(poll_lidar)'
  BY DEF Rings, queueVars, QueueUsedSize, QueuePrePop
<1> QED
  BY <1>1, <1>2, <1>3, <1>4 DEF Rings

(* What it takes for the copy to stay the copy of the oldest packet. *)
LEMMA CopyKept == ASSUME Rings, Places, TypeOK, poll_at = "copied",
                         Kept(poll_lidar) \/ /\ QueueUsedSize(poll_lidar)' = QueueUsedSize(poll_lidar) + 1
                                             /\ \A j \in 1 .. QueueUsedSize(poll_lidar) :
                                                  Entry(poll_lidar, j)' = Entry(poll_lidar, j),
                         poll_lidar' = poll_lidar, pkg' = pkg, QueueTypes'
                  PROVE  /\ QueueUsedSize(poll_lidar)' > 0
                         /\ pkg' = QueuePrePop(poll_lidar)'
<1> DEFINE l == poll_lidar
<1>1. /\ l \in Lidar
      /\ pkg = Entry(l, 1)
      /\ QueueUsedSize(l) \in Nat \ {0}
  BY CopiedPacket
<1>2. 1 \in 1 .. QueueUsedSize(l)
  BY <1>1
<1>3. QueueUsedSize(l)' > 0
  BY <1>1 DEF Kept
<1>4. rd_idx'[l] \in Nat
  BY <1>1, Sizes DEF QueueTypes, Index
<1>5. rd_idx'[l] + 1 - 1 = rd_idx'[l]
  BY <1>4
<1>6. storage_packet'[l][SlotOf(rd_idx'[l] + 1 - 1)] = pkg
  BY <1>1, <1>2 DEF Kept, Entry
<1>7. storage_packet'[l][SlotOf(rd_idx'[l])] = pkg
  BY <1>5, <1>6
<1> QED
  BY <1>3, <1>7 DEF QueuePrePop

LEMMA NextRings == TypeOK /\ Places /\ Rings /\ [Next]_vars => Rings'
<1> SUFFICES ASSUME TypeOK, Places, Rings, [Next]_vars PROVE Rings'
  OBVIOUS
<1>1. QueueTypes
  BY DEF TypeOK, QueueTypes
<1>2. QueueTypes'
  BY NextQueueTypes
<1>3. ASSUME NEW l \in Lidar, NEW p \in Packet, StoragePointData(l, p) PROVE Rings'
  <2>1. CASE QueueIsFull(l)
    BY <1>3, <2>1, RingsKept DEF StoragePointData, pollVars
  <2>2. CASE ~ QueueIsFull(l)
    <3>1. QueueUsedSize(l) < Size
      BY <1>1, <2>2, Sizes, UsedTyped DEF QueueIsFull, mask
    <3>2. PushBegin(l) /\ feed_lidar' = l /\ UNCHANGED pollVars
      BY <1>3, <2>2 DEF StoragePointData
    <3>3. \A m \in Lidar : Kept(m)
      BY <1>1, <3>1, <3>2, PushBeginKeeps
    <3>4. \A m \in Lidar : QueueUsedSize(m)' = QueueUsedSize(m)
      BY <3>3 DEF Kept
    <3>5. \A m \in Lidar : QueueUsedSize(m)' <= Size
      BY <3>4 DEF Rings
    <3>6. \A m \in Lidar : \A j \in 1 .. QueueUsedSize(m)' : Entry(m, j)' \in Packet
      BY <3>3 DEF Kept, Rings
    <3>7. QueueUsedSize(feed_lidar)' < Size
      BY <3>1, <3>2, <3>4 DEF QueueUsedSize
    <3>8. ASSUME poll_at' = "copied"
          PROVE  /\ QueueUsedSize(poll_lidar)' > 0
                 /\ pkg' = QueuePrePop(poll_lidar)'
      <4>1. poll_at = "copied" /\ poll_lidar' = poll_lidar /\ pkg' = pkg
        BY <3>2, <3>8 DEF pollVars
      <4>2. Kept(poll_lidar)
        BY <3>3, <4>1 DEF Places
      <4> QED
        BY <4>1, <4>2, <1>2, CopyKept
    <3> QED
      BY <3>5, <3>6, <3>7, <3>8 DEF Rings
  <2> QED
    BY <2>1, <2>2
<1>4. CASE QueuePushAny
  <2>0. PICK l \in Lidar : l = feed_lidar
    BY <1>4 DEF QueuePushAny, Places
  <2>1. l \in Lidar /\ feed_packet \in Packet /\ QueueUsedSize(l) < Size
    BY <1>4, <2>0 DEF QueuePushAny, Places, Rings
  <2>2. PushEnd(l, feed_packet) /\ feed_at' = "wake" /\ UNCHANGED pollVars
    BY <1>4, <2>0 DEF QueuePushAny
  <2>3. /\ \A m \in Lidar \ {l} : Kept(m)
        /\ QueueUsedSize(l)' = QueueUsedSize(l) + 1
        /\ \A j \in 1 .. QueueUsedSize(l) : Entry(l, j)' = Entry(l, j)
        /\ Entry(l, QueueUsedSize(l))' = feed_packet
    BY <1>1, <2>1, <2>2, PushEndAppends
  <2>4. ASSUME NEW m \in Lidar
        PROVE  /\ QueueUsedSize(m)' <= Size
               /\ \A j \in 1 .. QueueUsedSize(m)' : Entry(m, j)' \in Packet
    <3>1. CASE m # l
      BY <2>3, <3>1 DEF Kept, Rings
    <3>2. CASE m = l
      <4>1. QueueUsedSize(l) \in Nat
        BY <1>1, <2>1, UsedTyped
      <4>2. QueueUsedSize(m)' <= Size
        BY <2>1, <2>3, <3>2, <4>1, Sizes
      <4>3. ASSUME NEW j \in 1 .. QueueUsedSize(m)' PROVE Entry(m, j)' \in Packet
        <5>1. j \in 1 .. QueueUsedSize(l) \/ j = QueueUsedSize(l)'
          BY <2>3, <3>2, <4>1
        <5>2. CASE j \in 1 .. QueueUsedSize(l)
          BY <2>1, <2>3, <3>2, <5>2 DEF Rings
        <5>3. CASE j = QueueUsedSize(l)'
          BY <2>1, <2>3, <3>2, <5>3 DEF Entry
        <5> QED
          BY <5>1, <5>2, <5>3
      <4> QED
        BY <4>2, <4>3
    <3> QED
      BY <3>1, <3>2
  <2>5. ASSUME poll_at' = "copied"
        PROVE  /\ QueueUsedSize(poll_lidar)' > 0
               /\ pkg' = QueuePrePop(poll_lidar)'
    <3>1. poll_at = "copied" /\ poll_lidar' = poll_lidar /\ pkg' = pkg
      BY <2>2, <2>5 DEF pollVars
    <3>2. Kept(poll_lidar) \/ /\ QueueUsedSize(poll_lidar)' = QueueUsedSize(poll_lidar) + 1
                              /\ \A j \in 1 .. QueueUsedSize(poll_lidar) :
                                   Entry(poll_lidar, j)' = Entry(poll_lidar, j)
      <4>1. CASE poll_lidar = l
        BY <2>3, <2>2, <3>1, <4>1 DEF QueueUsedSize, Entry
      <4>2. CASE poll_lidar # l
        BY <2>3, <3>1, <4>2 DEF Places
      <4> QED
        BY <4>1, <4>2
    <3> QED
      BY <3>1, <3>2, <1>2, CopyKept
  <2> QED
    BY <2>2, <2>4, <2>5 DEF Rings
<1>5. CASE PublishCustomPointcloud
  <2>1. UNCHANGED <<queueVars, feedVars>> /\ poll_lidar' = poll_lidar /\ poll_lidar \in Lidar
    BY <1>5 DEF PublishCustomPointcloud, Places
  <2>2. CASE QueueIsEmpty(poll_lidar)
    <3>1. poll_at' = "polling"
      BY <1>5, <2>2 DEF PublishCustomPointcloud
    <3> QED
      BY <2>1, <3>1, RingsKept DEF feedVars
  <2>3. CASE ~ QueueIsEmpty(poll_lidar)
    <3>1. pkg' = QueuePrePop(poll_lidar)
      BY <1>5, <2>3 DEF PublishCustomPointcloud
    <3>2. QueueUsedSize(poll_lidar) > 0
      BY <2>1, <2>3, PrePopPacket
    <3>3. \A m \in Lidar : Kept(m)
      BY <2>1, SameKept DEF queueVars
    <3>4. /\ QueueUsedSize(poll_lidar)' > 0
          /\ pkg' = QueuePrePop(poll_lidar)'
      BY <2>1, <3>1, <3>2 DEF queueVars, QueueUsedSize, QueuePrePop
    <3>5. feed_at' = "push" => QueueUsedSize(feed_lidar)' < Size
      BY <2>1 DEF Rings, queueVars, feedVars, QueueUsedSize
    <3> QED
      BY <3>3, <3>4, <3>5 DEF Kept, Rings
  <2> QED
    BY <2>2, <2>3
<1>6. CASE PublishCustomPointData
  <2>0. PICK l \in Lidar : l = poll_lidar
    BY <1>6 DEF PublishCustomPointData, Places
  <2>1. l \in Lidar /\ QueueUsedSize(l) > 0
    BY <1>6, <2>0 DEF PublishCustomPointData, Places, Rings
  <2>2. QueuePopUpdate(l) /\ poll_at' = "pop" /\ UNCHANGED feedVars
    BY <1>6, <2>0 DEF PublishCustomPointData
  <2>3. /\ \A m \in Lidar \ {l} : Kept(m)
        /\ QueueUsedSize(l)' = QueueUsedSize(l) - 1
        /\ \A j \in 1 .. QueueUsedSize(l) - 1 : Entry(l, j)' = Entry(l, j + 1)
    BY <1>1, <2>1, <2>2, PopRemoves
  <2>4. ASSUME NEW m \in Lidar
        PROVE  /\ QueueUsedSize(m)' <= QueueUsedSize(m)
               /\ QueueUsedSize(m)' \in Nat
               /\ \A j \in 1 .. QueueUsedSize(m)' : Entry(m, j)' \in Packet
    <3>0. QueueUsedSize(m) \in Nat
      BY <1>1, UsedTyped
    <3>1. CASE m # l
      BY <2>3, <3>0, <3>1 DEF Kept, Rings
    <3>2. CASE m = l
      <4>1. QueueUsedSize(m)' = QueueUsedSize(m) - 1
        BY <2>3, <3>2
      <4>2. ASSUME NEW j \in 1 .. QueueUsedSize(m)' PROVE Entry(m, j)' \in Packet
        <5>1. j \in 1 .. QueueUsedSize(l) - 1
          BY <4>1, <3>2
        <5>2. Entry(l, j)' = Entry(l, j + 1)
          BY <5>1, <2>3
        <5>3. j + 1 \in 1 .. QueueUsedSize(l)
          BY <5>1, <3>0, <3>2
        <5> QED
          BY <2>1, <5>2, <5>3, <3>2 DEF Rings
      <4> QED
        BY <3>0, <2>1, <3>2, <4>1, <4>2
    <3> QED
      BY <3>1, <3>2
  <2>5. \A m \in Lidar : QueueUsedSize(m)' <= Size
    BY <1>1, <2>4, UsedTyped, Sizes DEF Rings
  <2>6. ASSUME feed_at' = "push" PROVE QueueUsedSize(feed_lidar)' < Size
    <3>1. feed_at = "push" /\ feed_lidar' = feed_lidar /\ feed_lidar \in Lidar
      BY <2>2, <2>6 DEF feedVars, Places
    <3>2. QueueUsedSize(feed_lidar) < Size /\ QueueUsedSize(feed_lidar) \in Nat
      BY <1>1, <3>1, UsedTyped DEF Rings
    <3> DEFINE f == feed_lidar
    <3>3. f \in Lidar
      BY <3>1
    <3>4. (QueueUsedSize(feed_lidar))' = Used(wr_idx'[f], rd_idx'[f])
      BY <3>1 DEF QueueUsedSize
    <3>5. /\ Used(wr_idx'[f], rd_idx'[f]) <= QueueUsedSize(f)
          /\ Used(wr_idx'[f], rd_idx'[f]) \in Nat
      BY <2>4, <3>3, <3>1 DEF QueueUsedSize
    <3> QED
      BY <3>2, <3>4, <3>5, Sizes
  <2> QED
    BY <2>2, <2>4, <2>5, <2>6 DEF Rings
<1>7. CASE Callbacks
  BY <1>7, RingsKept
     DEF Callbacks, NewLidar, Configure, SettingTimedOut, Answer, SettingAccepted,
         SettingRefused, feedVars, pollVars
<1>8. CASE Wake \/ GetCount \/ Signal
  BY <1>8, RingsKept DEF Wake, GetCount, Signal, pollVars
<1>9. CASE DistributePointCloudData \/ Wait \/ PollingLidarPointCloudData
           \/ RoundEnds \/ PollStatus
  BY <1>9, RingsKept
     DEF DistributePointCloudData, Wait, PollingLidarPointCloudData, RoundEnds, PollStatus,
         feedVars
<1>10. ASSUME NEW l \in Lidar, NextLidar(l) PROVE Rings'
  BY <1>10, RingsKept DEF NextLidar, feedVars
<1>11. CASE Exit
  BY <1>11, RingsKept DEF Exit, RequestExit, SetExitSignal, Join, feedVars, pollVars
<1>12. CASE UNCHANGED vars
  BY <1>12, RingsKept DEF vars, feedVars, pollVars
<1> QED
  BY <1>3, <1>4, <1>5, <1>6, <1>7, <1>8, <1>9, <1>10, <1>11, <1>12 DEF Next, Feed, Poll

(* The configuration after each step. *)
LEMMA NextRequested == TypeOK /\ Requested /\ SamplingConfigured /\ [Next]_vars
                       => Requested' /\ SamplingConfigured'
<1> SUFFICES ASSUME TypeOK, Requested, SamplingConfigured, [Next]_vars
             PROVE  Requested' /\ SamplingConfigured'
  OBVIOUS
<1>1. ConfigTypes
  BY DEF TypeOK, ConfigTypes
<1>2. CASE UNCHANGED configVars
  BY <1>2 DEF configVars, Requested, SamplingConfigured
<1>3. ASSUME NEW l \in Lidar, NewLidar(l) PROVE Requested' /\ SamplingConfigured'
  BY <1>3 DEF NewLidar, Requested, SamplingConfigured
<1>4. ASSUME NEW l \in Lidar, Configure(l) PROVE Requested' /\ SamplingConfigured'
  <2>1. ASSUME NEW m \in Lidar, NEW s \in Setting, asked'[m][s] > 0
        PROVE  m \in known' /\ Options(m) \subseteq set_bits'[m] \cup accepted'[m]
    <3>1. CASE m = l
      BY <1>1, <1>4, <3>1 DEF Configure, ConfigTypes
    <3>2. CASE m # l
      BY <1>1, <1>4, <2>1, <3>2 DEF Configure, ConfigTypes, Requested
    <3> QED
      BY <3>1, <3>2
  <2> QED
    BY <1>4, <2>1 DEF Configure, Requested, SamplingConfigured
<1>5. ASSUME NEW l \in Lidar, NEW s \in Setting, SettingTimedOut(l, s)
      PROVE  Requested' /\ SamplingConfigured'
  BY <1>5 DEF SettingTimedOut, Requested, SamplingConfigured
<1>6. ASSUME NEW l \in Lidar, NEW s \in Setting, SettingAccepted(l, s)
      PROVE  Requested' /\ SamplingConfigured'
  <2>1. /\ set_bits' = [set_bits EXCEPT ![l] = @ \ {s}]
        /\ accepted' = [accepted EXCEPT ![l] = @ \cup {s}]
        /\ known' = known
        /\ asked[l][s] > 0
    BY <1>6 DEF SettingAccepted
  <2>2. l \in known /\ Options(l) \subseteq set_bits[l] \cup accepted[l]
    BY <2>1 DEF Requested
  <2>3. \A m \in Lidar : Options(m) \subseteq set_bits[m] \cup accepted[m]
                         => Options(m) \subseteq set_bits'[m] \cup accepted'[m]
    BY <1>1, <2>1 DEF ConfigTypes
  <2>4. \A m \in Lidar, t \in Setting : asked'[m][t] > 0 => asked[m][t] > 0
    <3>1. asked' = [asked EXCEPT ![l][s] = @ - 1]
      BY <1>6 DEF SettingAccepted
    <3> QED
      BY <1>1, <3>1 DEF ConfigTypes
  <2>5. Requested'
    BY <2>1, <2>3, <2>4 DEF Requested
  <2>6. ASSUME NEW m \in sampling' PROVE m \in known' /\ Options(m) \subseteq accepted'[m]
    <3>1. CASE m \in sampling
      BY <1>1, <2>1, <3>1 DEF SamplingConfigured, ConfigTypes
    <3>2. CASE m \notin sampling
      <4>1. m = l /\ set_bits[l] \ {s} = {}
        BY <1>6, <3>2 DEF SettingAccepted
      <4> QED
        BY <1>1, <2>1, <2>2, <4>1 DEF ConfigTypes
    <3> QED
      BY <3>1, <3>2
  <2> QED
    BY <2>5, <2>6 DEF SamplingConfigured
<1>7. ASSUME NEW l \in Lidar, NEW s \in Setting, SettingRefused(l, s)
      PROVE  Requested' /\ SamplingConfigured'
  <2>1. \A m \in Lidar, t \in Setting : asked'[m][t] > 0 => asked[m][t] > 0
    <3>1. asked' = [asked EXCEPT ![l][s] = @ - 1]
      BY <1>7 DEF SettingRefused
    <3> QED
      BY <1>1, <3>1 DEF ConfigTypes
  <2> QED
    BY <1>7, <2>1 DEF SettingRefused, Requested, SamplingConfigured
<1>8. CASE Feed
  BY <1>2, <1>8 DEF Feed, StoragePointData, QueuePushAny, Wake, GetCount, Signal
<1>9. CASE Poll
  BY <1>2, <1>9 DEF Poll, DistributePointCloudData, Wait, NextLidar,
                    PollingLidarPointCloudData, PublishCustomPointcloud,
                    PublishCustomPointData, RoundEnds, PollStatus
<1>10. CASE Exit
  BY <1>2, <1>10 DEF Exit, RequestExit, SetExitSignal, Join
<1>11. CASE UNCHANGED vars
  BY <1>2, <1>11 DEF vars
<1> QED
  BY <1>3, <1>4, <1>5, <1>6, <1>7, <1>8, <1>9, <1>10, <1>11 DEF Next, Callbacks, Answer

----------------------------------------------------------------------------
(* The theorems. *)

IInv == TypeOK /\ Places /\ Rings /\ Requested /\ SamplingConfigured

LEMMA InitInvariant == Init => IInv
<1> SUFFICES ASSUME Init PROVE IInv
  OBVIOUS
<1>1. TypeOK /\ Places
  BY InitTypeOK
<1>2. QueueTypes
  BY <1>1 DEF TypeOK, QueueTypes
<1>3. \A l \in Lidar : QueueIsEmpty(l)
  BY DEF Init, InitQueue, QueueIsEmpty
<1>4. \A l \in Lidar : QueueUsedSize(l) <= 0 /\ QueueUsedSize(l) \in Nat
  BY <1>2, <1>3, UsedTyped
<1>5. Rings
  BY <1>4, Sizes DEF Init, Rings
<1>6. Requested /\ SamplingConfigured
  BY DEF Init, Requested, SamplingConfigured
<1> QED
  BY <1>1, <1>5, <1>6 DEF IInv

LEMMA NextInvariant == IInv /\ [Next]_vars => IInv'
<1> SUFFICES ASSUME IInv, [Next]_vars PROVE IInv'
  OBVIOUS
<1>1. QueueTypes'
  BY NextQueueTypes DEF IInv
<1>2. ConfigTypes'
  BY NextConfigTypes DEF IInv
<1>3. ThreadTypes' /\ Places'
  BY NextThreadTypes DEF IInv
<1>4. TypeOK'
  BY <1>1, <1>2, <1>3 DEF QueueTypes, ConfigTypes, ThreadTypes, TypeOK
<1>5. Rings'
  BY NextRings DEF IInv
<1>6. Requested' /\ SamplingConfigured'
  BY NextRequested DEF IInv
<1> QED
  BY <1>3, <1>4, <1>5, <1>6 DEF IInv

THEOREM Invariant == Spec => []IInv
BY InitInvariant, NextInvariant, PTL DEF Spec

(* The types hold always: in particular at most one wake-up is pending in the *)
(* semaphore, whose count the feeding thread reads without its mutex.          *)
THEOREM TypeCorrect == Spec => []TypeOK
<1>1. IInv => TypeOK
  BY DEF IInv
<1> QED
  BY <1>1, Invariant, PTL

(* A lidar is published only when it has accepted all its settings. *)
THEOREM SampledConfigured == Spec => []SamplingConfigured
<1>1. IInv => SamplingConfigured
  BY DEF IInv
<1> QED
  BY <1>1, Invariant, PTL

(* The slot being written is not the slot being read. *)
THEOREM SlotsStayApart == Spec => []SlotsApart
<1>1. IInv => SlotsApart
  <2> SUFFICES ASSUME IInv, feed_at = "push", poll_at \in {"pop", "copied"},
                      feed_lidar = poll_lidar, ~ QueueIsEmpty(poll_lidar)
               PROVE  SlotOf(wr_idx[feed_lidar]) # SlotOf(rd_idx[poll_lidar])
    BY DEF SlotsApart
  <2> DEFINE l == poll_lidar
             w == wr_idx[l]
             r == rd_idx[l]
  <2>1. QueueTypes /\ l \in Lidar
    BY DEF IInv, TypeOK, QueueTypes, Places
  <2>2. /\ w \in Index /\ r \in Index /\ r \in Nat
        /\ QueueUsedSize(l) \in Nat \ {0}
    BY <2>1, UsedTyped
  <2>3. Used(w, r) < Size /\ 1 \in 1 .. Used(w, r)
    BY <2>2 DEF IInv, Rings, QueueUsedSize
  <2>4. SlotOf(r + 1 - 1) # SlotOf(w)
    BY <2>2, <2>3, WriteBeyond
  <2>5. r + 1 - 1 = r
    BY <2>2
  <2>6. SlotOf(w) # SlotOf(r)
    BY <2>4, <2>5
  <2> QED
    BY <2>6
<1> QED
  BY <1>1, Invariant, PTL

----------------------------------------------------------------------------
(* The rings implement the first-in first-out queues. *)

(* The contents of a queue are a sequence of its packets. *)
LEMMA ContentSequence ==
    ASSUME TypeOK, Rings, NEW l \in Lidar
    PROVE  /\ Content(l) \in Seq(Packet)
           /\ Len(Content(l)) = QueueUsedSize(l)
           /\ \A j \in 1 .. QueueUsedSize(l) : Content(l)[j] = Entry(l, j)
<1> DEFINE u == QueueUsedSize(l)
           c == Content(l)
<1>1. u \in Nat
  BY UsedTyped DEF TypeOK, QueueTypes
<1>2. \A j \in 1 .. u : Entry(l, j) \in Packet
  BY DEF Rings
<1>3. c = [j \in 1 .. u |-> Entry(l, j)]
  BY DEF Content, Entry
<1> HIDE DEF u, c
<1>4. c \in [1 .. u -> Packet]
  BY <1>2, <1>3
<1>5. c \in Seq(Packet)
  BY <1>1, <1>4, SeqDef
<1>6. Len(c) = u
  BY <1>1, <1>4, <1>5, LenProperties
<1>7. \A j \in 1 .. u : c[j] = Entry(l, j)
  BY <1>3
<1> QED
  BY <1>5, <1>6, <1>7 DEF u, c

ContentTyped == \A l \in Lidar : /\ Content(l) \in Seq(Packet)
                                 /\ Len(Content(l)) = QueueUsedSize(l)
                                 /\ \A j \in 1 .. QueueUsedSize(l) :
                                       Content(l)[j] = Entry(l, j)

(* It is so after a step too. *)
LEMMA ContentTypedNext == IInv' => ContentTyped'
<1>1. IInv => ContentTyped
  BY ContentSequence DEF IInv, ContentTyped
<1> QED
  BY <1>1, PTL

(* A queue that keeps its packets keeps its contents. *)
LEMMA ContentKept == ASSUME NEW l \in Lidar, Kept(l)
                     PROVE  Content(l)' = Content(l)
<1>1. Content(l) = [j \in 1 .. QueueUsedSize(l) |-> Entry(l, j)]
  BY DEF Content, Entry
<1>2. Content(l)' = [j \in 1 .. QueueUsedSize(l)' |-> Entry(l, j)']
  BY DEF Content, Entry
<1> QED
  BY <1>1, <1>2 DEF Kept

(* Sequences of the same length with the same elements are the same. *)
LEMMA SameSequence == ASSUME NEW c \in Seq(Packet), NEW d \in Seq(Packet), NEW n \in Nat,
                             Len(c) = n, Len(d) = n,
                             \A j \in 1 .. n : c[j] = d[j]
                      PROVE  c = d
<1>1. c \in [1 .. n -> Packet] /\ d \in [1 .. n -> Packet]
  BY LenProperties
<1> QED
  BY <1>1

(* The end of a push stores its packet. *)
LEMMA PushStores ==
    ASSUME IInv, IInv', NEW l \in Lidar, NEW p \in Packet, QueueUsedSize(l) < Size,
           PushEnd(l, p)
    PROVE  /\ Len(Content(l)) < Size
           /\ Content(l)' = Append(Content(l), p)
           /\ \A m \in Lidar \ {l} : Content(m)' = Content(m)
<1> DEFINE c == Content(l)
           u == QueueUsedSize(l)
           d == Content(l)'
           a == Append(c, p)
<1>1. /\ \A m \in Lidar \ {l} : Kept(m)
      /\ QueueUsedSize(l)' = u + 1
      /\ \A j \in 1 .. u : Entry(l, j)' = Entry(l, j)
      /\ Entry(l, QueueUsedSize(l))' = p
  BY PushEndAppends DEF IInv, TypeOK, QueueTypes
<1>2. /\ c \in Seq(Packet)
      /\ Len(c) = u
      /\ \A j \in 1 .. u : c[j] = Entry(l, j)
  BY ContentSequence DEF IInv
<1>3. /\ d \in Seq(Packet)
      /\ Len(d) = QueueUsedSize(l)'
      /\ \A j \in 1 .. QueueUsedSize(l)' : d[j] = Entry(l, j)'
  BY ContentTypedNext DEF ContentTyped
<1>4. u \in Nat
  BY UsedTyped DEF IInv, TypeOK, QueueTypes
<1>5. d[u + 1] = p
  <2>1. QueueUsedSize(l)' \in 1 .. QueueUsedSize(l)'
    BY <1>1, <1>4
  <2>2. d[QueueUsedSize(l)'] = p
    BY <1>1, <1>3, <2>1 DEF Entry
  <2> QED
    BY <1>1, <2>2
<1>6. \A j \in 1 .. u : d[j] = c[j]
  BY <1>1, <1>2, <1>3, <1>4
<1>7. /\ a \in Seq(Packet)
      /\ Len(a) = u + 1
      /\ \A j \in 1 .. u : a[j] = c[j]
      /\ a[u + 1] = p
  BY <1>2, AppendProperties
<1>8. d = a
  <2>1. Len(d) = u + 1 /\ d \in Seq(Packet)
    BY <1>1, <1>3
  <2> HIDE DEF a, c, d, u
  <2>2. \A j \in 1 .. u + 1 : d[j] = a[j]
    BY <1>4, <1>5, <1>6, <1>7
  <2> QED
    BY <1>4, <1>7, <2>1, <2>2, SameSequence
<1>9. \A m \in Lidar \ {l} : Content(m)' = Content(m)
  BY <1>1, ContentKept
<1> QED
  BY <1>2, <1>8, <1>9

(* A pop takes the head. *)
LEMMA PopTakes ==
    ASSUME IInv, IInv', NEW l \in Lidar, QueueUsedSize(l) > 0, QueuePopUpdate(l)
    PROVE  /\ Content(l) # <<>>
           /\ Content(l)' = Tail(Content(l))
           /\ QueuePrePop(l) = Head(Content(l))
           /\ \A m \in Lidar \ {l} : Content(m)' = Content(m)
<1> DEFINE c == Content(l)
           u == QueueUsedSize(l)
           d == Content(l)'
           t == Tail(c)
<1>1. /\ \A m \in Lidar \ {l} : Kept(m)
      /\ QueueUsedSize(l)' = u - 1
      /\ \A j \in 1 .. u - 1 : Entry(l, j)' = Entry(l, j + 1)
      /\ QueuePrePop(l) = Entry(l, 1)
  BY PopRemoves DEF IInv, TypeOK, QueueTypes
<1>2. /\ c \in Seq(Packet)
      /\ Len(c) = u
      /\ \A j \in 1 .. u : c[j] = Entry(l, j)
  BY ContentSequence DEF IInv
<1>3. /\ d \in Seq(Packet)
      /\ Len(d) = QueueUsedSize(l)'
      /\ \A j \in 1 .. QueueUsedSize(l)' : d[j] = Entry(l, j)'
  BY ContentTypedNext DEF ContentTyped
<1>4. u \in Nat \ {0}
  BY UsedTyped DEF IInv, TypeOK, QueueTypes
<1>5. c # <<>>
  BY <1>2, <1>4, EmptySeq
<1>6. /\ t \in Seq(Packet)
      /\ Len(t) = u - 1
      /\ \A j \in 1 .. u - 1 : t[j] = c[j + 1]
      /\ Head(c) = c[1]
  BY <1>2, <1>4, <1>5, HeadTailProperties
<1>7. d = t
  <2>1. Len(d) = u - 1 /\ d \in Seq(Packet) /\ u - 1 \in Nat
    BY <1>1, <1>3, <1>4
  <2>2. ASSUME NEW j \in 1 .. u - 1 PROVE d[j] = t[j]
    <3>1. j + 1 \in 1 .. u
      BY <1>4
    <3>2. d[j] = Entry(l, j)'
      BY <1>1, <1>3
    <3>3. t[j] = Entry(l, j + 1)
      BY <1>2, <1>6, <3>1
    <3> QED
      BY <1>1, <3>2, <3>3
  <2> HIDE DEF t, c, d, u
  <2> QED
    BY <1>6, <2>1, <2>2, SameSequence
<1>8. QueuePrePop(l) = Head(c)
  <2>1. 1 \in 1 .. u
    BY <1>4
  <2> QED
    BY <1>1, <1>2, <1>6, <2>1
<1>9. \A m \in Lidar \ {l} : Content(m)' = Content(m)
  BY <1>1, ContentKept
<1> QED
  BY <1>5, <1>7, <1>8, <1>9

(* Every step of the driver is a step of the queues or leaves them alone. *)
LEMMA StepRefines == IInv /\ IInv' /\ [Next]_vars => [Fifo!Next]_(Fifo!vars)
<1> SUFFICES ASSUME IInv, IInv', [Next]_vars
             PROVE  [Fifo!Next]_(Fifo!vars)
  OBVIOUS
<1>1. QueueTypes
  BY DEF IInv, TypeOK, QueueTypes
<1>2. ASSUME \A l \in Lidar : Content(l)' = Content(l), published' = published
      PROVE  [Fifo!Next]_(Fifo!vars)
  BY <1>2 DEF Fifo!vars
<1>3. ASSUME UNCHANGED queueVars
      PROVE  \A l \in Lidar : Content(l)' = Content(l)
  BY <1>3 DEF queueVars, Content, QueueUsedSize
<1>4. ASSUME NEW l \in Lidar, NEW p \in Packet, StoragePointData(l, p)
      PROVE  [Fifo!Next]_(Fifo!vars)
  <2>1. CASE QueueIsFull(l)
    BY <1>2, <1>3, <1>4, <2>1 DEF StoragePointData, pollVars
  <2>2. CASE ~ QueueIsFull(l)
    <3>1. QueueUsedSize(l) < Size
      BY <1>1, <2>2, Sizes, UsedTyped DEF QueueIsFull, mask
    <3>2. PushBegin(l) /\ published' = published
      BY <1>4, <2>2 DEF StoragePointData, pollVars
    <3>3. \A m \in Lidar : Kept(m)
      BY <1>1, <3>1, <3>2, PushBeginKeeps
    <3> QED
      BY <1>2, <3>2, <3>3, ContentKept
  <2> QED
    BY <2>1, <2>2
<1>5. CASE QueuePushAny
  <2>0. PICK l \in Lidar : l = feed_lidar
    BY <1>5 DEF QueuePushAny, IInv, Places
  <2>1. feed_packet \in Packet /\ QueueUsedSize(l) < Size
    BY <1>5, <2>0 DEF QueuePushAny, IInv, Places, Rings
  <2>2. PushEnd(l, feed_packet) /\ published' = published
    BY <1>5, <2>0 DEF QueuePushAny, pollVars
  <2>3. /\ Len(Content(l)) < Size
        /\ Content(l)' = Append(Content(l), feed_packet)
        /\ \A m \in Lidar \ {l} : Content(m)' = Content(m)
    BY <2>1, <2>2, PushStores
  <2>4. [m \in Lidar |-> Content(m)'] = [[m \in Lidar |-> Content(m)]
                                           EXCEPT ![l] = Append(Content(l), feed_packet)]
    BY <2>3
  <2>5. Fifo!Store(l, feed_packet)
    BY <2>2, <2>3, <2>4 DEF Fifo!Store
  <2> QED
    BY <2>1, <2>5 DEF Fifo!Next
<1>6. CASE PublishCustomPointData
  <2>0. PICK l \in Lidar : l = poll_lidar
    BY <1>6 DEF PublishCustomPointData, IInv, Places
  <2>1. QueueUsedSize(l) > 0 /\ pkg = QueuePrePop(l)
    BY <1>6, <2>0 DEF PublishCustomPointData, IInv, Rings
  <2>2. QueuePopUpdate(l) /\ published' = [published EXCEPT ![l] = pkg]
    BY <1>6, <2>0 DEF PublishCustomPointData
  <2>3. /\ Content(l) # <<>>
        /\ Content(l)' = Tail(Content(l))
        /\ pkg = Head(Content(l))
        /\ \A m \in Lidar \ {l} : Content(m)' = Content(m)
    BY <2>1, <2>2, PopTakes
  <2>4. [m \in Lidar |-> Content(m)'] = [[m \in Lidar |-> Content(m)]
                                           EXCEPT ![l] = Tail(Content(l))]
    BY <2>3
  <2>5. Fifo!Publish(l)
    BY <2>2, <2>3, <2>4 DEF Fifo!Publish
  <2> QED
    BY <2>5 DEF Fifo!Next
<1>7. CASE Callbacks
  BY <1>2, <1>3, <1>7
     DEF Callbacks, NewLidar, Configure, SettingTimedOut, Answer, SettingAccepted,
         SettingRefused, pollVars
<1>8. CASE Wake \/ GetCount \/ Signal
  BY <1>2, <1>3, <1>8 DEF Wake, GetCount, Signal, pollVars
<1>9. CASE DistributePointCloudData \/ Wait \/ PollingLidarPointCloudData
           \/ PublishCustomPointcloud \/ RoundEnds \/ PollStatus
  BY <1>2, <1>3, <1>9
     DEF DistributePointCloudData, Wait, PollingLidarPointCloudData,
         PublishCustomPointcloud, RoundEnds, PollStatus
<1>10. ASSUME NEW l \in Lidar, NextLidar(l) PROVE [Fifo!Next]_(Fifo!vars)
  BY <1>2, <1>3, <1>10 DEF NextLidar
<1>11. CASE Exit
  BY <1>2, <1>3, <1>11 DEF Exit, RequestExit, SetExitSignal, Join, pollVars
<1>12. CASE UNCHANGED vars
  BY <1>2, <1>3, <1>12 DEF vars, pollVars
<1> QED
  BY <1>4, <1>5, <1>6, <1>7, <1>8, <1>9, <1>10, <1>11, <1>12 DEF Next, Feed, Poll

(* The rings are empty at first. *)
LEMMA InitRefines == Init => Fifo!Init
<1> SUFFICES ASSUME Init PROVE Fifo!Init
  OBVIOUS
<1>1. IInv
  BY InitInvariant
<1>2. ASSUME NEW l \in Lidar PROVE Content(l) = <<>>
  <2>1. QueueIsEmpty(l)
    BY DEF Init, InitQueue, QueueIsEmpty
  <2>2. QueueUsedSize(l) = 0
    BY <1>1, <2>1, UsedTyped DEF IInv, TypeOK, QueueTypes
  <2>3. Content(l) \in Seq(Packet) /\ Len(Content(l)) = 0
    BY <1>1, <2>2, ContentSequence DEF IInv
  <2> QED
    BY <2>3, EmptySeq
<1> QED
  BY <1>2 DEF Init, Fifo!Init

(* Each lidar's packets are published in the order they were stored, none lost, torn *)
(* or repeated between the two threads, on every lap of the counters.                *)
THEOREM RingsAreFifos == Spec => QueuesAreFifos
<1>1. Init => Fifo!Init
  BY InitRefines
<1>2. IInv /\ IInv' /\ [Next]_vars => [Fifo!Next]_(Fifo!vars)
  BY StepRefines
<1> QED
  BY <1>1, <1>2, Invariant, PTL DEF Spec, QueuesAreFifos, Fifo!Spec

----------------------------------------------------------------------------
(* What the liveness properties rest on. *)

(* Every step keeps the settings that are not confirmed in somebody's hands. *)
LEMMA NextSettings == ConfigTypes /\ NoSettingForgotten /\ [Next]_vars => NoSettingForgotten'
<1> SUFFICES ASSUME ConfigTypes, NoSettingForgotten, [Next]_vars PROVE NoSettingForgotten'
  OBVIOUS
<1>1. CASE UNCHANGED <<set_bits, asked, accepted, refused, sampling>>
  BY <1>1 DEF NoSettingForgotten
<1>2. ASSUME NEW l \in Lidar, Configure(l) PROVE NoSettingForgotten'
  <2>1. /\ \A m \in Lidar, s \in Setting : asked'[m][s] >= asked[m][s]
        /\ \A s \in Options(l) : asked'[l][s] > 0
        /\ \A m \in Lidar : set_bits[m] \subseteq set_bits'[m]
        /\ set_bits'[l] \subseteq set_bits[l] \cup Options(l)
        /\ \A m \in Lidar : m # l => set_bits'[m] = set_bits[m]
    <3>1. Options(l) \subseteq Setting
      BY DriverAssumption DEF Options
    <3> QED
      BY <1>2, <3>1 DEF Configure, ConfigTypes
  <2>2. UNCHANGED <<accepted, refused, sampling>>
    BY <1>2 DEF Configure
  <2>3. ASSUME NEW m \in Lidar, NEW s \in set_bits'[m]
        PROVE  asked'[m][s] > 0 \/ s \in refused'[m]
    <3>1. CASE s \in set_bits[m]
      <4>1. s \in Setting
        BY <3>1 DEF ConfigTypes
      <4>2. asked[m][s] \in Nat /\ asked'[m][s] \in Nat
        BY <1>2, <4>1 DEF ConfigTypes, Configure
      <4> QED
        BY <2>1, <2>2, <3>1, <4>1, <4>2 DEF NoSettingForgotten
    <3>2. CASE s \notin set_bits[m]
      BY <2>1, <2>3, <3>2
    <3> QED
      BY <3>1, <3>2
  <2> QED
    BY <2>1, <2>2, <2>3 DEF NoSettingForgotten
<1>3. ASSUME NEW l \in Lidar, NEW s \in Setting, SettingAccepted(l, s)
      PROVE  NoSettingForgotten'
  <2>1. /\ \A m \in Lidar, t \in Setting :
             m # l \/ t # s => asked'[m][t] = asked[m][t]
        /\ set_bits'[l] = set_bits[l] \ {s}
        /\ \A m \in Lidar : m # l => set_bits'[m] = set_bits[m] /\ accepted'[m] = accepted[m]
        /\ refused' = refused
    BY <1>3 DEF SettingAccepted, ConfigTypes
  <2>2. sampling' = IF set_bits[l] \ {s} = {} THEN sampling \cup {l} ELSE sampling
    BY <1>3 DEF SettingAccepted
  <2>3. \A m \in Lidar : set_bits'[m] \subseteq Setting
    BY <1>3 DEF SettingAccepted, ConfigTypes
  <2>4. ASSUME NEW m \in Lidar, NEW t \in set_bits'[m]
        PROVE  asked'[m][t] > 0 \/ t \in refused'[m]
    BY <2>1, <2>3, <2>4 DEF NoSettingForgotten
  <2>5. ASSUME NEW m \in Lidar, accepted'[m] # {}, set_bits'[m] = {}
        PROVE  m \in sampling'
    BY <2>1, <2>2, <2>5 DEF NoSettingForgotten
  <2> QED
    BY <2>4, <2>5 DEF NoSettingForgotten
<1>4. ASSUME NEW l \in Lidar, NEW s \in Setting, SettingRefused(l, s)
      PROVE  NoSettingForgotten'
  <2>1. /\ \A m \in Lidar, t \in Setting :
             m # l \/ t # s => asked'[m][t] = asked[m][t]
        /\ refused'[l] = refused[l] \cup {s}
        /\ \A m \in Lidar : m # l => refused'[m] = refused[m]
        /\ UNCHANGED <<set_bits, accepted, sampling>>
    BY <1>4 DEF SettingRefused, ConfigTypes
  <2>2. \A m \in Lidar : set_bits[m] \subseteq Setting
    BY DEF ConfigTypes
  <2> QED
    BY <2>1, <2>2 DEF NoSettingForgotten
<1>5. ASSUME NEW l \in Lidar,
             NewLidar(l) \/ \E s \in Setting : SettingTimedOut(l, s)
      PROVE  NoSettingForgotten'
  BY <1>1, <1>5 DEF NewLidar, SettingTimedOut
<1>6. CASE Feed \/ Poll \/ Exit
  BY <1>1, <1>6 DEF Feed, StoragePointData, QueuePushAny, Wake, GetCount, Signal,
     Poll, DistributePointCloudData, Wait, NextLidar, PollingLidarPointCloudData,
     PublishCustomPointcloud, PublishCustomPointData, RoundEnds, PollStatus,
     Exit, RequestExit, SetExitSignal, Join, configVars
<1>7. CASE UNCHANGED vars
  BY <1>1, <1>7 DEF vars, configVars
<1> QED
  BY <1>2, <1>3, <1>4, <1>5, <1>6, <1>7 DEF Next, Callbacks, Answer

(* A setting that is not confirmed waits for an answer or has been refused. *)
THEOREM SettingsAnswered == Spec => []NoSettingForgotten
<1>1. Init => NoSettingForgotten
  BY DEF Init, NoSettingForgotten
<1>2. IInv => ConfigTypes
  BY DEF IInv, TypeOK, ConfigTypes
<1> QED
  BY <1>1, <1>2, NextSettings, Invariant, PTL DEF Spec

(* Wake-ups are not lost: a sampling lidar's ring that somebody will look at stays *)
(* so until it is empty.                                                            *)
THEOREM WakeupsArrive == Spec => NoWakeupLost
<1> DEFINE Step == \A l \in sampling :
                     (Attended(l) \/ wr_idx'[l] # wr_idx[l]) /\ exit_at' = "running"
                     => Attended(l)' \/ QueueIsEmpty(l)'
<1>1. ASSUME IInv, [Next]_vars PROVE Step
  <2> SUFFICES ASSUME NEW l \in sampling, exit_at' = "running",
                      Attended(l) \/ wr_idx'[l] # wr_idx[l]
               PROVE  Attended(l)' \/ QueueIsEmpty(l)'
    OBVIOUS
  <2>1. l \in Lidar /\ pcd_semaphore \in 0 .. 1 /\ poll_todo \subseteq Lidar
    BY <1>1 DEF IInv, TypeOK
  <2>2. feed_at = "signal" => pcd_semaphore <= 0
    BY <1>1 DEF IInv, Places
  <2>3. CASE /\ UNCHANGED <<feed_at, feed_lidar, pcd_semaphore, wr_idx>>
             /\ UNCHANGED <<poll_at, poll_todo, poll_lidar>>
    BY <2>3 DEF Attended
  <2>4. CASE Callbacks
    BY <2>3, <2>4 DEF Callbacks, NewLidar, Configure, SettingTimedOut, Answer,
       SettingAccepted, SettingRefused, queueVars, feedVars, pollVars
  <2>5. ASSUME NEW m \in Lidar, NEW p \in Packet, StoragePointData(m, p)
        PROVE  Attended(l)'
    BY <2>5 DEF StoragePointData, PushBegin, Attended, queueVars, pollVars
  <2>6. CASE QueuePushAny
    <3>1. wr_idx' = [wr_idx EXCEPT ![feed_lidar] = (@ + 1) % Wrap]
      BY <2>6 DEF QueuePushAny, PushEnd
    <3>2. feed_at = "push" /\ feed_at' = "wake" /\ UNCHANGED <<feed_lidar, pcd_semaphore, pollVars>>
      BY <2>6 DEF QueuePushAny
    <3>3. wr_idx'[l] # wr_idx[l] => feed_lidar = l
      BY <1>1, <2>1, <3>1 DEF IInv, TypeOK
    <3> QED
      BY <3>2, <3>3 DEF Attended, pollVars
  <2>7. CASE Wake \/ GetCount
    BY <2>1, <2>7 DEF Wake, GetCount, Attended, QueueIsEmpty, queueVars, pollVars
  <2>8. CASE Signal
    BY <2>1, <2>2, <2>8 DEF Signal, Attended, queueVars, pollVars
  <2>9. CASE DistributePointCloudData \/ PollStatus \/ RoundEnds
    BY <2>9 DEF DistributePointCloudData, PollStatus, RoundEnds, Attended, queueVars, feedVars
  <2>10. CASE Wait
    BY <2>1, <2>10 DEF Wait, Attended, queueVars, feedVars
  <2>11. ASSUME NEW m \in Lidar, NextLidar(m) PROVE Attended(l)'
    BY <2>1, <2>11 DEF NextLidar, Attended, queueVars, feedVars
  <2>12. CASE PollingLidarPointCloudData
    BY <2>12 DEF PollingLidarPointCloudData, IsRequestExit, Attended, QueueIsEmpty,
       queueVars, feedVars
  <2>13. CASE PublishCustomPointcloud
    BY <2>13 DEF PublishCustomPointcloud, Attended, queueVars, feedVars
  <2>14. CASE PublishCustomPointData
    BY <2>14 DEF PublishCustomPointData, QueuePopUpdate, Attended, feedVars
  <2>15. CASE Exit
    BY <2>3, <2>15 DEF Exit, RequestExit, SetExitSignal, Join, queueVars, feedVars, pollVars
  <2>16. CASE UNCHANGED vars
    BY <2>3, <2>16 DEF vars, queueVars, feedVars, pollVars
  <2> QED
    BY <1>1, <2>4, <2>5, <2>6, <2>7, <2>8, <2>9, <2>10, <2>11, <2>12, <2>13, <2>14, <2>15,
       <2>16 DEF Next, Feed, Poll
<1> QED
  BY <1>1, Invariant, PTL DEF Spec, NoWakeupLost

(* A publishing thread that need not wait for a wake-up does not wait for one again *)
(* while the node stops.                                                             *)
THEOREM ReleasedStays == Spec => ReleasedForGood
<1>1. ASSUME IInv, [Next]_vars, Released, exit_at # "running" PROVE Released'
  <2>1. pcd_semaphore \in 0 .. 1
    BY <1>1 DEF IInv, TypeOK
  <2> USE <1>1, <2>1 DEF Released
  <2>2. CASE UNCHANGED <<poll_at, pcd_semaphore, feed_at>>
    BY <2>2
  <2>3. CASE Callbacks
    BY <2>2, <2>3 DEF Callbacks, NewLidar, Configure, SettingTimedOut, Answer,
       SettingAccepted, SettingRefused, feedVars, pollVars
  <2>4. CASE Feed
    BY <2>4 DEF Feed, StoragePointData, QueuePushAny, Wake, GetCount, Signal, pollVars, Places, IInv
  <2>5. CASE Poll
    BY <2>5 DEF Poll, DistributePointCloudData, IsRequestExit, Wait, NextLidar,
       PollingLidarPointCloudData, PublishCustomPointcloud, PublishCustomPointData,
       RoundEnds, PollStatus
  <2>6. CASE Exit
    BY <2>2, <2>6 DEF Exit, RequestExit, SetExitSignal, Join, feedVars, pollVars
  <2>7. CASE UNCHANGED vars
    BY <2>2, <2>7 DEF vars, feedVars, pollVars
  <2> QED
    BY <2>3, <2>4, <2>5, <2>6, <2>7 DEF Next
<1>2. IInv /\ [Next]_vars => (Released /\ exit_at # "running" => Released')
  BY <1>1
<1> QED
  BY <1>2, Invariant, PTL DEF Spec, ReleasedForGood
=============================================================================
