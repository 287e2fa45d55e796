---------------------------- MODULE LioSyncProofs ----------------------------
(***************************************************************************)
(* Theorems about LioSync, for all stamps, any number of scans and IMU     *)
(* messages, and any interleaving with the realtime thread.                *)
(***************************************************************************)
EXTENDS LioSync, WellFoundedInduction, SequenceTheorems, TLAPS

\* A set of naturals that is not empty has a least element.
LEMMA SmallestOf ==
  ASSUME NEW T \in SUBSET Nat, T # {}
  PROVE  \E m \in T : \A n \in T : m <= n
<1> DEFINE R == OpToRel(<, Nat)
<1>1. IsWellFoundedOn(R, Nat)
  BY NatLessThanWellFounded DEF OpToRel
<1>2. \A a, b \in Nat : a < b => <<a, b>> \in R
  BY DEF OpToRel
<1> HIDE DEF R
<1>3. PICK m \in T : \A n \in T : <<n, m>> \notin R
  BY <1>1, WFMin
<1>4. \A n \in T : ~(n < m)
  BY <1>2, <1>3, Zenon
<1> QED
  BY <1>4

\* The IMU loop stops: it pops a prefix.
LEMMA PoppedPrefix ==
  ASSUME NEW end, imu_buffer \in Seq(ImuStamps)
  PROVE  LET Popped(i) == PoppedBefore(i, end) /\ imu_buffer[i] <= end
             k == ImuPopped(end)
         IN  /\ k \in 0..Len(imu_buffer)
             /\ \A i \in 1..k : Popped(i)
             /\ k < Len(imu_buffer) => ~Popped(k + 1)
<1> DEFINE Popped(i) == PoppedBefore(i, end) /\ imu_buffer[i] <= end
           T == {k \in 0..Len(imu_buffer) : k < Len(imu_buffer) => ~Popped(k + 1)}
<1>1. Len(imu_buffer) \in Nat
  OBVIOUS
<1>2. T \in SUBSET Nat /\ Len(imu_buffer) \in T
  BY <1>1
<1>3. PICK m \in T : \A n \in T : m <= n
  <2> HIDE DEF T
  <2> QED BY <1>2, SmallestOf
<1>4. \A i \in 1..m : Popped(i)
  <2> SUFFICES ASSUME NEW i \in 1..m, ~Popped(i) PROVE FALSE
    OBVIOUS
  <2> HIDE DEF Popped
  <2>1. i - 1 \in 0..Len(imu_buffer) /\ i = (i - 1) + 1
    BY <1>1, <1>3
  <2>2. i - 1 \in T
    BY <2>1
  <2>3. m \in Nat
    BY <1>2
  <2> HIDE DEF T
  <2>4. m <= i - 1
    BY <1>3, <2>2
  <2> QED
    BY <2>3, <2>4
<1>5. m \in 0..Len(imu_buffer) /\ (m < Len(imu_buffer) => ~Popped(m + 1))
  BY <1>3
<1> HIDE DEF T
<1>6. \E k \in 0..Len(imu_buffer) : (\A i \in 1..k : Popped(i)) /\ (k < Len(imu_buffer) => ~Popped(k + 1))
  <2> HIDE DEF Popped
  <2> QED BY <1>4, <1>5
<1> QED
  BY <1>6 DEF ImuPopped
-----------------------------------------------------------------------------
\* The IMU data is in order, and the last of it is what last_timestamp_imu says.
ImuInv ==
  /\ imu_buffer \in Seq(ImuStamps) /\ last_timestamp_imu \in ImuStamps \cup {-1}
  /\ \A i, j \in 1..Len(imu_buffer) : i < j => imu_buffer[i] <= imu_buffer[j]
  /\ imu_buffer # <<>> => imu_buffer[Len(imu_buffer)] = last_timestamp_imu

ScanTypes ==
  /\ lidar_buffer \in Seq(ScanStamps) /\ time_buffer \in Seq(ScanStamps)
  /\ Len(lidar_buffer) <= Len(time_buffer)
  /\ last_timestamp_lidar \in ScanStamps \cup {0}
  /\ meas_lidar \in ScanStamps \cup {0} /\ lidar_beg_time \in ScanStamps \cup {0}
  /\ lidar_pushed \in BOOLEAN

\* While the lidar's time has not gone back, the two deques belong together.
PairInv ==
  "lidar" \notin looped =>
    /\ lidar_buffer = time_buffer
    /\ lidar_beg_time = meas_lidar
    /\ lidar_pushed => lidar_buffer # <<>> /\ meas_lidar = Head(lidar_buffer)

\* ... the scans are in order, and all the IMU data that is gone is not newer.
TimeInv ==
  "lidar" \notin looped =>
    /\ \A i, j \in 1..Len(time_buffer) : i < j => time_buffer[i] <= time_buffer[j]
    /\ \A i \in 1..Len(time_buffer) : time_buffer[i] <= last_timestamp_lidar
    /\ imu_buffer = <<>> =>
         /\ last_timestamp_imu <= last_timestamp_lidar
         /\ \A i \in 1..Len(time_buffer) : last_timestamp_imu <= time_buffer[i]

SyncInv == ImuInv /\ ScanTypes /\ PairInv /\ TimeInv

SyncState == <<lidar_buffer, time_buffer, last_timestamp_lidar, imu_buffer, last_timestamp_imu,
               lidar_pushed, meas_lidar, lidar_beg_time, looped>>

\* Every step is a callback, one of the two outcomes of sync_packages, or of no concern here.
LEMMA StepCases ==
  ASSUME [Next]_vars
  PROVE  \/ \E stamp \in ScanStamps : standard_pcl_cbk(stamp)
         \/ \E stamp \in ImuStamps : imu_cbk(stamp)
         \/ TakeScan \/ HandOver
         \/ UNCHANGED <<SyncState, meas_imu>>
<1>1. CASE UNCHANGED vars
  BY <1>1 DEF vars, SyncState, lidarVars, imuVars, measVars, inputVars
<1>2. CASE UpdateRealtime \/ SetFirstEkf \/ SetUpdated
  BY <1>2 DEF UpdateRealtime, SetFirstEkf, SetUpdated, SetFlag, SyncState, lidarVars, imuVars,
              measVars, inputVars
<1>3. CASE Realtime
  BY <1>3 DEF Realtime, RtSkip, RtBegin, RtEnter, RtTest, RtTake, ThreadStep, SyncState, lidarVars,
              measVars, inputVars
<1> QED
  BY <1>1, <1>2, <1>3 DEF Next, Callbacks, MainLoop

\* Nothing has arrived yet.
LEMMA InitInv == Init => SyncInv
<1> SUFFICES ASSUME Init PROVE SyncInv
  OBVIOUS
<1>1. lidar_buffer = <<>> /\ time_buffer = <<>> /\ imu_buffer = <<>>
  BY DEF Init
<1>2. Len(lidar_buffer) = 0 /\ Len(time_buffer) = 0 /\ Len(imu_buffer) = 0
  BY <1>1, EmptySeq
<1>3. <<>> \in Seq(ScanStamps) /\ <<>> \in Seq(ImuStamps)
  BY EmptySeq
<1>4. ImuInv
  BY <1>1, <1>2, <1>3 DEF Init, ImuInv
<1>5. ScanTypes
  <2>1. Len(lidar_buffer) <= Len(time_buffer)
    BY <1>2
  <2> QED
    BY <1>1, <1>3, <2>1 DEF Init, ScanTypes
<1>6. PairInv
  BY <1>1 DEF Init, PairInv
<1>7. TimeInv
  BY <1>2 DEF Init, TimeInv
<1> QED
  BY <1>4, <1>5, <1>6, <1>7 DEF SyncInv

\* Appending a stamp that is not older keeps a sequence of stamps in order.
LEMMA AppendOrdered ==
  ASSUME NEW S \in SUBSET Int, NEW s \in Seq(S), NEW e \in S,
         \A i, j \in 1..Len(s) : i < j => s[i] <= s[j],
         \A i \in 1..Len(s) : s[i] <= e,
         NEW t, t = Append(s, e)
  PROVE  /\ t \in Seq(S) /\ t # <<>> /\ Len(t) = Len(s) + 1 /\ t[Len(t)] = e
         /\ \A i, j \in 1..Len(t) : i < j => t[i] <= t[j]
         /\ \A i \in 1..Len(t) : t[i] <= e
<1>1. /\ t \in Seq(S) /\ t # <<>> /\ Len(t) = Len(s) + 1
      /\ \A i \in 1..Len(s) : t[i] = s[i]
      /\ t[Len(s) + 1] = e
  BY AppendProperties
<1>2. Len(s) \in Nat
  OBVIOUS
<1>3. \A i \in 1..Len(t) : i \in 1..Len(s) \/ i = Len(s) + 1
  BY <1>1, <1>2
<1>4. \A i \in 1..Len(t) : t[i] <= e
  BY <1>1, <1>3
<1>5. ASSUME NEW i \in 1..Len(t), NEW j \in 1..Len(t), i < j PROVE t[i] <= t[j]
  <2>1. CASE j = Len(s) + 1
    BY <2>1, <1>4, <1>1
  <2>2. CASE j \in 1..Len(s)
    <3>1. i \in 1..Len(s)
      BY <2>2, <1>5, <1>2
    <3> QED BY <3>1, <2>2, <1>1, <1>5
  <2> QED
    BY <2>1, <2>2, <1>3
<1> QED
  BY <1>1, <1>4, <1>5
-----------------------------------------------------------------------------
\* Stamps can be compared.
LEMMA StampTypes ==
  /\ \A s \in ScanStamps : s \in Int
  /\ \A s \in ImuStamps : s \in Int
BY LioAssumption

\* The stamp and the scan of the group; a buffered scan has an entry in both deques.
LEMMA GroupTypes ==
  ASSUME ScanTypes, BuffersFilled
  PROVE  /\ time_buffer # <<>>
         /\ GroupTime \in ScanStamps \cup {0} /\ GroupScan \in ScanStamps \cup {0}
         /\ GroupTime \in Int
<1>1. Len(lidar_buffer) \in Nat \ {0}
  BY EmptySeq DEF ScanTypes, BuffersFilled
<1>2. Len(time_buffer) \in Nat \ {0}
  BY <1>1 DEF ScanTypes
<1>3. time_buffer # <<>>
  BY <1>2, EmptySeq DEF ScanTypes
<1>4. Head(time_buffer) \in ScanStamps /\ Head(lidar_buffer) \in ScanStamps
  BY <1>3, HeadTailProperties DEF ScanTypes, BuffersFilled
<1> QED
  BY <1>3, <1>4, StampTypes DEF GroupTime, GroupScan, ScanTypes

\* What the IMU loop pops is not newer than the scan, what it leaves is not older.
LEMMA PoppedFacts ==
  ASSUME ImuInv, NEW end \in Int
  PROVE  /\ ImuPopped(end) \in 0..Len(imu_buffer)
         /\ \A i \in 1..ImuPopped(end) : imu_buffer[i] <= end
         /\ \A i \in (ImuPopped(end) + 1)..Len(imu_buffer) : imu_buffer[i] >= end
<1> DEFINE k == ImuPopped(end)
<1>1. /\ k \in 0..Len(imu_buffer)
      /\ \A i \in 1..k : PoppedBefore(i, end) /\ imu_buffer[i] <= end
      /\ k < Len(imu_buffer) => ~(PoppedBefore(k + 1, end) /\ imu_buffer[k + 1] <= end)
  BY PoppedPrefix DEF ImuInv
<1> HIDE DEF k
<1>2. Len(imu_buffer) \in Nat /\ k \in Nat
  BY <1>1 DEF ImuInv
<1>3. \A i \in 1..Len(imu_buffer) : imu_buffer[i] \in Int
  BY StampTypes, ElementOfSeq DEF ImuInv
<1>4. ASSUME k < Len(imu_buffer) PROVE imu_buffer[k + 1] >= end
  <2>1. k + 1 \in 1..Len(imu_buffer)
    BY <1>2, <1>4
  <2>2. CASE ~(imu_buffer[k + 1] <= end)
    BY <2>1, <2>2, <1>3
  <2>3. CASE ~PoppedBefore(k + 1, end)
    <3>1. CASE k = 0
      BY <3>1, <2>1, <2>3, <1>3 DEF PoppedBefore
    <3>2. CASE k # 0
      <4>1. k \in 1..Len(imu_buffer) /\ k + 1 # 1 /\ (k + 1) - 1 = k
        BY <3>2, <1>2, <1>4
      <4>2. imu_buffer[k] >= end
        BY <4>1, <2>3, <1>3 DEF PoppedBefore
      <4>3. imu_buffer[k] <= imu_buffer[k + 1]
        BY <4>1, <2>1, <1>2 DEF ImuInv
      <4> QED
        BY <4>1, <4>2, <4>3, <2>1, <1>3
    <3> QED
      BY <3>1, <3>2
  <2> QED
    BY <2>2, <2>3, <1>1, <1>4
<1>5. ASSUME NEW i \in (k + 1)..Len(imu_buffer) PROVE imu_buffer[i] >= end
  <2>1. /\ i \in 1..Len(imu_buffer) /\ k + 1 \in 1..Len(imu_buffer)
        /\ k < Len(imu_buffer) /\ k + 1 <= i
    BY <1>2
  <2>2. imu_buffer[k + 1] <= imu_buffer[i]
    <3>1. CASE k + 1 = i
      BY <3>1, <2>1, <1>3
    <3>2. CASE k + 1 < i
      BY <3>2, <2>1 DEF ImuInv
    <3> QED
      BY <3>1, <3>2, <2>1, <1>2
  <2> QED
    BY <2>1, <2>2, <1>3, <1>4
<1> QED
  BY <1>1, <1>5 DEF k

\* sync_packages splits the IMU data in two.
LEMMA HandOverImu ==
  ASSUME ImuInv, ScanTypes, HandOver
  PROVE  LET k == ImuPopped(GroupTime)
         IN  /\ k \in 0..Len(imu_buffer)
             /\ Len(meas_imu') = k /\ \A i \in 1..k : meas_imu'[i] = imu_buffer[i]
             /\ imu_buffer' \in Seq(ImuStamps) /\ Len(imu_buffer') = Len(imu_buffer) - k
             /\ \A i \in 1..Len(imu_buffer') : imu_buffer'[i] = imu_buffer[k + i]
<1> DEFINE k == ImuPopped(GroupTime)
<1>1. k \in 0..Len(imu_buffer)
  BY GroupTypes, PoppedFacts DEF HandOver
<1>2. meas_imu' = SubSeq(imu_buffer, 1, k) /\ imu_buffer' = SubSeq(imu_buffer, k + 1, Len(imu_buffer))
  BY DEF HandOver
<1> HIDE DEF k
<1>3. Len(imu_buffer) \in Nat /\ k \in Nat /\ k <= Len(imu_buffer)
  BY <1>1 DEF ImuInv
<1>4. \A i \in 1..Len(imu_buffer) : imu_buffer[i] \in ImuStamps
  BY DEF ImuInv
<1>5. /\ Len(meas_imu') = (IF 1 <= k THEN k - 1 + 1 ELSE 0)
      /\ \A i \in 1..(k - 1 + 1) : meas_imu'[i] = imu_buffer[1 + i - 1]
  <2>1. \A i \in 1..k : imu_buffer[i] \in ImuStamps
    BY <1>3, <1>4
  <2> QED
    BY <2>1, <1>2, <1>3, SubSeqProperties
<1>6. Len(meas_imu') = k /\ \A i \in 1..k : meas_imu'[i] = imu_buffer[i]
  <2>1. \A i \in 1..k : i \in 1..(k - 1 + 1) /\ 1 + i - 1 = i
    BY <1>3
  <2> QED
    BY <2>1, <1>3, <1>5
<1>7. /\ imu_buffer' \in Seq(ImuStamps)
      /\ Len(imu_buffer') = (IF k + 1 <= Len(imu_buffer) THEN Len(imu_buffer) - (k + 1) + 1 ELSE 0)
      /\ \A i \in 1..(Len(imu_buffer) - (k + 1) + 1) : imu_buffer'[i] = imu_buffer[(k + 1) + i - 1]
  <2>1. \A i \in (k + 1)..Len(imu_buffer) : imu_buffer[i] \in ImuStamps
    BY <1>3, <1>4
  <2>2. k + 1 \in Int /\ Len(imu_buffer) \in Int
    BY <1>3
  <2> QED
    BY <2>1, <2>2, <1>2, SubSeqProperties
<1>8. Len(imu_buffer') = Len(imu_buffer) - k
  BY <1>3, <1>7
<1>9. \A i \in 1..Len(imu_buffer') : imu_buffer'[i] = imu_buffer[k + i]
  <2>1. \A i \in 1..Len(imu_buffer') : i \in 1..(Len(imu_buffer) - (k + 1) + 1) /\ (k + 1) + i - 1 = k + i
    BY <1>3, <1>8
  <2> QED
    BY <2>1, <1>7
<1> QED
  BY <1>1, <1>6, <1>7, <1>8, <1>9 DEF k
-----------------------------------------------------------------------------
\* A message is kept behind messages that are not newer.
LEMMA ImuInvCallback ==
  ASSUME ImuInv, NEW stamp \in ImuStamps, imu_cbk(stamp)
  PROVE  ImuInv' /\ imu_buffer' # <<>>
<1> DEFINE kept == Kept(imu_buffer, stamp, last_timestamp_imu)
<1>1. imu_buffer' = Append(kept, stamp) /\ last_timestamp_imu' = stamp
  BY DEF imu_cbk, BufferImu
<1>2. Len(imu_buffer) \in Nat /\ \A i \in 1..Len(imu_buffer) : imu_buffer[i] \in Int
  BY StampTypes, ElementOfSeq DEF ImuInv
<1>3. /\ kept \in Seq(ImuStamps)
      /\ \A i, j \in 1..Len(kept) : i < j => kept[i] <= kept[j]
      /\ \A i \in 1..Len(kept) : kept[i] <= stamp
  <2>1. CASE stamp < last_timestamp_imu
    <3>1. kept = <<>>
      BY <2>1 DEF Kept
    <3> QED
      BY <3>1, EmptySeq
  <2>2. CASE ~(stamp < last_timestamp_imu)
    <3>1. kept = imu_buffer
      BY <2>2 DEF Kept
    <3>2. ASSUME NEW i \in 1..Len(imu_buffer) PROVE imu_buffer[i] <= stamp
      <4>1. Len(imu_buffer) \in 1..Len(imu_buffer) /\ i <= Len(imu_buffer)
        BY <1>2
      <4>2. imu_buffer # <<>>
        BY <4>1, EmptySeq
      <4>3. imu_buffer[Len(imu_buffer)] = last_timestamp_imu
        BY <4>2 DEF ImuInv
      <4>4. imu_buffer[i] <= imu_buffer[Len(imu_buffer)]
        <5>1. CASE i = Len(imu_buffer)
          BY <5>1, <1>2
        <5>2. CASE i < Len(imu_buffer)
          BY <5>2, <4>1 DEF ImuInv
        <5> QED
          BY <5>1, <5>2, <4>1, <1>2
      <4> QED
        BY <4>1, <4>3, <4>4, <2>2, <1>2, StampTypes
    <3> HIDE DEF kept
    <3> QED
      BY <3>1, <3>2 DEF ImuInv
  <2> QED
    BY <2>1, <2>2
<1>4. ImuStamps \in SUBSET Int
  BY StampTypes
<1> HIDE DEF kept
<1>5. /\ imu_buffer' \in Seq(ImuStamps) /\ imu_buffer' # <<>>
      /\ imu_buffer'[Len(imu_buffer')] = stamp
      /\ \A i, j \in 1..Len(imu_buffer') : i < j => imu_buffer'[i] <= imu_buffer'[j]
  BY <1>1, <1>3, <1>4, AppendOrdered
<1> QED
  BY <1>1, <1>5 DEF ImuInv

\* What sync_packages leaves of the IMU data is still in order.
LEMMA ImuInvHandOver ==
  ASSUME ImuInv, ScanTypes, HandOver
  PROVE  ImuInv'
<1> DEFINE k == ImuPopped(GroupTime)
<1>1. /\ k \in 0..Len(imu_buffer)
      /\ imu_buffer' \in Seq(ImuStamps) /\ Len(imu_buffer') = Len(imu_buffer) - k
      /\ \A i \in 1..Len(imu_buffer') : imu_buffer'[i] = imu_buffer[k + i]
  BY HandOverImu
<1>2. last_timestamp_imu' = last_timestamp_imu /\ imu_buffer # <<>>
  BY DEF HandOver, BuffersFilled
<1> HIDE DEF k
<1>3. Len(imu_buffer) \in Nat /\ k \in Nat /\ Len(imu_buffer') \in Nat
  BY <1>1 DEF ImuInv
<1>4. \A i \in 1..Len(imu_buffer') : k + i \in 1..Len(imu_buffer)
  BY <1>1, <1>3
<1>5. ASSUME NEW i \in 1..Len(imu_buffer'), NEW j \in 1..Len(imu_buffer'), i < j
      PROVE  imu_buffer'[i] <= imu_buffer'[j]
  <2>1. k + i < k + j
    BY <1>3, <1>5
  <2>2. imu_buffer[k + i] <= imu_buffer[k + j]
    BY <2>1, <1>4 DEF ImuInv
  <2> QED
    BY <2>2, <1>1
<1>6. ASSUME imu_buffer' # <<>> PROVE imu_buffer'[Len(imu_buffer')] = last_timestamp_imu
  <2>1. Len(imu_buffer') \in Nat \ {0}
    BY <1>6, <1>1, EmptySeq
  <2>2. Len(imu_buffer') \in 1..Len(imu_buffer') /\ k + Len(imu_buffer') = Len(imu_buffer)
    BY <2>1, <1>1, <1>3
  <2> QED
    BY <2>2, <1>1, <1>2 DEF ImuInv
<1> QED
  BY <1>1, <1>2, <1>5, <1>6 DEF ImuInv

\* No other step touches the IMU data.
LEMMA ImuInvStep ==
  ASSUME ImuInv, ScanTypes, [Next]_vars
  PROVE  ImuInv'
<1>1. ASSUME NEW stamp \in ScanStamps, standard_pcl_cbk(stamp) PROVE ImuInv'
  BY <1>1 DEF standard_pcl_cbk, BufferScan, imuVars, ImuInv
<1>2. CASE TakeScan
  BY <1>2 DEF TakeScan, imuVars, ImuInv
<1>3. CASE UNCHANGED <<SyncState, meas_imu>>
  BY <1>3 DEF SyncState, ImuInv
<1> QED
  BY <1>1, <1>2, <1>3, ImuInvCallback, ImuInvHandOver, StepCases
-----------------------------------------------------------------------------
\* A scan is appended to both deques; lidar_buffer may have been cleared.
LEMMA ScanCallback ==
  ASSUME ScanTypes, NEW stamp \in ScanStamps, standard_pcl_cbk(stamp)
  PROVE  ScanTypes' /\ lidar_buffer' # <<>>
<1> DEFINE kept == Kept(lidar_buffer, stamp, last_timestamp_lidar)
<1>1. /\ lidar_buffer' = Append(kept, stamp) /\ time_buffer' = Append(time_buffer, stamp)
      /\ last_timestamp_lidar' = stamp /\ UNCHANGED measVars
  BY DEF standard_pcl_cbk, BufferScan
<1>2. kept \in Seq(ScanStamps) /\ Len(kept) <= Len(time_buffer)
  <2>1. CASE stamp < last_timestamp_lidar
    <3>1. kept = <<>> /\ Len(<<>>) <= Len(time_buffer)
      BY <2>1, EmptySeq DEF Kept, ScanTypes
    <3> QED
      BY <3>1, EmptySeq
  <2>2. CASE ~(stamp < last_timestamp_lidar)
    BY <2>2 DEF Kept, ScanTypes
  <2> QED
    BY <2>1, <2>2
<1> HIDE DEF kept
<1>3. /\ lidar_buffer' \in Seq(ScanStamps) /\ lidar_buffer' # <<>>
      /\ Len(lidar_buffer') = Len(kept) + 1
  BY <1>1, <1>2, AppendProperties
<1>4. time_buffer' \in Seq(ScanStamps) /\ Len(time_buffer') = Len(time_buffer) + 1
  BY <1>1, AppendProperties DEF ScanTypes
<1>5. Len(lidar_buffer') <= Len(time_buffer')
  BY <1>2, <1>3, <1>4 DEF ScanTypes
<1> QED
  BY <1>1, <1>3, <1>4, <1>5 DEF measVars, ScanTypes

\* The deques of scans and times are popped together.
LEMMA ScanTypesStep ==
  ASSUME ScanTypes, [Next]_vars
  PROVE  ScanTypes'
<1>1. ASSUME NEW stamp \in ImuStamps, imu_cbk(stamp) PROVE ScanTypes'
  BY <1>1 DEF imu_cbk, BufferImu, lidarVars, measVars, ScanTypes
<1>2. CASE TakeScan
  <2>1. BuffersFilled
    BY <1>2 DEF TakeScan
  <2> QED
    BY <1>2, <2>1, GroupTypes DEF TakeScan, lidarVars, ScanTypes
<1>3. CASE HandOver
  <2>1. BuffersFilled
    BY <1>3 DEF HandOver
  <2>2. /\ lidar_buffer' = Tail(lidar_buffer) /\ time_buffer' = Tail(time_buffer)
        /\ last_timestamp_lidar' = last_timestamp_lidar
        /\ meas_lidar' = GroupScan /\ lidar_beg_time' = GroupTime /\ lidar_pushed' = FALSE
    BY <1>3 DEF HandOver
  <2>3. lidar_buffer # <<>> /\ time_buffer # <<>>
    BY <2>1, GroupTypes DEF BuffersFilled
  <2>4. lidar_buffer' \in Seq(ScanStamps) /\ Len(lidar_buffer') = Len(lidar_buffer) - 1
    BY <2>2, <2>3, HeadTailProperties DEF ScanTypes
  <2>5. time_buffer' \in Seq(ScanStamps) /\ Len(time_buffer') = Len(time_buffer) - 1
    BY <2>2, <2>3, HeadTailProperties DEF ScanTypes
  <2>6. Len(lidar_buffer') <= Len(time_buffer')
    BY <2>4, <2>5 DEF ScanTypes
  <2>7. meas_lidar' \in ScanStamps \cup {0} /\ lidar_beg_time' \in ScanStamps \cup {0}
    BY <2>1, <2>2, GroupTypes
  <2> QED
    BY <2>2, <2>4, <2>5, <2>6, <2>7 DEF ScanTypes
<1>4. CASE UNCHANGED <<SyncState, meas_imu>>
  BY <1>4 DEF SyncState, ScanTypes
<1> QED
  BY <1>1, <1>2, <1>3, <1>4, ScanCallback, StepCases

\* What a callback does when no scan is older than the one before.
LEMMA ScanInTime ==
  ASSUME ScanTypes, NEW stamp \in ScanStamps, standard_pcl_cbk(stamp), "lidar" \notin looped'
  PROVE  /\ "lidar" \notin looped /\ last_timestamp_lidar <= stamp
         /\ lidar_buffer' = Append(lidar_buffer, stamp)
         /\ time_buffer' = Append(time_buffer, stamp) /\ last_timestamp_lidar' = stamp
         /\ UNCHANGED <<measVars, imuVars>>
<1>1. InTime("lidar", stamp, last_timestamp_lidar)
  BY DEF standard_pcl_cbk, BufferScan
<1>2. ~(stamp < last_timestamp_lidar) /\ "lidar" \notin looped
  BY <1>1 DEF InTime
<1>3. last_timestamp_lidar <= stamp
  BY <1>2, StampTypes DEF ScanTypes
<1> QED
  BY <1>2, <1>3 DEF standard_pcl_cbk, BufferScan, Kept

\* Without a loop back, scans and times stay together.
LEMMA PairInvStep ==
  ASSUME ScanTypes, PairInv, [Next]_vars
  PROVE  PairInv'
<1>1. ASSUME NEW stamp \in ScanStamps, standard_pcl_cbk(stamp), "lidar" \notin looped'
      PROVE  PairInv'
  <2>1. /\ "lidar" \notin looped
        /\ lidar_buffer' = Append(lidar_buffer, stamp) /\ time_buffer' = Append(time_buffer, stamp)
        /\ UNCHANGED measVars /\ lidar_buffer' # <<>>
    BY <1>1, ScanInTime, ScanCallback
  <2>2. lidar_buffer = time_buffer /\ lidar_beg_time = meas_lidar
    BY <2>1 DEF PairInv
  <2>3. ASSUME lidar_pushed' PROVE meas_lidar' = Head(lidar_buffer')
    <3>1. lidar_pushed /\ lidar_buffer # <<>> /\ meas_lidar = Head(lidar_buffer)
      BY <2>1, <2>3 DEF PairInv, measVars
    <3>2. Head(lidar_buffer') = Head(lidar_buffer)
      BY <2>1, <3>1, HeadTailAppend DEF ScanTypes
    <3> QED
      BY <2>1, <3>1, <3>2 DEF measVars
  <2> QED
    BY <2>1, <2>2, <2>3 DEF PairInv, measVars
<1>2. ASSUME NEW stamp \in ImuStamps, imu_cbk(stamp) PROVE PairInv'
  <2>1. "lidar" \in looped => "lidar" \in looped'
    BY <1>2 DEF imu_cbk, BufferImu, InTime
  <2> QED
    BY <1>2, <2>1 DEF imu_cbk, BufferImu, lidarVars, measVars, PairInv
<1>3. CASE TakeScan
  BY <1>3 DEF TakeScan, BuffersFilled, GroupScan, GroupTime, lidarVars, inputVars, PairInv
<1>4. CASE HandOver
  BY <1>4 DEF HandOver, GroupScan, GroupTime, inputVars, PairInv
<1>5. CASE UNCHANGED <<SyncState, meas_imu>>
  BY <1>5 DEF SyncState, PairInv
<1> QED
  BY <1>1, <1>2, <1>3, <1>4, <1>5, StepCases DEF PairInv
-----------------------------------------------------------------------------
\* The time of the group is that of the first scan in the buffer.
LEMMA GroupTimeIsHead ==
  ASSUME ScanTypes, PairInv, "lidar" \notin looped, lidar_buffer # <<>>
  PROVE  /\ GroupTime = Head(time_buffer) /\ GroupTime = time_buffer[1]
         /\ 1 \in 1..Len(time_buffer)
<1>1. time_buffer # <<>>
  BY DEF PairInv
<1>2. Len(time_buffer) \in Nat \ {0}
  BY <1>1, EmptySeq DEF ScanTypes
<1>3. Head(time_buffer) = time_buffer[1]
  BY <1>1 DEF ScanTypes
<1> QED
  BY <1>2, <1>3 DEF PairInv, GroupTime

\* A scan is not older than the data that is gone.
LEMMA TimeInvScan ==
  ASSUME ImuInv, ScanTypes, TimeInv, NEW stamp \in ScanStamps, standard_pcl_cbk(stamp),
         "lidar" \notin looped'
  PROVE  TimeInv'
<1>1. /\ "lidar" \notin looped /\ last_timestamp_lidar <= stamp
      /\ time_buffer' = Append(time_buffer, stamp) /\ last_timestamp_lidar' = stamp
      /\ imu_buffer' = imu_buffer /\ last_timestamp_imu' = last_timestamp_imu
  BY ScanInTime DEF imuVars
<1>2. /\ Len(time_buffer) \in Nat /\ stamp \in Int
      /\ last_timestamp_lidar \in Int /\ last_timestamp_imu \in Int
      /\ \A i \in 1..Len(time_buffer) : time_buffer[i] \in Int
  BY StampTypes, ElementOfSeq DEF ScanTypes, ImuInv
<1>3. \A i \in 1..Len(time_buffer) : time_buffer[i] <= stamp
  BY <1>1, <1>2 DEF TimeInv
<1>4. /\ \A i, j \in 1..Len(time_buffer') : i < j => time_buffer'[i] <= time_buffer'[j]
      /\ \A i \in 1..Len(time_buffer') : time_buffer'[i] <= stamp
  <2>1. ScanStamps \in SUBSET Int
    BY StampTypes
  <2>2. \A i, j \in 1..Len(time_buffer) : i < j => time_buffer[i] <= time_buffer[j]
    BY <1>1 DEF TimeInv
  <2>3. time_buffer \in Seq(ScanStamps)
    BY DEF ScanTypes
  <2> QED
    BY <1>1, <1>3, <2>1, <2>2, <2>3, AppendOrdered
<1>5. ASSUME imu_buffer = <<>>
      PROVE  /\ last_timestamp_imu <= stamp
             /\ \A i \in 1..Len(time_buffer') : last_timestamp_imu <= time_buffer'[i]
  <2>1. last_timestamp_imu <= last_timestamp_lidar
    BY <1>1, <1>5 DEF TimeInv
  <2>2. last_timestamp_imu <= stamp
    BY <2>1, <1>1, <1>2
  <2>3. /\ Len(time_buffer') = Len(time_buffer) + 1
        /\ \A i \in 1..Len(time_buffer) : time_buffer'[i] = time_buffer[i]
        /\ time_buffer'[Len(time_buffer) + 1] = stamp
    BY <1>1, AppendProperties DEF ScanTypes
  <2>4. ASSUME NEW i \in 1..Len(time_buffer') PROVE last_timestamp_imu <= time_buffer'[i]
    <3>1. CASE i \in 1..Len(time_buffer)
      BY <3>1, <2>3, <1>1, <1>5 DEF TimeInv
    <3>2. CASE i = Len(time_buffer) + 1
      BY <3>2, <2>2, <2>3
    <3> QED
      BY <3>1, <3>2, <2>3, <1>2
  <2> QED
    BY <2>2, <2>4
<1> QED
  BY <1>1, <1>4, <1>5 DEF TimeInv

\* When all the IMU data goes with a scan, none was newer than the scan.
LEMMA TimeInvHandOver ==
  ASSUME ImuInv, ScanTypes, PairInv, TimeInv, HandOver, "lidar" \notin looped
  PROVE  TimeInv'
<1> DEFINE k == ImuPopped(GroupTime)
<1>1. /\ BuffersFilled /\ lidar_buffer # <<>> /\ imu_buffer # <<>>
      /\ time_buffer' = Tail(time_buffer) /\ last_timestamp_lidar' = last_timestamp_lidar
      /\ last_timestamp_imu' = last_timestamp_imu
  BY DEF HandOver, BuffersFilled
<1>2. time_buffer # <<>> /\ GroupTime \in Int
  BY <1>1, GroupTypes
<1>3. GroupTime = time_buffer[1] /\ 1 \in 1..Len(time_buffer)
  BY <1>1, GroupTimeIsHead
<1>4. /\ Len(time_buffer') = Len(time_buffer) - 1
      /\ \A i \in 1..Len(time_buffer') : time_buffer'[i] = time_buffer[i + 1]
  BY <1>1, <1>2, HeadTailProperties DEF ScanTypes
<1>5. Len(time_buffer) \in Nat
  BY DEF ScanTypes
<1>6. \A i \in 1..Len(time_buffer') : i + 1 \in 1..Len(time_buffer) /\ 1 < i + 1
  BY <1>4, <1>5
<1>7. /\ \A i, j \in 1..Len(time_buffer) : i < j => time_buffer[i] <= time_buffer[j]
      /\ \A i \in 1..Len(time_buffer) : time_buffer[i] <= last_timestamp_lidar
  BY DEF TimeInv
<1>8. ASSUME NEW i \in 1..Len(time_buffer'), NEW j \in 1..Len(time_buffer'), i < j
      PROVE  time_buffer'[i] <= time_buffer'[j]
  <2>1. i + 1 < j + 1
    BY <1>8
  <2> QED
    BY <2>1, <1>4, <1>6, <1>7
<1>9. ASSUME imu_buffer' = <<>>
      PROVE  /\ last_timestamp_imu <= last_timestamp_lidar
             /\ \A i \in 1..Len(time_buffer') : last_timestamp_imu <= time_buffer'[i]
  <2>1. k \in 0..Len(imu_buffer) /\ Len(imu_buffer') = Len(imu_buffer) - k
        /\ imu_buffer' \in Seq(ImuStamps)
    BY HandOverImu
  <2>2. \A i \in 1..k : imu_buffer[i] <= GroupTime
    BY <1>2, PoppedFacts
  <2> HIDE DEF k
  <2>3. Len(imu_buffer) \in Nat \ {0}
    BY <1>1, EmptySeq DEF ImuInv
  <2>4. Len(imu_buffer') <= 0
    BY <1>9, <2>1, EmptySeq
  <2>5. Len(imu_buffer) \in 1..k
    BY <2>1, <2>3, <2>4
  <2>6. imu_buffer[Len(imu_buffer)] = last_timestamp_imu
    BY <1>1 DEF ImuInv
  <2>7. last_timestamp_imu <= time_buffer[1]
    BY <2>2, <2>5, <2>6, <1>3
  <2>8. /\ \A i \in 1..Len(time_buffer) : time_buffer[i] \in Int
        /\ last_timestamp_imu \in Int /\ last_timestamp_lidar \in Int
    BY StampTypes, ElementOfSeq DEF ScanTypes, ImuInv
  <2>9. last_timestamp_imu <= last_timestamp_lidar
    BY <2>7, <2>8, <1>3, <1>7
  <2>10. ASSUME NEW i \in 1..Len(time_buffer') PROVE last_timestamp_imu <= time_buffer'[i]
    <3>1. time_buffer[1] <= time_buffer[i + 1]
      BY <1>3, <1>6, <1>7
    <3> QED
      BY <3>1, <2>7, <2>8, <1>3, <1>4, <1>6
  <2> QED
    BY <2>9, <2>10
<1> QED
  BY <1>1, <1>4, <1>6, <1>7, <1>8, <1>9 DEF TimeInv

\* No other step touches times or uses up IMU data.
LEMMA TimeInvStep ==
  ASSUME SyncInv, [Next]_vars
  PROVE  TimeInv'
<1> USE DEF SyncInv
<1>1. ASSUME NEW stamp \in ScanStamps, standard_pcl_cbk(stamp) PROVE TimeInv'
  <2>1. CASE "lidar" \in looped'
    BY <2>1 DEF TimeInv
  <2> QED
    BY <1>1, <2>1, TimeInvScan
<1>2. ASSUME NEW stamp \in ImuStamps, imu_cbk(stamp) PROVE TimeInv'
  <2>1. imu_buffer' # <<>>
    BY <1>2, ImuInvCallback
  <2>2. "lidar" \in looped => "lidar" \in looped'
    BY <1>2 DEF imu_cbk, BufferImu, InTime
  <2> QED
    BY <1>2, <2>1, <2>2 DEF imu_cbk, BufferImu, lidarVars, TimeInv
<1>3. CASE TakeScan
  BY <1>3 DEF TakeScan, lidarVars, imuVars, inputVars, TimeInv
<1>4. CASE HandOver
  <2>1. looped' = looped
    BY <1>4 DEF HandOver, inputVars
  <2>2. CASE "lidar" \in looped
    BY <2>1, <2>2 DEF TimeInv
  <2> QED
    BY <1>4, <2>2, TimeInvHandOver
<1>5. CASE UNCHANGED <<SyncState, meas_imu>>
  BY <1>5 DEF SyncState, TimeInv
<1> QED
  BY <1>1, <1>2, <1>3, <1>4, <1>5, StepCases

\* The buffers of the callbacks and sync_packages: the strengthening the theorems below need.
THEOREM SyncInvHolds == Spec => []SyncInv
<1>1. SyncInv /\ [Next]_vars => SyncInv'
  BY ImuInvStep, ScanTypesStep, PairInvStep, TimeInvStep DEF SyncInv
<1> QED
  BY InitInv, <1>1, PTL DEF Spec
-----------------------------------------------------------------------------
(***************************************************************************)
(* OwnTime: while the lidar's time has not gone back, the group holds the  *)
(* scan and the time that arrived together.                                *)
(***************************************************************************)
THEOREM OwnTimeHolds == Spec => []OwnTime
<1>1. SyncInv => OwnTime
  BY DEF SyncInv, PairInv, OwnTime
<1> QED
  BY <1>1, SyncInvHolds, PTL

(***************************************************************************)
(* NoScanStuck: a scan that newer IMU data has followed is handed over by  *)
(* the next sync_packages, since an empty imu_buffer holds back no data    *)
(* that is newer than a scan.                                              *)
(***************************************************************************)
THEOREM NoScanStuckHolds == Spec => []NoScanStuck
<1>1. ASSUME SyncInv, "lidar" \notin looped, lidar_buffer # <<>>,
             last_timestamp_imu > Head(time_buffer)
      PROVE  BuffersFilled /\ last_timestamp_imu >= GroupTime
  <2>1. /\ GroupTime = Head(time_buffer) /\ GroupTime = time_buffer[1]
        /\ 1 \in 1..Len(time_buffer)
    BY <1>1, GroupTimeIsHead DEF SyncInv
  <2>2. time_buffer[1] \in Int /\ last_timestamp_imu \in Int
    BY <1>1, <2>1, StampTypes, ElementOfSeq DEF SyncInv, ScanTypes, ImuInv
  <2>3. imu_buffer # <<>>
    <3>1. ASSUME imu_buffer = <<>> PROVE last_timestamp_imu <= time_buffer[1]
      BY <3>1, <1>1, <2>1 DEF SyncInv, TimeInv
    <3> QED
      BY <3>1, <2>1, <2>2, <1>1
  <2> QED
    BY <1>1, <2>1, <2>2, <2>3 DEF BuffersFilled
<1>2. SyncInv => NoScanStuck
  BY <1>1 DEF NoScanStuck
<1> QED
  BY <1>2, SyncInvHolds, PTL

(***************************************************************************)
(* ImuOfSpan: the IMU loop of sync_packages splits the data at the end of  *)
(* the scan, although it compares a stamp that has been popped before.     *)
(***************************************************************************)
THEOREM ImuOfSpanHolds == Spec => ImuOfSpan
<1> DEFINE Span == HandsOver =>
             /\ \A i \in 1..Len(meas_imu') : meas_imu'[i] <= lidar_beg_time'
             /\ \A i \in 1..Len(imu_buffer') : imu_buffer'[i] >= lidar_beg_time'
<1>1. ASSUME SyncInv, HandOver PROVE Span
  <2> DEFINE k == ImuPopped(GroupTime)
  <2>1. lidar_beg_time' = GroupTime /\ GroupTime \in Int
    BY <1>1, GroupTypes DEF HandOver, SyncInv
  <2>2. /\ k \in 0..Len(imu_buffer)
        /\ Len(meas_imu') = k /\ \A i \in 1..k : meas_imu'[i] = imu_buffer[i]
        /\ Len(imu_buffer') = Len(imu_buffer) - k
        /\ \A i \in 1..Len(imu_buffer') : imu_buffer'[i] = imu_buffer[k + i]
    BY <1>1, HandOverImu DEF SyncInv
  <2>3. /\ \A i \in 1..k : imu_buffer[i] <= GroupTime
        /\ \A i \in (k + 1)..Len(imu_buffer) : imu_buffer[i] >= GroupTime
    BY <1>1, <2>1, PoppedFacts DEF SyncInv
  <2> HIDE DEF k
  <2>4. \A i \in 1..Len(imu_buffer') : k + i \in (k + 1)..Len(imu_buffer)
    <3>1. Len(imu_buffer) \in Nat
      BY <1>1 DEF SyncInv, ImuInv
    <3> QED
      BY <2>2, <3>1
  <2>5. \A i \in 1..Len(meas_imu') : meas_imu'[i] <= lidar_beg_time'
    BY <2>1, <2>2, <2>3
  <2>6. \A i \in 1..Len(imu_buffer') : imu_buffer'[i] >= lidar_beg_time'
    BY <2>1, <2>2, <2>3, <2>4
  <2> QED
    BY <2>5, <2>6
<1>2. ASSUME SyncInv, NEW stamp \in ScanStamps, standard_pcl_cbk(stamp) PROVE ~HandsOver
  <2>1. time_buffer' = Append(time_buffer, stamp) /\ time_buffer \in Seq(ScanStamps)
    BY <1>2 DEF standard_pcl_cbk, BufferScan, SyncInv, ScanTypes
  <2>2. Len(time_buffer') = Len(time_buffer) + 1 /\ Len(time_buffer) \in Nat
    BY <2>1, AppendProperties
  <2> QED
    BY <2>2 DEF HandsOver
<1>3. ASSUME SyncInv, UNCHANGED time_buffer PROVE ~HandsOver
  <2>1. Len(time_buffer') = Len(time_buffer) /\ Len(time_buffer) \in Nat
    BY <1>3 DEF SyncInv, ScanTypes
  <2> QED
    BY <2>1 DEF HandsOver
<1>4. SyncInv /\ [Next]_vars => [Span]_vars
  <2> SUFFICES ASSUME SyncInv, [Next]_vars PROVE Span
    OBVIOUS
  <2>1. ASSUME NEW stamp \in ImuStamps, imu_cbk(stamp) PROVE UNCHANGED time_buffer
    BY <2>1 DEF imu_cbk, BufferImu, lidarVars
  <2>2. TakeScan => UNCHANGED time_buffer
    BY DEF TakeScan, lidarVars
  <2>3. UNCHANGED <<SyncState, meas_imu>> => UNCHANGED time_buffer
    BY DEF SyncState
  <2>4. ~HandsOver => Span
    OBVIOUS
  <2> HIDE DEF Span
  <2> QED
    BY <1>1, <1>2, <1>3, <2>1, <2>2, <2>3, <2>4, StepCases
<1>5. [][Next]_vars /\ []SyncInv => [][Span]_vars
  BY <1>4, PTL
<1> QED
  BY <1>5, SyncInvHolds, PTL DEF Spec, ImuOfSpan
-----------------------------------------------------------------------------
\* Two sequences agree counted from their ends.
SameEnd(s, t) == \A n \in Nat : n < Len(s) /\ n < Len(t) => s[Len(s) - n] = t[Len(t) - n]

\* What Reverse returns.
LEMMA ReverseProperties ==
  ASSUME NEW S, NEW s \in Seq(S)
  PROVE  /\ Reverse(s) \in Seq(S) /\ Len(Reverse(s)) = Len(s)
         /\ \A i \in 1..Len(s) : Reverse(s)[i] = s[(Len(s) - i) + 1]
<1>1. Len(s) \in Nat /\ \A i \in 1..Len(s) : s[i] \in S
  BY ElementOfSeq
<1>2. \A i \in 1..Len(s) : (Len(s) - i) + 1 \in 1..Len(s)
  BY <1>1
<1>3. [i \in 1..Len(s) |-> s[(Len(s) - i) + 1]] \in Seq(S)
  BY <1>1, <1>2, IsASeq
<1>4. Reverse(s) \in Seq(S)
  BY <1>3 DEF Reverse
<1>5. Len(Reverse(s)) = Len(s)
  <2>1. DOMAIN Reverse(s) = 1..Len(s)
    BY DEF Reverse
  <2> QED
    BY <2>1, <1>1, <1>4, LenProperties
<1> QED
  BY <1>4, <1>5 DEF Reverse

\* A sequence that agrees with a longer one from the end is its suffix.
LEMMA SuffixFromEnd ==
  ASSUME NEW S, NEW s \in Seq(S), NEW t \in Seq(S), Len(s) <= Len(t), SameEnd(s, t)
  PROVE  IsSuffix(s, t)
<1> DEFINE n == Len(s)
           a == SubSeq(Reverse(s), 1, n)
           b == SubSeq(Reverse(t), 1, n)
<1>1. n \in Nat /\ Len(t) \in Nat /\ n <= Len(t)
  OBVIOUS
<1>2. /\ Reverse(s) \in Seq(S) /\ Len(Reverse(s)) = n
      /\ \A i \in 1..n : Reverse(s)[i] = s[(n - i) + 1]
      /\ Reverse(t) \in Seq(S) /\ Len(Reverse(t)) = Len(t)
      /\ \A i \in 1..Len(t) : Reverse(t)[i] = t[(Len(t) - i) + 1]
  BY ReverseProperties
<1>3. \A i \in 1..n : Reverse(s)[i] = Reverse(t)[i]
  <2> SUFFICES ASSUME NEW i \in 1..n PROVE Reverse(s)[i] = Reverse(t)[i]
    OBVIOUS
  <2>1. i - 1 \in Nat /\ i - 1 < n /\ i - 1 < Len(t) /\ i \in 1..Len(t)
    BY <1>1
  <2>2. n - (i - 1) = (n - i) + 1 /\ Len(t) - (i - 1) = (Len(t) - i) + 1
    BY <1>1
  <2>3. s[n - (i - 1)] = t[Len(t) - (i - 1)]
    BY <2>1 DEF SameEnd
  <2> QED
    BY <1>2, <2>1, <2>2, <2>3
<1>4. \A i \in 1..n : Reverse(s)[i] \in S /\ Reverse(t)[i] \in S
  BY <1>1, <1>2, ElementOfSeq
<1>5. a = b
  BY <1>1, <1>3 DEF SubSeq
<1> QED
  BY <1>1, <1>2, <1>5 DEF IsSuffix, IsPrefix

-----------------------------------------------------------------------------
\* The realtime thread's buffer is in order, and ends as imu_buffer does.
RealtimeInv ==
  /\ realtime_imu_buffer \in Seq(ImuStamps)
  /\ \A i, j \in 1..Len(realtime_imu_buffer) :
       i < j => realtime_imu_buffer[i] <= realtime_imu_buffer[j]
  /\ \A i \in 1..Len(realtime_imu_buffer) : realtime_imu_buffer[i] <= last_timestamp_imu
  /\ SameEnd(realtime_imu_buffer, imu_buffer)

\* No message is newer than the last one.
LEMMA ImuBound ==
  ASSUME ImuInv
  PROVE  \A i \in 1..Len(imu_buffer) : imu_buffer[i] <= last_timestamp_imu
<1> SUFFICES ASSUME NEW i \in 1..Len(imu_buffer) PROVE imu_buffer[i] <= last_timestamp_imu
  OBVIOUS
<1>1. Len(imu_buffer) \in Nat /\ \A j \in 1..Len(imu_buffer) : imu_buffer[j] \in Int
  BY StampTypes, ElementOfSeq DEF ImuInv
<1>2. Len(imu_buffer) \in 1..Len(imu_buffer) /\ i <= Len(imu_buffer)
  BY <1>1
<1>3. imu_buffer # <<>>
  BY <1>2, EmptySeq
<1>4. imu_buffer[Len(imu_buffer)] = last_timestamp_imu
  BY <1>3 DEF ImuInv
<1>5. CASE i = Len(imu_buffer)
  BY <1>1, <1>4, <1>5
<1>6. CASE i < Len(imu_buffer)
  BY <1>2, <1>4, <1>6 DEF ImuInv
<1> QED
  BY <1>2, <1>5, <1>6, <1>1

\* The same message is appended to both buffers.
LEMMA AppendSameEnd ==
  ASSUME NEW S, NEW s \in Seq(S), NEW t \in Seq(S), NEW e \in S, SameEnd(s, t)
  PROVE  SameEnd(Append(s, e), Append(t, e))
<1> DEFINE u == Append(s, e)
           v == Append(t, e)
<1>1. /\ Len(u) = Len(s) + 1 /\ \A i \in 1..Len(s) : u[i] = s[i]
      /\ u[Len(s) + 1] = e
      /\ Len(v) = Len(t) + 1 /\ \A i \in 1..Len(t) : v[i] = t[i]
      /\ v[Len(t) + 1] = e
  BY AppendProperties
<1>2. Len(s) \in Nat /\ Len(t) \in Nat
  OBVIOUS
<1> HIDE DEF u, v
<1>3. ASSUME NEW n \in Nat, n < Len(u), n < Len(v) PROVE u[Len(u) - n] = v[Len(v) - n]
  <2>1. CASE n = 0
    BY <2>1, <1>1, <1>2
  <2>2. CASE n # 0
    <3>1. n - 1 \in Nat /\ n - 1 < Len(s) /\ n - 1 < Len(t)
      BY <2>2, <1>1, <1>2, <1>3
    <3>2. s[Len(s) - (n - 1)] = t[Len(t) - (n - 1)]
      BY <3>1 DEF SameEnd
    <3>3. /\ Len(u) - n = Len(s) - (n - 1) /\ Len(v) - n = Len(t) - (n - 1)
          /\ Len(s) - (n - 1) \in 1..Len(s) /\ Len(t) - (n - 1) \in 1..Len(t)
      BY <2>2, <3>1, <1>1, <1>2
    <3> QED
      BY <3>2, <3>3, <1>1
  <2> QED
    BY <2>1, <2>2
<1>4. SameEnd(u, v)
  BY <1>3 DEF SameEnd
<1> QED
  BY <1>4 DEF u, v

\* imu_cbk clears both buffers or none.
LEMMA RealtimeInvImu ==
  ASSUME ImuInv, RealtimeInv, NEW stamp \in ImuStamps, imu_cbk(stamp)
  PROVE  RealtimeInv'
<1> DEFINE rt  == Kept(realtime_imu_buffer, stamp, last_timestamp_imu)
           imu == Kept(imu_buffer, stamp, last_timestamp_imu)
<1>1. /\ realtime_imu_buffer' = Append(rt, stamp) /\ imu_buffer' = Append(imu, stamp)
      /\ last_timestamp_imu' = stamp
  BY DEF imu_cbk, BufferImu
<1>2. /\ rt \in Seq(ImuStamps) /\ imu \in Seq(ImuStamps) /\ SameEnd(rt, imu)
      /\ \A i, j \in 1..Len(rt) : i < j => rt[i] <= rt[j]
      /\ \A i \in 1..Len(rt) : rt[i] <= stamp
  <2>1. CASE stamp < last_timestamp_imu
    <3>1. rt = <<>> /\ imu = <<>>
      BY <2>1 DEF Kept
    <3>2. \A n \in Nat : ~(n < Len(<<>>))
      BY EmptySeq
    <3> QED
      BY <3>1, <3>2, EmptySeq DEF SameEnd
  <2>2. CASE ~(stamp < last_timestamp_imu)
    <3>1. rt = realtime_imu_buffer /\ imu = imu_buffer
      BY <2>2 DEF Kept
    <3>2. last_timestamp_imu <= stamp /\ last_timestamp_imu \in Int /\ stamp \in Int
      BY <2>2, StampTypes DEF ImuInv
    <3>3. \A i \in 1..Len(realtime_imu_buffer) :
            realtime_imu_buffer[i] \in Int /\ realtime_imu_buffer[i] <= last_timestamp_imu
      BY StampTypes, ElementOfSeq DEF RealtimeInv
    <3>4. \A i \in 1..Len(realtime_imu_buffer) : realtime_imu_buffer[i] <= stamp
      BY <3>2, <3>3
    <3> HIDE DEF rt, imu
    <3> QED
      BY <3>1, <3>4 DEF RealtimeInv, ImuInv
  <2> QED
    BY <2>1, <2>2
<1> HIDE DEF rt, imu
<1>3. ImuStamps \in SUBSET Int
  BY StampTypes
<1>4. SameEnd(realtime_imu_buffer', imu_buffer')
  BY <1>1, <1>2, AppendSameEnd
<1>5. /\ realtime_imu_buffer' \in Seq(ImuStamps)
      /\ \A i, j \in 1..Len(realtime_imu_buffer') :
           i < j => realtime_imu_buffer'[i] <= realtime_imu_buffer'[j]
      /\ \A i \in 1..Len(realtime_imu_buffer') : realtime_imu_buffer'[i] <= stamp
  BY <1>1, <1>2, <1>3, AppendOrdered
<1> QED
  BY <1>1, <1>4, <1>5 DEF RealtimeInv

\* The main thread takes messages from the front: the ends stay.
LEMMA RealtimeInvHandOver ==
  ASSUME ImuInv, ScanTypes, RealtimeInv, HandOver
  PROVE  RealtimeInv'
<1> DEFINE k == ImuPopped(GroupTime)
<1>1. /\ k \in 0..Len(imu_buffer)
      /\ imu_buffer' \in Seq(ImuStamps) /\ Len(imu_buffer') = Len(imu_buffer) - k
      /\ \A i \in 1..Len(imu_buffer') : imu_buffer'[i] = imu_buffer[k + i]
  BY HandOverImu
<1>2. UNCHANGED <<realtime_imu_buffer, last_timestamp_imu>>
  BY DEF HandOver
<1> HIDE DEF k
<1>3. Len(imu_buffer) \in Nat /\ k \in Nat
  BY <1>1 DEF ImuInv
<1>4. ASSUME NEW n \in Nat, n < Len(realtime_imu_buffer'), n < Len(imu_buffer')
      PROVE  realtime_imu_buffer'[Len(realtime_imu_buffer') - n] = imu_buffer'[Len(imu_buffer') - n]
  <2>1. /\ n < Len(imu_buffer) /\ Len(imu_buffer') - n \in 1..Len(imu_buffer')
        /\ k + (Len(imu_buffer') - n) = Len(imu_buffer) - n
    BY <1>1, <1>3, <1>4
  <2>2. realtime_imu_buffer[Len(realtime_imu_buffer) - n] = imu_buffer[Len(imu_buffer) - n]
    BY <2>1, <1>2, <1>4 DEF RealtimeInv, SameEnd
  <2> QED
    BY <2>1, <2>2, <1>1, <1>2
<1>5. SameEnd(realtime_imu_buffer', imu_buffer')
  BY <1>4 DEF SameEnd
<1> QED
  BY <1>2, <1>5 DEF RealtimeInv

\* The thread takes a message from the front: the ends stay.
LEMMA RealtimeInvTake ==
  ASSUME ImuInv, RealtimeInv, RtTake
  PROVE  RealtimeInv'
<1>1. UNCHANGED <<imu_buffer, last_timestamp_imu>>
  BY DEF RtTake, ThreadStep
<1>2. CASE realtime_imu_buffer = <<>>
  <2>1. realtime_imu_buffer' = realtime_imu_buffer
    BY <1>2 DEF RtTake
  <2> QED
    BY <2>1, <1>1 DEF RealtimeInv
<1>3. CASE realtime_imu_buffer # <<>>
  <2> DEFINE old == realtime_imu_buffer
             new == realtime_imu_buffer'
  <2>1. /\ new \in Seq(ImuStamps) /\ Len(new) = Len(old) - 1
        /\ \A i \in 1..Len(new) : new[i] = old[i + 1]
    BY <1>3, HeadTailProperties DEF RtTake, RealtimeInv
  <2>2. /\ old \in Seq(ImuStamps) /\ Len(old) \in Nat
        /\ \A i, j \in 1..Len(old) : i < j => old[i] <= old[j]
        /\ \A i \in 1..Len(old) : old[i] <= last_timestamp_imu
        /\ SameEnd(old, imu_buffer)
    BY DEF RealtimeInv
  <2> HIDE DEF old, new
  <2>3. \A i \in 1..Len(new) : i + 1 \in 1..Len(old)
    BY <2>1, <2>2
  <2>4. ASSUME NEW i \in 1..Len(new), NEW j \in 1..Len(new), i < j PROVE new[i] <= new[j]
    <3>1. i + 1 < j + 1
      BY <2>4
    <3> QED
      BY <3>1, <2>1, <2>2, <2>3
  <2>5. \A i \in 1..Len(new) : new[i] <= last_timestamp_imu
    BY <2>1, <2>2, <2>3
  <2>6. ASSUME NEW n \in Nat, n < Len(new), n < Len(imu_buffer)
        PROVE  new[Len(new) - n] = imu_buffer[Len(imu_buffer) - n]
    <3>1. /\ n < Len(old) /\ Len(new) - n \in 1..Len(new)
          /\ (Len(new) - n) + 1 = Len(old) - n
      BY <2>1, <2>2, <2>6
    <3>2. old[Len(old) - n] = imu_buffer[Len(imu_buffer) - n]
      BY <3>1, <2>2, <2>6 DEF SameEnd
    <3> QED
      BY <3>1, <3>2, <2>1
  <2>7. SameEnd(new, imu_buffer)
    BY <2>6 DEF SameEnd
  <2> QED
    BY <1>1, <2>1, <2>4, <2>5, <2>7 DEF new, RealtimeInv
<1> QED
  BY <1>2, <1>3

\* UpdateRealtime copies the buffer, the other steps leave both alone.
LEMMA RealtimeInvStep ==
  ASSUME SyncInv, RealtimeInv, [Next]_vars
  PROVE  RealtimeInv'
<1> DEFINE Same == UNCHANGED <<realtime_imu_buffer, imu_buffer, last_timestamp_imu>>
<1>1. Same => RealtimeInv'
  BY DEF RealtimeInv
<1>2. ASSUME NEW stamp \in ScanStamps, standard_pcl_cbk(stamp) PROVE Same
  BY <1>2 DEF standard_pcl_cbk, BufferScan, imuVars
<1>3. TakeScan => Same
  BY DEF TakeScan, imuVars
<1>4. CASE UpdateRealtime
  <2>1. realtime_imu_buffer' = imu_buffer /\ UNCHANGED <<imu_buffer, last_timestamp_imu>>
    BY <1>4 DEF UpdateRealtime
  <2>2. SameEnd(imu_buffer, imu_buffer)
    BY DEF SameEnd
  <2> QED
    BY <2>1, <2>2, ImuBound DEF SyncInv, ImuInv, RealtimeInv
<1>5. RtSkip \/ RtBegin \/ RtEnter \/ RtTest \/ SetFirstEkf \/ SetUpdated => Same
  BY DEF RtSkip, RtBegin, RtEnter, RtTest, ThreadStep, SetFirstEkf, SetUpdated, SetFlag, imuVars
<1>6. UNCHANGED vars => Same
  BY DEF vars, imuVars
<1> HIDE DEF Same
<1> QED
  BY <1>1, <1>2, <1>3, <1>4, <1>5, <1>6, RealtimeInvImu, RealtimeInvHandOver, RealtimeInvTake
  DEF Next, Callbacks, MainLoop, Realtime, SyncInv

\* Both buffers are empty.
LEMMA InitRealtimeInv == Init => RealtimeInv
<1> SUFFICES ASSUME Init PROVE RealtimeInv
  OBVIOUS
<1>1. realtime_imu_buffer = <<>> /\ realtime_imu_buffer \in Seq(ImuStamps)
  BY EmptySeq DEF Init
<1>2. Len(realtime_imu_buffer) = 0
  BY <1>1, EmptySeq
<1> QED
  BY <1>1, <1>2 DEF RealtimeInv, SameEnd

(***************************************************************************)
(* RealtimeKeepsUp: whatever the main thread hands over and the realtime   *)
(* thread takes, their buffers end in the same messages, in order.         *)
(***************************************************************************)
THEOREM RealtimeKeepsUpHolds == Spec => []RealtimeKeepsUp
<1>1. SyncInv /\ RealtimeInv => RealtimeKeepsUp
  <2> SUFFICES ASSUME SyncInv, RealtimeInv PROVE RealtimeKeepsUp
    OBVIOUS
  <2>1. /\ realtime_imu_buffer \in Seq(ImuStamps) /\ imu_buffer \in Seq(ImuStamps)
        /\ SameEnd(realtime_imu_buffer, imu_buffer)
    BY DEF SyncInv, ImuInv, RealtimeInv
  <2>2. SameEnd(imu_buffer, realtime_imu_buffer)
    BY <2>1 DEF SameEnd
  <2>3. \/ Len(realtime_imu_buffer) <= Len(imu_buffer)
        \/ Len(imu_buffer) <= Len(realtime_imu_buffer)
    BY <2>1
  <2>4. \/ IsSuffix(realtime_imu_buffer, imu_buffer)
        \/ IsSuffix(imu_buffer, realtime_imu_buffer)
    BY <2>1, <2>2, <2>3, SuffixFromEnd
  <2> QED
    BY <2>4 DEF RealtimeInv, RealtimeKeepsUp
<1> QED
  BY <1>1, InitRealtimeInv, RealtimeInvStep, SyncInvHolds, PTL DEF Spec
-----------------------------------------------------------------------------
\* The interval to a message that is not older than the last scan.
LEMMA IntervalValue ==
  ASSUME NEW head \in Int, NEW tail \in Int, last_lidar_end_time_ \in Int,
         last_lidar_end_time_ <= tail
  PROVE  /\ head <= last_lidar_end_time_ => 0 + Interval(head, tail) = tail - last_lidar_end_time_
         /\ last_lidar_end_time_ <= head =>
              (head - last_lidar_end_time_) + Interval(head, tail) = tail - last_lidar_end_time_
BY DEF Interval

\* The intervals up to a message that is not older than the last scan reach back to that scan.
LEMMA IntervalTimes ==
  ASSUME NEW v \in Seq(Int), last_lidar_end_time_ \in Int,
         v[1] <= last_lidar_end_time_, \A i \in 2..Len(v) : last_lidar_end_time_ <= v[i]
  PROVE  \A i \in 1..(Len(v) - 1) : IntervalTime(v)[i] = v[i + 1] - last_lidar_end_time_
<1> DEFINE L    == last_lidar_end_time_
           D    == 0..(Len(v) - 1)
           F(g) == [i \in D |-> IF i = 0 THEN 0 ELSE g[i - 1] + Interval(v[i], v[i + 1])]
           h    == [i \in D |-> IF i = 0 THEN 0 ELSE v[i + 1] - L]
           T    == IntervalTime(v)
<1>1. Len(v) \in Nat /\ \A i \in 1..Len(v) : v[i] \in Int
  BY ElementOfSeq
<1>2. ASSUME NEW i \in D, i # 0
      PROVE  /\ i - 1 \in D /\ v[i + 1] - L \in Int
             /\ h[i - 1] + Interval(v[i], v[i + 1]) = v[i + 1] - L
  <2>1. /\ i - 1 \in D /\ i \in 1..Len(v) /\ i + 1 \in 2..Len(v) /\ i + 1 \in 1..Len(v)
        /\ v[i] \in Int /\ v[i + 1] \in Int /\ L \in Int /\ L <= v[i + 1]
    BY <1>1, <1>2
  <2>2. h[i - 1] = IF i = 1 THEN 0 ELSE v[i] - L
    <3>1. h[i - 1] = IF i - 1 = 0 THEN 0 ELSE v[(i - 1) + 1] - L
      BY <2>1
    <3>2. (i - 1) + 1 = i /\ (i - 1 = 0 <=> i = 1)
      BY <2>1
    <3> HIDE DEF h
    <3> QED BY <3>1, <3>2
  <2> HIDE DEF h
  <2>3. ASSUME i = 1 PROVE h[i - 1] + Interval(v[i], v[i + 1]) = v[i + 1] - L
    <3>1. v[i] <= L
      BY <2>3
    <3>2. 0 + Interval(v[i], v[i + 1]) = v[i + 1] - L
      BY <2>1, <3>1, IntervalValue
    <3> QED
      BY <2>2, <2>3, <3>2, Zenon
  <2>4. ASSUME i # 1 PROVE h[i - 1] + Interval(v[i], v[i + 1]) = v[i + 1] - L
    <3>1. L <= v[i]
      BY <2>1, <2>4
    <3>2. (v[i] - L) + Interval(v[i], v[i + 1]) = v[i + 1] - L
      BY <2>1, <3>1, IntervalValue
    <3> QED
      BY <2>2, <2>4, <3>2, Zenon
  <2>5. v[i + 1] - L \in Int
    BY <2>1
  <2> QED
    BY <2>1, <2>3, <2>4, <2>5, Zenon
<1>3. h = F(h)
  <2>1. ASSUME NEW i \in D PROVE h[i] = IF i = 0 THEN 0 ELSE h[i - 1] + Interval(v[i], v[i + 1])
    BY <1>2
  <2> QED
    BY <2>1, Zenon
<1>4. T = F(T)
  <2>1. T = CHOOSE g : g = F(g)
    BY Zenon DEF IntervalTime
  <2> HIDE DEF F, h, T
  <2> QED
    BY <1>3, <2>1, Zenon
<1>5. ASSUME NEW i \in D PROVE T[i] = IF i = 0 THEN 0 ELSE T[i - 1] + Interval(v[i], v[i + 1])
  <2> HIDE DEF T
  <2> QED BY <1>4, Zenon
<1> HIDE DEF T
<1>6. ASSUME NEW j \in D, T[j] # h[j] PROVE FALSE
  <2> DEFINE Wrong == {i \in D : T[i] # h[i]}
  <2>1. Wrong \in SUBSET Nat /\ Wrong # {}
    BY <1>1, <1>6
  <2>2. PICK m \in Wrong : \A n \in Wrong : m <= n
    <3> HIDE DEF Wrong
    <3> QED BY <2>1, SmallestOf
  <2>3. m \in D /\ T[m] # h[m]
    OBVIOUS
  <2>4. m # 0
    <3>1. m = 0 => T[m] = 0 /\ h[m] = 0
      BY <2>3, <1>5
    <3> QED BY <2>3, <3>1
  <2>5. m - 1 \in D /\ h[m] = h[m - 1] + Interval(v[m], v[m + 1])
    <3>1. h[m] = v[m + 1] - L
      BY <2>3, <2>4
    <3> QED BY <1>2, <2>3, <2>4, <3>1
  <2>6. m - 1 \notin Wrong
    BY <2>2, <2>3, <1>1
  <2>7. T[m - 1] = h[m - 1]
    <3> HIDE DEF h
    <3> QED BY <2>5, <2>6
  <2> HIDE DEF h, Wrong
  <2> QED
    BY <1>5, <2>3, <2>4, <2>5, <2>7, Zenon
<1>7. ASSUME NEW i \in 1..(Len(v) - 1) PROVE T[i] = v[i + 1] - last_lidar_end_time_
  <2>1. i \in D /\ i # 0
    BY <1>1
  <2>2. h[i] = v[i + 1] - last_lidar_end_time_
    BY <2>1
  <2> HIDE DEF h, D
  <2> QED BY <1>6, <2>1, <2>2
<1> QED
  BY <1>7 DEF T

\* Intervals cut at the end of the scan before, and the rest to the end of this one, add up.
LEMMA PropagatedToEnd ==
  ASSUME NEW end \in Int, NEW imu \in Seq(Int), imu # <<>>,
         last_imu_ \in Int, last_lidar_end_time_ \in Int, last_imu_ <= last_lidar_end_time_,
         \A i \in 1..Len(imu) : last_lidar_end_time_ <= imu[i] /\ imu[i] <= end
  PROVE  Propagated(imu, end) = end - last_lidar_end_time_
<1> DEFINE v == <<last_imu_>> \o imu
<1>1. Len(imu) \in Nat \ {0}
  BY EmptySeq
<1>2. v \in Seq(Int) /\ Len(v) = Len(imu) + 1 /\ v[1] = last_imu_
      /\ \A i \in 1..Len(imu) : v[i + 1] = imu[i]
  <2>1. <<last_imu_>> \in Seq(Int) /\ Len(<<last_imu_>>) = 1 /\ <<last_imu_>>[1] = last_imu_
    OBVIOUS
  <2>2. /\ v \in Seq(Int) /\ Len(v) = 1 + Len(imu)
        /\ \A i \in 1..(1 + Len(imu)) : v[i] = IF i <= 1 THEN <<last_imu_>>[i] ELSE imu[i - 1]
    BY <2>1, ConcatProperties
  <2> HIDE DEF v
  <2>3. 1 \in 1..(1 + Len(imu)) /\ \A i \in 1..Len(imu) : i + 1 \in 1..(1 + Len(imu)) /\ ~(i + 1 <= 1) /\ (i + 1) - 1 = i
    BY <1>1
  <2> QED
    BY <1>1, <2>1, <2>2, <2>3
<1>3. Propagated(imu, end) = IntervalTime(v)[Len(imu)]
        + (IF end > v[Len(v)] THEN end - v[Len(v)] ELSE v[Len(v)] - end)
  BY DEF Propagated
<1> HIDE DEF v
<1>4. \A i \in 2..Len(v) : last_lidar_end_time_ <= v[i]
  <2> SUFFICES ASSUME NEW i \in 2..Len(v) PROVE last_lidar_end_time_ <= v[i]
    OBVIOUS
  <2>1. i - 1 \in 1..Len(imu) /\ (i - 1) + 1 = i
    BY <1>1, <1>2
  <2>2. v[i] = imu[i - 1]
    BY <2>1, <1>2
  <2> QED BY <2>1, <2>2
<1>5. /\ Len(imu) \in 1..(Len(v) - 1) /\ Len(imu) \in 1..Len(imu) /\ Len(imu) + 1 = Len(v)
      /\ v[Len(v)] = imu[Len(imu)] /\ imu[Len(imu)] \in Int /\ imu[Len(imu)] <= end
  BY <1>1, <1>2, ElementOfSeq
<1>6. IntervalTime(v)[Len(imu)] = imu[Len(imu)] - last_lidar_end_time_
  BY <1>2, <1>4, <1>5, IntervalTimes
<1> QED
  BY <1>3, <1>5, <1>6

-----------------------------------------------------------------------------
\* The filter has reached the scan before the data that is left: no message in the buffer
\* and no scan that waits is older.
FilterInv ==
  /\ last_imu_ \in Int /\ last_lidar_end_time_ \in Int
  /\ imu_need_init_ => kf_time = Unset
  /\ looped = {} /\ kf_time # Unset =>
       /\ kf_time = last_lidar_end_time_
       /\ last_imu_ <= last_lidar_end_time_
       /\ last_lidar_end_time_ <= last_timestamp_imu
       /\ last_lidar_end_time_ <= last_timestamp_lidar
       /\ \A i \in 1..Len(imu_buffer) : last_lidar_end_time_ <= imu_buffer[i]
       /\ \A i \in 1..Len(time_buffer) : last_lidar_end_time_ <= time_buffer[i]

\* The filter has not been propagated.
LEMMA FilterInvInit == Init => FilterInv
<1> SUFFICES ASSUME Init PROVE FilterInv
  OBVIOUS
<1>1. last_imu_ = 0 /\ kf_time = Unset /\ Unset = -1
  BY DEF Init, Unset
<1>2. last_lidar_end_time_ \in Int
  BY LioAssumption DEF Init
<1> QED
  BY <1>1, <1>2 DEF FilterInv

\* A scan that is not older than the one before is not older than the filter.
LEMMA FilterInvScan ==
  ASSUME SyncInv, FilterInv, NEW stamp \in ScanStamps, standard_pcl_cbk(stamp)
  PROVE  FilterInv'
<1>1. UNCHANGED <<last_imu_, last_lidar_end_time_, kf_time, imu_need_init_, imu_buffer, last_timestamp_imu>>
  BY DEF standard_pcl_cbk, BufferScan, filterVars, imuVars
<1>2. ASSUME looped' = {}, kf_time # Unset
      PROVE  /\ last_lidar_end_time_ <= last_timestamp_lidar'
             /\ \A i \in 1..Len(time_buffer') : last_lidar_end_time_ <= time_buffer'[i]
             /\ looped = {}
  <2>1. /\ last_timestamp_lidar <= stamp /\ last_timestamp_lidar' = stamp
        /\ time_buffer' = Append(time_buffer, stamp)
    BY <1>2, ScanInTime DEF SyncInv
  <2>2. looped = {}
    BY <1>2 DEF standard_pcl_cbk, BufferScan, InTime
  <2>3. /\ last_lidar_end_time_ \in Int /\ last_lidar_end_time_ <= last_timestamp_lidar
        /\ \A i \in 1..Len(time_buffer) : last_lidar_end_time_ <= time_buffer[i]
    BY <1>2, <2>2 DEF FilterInv
  <2>4. stamp \in Int /\ last_timestamp_lidar \in Int
    BY StampTypes DEF SyncInv, ScanTypes
  <2>5. last_lidar_end_time_ <= stamp
    BY <2>1, <2>3, <2>4
  <2>6. /\ Len(time_buffer') = Len(time_buffer) + 1 /\ Len(time_buffer) \in Nat
        /\ \A i \in 1..Len(time_buffer) : time_buffer'[i] = time_buffer[i]
        /\ time_buffer'[Len(time_buffer) + 1] = stamp
    BY <2>1, AppendProperties DEF SyncInv, ScanTypes
  <2>7. \A i \in 1..Len(time_buffer') : i \in 1..Len(time_buffer) \/ i = Len(time_buffer) + 1
    BY <2>6
  <2> QED
    BY <2>1, <2>2, <2>3, <2>5, <2>6, <2>7
<1> QED
  BY <1>1, <1>2 DEF FilterInv

\* A message that is not older than the one before is not older than the filter.
LEMMA FilterInvImu ==
  ASSUME SyncInv, FilterInv, NEW stamp \in ImuStamps, imu_cbk(stamp)
  PROVE  FilterInv'
<1>1. UNCHANGED <<last_imu_, last_lidar_end_time_, kf_time, imu_need_init_, time_buffer, last_timestamp_lidar>>
  BY DEF imu_cbk, BufferImu, filterVars, lidarVars
<1>2. ASSUME looped' = {}, kf_time # Unset
      PROVE  /\ last_lidar_end_time_ <= last_timestamp_imu'
             /\ \A i \in 1..Len(imu_buffer') : last_lidar_end_time_ <= imu_buffer'[i]
             /\ looped = {}
  <2>1. ~(stamp < last_timestamp_imu) /\ looped = {}
    BY <1>2 DEF imu_cbk, BufferImu, InTime
  <2>2. last_timestamp_imu' = stamp /\ imu_buffer' = Append(imu_buffer, stamp)
    BY <2>1 DEF imu_cbk, BufferImu, Kept
  <2>3. /\ last_lidar_end_time_ \in Int /\ last_lidar_end_time_ <= last_timestamp_imu
        /\ \A i \in 1..Len(imu_buffer) : last_lidar_end_time_ <= imu_buffer[i]
    BY <1>2, <2>1 DEF FilterInv
  <2>4. stamp \in Int /\ last_timestamp_imu \in Int
    BY StampTypes DEF SyncInv, ImuInv
  <2>5. last_lidar_end_time_ <= stamp
    BY <2>1, <2>3, <2>4
  <2>6. /\ Len(imu_buffer') = Len(imu_buffer) + 1 /\ Len(imu_buffer) \in Nat
        /\ \A i \in 1..Len(imu_buffer) : imu_buffer'[i] = imu_buffer[i]
        /\ imu_buffer'[Len(imu_buffer) + 1] = stamp
    BY <2>2, AppendProperties DEF SyncInv, ImuInv
  <2>7. \A i \in 1..Len(imu_buffer') : i \in 1..Len(imu_buffer) \/ i = Len(imu_buffer) + 1
    BY <2>6
  <2> QED
    BY <2>1, <2>2, <2>3, <2>5, <2>6, <2>7
<1> QED
  BY <1>1, <1>2 DEF FilterInv

\* What HandOver does to the data that waits, and what the scan's end is.
LEMMA HandOverLeaves ==
  ASSUME SyncInv, HandOver, looped = {}
  PROVE  LET end == GroupTime
         IN  /\ end \in Int /\ end <= last_timestamp_imu' /\ end <= last_timestamp_lidar'
             /\ \A i \in 1..Len(imu_buffer') : end <= imu_buffer'[i]
             /\ \A i \in 1..Len(time_buffer') : end <= time_buffer'[i]
             /\ end = time_buffer[1] /\ 1 \in 1..Len(time_buffer)
<1> DEFINE end == GroupTime
           k   == ImuPopped(end)
<1>1. /\ BuffersFilled /\ lidar_buffer # <<>> /\ time_buffer' = Tail(time_buffer)
      /\ last_timestamp_imu >= end
      /\ UNCHANGED <<last_timestamp_imu, last_timestamp_lidar>>
  BY DEF HandOver, BuffersFilled
<1>2. /\ time_buffer # <<>> /\ end \in Int
      /\ end = time_buffer[1] /\ 1 \in 1..Len(time_buffer)
  BY <1>1, GroupTypes, GroupTimeIsHead DEF SyncInv
<1>3. /\ k \in 0..Len(imu_buffer) /\ Len(imu_buffer') = Len(imu_buffer) - k
      /\ \A i \in 1..Len(imu_buffer') : imu_buffer'[i] = imu_buffer[k + i]
  BY HandOverImu DEF SyncInv
<1>4. \A i \in (k + 1)..Len(imu_buffer) : end <= imu_buffer[i]
  <2>1. \A i \in (k + 1)..Len(imu_buffer) : imu_buffer[i] >= end
    BY <1>2, PoppedFacts DEF SyncInv
  <2> HIDE DEF k, end
  <2> QED BY <2>1
<1>5. /\ Len(time_buffer') = Len(time_buffer) - 1
      /\ \A i \in 1..Len(time_buffer') : time_buffer'[i] = time_buffer[i + 1]
  BY <1>1, <1>2, HeadTailProperties DEF SyncInv, ScanTypes
<1>6. Len(imu_buffer) \in Nat /\ Len(time_buffer) \in Nat
  BY DEF SyncInv, ImuInv, ScanTypes
<1>7. /\ \A i, j \in 1..Len(time_buffer) : i < j => time_buffer[i] <= time_buffer[j]
      /\ time_buffer[1] <= last_timestamp_lidar
  BY <1>2 DEF SyncInv, TimeInv
<1> HIDE DEF k, end
<1>8. \A i \in 1..Len(imu_buffer') : k + i \in (k + 1)..Len(imu_buffer)
  BY <1>3, <1>6
<1>9. \A i \in 1..Len(time_buffer') : i + 1 \in 1..Len(time_buffer) /\ 1 < i + 1
  BY <1>5, <1>6
<1>10. \A i \in 1..Len(imu_buffer') : end <= imu_buffer'[i]
  BY <1>3, <1>4, <1>8
<1>11. \A i \in 1..Len(time_buffer') : end <= time_buffer'[i]
  BY <1>2, <1>5, <1>7, <1>9
<1>12. end <= last_timestamp_imu' /\ end <= last_timestamp_lidar'
  <2>1. last_timestamp_imu \in Int
    BY StampTypes DEF SyncInv, ImuInv
  <2> QED BY <1>1, <1>2, <1>7, <2>1
<1> QED
  BY <1>2, <1>10, <1>11, <1>12 DEF end

\* The IMU data that sync_packages hands over with the scan.
LEMMA HandedOver ==
  ASSUME SyncInv, HandOver, NEW imu, imu = SubSeq(imu_buffer, 1, ImuPopped(GroupTime))
  PROVE  /\ GroupTime \in Int /\ imu \in Seq(Int) /\ Len(imu) \in 0..Len(imu_buffer)
         /\ \A i \in 1..Len(imu) : imu[i] = imu_buffer[i] /\ imu[i] <= GroupTime
         /\ imu # <<>> => imu[Len(imu)] \in Int /\ imu[Len(imu)] <= GroupTime
<1>1. GroupTime \in Int /\ imu = meas_imu'
  BY GroupTypes DEF SyncInv, HandOver
<1>2. /\ Len(imu) = ImuPopped(GroupTime) /\ Len(imu) \in 0..Len(imu_buffer)
      /\ \A i \in 1..Len(imu) : imu[i] = imu_buffer[i]
      /\ \A i \in 1..Len(imu) : imu_buffer[i] <= GroupTime
  BY <1>1, HandOverImu, PoppedFacts DEF SyncInv
<1>3. Len(imu_buffer) \in Nat /\ \A i \in 1..Len(imu_buffer) : imu_buffer[i] \in Int
  BY StampTypes, ElementOfSeq DEF SyncInv, ImuInv
<1>4. \A i \in 1..Len(imu) : i \in 1..Len(imu_buffer)
  <2> DEFINE n == Len(imu)
  <2>1. n \in 0..Len(imu_buffer)
    BY <1>2
  <2> HIDE DEF n
  <2>2. \A i \in 1..n : i \in 1..Len(imu_buffer)
    BY <2>1, <1>3
  <2> QED
    BY <2>2 DEF n
<1>5. imu \in Seq(Int)
  <2>1. \A i \in 1..ImuPopped(GroupTime) : imu_buffer[i] \in Int
    BY <1>2, <1>3, <1>4
  <2>2. 1 \in Int /\ ImuPopped(GroupTime) \in Int
    <3>1. ImuPopped(GroupTime) \in 0..Len(imu_buffer)
      BY <1>2, Zenon
    <3> QED
      BY <3>1, <1>3
  <2> QED
    BY <2>1, <2>2, SubSeqProperties
<1>6. ASSUME imu # <<>> PROVE imu[Len(imu)] \in Int /\ imu[Len(imu)] <= GroupTime
  <2>1. Len(imu) \in 1..Len(imu)
    BY <1>5, <1>6, EmptySeq
  <2> QED
    BY <2>1, <1>2, <1>3, <1>4
<1> QED
  BY <1>1, <1>2, <1>5, <1>6

\* UndistortPcl takes the filter to the end of the scan.
LEMMA UndistortReaches ==
  ASSUME SyncInv, FilterInv, HandOver, looped = {},
         NEW imu, imu = SubSeq(imu_buffer, 1, ImuPopped(GroupTime)), imu # <<>>,
         UndistortPcl(GroupTime, imu)
  PROVE  /\ kf_time' = last_lidar_end_time_' /\ last_lidar_end_time_' = GroupTime
         /\ last_imu_' \in Int /\ last_imu_' <= GroupTime
<1>1. /\ GroupTime \in Int /\ imu \in Seq(Int) /\ Len(imu) \in 0..Len(imu_buffer)
      /\ \A i \in 1..Len(imu) : imu[i] = imu_buffer[i] /\ imu[i] <= GroupTime
      /\ imu[Len(imu)] \in Int /\ imu[Len(imu)] <= GroupTime
  BY HandedOver
<1>2. /\ last_lidar_end_time_' = GroupTime /\ last_imu_' = imu[Len(imu)]
      /\ kf_time' = IF kf_time = Unset THEN GroupTime ELSE kf_time + Propagated(imu, GroupTime)
  BY DEF UndistortPcl
<1>3. last_imu_' \in Int /\ last_imu_' <= GroupTime
  BY <1>1, <1>2
<1>4. kf_time' = GroupTime
  <2>1. CASE kf_time = Unset
    BY <2>1, <1>2
  <2>2. CASE kf_time # Unset
    <3>1. /\ kf_time = last_lidar_end_time_ /\ last_imu_ <= last_lidar_end_time_
          /\ last_imu_ \in Int /\ last_lidar_end_time_ \in Int
          /\ \A i \in 1..Len(imu_buffer) : last_lidar_end_time_ <= imu_buffer[i]
      BY <2>2 DEF FilterInv
    <3>2. \A i \in 1..Len(imu) : i \in 1..Len(imu_buffer)
      BY <1>1
    <3>3. \A i \in 1..Len(imu) : last_lidar_end_time_ <= imu[i] /\ imu[i] <= GroupTime
      BY <1>1, <3>1, <3>2
    <3>4. Propagated(imu, GroupTime) = GroupTime - last_lidar_end_time_
      BY <1>1, <3>1, <3>3, PropagatedToEnd
    <3>5. kf_time' = last_lidar_end_time_ + (GroupTime - last_lidar_end_time_)
      BY <2>2, <1>2, <3>1, <3>4
    <3> QED
      BY <3>1, <3>5, <1>1
  <2> QED
    BY <2>1, <2>2
<1> QED
  BY <1>2, <1>3, <1>4

\* A scan without IMU data, and one that initialises the filter, leave the end where it was.
LEMMA FilterInvHandOver ==
  ASSUME SyncInv, FilterInv, HandOver, [Next]_vars
  PROVE  FilterInv'
<1> DEFINE imu == SubSeq(imu_buffer, 1, ImuPopped(GroupTime))
           Ahead == /\ last_lidar_end_time_' <= last_timestamp_imu'
                    /\ last_lidar_end_time_' <= last_timestamp_lidar'
                    /\ \A i \in 1..Len(imu_buffer') : last_lidar_end_time_' <= imu_buffer'[i]
                    /\ \A i \in 1..Len(time_buffer') : last_lidar_end_time_' <= time_buffer'[i]
<1>1. looped' = looped /\ (SkipFirstScan \/ ProcessScan(GroupTime, imu))
  BY DEF HandOver, inputVars
<1> HIDE DEF imu
<1>2. \/ UNCHANGED <<last_imu_, last_lidar_end_time_, kf_time, imu_need_init_>>
      \/ imu # <<>> /\ IMU_init(imu)
      \/ imu # <<>> /\ UndistortPcl(GroupTime, imu)
  BY <1>1 DEF SkipFirstScan, ProcessScan, Process, filterVars
<1>3. imu # <<>> => imu[Len(imu)] \in Int
  BY HandedOver DEF imu
<1>4. ASSUME looped = {}, last_lidar_end_time_' \in Int, last_lidar_end_time_' <= GroupTime
      PROVE  Ahead
  <2>1. GroupTime \in Int
    BY <1>4, HandOverLeaves
  <2>2. /\ GroupTime <= last_timestamp_imu' /\ GroupTime <= last_timestamp_lidar'
        /\ \A i \in 1..Len(imu_buffer') : GroupTime <= imu_buffer'[i]
        /\ \A i \in 1..Len(time_buffer') : GroupTime <= time_buffer'[i]
    BY <1>4, HandOverLeaves
  <2>3. /\ last_timestamp_imu' \in Int /\ last_timestamp_lidar' \in Int
        /\ \A i \in 1..Len(imu_buffer') : imu_buffer'[i] \in Int
        /\ \A i \in 1..Len(time_buffer') : time_buffer'[i] \in Int
    BY ImuInvHandOver, ScanTypesStep, StampTypes, ElementOfSeq DEF SyncInv, ImuInv, ScanTypes
  <2> QED
    BY <1>4, <2>1, <2>2, <2>3
<1>5. CASE UNCHANGED <<last_imu_, last_lidar_end_time_, kf_time, imu_need_init_>>
  <2>1. ASSUME looped = {}, kf_time # Unset PROVE Ahead
    <3>1. last_lidar_end_time_ \in Int /\ last_lidar_end_time_ <= GroupTime
      BY <2>1, HandOverLeaves DEF FilterInv
    <3> QED
      BY <1>4, <1>5, <2>1, <3>1
  <2> QED
    BY <1>1, <1>5, <2>1 DEF FilterInv
<1>6. CASE imu # <<>> /\ IMU_init(imu)
  <2>1. kf_time = Unset /\ UNCHANGED <<last_lidar_end_time_, kf_time>> /\ last_imu_' \in Int
    BY <1>3, <1>6 DEF IMU_init, FilterInv
  <2> QED
    BY <2>1 DEF FilterInv
<1>7. CASE imu # <<>> /\ UndistortPcl(GroupTime, imu)
  <2>1. ~imu_need_init_' /\ last_lidar_end_time_' = GroupTime /\ last_imu_' = imu[Len(imu)]
    BY <1>7 DEF UndistortPcl, ProcessScan
  <2>2. GroupTime \in Int /\ last_imu_' \in Int
    BY <2>1, <1>3, <1>7, GroupTypes DEF SyncInv, HandOver
  <2>3. ASSUME looped = {}
        PROVE  kf_time' = last_lidar_end_time_' /\ last_imu_' <= last_lidar_end_time_' /\ Ahead
    <3>1. kf_time' = last_lidar_end_time_' /\ last_imu_' <= GroupTime
      BY <2>3, <1>7, UndistortReaches DEF imu
    <3>2. Ahead
      BY <2>1, <2>2, <2>3, <1>4
    <3> QED
      BY <2>1, <3>1, <3>2
  <2> QED
    BY <1>1, <2>1, <2>2, <2>3 DEF FilterInv
<1> QED
  BY <1>2, <1>5, <1>6, <1>7

\* The realtime thread and the other steps leave the filter alone.
LEMMA FilterInvStep ==
  ASSUME SyncInv, FilterInv, [Next]_vars
  PROVE  FilterInv'
<1> DEFINE Same == UNCHANGED <<last_imu_, last_lidar_end_time_, kf_time, imu_need_init_, looped,
                               last_timestamp_imu, last_timestamp_lidar, imu_buffer, time_buffer>>
<1>1. Same => FilterInv'
  BY DEF FilterInv
<1>2. TakeScan => Same
  BY DEF TakeScan, lidarVars, imuVars, filterVars, inputVars
<1>3. UpdateRealtime \/ SetFirstEkf \/ SetUpdated => Same
  BY DEF UpdateRealtime, SetFirstEkf, SetUpdated, SetFlag, lidarVars, imuVars, filterVars, inputVars
<1>4. Realtime => Same
  BY DEF Realtime, RtSkip, RtBegin, RtEnter, RtTest, RtTake, ThreadStep, lidarVars, filterVars, inputVars
<1>5. UNCHANGED vars => Same
  BY DEF vars, lidarVars, imuVars, filterVars, inputVars
<1> HIDE DEF Same
<1> QED
  BY <1>1, <1>2, <1>3, <1>4, <1>5, FilterInvScan, FilterInvImu, FilterInvHandOver
  DEF Next, Callbacks, MainLoop

(***************************************************************************)
(* FilterReachesScan: the filter is propagated to the end of the scan,     *)
(* although the intervals that UndistortPcl adds up begin before the scan  *)
(* and scans without IMU data come in between.                             *)
(***************************************************************************)
THEOREM FilterReachesScanHolds == Spec => []FilterReachesScan
<1>1. FilterInv => FilterReachesScan
  BY DEF FilterInv, FilterReachesScan
<1>2. SyncInv /\ FilterInv /\ [Next]_vars => FilterInv'
  BY FilterInvStep
<1> QED
  BY <1>1, <1>2, FilterInvInit, SyncInvHolds, PTL DEF Spec

(* An IMU message leaves something in the realtime thread's buffer.        *)
LEMMA ImuFillsRealtime ==
  ASSUME RealtimeInv, NEW stamp \in ImuStamps, imu_cbk(stamp)
  PROVE  realtime_imu_buffer' # <<>>
<1> DEFINE rt == Kept(realtime_imu_buffer, stamp, last_timestamp_imu)
<1>1. rt \in Seq(ImuStamps)
  BY EmptySeq DEF Kept, RealtimeInv
<1>2. realtime_imu_buffer' = Append(rt, stamp)
  BY DEF imu_cbk, BufferImu
<1> HIDE DEF rt
<1> QED
  BY <1>1, <1>2, AppendProperties

(***************************************************************************)
(* EmptyReadAfterUpdate: in every interleaving of the two threads only an  *)
(* update of the filter makes one of them read an empty deque, between the *)
(* moment it replaces the buffer and the one the thread sees the flag.     *)
(***************************************************************************)
THEOREM EmptyReadAfterUpdateHolds == Spec => []EmptyReadAfterUpdate
<1>1. Init => EmptyReadAfterUpdate
  BY DEF Init, EmptyReadAfterUpdate
<1>2. ASSUME RealtimeInv, EmptyReadAfterUpdate, [Next]_vars
      PROVE  EmptyReadAfterUpdate'
  <2> USE <1>2 DEF EmptyReadAfterUpdate, UpdateUnseen
  <2>1. CASE UNCHANGED <<alive, rt_pc, realtime_imu_buffer, flg_updated, main_pc>>
    BY <2>1
  <2>2. ASSUME NEW stamp \in ImuStamps, imu_cbk(stamp), alive
        PROVE  EmptyReadAfterUpdate'
    BY <2>2, ImuFillsRealtime DEF imu_cbk, BufferImu
  <2>3. CASE UpdateRealtime
    BY <2>3 DEF UpdateRealtime
  <2>4. CASE SetFirstEkf
    BY <2>4 DEF SetFirstEkf, SetFlag, imuVars
  <2>5. CASE SetUpdated
    BY <2>5 DEF SetUpdated, SetFlag
  <2>6. CASE RtSkip /\ alive
    BY <2>6 DEF RtSkip
  <2>7. CASE (RtBegin \/ RtEnter \/ RtTest) /\ alive
    BY <2>7 DEF RtBegin, RtEnter, RtTest
  <2>8. CASE RtTake
    BY <2>8 DEF RtTake, ThreadStep, matchVars
  <2>9. ASSUME NEW stamp \in ScanStamps, standard_pcl_cbk(stamp)
        PROVE  EmptyReadAfterUpdate'
    BY <2>1, <2>9 DEF standard_pcl_cbk, BufferScan, imuVars, threadVars, matchVars
  <2>10. CASE TakeScan
    BY <2>1, <2>10 DEF TakeScan, imuVars, threadVars, matchVars
  <2>11. CASE HandOver
    <3>1. main_pc = "spin" /\ UNCHANGED <<alive, rt_pc, realtime_imu_buffer, flg_updated>>
      BY <2>11 DEF HandOver, threadVars
    <3> QED
      BY <3>1
  <2>12. CASE UNCHANGED vars
    BY <2>1, <2>12 DEF vars, imuVars, threadVars, matchVars
  <2> QED
    BY <2>2, <2>3, <2>4, <2>5, <2>6, <2>7, <2>8, <2>9, <2>10, <2>11, <2>12
    DEF Next, Callbacks, MainLoop, Realtime
<1>3. SyncInv /\ RealtimeInv /\ [Next]_vars => RealtimeInv'
  BY RealtimeInvStep
<1> QED
  BY <1>1, <1>2, <1>3, InitRealtimeInv, SyncInvHolds, PTL DEF Spec
==============================================================================
