----------------------------- MODULE LivoxDriver -----------------------------
(* The Livox driver (livox_ros_driver2/src): the SDK's callbacks, which         *)
(* configure each lidar that appears and mark it as sampling once its settings  *)
(* are accepted (call_back/livox_lidar_callback.cpp, comm/cache_index.cpp); the *)
(* thread of PubHandler, which stores the packets of every frame (lds.cpp); the *)
(* thread that publishes them (lddc.cpp, driver_node.cpp), woken through        *)
(* pcd_semaphore_; and the destructor that stops it. The IMU path repeats the   *)
(* point path with a mutexed list for a queue and is left out.                  *)
EXTENDS LidarDataQueue, FiniteSets

CONSTANTS Setting,      \* the settings of a lidar's configuration
          Listed,       \* the lidars the configuration file lists
          Wanted,       \* Wanted[l] : the settings it gives for a listed lidar
          NoLidar,      \* no lidar is being handled
          MaxChanges,   \* bound: information changes the SDK reports
          MaxTimeouts   \* bound: requests that time out

ASSUME DriverAssumption == /\ Listed \subseteq Lidar
                           /\ Wanted \in [Listed -> SUBSET Setting]
                           /\ NoLidar \notin Lidar
                           /\ MaxChanges \in Nat
                           /\ MaxTimeouts \in Nat

VARIABLES known,      \* the lidars cache_index_ has an index for
          set_bits,   \* set_bits[l] : the settings not confirmed yet
          asked,      \* asked[l][s] : requests whose callback has not run yet
          accepted,   \* accepted[l] : the settings the lidar has accepted (history)
          refused,    \* refused[l] : the settings the lidar has refused (history)
          sampling,   \* the lidars whose connect_state is kConnectStateSampling
          changes,    \* information changes so far
          timeouts    \* requests that timed out so far

configVars == <<known, set_bits, asked, accepted, refused, sampling, changes, timeouts>>

VARIABLES frames,         \* the packets of the frames not stored yet
          feed_at,        \* where PubHandler's thread is in PushLidarData
          feed_lidar,     \* the lidar it stores a packet of
          feed_packet,    \* that packet
          feed_stored,    \* whether the queue had room for it
          pcd_semaphore,  \* the count of pcd_semaphore_
          poll_at,        \* where the publishing thread is
          poll_todo,      \* the lidars left in the loop of DistributePointCloudData
          poll_lidar,     \* the lidar being polled
          pkg,            \* the packet copied from its queue
          published,      \* published[l] : the last packet published (history)
          exit_at         \* how far the driver's exit is

feedVars == <<frames, feed_at, feed_lidar, feed_packet, feed_stored>>
pollVars == <<poll_at, poll_todo, poll_lidar, pkg, published>>
vars == <<queueVars, configVars, feedVars, pcd_semaphore, pollVars, exit_at>>

(* The settings to request: a lidar that is not listed has the zeroed livox_config *)
(* of a static LidarDevice, which gives every setting the value 0.                  *)
Options(l) == IF l \in Listed THEN Wanted[l] ELSE Setting

Init == /\ InitQueue
        /\ known = Listed
        /\ set_bits = [l \in Lidar |-> {}]
        /\ asked = [l \in Lidar |-> [s \in Setting |-> 0]]
        /\ accepted = [l \in Lidar |-> {}]
        /\ refused = [l \in Lidar |-> {}]
        /\ sampling = {}
        /\ changes = 0
        /\ timeouts = 0
        /\ frames = Packet
        /\ feed_at = "idle"
        /\ feed_lidar = NoLidar
        /\ feed_packet = NoPacket
        /\ feed_stored = FALSE
        /\ pcd_semaphore = 0
        /\ poll_at = "enter"
        /\ poll_todo = {}
        /\ poll_lidar = NoLidar
        /\ pkg = NoPacket
        /\ published = [l \in Lidar |-> NoPacket]
        /\ exit_at = "running"

----------------------------------------------------------------------------
(* The SDK's callbacks. *)

(* LidarInfoChangeCallback for a lidar without an index: GetFreeIndex gives it one, *)
(* and nothing is configured.                                                        *)
NewLidar(l) ==
    /\ changes < MaxChanges
    /\ l \notin known
    /\ changes' = changes + 1
    /\ known' = known \cup {l}
    /\ UNCHANGED <<queueVars, set_bits, asked, accepted, refused, sampling, timeouts,
                   feedVars, pcd_semaphore, pollVars, exit_at>>

(* LidarInfoChangeCallback for a lidar that has one: under config_mutex_ every *)
(* setting is marked and requested.                                             *)
Configure(l) ==
    /\ changes < MaxChanges
    /\ l \in known
    /\ changes' = changes + 1
    /\ set_bits' = [set_bits EXCEPT ![l] = @ \cup Options(l)]
    /\ asked' = [asked EXCEPT ![l] = [s \in Setting |->
                                        IF s \in Options(l) THEN @[s] + 1 ELSE @[s]]]
    /\ UNCHANGED <<queueVars, known, accepted, refused, sampling, timeouts,
                   feedVars, pcd_semaphore, pollVars, exit_at>>

(* Mutant: a request that timed out is forgotten. *)
Mut_SettingTimedOut(l, s) ==
    /\ asked[l][s] > 0
    /\ timeouts < MaxTimeouts
    /\ timeouts' = timeouts + 1
    /\ asked' = [asked EXCEPT ![l][s] = @ - 1]
    /\ UNCHANGED <<queueVars, known, set_bits, accepted, refused, sampling,
                   changes, feedVars, pcd_semaphore, pollVars, exit_at>>

(* The callback of a request that timed out: the request is sent again. *)
SettingTimedOut(l, s) ==
    /\ asked[l][s] > 0
    /\ timeouts < MaxTimeouts
    /\ timeouts' = timeouts + 1
    /\ UNCHANGED <<queueVars, known, set_bits, asked, accepted, refused, sampling,
                   changes, feedVars, pcd_semaphore, pollVars, exit_at>>

(* Mutant: the first accepted setting is enough to sample. *)
Mut_SettingAccepted(l, s) ==
    /\ asked[l][s] > 0
    /\ asked' = [asked EXCEPT ![l][s] = @ - 1]
    /\ accepted' = [accepted EXCEPT ![l] = @ \cup {s}]
    /\ set_bits' = [set_bits EXCEPT ![l] = @ \ {s}]
    /\ sampling' = sampling \cup {l}
    /\ UNCHANGED <<queueVars, known, refused, changes, timeouts,
                   feedVars, pcd_semaphore, pollVars, exit_at>>

(* The callback of a request the lidar accepted: under config_mutex_ the bit is *)
(* cleared, and the lidar samples when no bit is left.                           *)
SettingAccepted(l, s) ==
    /\ asked[l][s] > 0
    /\ asked' = [asked EXCEPT ![l][s] = @ - 1]
    /\ accepted' = [accepted EXCEPT ![l] = @ \cup {s}]
    /\ set_bits' = [set_bits EXCEPT ![l] = @ \ {s}]
    /\ sampling' = IF set_bits[l] \ {s} = {} THEN sampling \cup {l} ELSE sampling
    /\ UNCHANGED <<queueVars, known, refused, changes, timeouts,
                   feedVars, pcd_semaphore, pollVars, exit_at>>

(* The callback of a request the lidar refused: the bit stays set. *)
SettingRefused(l, s) ==
    /\ asked[l][s] > 0
    /\ asked' = [asked EXCEPT ![l][s] = @ - 1]
    /\ refused' = [refused EXCEPT ![l] = @ \cup {s}]
    /\ UNCHANGED <<queueVars, known, set_bits, accepted, sampling, changes, timeouts,
                   feedVars, pcd_semaphore, pollVars, exit_at>>

----------------------------------------------------------------------------
(* PubHandler's thread: StoragePointData and PushLidarData. *)

(* A packet of a lidar that has an index: QueueIsFull is read, and the push begins *)
(* unless the queue is full, when the packet is dropped.                            *)
StoragePointData(l, p) ==
    /\ feed_at = "idle"
    /\ p \in frames
    /\ \A q \in frames : p <= q
    /\ l \in known
    /\ frames' = frames \ {p}
    /\ feed_lidar' = l
    /\ feed_packet' = p
    /\ feed_stored' = ~ QueueIsFull(l)
    /\ IF QueueIsFull(l)
       THEN feed_at' = "wake" /\ UNCHANGED queueVars
       ELSE feed_at' = "push" /\ PushBegin(l)
    /\ UNCHANGED <<configVars, pcd_semaphore, pollVars, exit_at>>

(* The rest of QueuePushAny. *)
QueuePushAny ==
    /\ feed_at = "push"
    /\ feed_at' = "wake"
    /\ PushEnd(feed_lidar, feed_packet)
    /\ UNCHANGED <<configVars, frames, feed_lidar, feed_packet, feed_stored,
                   pcd_semaphore, pollVars, exit_at>>

(* QueueIsEmpty: a packet that was stored and is popped already needs no wake-up. *)
Wake ==
    /\ feed_at = "wake"
    /\ feed_at' = IF feed_stored /\ QueueIsEmpty(feed_lidar) THEN "idle" ELSE "count"
    /\ UNCHANGED <<queueVars, configVars, frames, feed_lidar, feed_packet, feed_stored,
                   pcd_semaphore, pollVars, exit_at>>

(* Mutant: every packet signals, whatever the count. *)
Mut_GetCount ==
    /\ feed_at = "count"
    /\ feed_at' = "signal"
    /\ UNCHANGED <<queueVars, configVars, frames, feed_lidar, feed_packet, feed_stored,
                   pcd_semaphore, pollVars, exit_at>>

(* GetCount() <= 0, read without the semaphore's mutex, decides whether to signal; *)
(* the queue may have been emptied since it was tested.                             *)
GetCount ==
    /\ feed_at = "count"
    /\ feed_at' = IF pcd_semaphore <= 0 THEN "signal" ELSE "idle"
    /\ UNCHANGED <<queueVars, configVars, frames, feed_lidar, feed_packet, feed_stored,
                   pcd_semaphore, pollVars, exit_at>>

(* Semaphore::Signal *)
Signal ==
    /\ feed_at = "signal"
    /\ feed_at' = "idle"
    /\ pcd_semaphore' = pcd_semaphore + 1
    /\ UNCHANGED <<queueVars, configVars, frames, feed_lidar, feed_packet, feed_stored,
                   pollVars, exit_at>>

----------------------------------------------------------------------------
(* The publishing thread: PointCloudDataPollThread. *)

IsRequestExit == exit_at # "running"

(* DistributePointCloudData returns at once when the exit is requested. *)
DistributePointCloudData ==
    /\ poll_at = "enter"
    /\ poll_at' = IF IsRequestExit THEN "status" ELSE "wait"
    /\ UNCHANGED <<queueVars, configVars, feedVars, pcd_semaphore,
                   poll_todo, poll_lidar, pkg, published, exit_at>>

(* Semaphore::Wait, then the loop over the lidars begins. *)
Wait ==
    /\ poll_at = "wait"
    /\ pcd_semaphore > 0
    /\ pcd_semaphore' = pcd_semaphore - 1
    /\ poll_at' = "lidar"
    /\ poll_todo' = Lidar
    /\ UNCHANGED <<queueVars, configVars, feedVars, poll_lidar, pkg, published, exit_at>>

(* Mutant: the whole round ends at a lidar that does not sample. *)
Mut_NextLidar(l) ==
    /\ poll_at = "lidar"
    /\ l \in poll_todo
    /\ IF l \in sampling
       THEN poll_at' = "polling" /\ poll_lidar' = l /\ poll_todo' = poll_todo \ {l}
       ELSE UNCHANGED <<poll_at, poll_lidar>> /\ poll_todo' = {}
    /\ UNCHANGED <<queueVars, configVars, feedVars, pcd_semaphore, pkg, published, exit_at>>

(* The next lidar of the loop (in the order of the indices, which are in any order *)
(* of the lidars): a lidar that does not sample is passed over.                     *)
NextLidar(l) ==
    /\ poll_at = "lidar"
    /\ l \in poll_todo
    /\ poll_todo' = poll_todo \ {l}
    /\ IF l \in sampling
       THEN poll_at' = "polling" /\ poll_lidar' = l
       ELSE UNCHANGED <<poll_at, poll_lidar>>
    /\ UNCHANGED <<queueVars, configVars, feedVars, pcd_semaphore, pkg, published, exit_at>>

(* PollingLidarPointCloudData: its loop ends when the exit is requested or the queue *)
(* is empty.                                                                          *)
PollingLidarPointCloudData ==
    /\ poll_at = "polling"
    /\ poll_at' = IF IsRequestExit \/ QueueIsEmpty(poll_lidar) THEN "lidar" ELSE "pop"
    /\ poll_lidar' = IF IsRequestExit \/ QueueIsEmpty(poll_lidar) THEN NoLidar ELSE poll_lidar
    /\ UNCHANGED <<queueVars, configVars, feedVars, pcd_semaphore,
                   poll_todo, pkg, published, exit_at>>

(* PublishCustomPointcloud (PublishPointcloud2 and the ROS 1 build of PublishPclMsg   *)
(* loop alike; that of ROS 2 only says that it has no such format): the loop pops     *)
(* until the queue is empty, without looking at the exit. QueuePrePop first copies    *)
(* the packet.                                                                         *)
PublishCustomPointcloud ==
    /\ poll_at = "pop"
    /\ IF QueueIsEmpty(poll_lidar)
       THEN poll_at' = "polling" /\ UNCHANGED pkg
       ELSE poll_at' = "copied" /\ pkg' = QueuePrePop(poll_lidar)
    /\ UNCHANGED <<queueVars, configVars, feedVars, pcd_semaphore,
                   poll_todo, poll_lidar, published, exit_at>>

(* QueuePopUpdate, and the packet is published. *)
PublishCustomPointData ==
    /\ poll_at = "copied"
    /\ poll_at' = "pop"
    /\ QueuePopUpdate(poll_lidar)
    /\ published' = [published EXCEPT ![poll_lidar] = pkg]
    /\ pkg' = NoPacket
    /\ UNCHANGED <<configVars, feedVars, pcd_semaphore, poll_todo, poll_lidar, exit_at>>

(* Mutant: the thread goes back to the semaphore without looking at the exit. *)
Mut_RoundEnds ==
    /\ poll_at = "lidar"
    /\ poll_todo = {}
    /\ poll_at' = "wait"
    /\ UNCHANGED <<queueVars, configVars, feedVars, pcd_semaphore,
                   poll_todo, poll_lidar, pkg, published, exit_at>>

(* The end of the loop over the lidars. *)
RoundEnds ==
    /\ poll_at = "lidar"
    /\ poll_todo = {}
    /\ poll_at' = "status"
    /\ UNCHANGED <<queueVars, configVars, feedVars, pcd_semaphore,
                   poll_todo, poll_lidar, pkg, published, exit_at>>

(* future_.wait_for(0): the thread ends once exit_signal_ is set. *)
PollStatus ==
    /\ poll_at = "status"
    /\ poll_at' = IF exit_at = "signalled" THEN "ended" ELSE "enter"
    /\ UNCHANGED <<queueVars, configVars, feedVars, pcd_semaphore,
                   poll_todo, poll_lidar, pkg, published, exit_at>>

----------------------------------------------------------------------------
(* DriverNode::~DriverNode: RequestExit, exit_signal_.set_value, then the join. *)

RequestExit ==
    /\ exit_at = "running"
    /\ exit_at' = "requested"
    /\ UNCHANGED <<queueVars, configVars, feedVars, pcd_semaphore, pollVars>>

SetExitSignal ==
    /\ exit_at = "requested"
    /\ exit_at' = "signalled"
    /\ UNCHANGED <<queueVars, configVars, feedVars, pcd_semaphore, pollVars>>

Join ==
    /\ exit_at = "signalled"
    /\ poll_at = "ended"
    /\ exit_at' = "joined"
    /\ UNCHANGED <<queueVars, configVars, feedVars, pcd_semaphore, pollVars>>

----------------------------------------------------------------------------
Answer(l, s) == SettingAccepted(l, s) \/ SettingRefused(l, s)

Callbacks == \E l \in Lidar : \/ NewLidar(l)
                              \/ Configure(l)
                              \/ \E s \in Setting : \/ SettingTimedOut(l, s)
                                                    \/ Answer(l, s)

Feed == \/ \E l \in Lidar, p \in Packet : StoragePointData(l, p)
        \/ QueuePushAny
        \/ Wake
        \/ GetCount
        \/ Signal

FeedFinishes == QueuePushAny \/ Wake \/ GetCount \/ Signal

Poll == \/ DistributePointCloudData
        \/ Wait
        \/ \E l \in Lidar : NextLidar(l)
        \/ PollingLidarPointCloudData
        \/ PublishCustomPointcloud
        \/ PublishCustomPointData
        \/ RoundEnds
        \/ PollStatus

Exit == RequestExit \/ SetExitSignal \/ Join

Next == Callbacks \/ Feed \/ Poll \/ Exit

Spec == Init /\ [][Next]_vars

(* Each thread keeps running; the SDK answers every request, by its own timeout at *)
(* the latest. Nothing makes a frame arrive, a lidar appear or the node stop.       *)
Fairness == /\ WF_vars(FeedFinishes)
            /\ WF_vars(Poll)
            /\ WF_vars(SetExitSignal \/ Join)
            /\ \A l \in Lidar, s \in Setting : WF_vars(Answer(l, s))

FairSpec == Spec /\ Fairness

----------------------------------------------------------------------------
(* Properties. *)

FeedPlaces == {"idle", "push", "wake", "count", "signal"}
PollPlaces == {"enter", "wait", "lidar", "polling", "pop", "copied", "status", "ended"}
ExitPlaces == {"running", "requested", "signalled", "joined"}

(* Every variable keeps to its type; among others the semaphore counts one pending *)
(* wake-up at most although its count is read without its mutex (lds.cpp:187).      *)
TypeOK ==
    /\ storage_packet \in [Lidar -> [Slots -> Packet \cup {NoPacket, HalfPacket}]]
    /\ wr_idx \in [Lidar -> Index]
    /\ rd_idx \in [Lidar -> Index]
    /\ known \in SUBSET Lidar
    /\ set_bits \in [Lidar -> SUBSET Setting]
    /\ asked \in [Lidar -> [Setting -> Nat]]
    /\ accepted \in [Lidar -> SUBSET Setting]
    /\ refused \in [Lidar -> SUBSET Setting]
    /\ sampling \in SUBSET Lidar
    /\ changes \in 0 .. MaxChanges
    /\ timeouts \in 0 .. MaxTimeouts
    /\ frames \in SUBSET Packet
    /\ feed_at \in FeedPlaces
    /\ feed_lidar \in Lidar \cup {NoLidar}
    /\ feed_packet \in Packet \cup {NoPacket}
    /\ feed_stored \in BOOLEAN
    /\ pcd_semaphore \in 0 .. 1
    /\ poll_at \in PollPlaces
    /\ poll_todo \in SUBSET Lidar
    /\ poll_lidar \in Lidar \cup {NoLidar}
    /\ pkg \in Packet \cup {NoPacket}
    /\ published \in [Lidar -> Packet \cup {NoPacket}]
    /\ exit_at \in ExitPlaces

(* The slot the publishing thread copies is never the slot PubHandler's thread is *)
(* writing, on whatever lap their counters are: QueueIsFull refuses the push that  *)
(* would come round to the oldest packet (ldq.cpp:86, 128, 136).                   *)
SlotsApart ==
    feed_at = "push" /\ poll_at \in {"pop", "copied"} /\ feed_lidar = poll_lidar =>
        \/ QueueIsEmpty(poll_lidar)
        \/ SlotOf(wr_idx[feed_lidar]) # SlotOf(rd_idx[poll_lidar])

(* A lidar is published only after it has accepted every setting it is configured *)
(* with, however the callbacks of several configurations mix                       *)
(* (livox_lidar_callback.cpp:125-255).                                             *)
SamplingConfigured ==
    \A l \in sampling : l \in known /\ Options(l) \subseteq accepted[l]

(* Each lidar's ring is a first-in first-out queue: nothing is lost, torn,          *)
(* duplicated or reordered between the push and the publication, across the wrap    *)
(* of the counters (ldq.cpp:86-148, lddc.cpp:201-246).                              *)
Fifo == INSTANCE PacketFifo WITH stored <- [l \in Lidar |-> Content(l)]
QueuesAreFifos == Fifo!Spec

(* A packet stored for a sampling lidar gets its queue drained although the semaphore *)
(* is signalled only when its count, read without the mutex, is zero; an exit may      *)
(* forestall it (lds.cpp:187, lddc.cpp:127-136).                                       *)
StoredPublished ==
    \A l \in Lidar :
        feed_at = "wake" /\ feed_stored /\ feed_lidar = l /\ l \in sampling
        ~> exit_at # "running" \/ QueueIsEmpty(l)

(* Somebody will look at the ring of l: a wake-up is pending or about to be given, *)
(* or the publishing thread is on its round and has not passed l.                   *)
Attended(l) == \/ feed_at \in {"count", "signal"} \/ pcd_semaphore > 0
               \/ feed_at = "wake" /\ feed_lidar = l
               \/ poll_at \in {"lidar", "polling", "pop", "copied"} /\ l \in poll_todo
               \/ poll_at \in {"polling", "pop", "copied"} /\ poll_lidar = l

(* What StoredPublished rests on: no wake-up is lost. Once a packet of a sampling     *)
(* lidar has been stored, somebody will look at its ring until it is empty, although  *)
(* the count of the semaphore is tested without its mutex, one wake-up serves the     *)
(* packets of all lidars, and a packet that is gone already gives none                *)
(* (lds.cpp:187, lddc.cpp:127-150).                                                   *)
NoWakeupLost ==
    [][\A l \in sampling :
         (Attended(l) \/ wr_idx'[l] # wr_idx[l]) /\ exit_at' = "running"
         => Attended(l)' \/ QueueIsEmpty(l)']_vars

(* When the node stops, one packet of any lidar that arrives after the exit is        *)
(* signalled is enough to end the publishing thread and the join                      *)
(* (driver_node.cpp:34-39): without one the thread stays in Semaphore::Wait.          *)
PacketEndsThread == exit_at = "signalled" /\ feed_at = "signal" ~> exit_at = "joined"

(* A lidar that has appeared, and has settings, ends up sampling unless it refuses    *)
(* one: lost answers and a second configuration in the middle of the first do not     *)
(* leave a bit set (livox_lidar_callback.cpp:54-156).                                 *)
ConfiguredSamples ==
    \A l \in Lidar : set_bits[l] # {} ~> l \in sampling \/ refused[l] # {}

(* What ConfiguredSamples rests on: a setting that is not confirmed has a request out *)
(* or was refused, and a lidar whose answers have cleared every bit samples, whichever *)
(* answer came last (livox_lidar_callback.cpp:125-255).                                *)
NoSettingForgotten ==
    \A l \in Lidar :
        /\ \A s \in set_bits[l] : asked[l][s] > 0 \/ s \in refused[l]
        /\ accepted[l] # {} /\ set_bits[l] = {} => l \in sampling

(* What PacketEndsThread rests on: the publishing thread that need not wait at the    *)
(* semaphore, or has a wake-up coming, does not wait again once the exit is requested *)
(* (lddc.cpp:127, driver_node.cpp:34-39).                                             *)
Released == poll_at # "wait" \/ pcd_semaphore > 0 \/ feed_at = "signal"
ReleasedForGood == [][Released /\ exit_at # "running" => Released']_vars
=============================================================================
