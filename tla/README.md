# A verification project for the RMUA drone software

The repository is a ROS 1 workspace (`src/basic_dev/src`) that flies a drone
through a competition course: an EGO-Planner fork with its swarm tools, a lidar
odometry (FAST_LIO), the Livox driver, an IMU/GPS filter, and a node that turns
the referee's goals into routes. This directory holds TLA+ models of the parts
that carry its control logic, TLC configurations that check them on small
instances, and proofs that TLAPS checks for every instance.

`tlc -config X.cfg M` runs a model (the table below names the pairs),
`tlapm M.tla` checks the proofs of the modules whose names end in `Proofs`.

## Inventory

Paths below are relative to `src/basic_dev/src`; `planner/` stands for
`EGO-Planner/src/planner/`.

| part | state it keeps | operations | hard because |
|---|---|---|---|
| `path_sender` | start and end station, the route built, four flags, the last goal position | two pose callbacks, a 2 s timer that builds or repeats the route | goals change between ticks; a route published before anyone listens is lost; the next leg starts where the code believes the last one ended |
| planner state machine (`planner/plan_manage/src/ego_replan_fsm.cpp`) | the state, the route and its index, the goal, the trajectory flown, flags | the execution timer (100 Hz), the safety timer (20 Hz), odometry, stop, broadcast and route callbacks | a callback that spins the callback queue inside itself; five ways into `EXEC_TRAJ`; one-shot flags; stops against recoveries |
| planner manager, optimiser, A*, grid map | the local and global trajectory; occupancy | `reboundReplan`, `planGlobalTrajWaypoints`, `EmergencyStop` | numeric; fails nondeterministically |
| `swarm_bridge`, TCP (`reliable_bridge.hpp`, `bridge_node_tcp.cpp`) | a deque, a mutex, a condition variable and two threads per peer, callback tables | `send_msg_to_one`, the two thread loops, registration, `StopThread` | threads, a wait without a predicate, an unlocked deque, broken connections |
| `swarm_bridge`, UDP | sockets | broadcast, receive | loss only |
| `traj_server` | the trajectory, heartbeat and odometry times | command timer, three callbacks | timeouts against late messages |
| `px4ctrl` | the last command, odometry and IMU data, the loops of the take-off | main loop, input callbacks | what comes before and during the take-off; input timeouts that nobody calls |
| `FAST_LIO/src/laserMapping.cpp` | lidar, time and IMU buffers, the group being assembled | three callbacks, `sync_packages`, a realtime thread | buffers shared by threads, time jumps |
| `ikd_Tree.cpp` | the tree, the subtree being rebuilt, the operation log | insert, delete, search, the rebuilding thread | a second thread replaces a subtree under the first |
| Livox driver (`ldq.cpp`, `lds.cpp`, `lddc.cpp`, `livox_lidar_callback.cpp`) | a ring queue per lidar, a semaphore, the settings not confirmed yet | push from the handler's thread, pop from the publisher's, the SDK's callbacks, the exit | wrap-around, two threads without a lock, a semaphore whose count is read outside its mutex, answers to requests in any order |
| `imu_gps_odometry` | a filter | sensor callbacks | numeric |
| `drone_detect`, `basic_dev`, test tools, `uav_simulator`, vendored libraries | - | - | not part of the flight logic |

How they interact: the referee publishes start and goal poses; `path_sender`
turns them into `/waypoints`; the planner flies the route waypoint by waypoint
and publishes a trajectory per replanning, which `traj_server` samples into
commands; the planner also broadcasts the trajectory, which `swarm_bridge`
carries to the other drones' planners; odometry comes from FAST_LIO or
`imu_gps_odometry`.

What makes each part correct:

* the bridge: no message duplicated, reordered or lost without a reason, a
  caller that never blocks, a sender that never sleeps over work;
* the planner: what is flown was planned for the current goal and is watched;
  the index stays within the route; routes are flown forwards and to the end;
  a stop stops; a route that arrived is not forgotten;
* `path_sender` with the planner: legs connect, and the last goal is reached;
* `traj_server`, `px4ctrl`: no command from a dead planner, none that leads back, a
  take-off that is flown once and to its end;
* FAST_LIO: each scan is paired with its own time and the IMU data of its span;
* ikd-Tree: the rebuilt subtree holds what the old one held, whatever was done to it
  meanwhile; no search walks in nodes that are swapped or deleted;
* the Livox driver: what is popped was pushed, once, in order; no packet waits
  without a wake-up; a lidar samples when all its settings are accepted.

## Modules

| module | models | code |
|---|---|---|
| `OrderedChannel` | what the bridge promises: one channel per peer that may lose messages and never reorders, repeats or invents one | (abstract) |
| `ReliableBridge` | one node's bridge towards its peers | `reliable_bridge.hpp` |
| `SwarmBridgeNode` | which topic goes to which device, and who listens | `bridge_node_tcp.cpp` |
| `MCReliableBridge` | a device of a small swarm, for TLC | |
| `ReliableBridgeProofs` | theorems | |
| `ReplanFSM` | the planner's state machine | `ego_replan_fsm.cpp`, the parts of `planner_manager.cpp` and `plan_container.hpp` that change its state |
| `MCReplanFSM` | three routes: two of different lengths, two with the same end | |
| `ReplanFSMProofs` | theorems | |
| `PathSender` | `path_sender` and the `/waypoints` queue | `path_sender.cpp` |
| `Mission` | `PathSender` and `ReplanFSM` joined, with the referee | |
| `MCMission` | three stations | |
| `MissionProofs` | theorems | |
| `LioSync` | the front end of the lidar odometry | `FAST_LIO/src/laserMapping.cpp`, the parts of `IMU_Processing.hpp` that keep times |
| `LioSyncProofs` | theorems | |
| `IkdRebuild` | the rebuilding of subtrees beside insertions, deletions and searches | `FAST_LIO/include/ikd-Tree/ikd_Tree.cpp` |
| `MCIkdRebuild` | a tree of three blocks: the root, a node of two and a leaf of one | |
| `IkdRebuildProofs` | theorems | |
| `PacketFifo` | what a lidar's ring promises: a bounded FIFO | (abstract) |
| `LidarDataQueue` | the rings with their wrapping counters | `livox_ros_driver2/src/comm/ldq.cpp` |
| `LivoxDriver` | the driver's threads, callbacks and exit over the rings | `lds.cpp`, `lddc.cpp`, `livox_lidar_callback.cpp`, `driver_node.cpp` |
| `MCLivoxDriver` | a listed and an unlisted lidar | |
| `LivoxDriverProofs` | theorems | |
| `TrajServer` | the trajectory server's callbacks and its timer | `traj_server.cpp` |
| `Px4Ctrl` | the controller's loop | `px4ctrl_node.cpp`, `input.cpp`, `controller.cpp` |
| `Flight` | planner, `TrajServer` and `Px4Ctrl` joined by their topics and a clock | the timers of `ego_replan_fsm.cpp` |
| `FlightProofs` | theorems | |

### The bridge

A message is its number (the how-manyth accepted for its peer) and its topic.
The calling thread is a loop over the addressed peers with three steps per peer:
the unlocked `size()`, the locked `emplace_back`, `notify_all`. The sending
thread of a peer has one step per point at which another thread can come
between: about to wait, waiting, notified, holding the mutex, testing
`empty()`, sending, popping. A notification is remembered only by a thread that
is already waiting, as the C++ standard has it, and wakeups may be spurious. The
critical sections touch the deque once, so each is one step; `HoldsMutex` is the
one place where a thread keeps the mutex between two steps.

`std::deque` is accessed by `front()` and `empty()` without the lock, which is a
data race by the letter of the standard. Elements of a deque do not move when
others are appended, and the model gives the accesses the values that any build
of the usual implementations gives: the state before or after the push.

External: the ZMQ `PUSH`/`PULL` pair is a FIFO of at most `PipeDepth` messages
that accepts messages only while connected; a broken connection loses a suffix
of it, a restart of the peer all of it and the callback table with it.
`StopThread` also closes the senders and cancels the node's own receiving threads;
the first is left out, which only leaves the senders more to do, and the second
belongs to the direction that is not modelled.

### The planner

The node has one thread, so that a callback is one action. The exception is
`WayPointsCallback`, which stores the new route, then spins the callback queue
until the state is `WAIT_TARGET`, then loads it: it is split into
`WayPointsCallback` (the first half) and `ResumeWayPoints` (the second), and
everything else can happen in between. Several of these can wait inside one
another; when the innermost finds `WAIT_TARGET`, its `spinOnce` has already
emptied the callback queue, so that all of them return before a timer runs again,
and all of them load the same `waypoints_`. One flag, `suspended`, stands for
them.

A goal is `<<route, index>>`: where `final_goal_` was read from. `flown` is the
goal the last published trajectory was planned for, `stopped` says that the last
published trajectory is the one-point trajectory of `callEmergencyStop`.
`traj_id` is 0 or 1, since only `traj_id <= 0` is ever tested. Distances,
occupancy and elapsed time are nondeterministic, and so is the outcome of the
optimiser. `touch_the_goal` is the comparison of the local target, which every
planning attempt moves, with the goal. A `waypoint_num_` that no longer belongs
to `wps_` lets the index run past the end of the vector; the goal is then
`<<wps_, index>>` with an index the route does not have: whatever was in memory.

The model is the flight type `SUBED_POINTS` with the fail-safe on and
`realworld_experiment` off, as `single_drone.launch` starts it.

### The mission

`Mission` has `PathSender` and `ReplanFSM` side by side and adds the referee
(external), which announces a start and then goals, each published again and
again, and the moment at which the planner's subscription reaches `path_sender`.
A referee is patient (it waits for the leg to be flown, and its first goal is
station `FirstHub`, the value `next_initial_num` is initialised with) or not. A
route is the pair of its stations; its end is the last station's. `Origin` is what
`temp_end_goal` is initialised with, a position like any other: a goal at exactly
the origin is taken for the one already known and ignored until another has been
taken, and `LastGoalFlown` leaves that goal out.

### The front end of the lidar odometry

A scan and an IMU message are their stamps. `spinOnce` and `sync_packages` are
called in turn by the main thread, so that `standard_pcl_cbk` and `imu_cbk` are
one action each and come between two attempts to assemble a group: `TakeScan`
when the IMU data of the scan has not come, `HandOver` when it has.
`HandOver` pops the IMU data as the loop does, which compares the stamp it
popped last, and goes on with what the main loop does with the group: the first
scan is skipped, the next ones initialise the IMU data, then `UndistortPcl`
propagates the filter and the scan builds the map or is matched with it.
`basic_dev/launch/start.launch` starts `mapping_marsim.launch`, whose lidar type is
MARSIM: a scan ends when it begins.

`kf_time` is not in the code: it is how far the intervals by which
`UndistortPcl` propagates the filter add up. `last_lidar_end_time_` is not
initialised: it starts with any value of `Garbage`. After a matched scan the main
thread hands the remaining IMU data to the realtime thread, which runs beside it:
`UpdateRealtime` replaces the buffer under the mutex, `SetFirstEkf` and `SetUpdated`
set the flags, one after the other, when the mutex has been given back. The
realtime thread reads `flg_updated` (`RtBegin`, or `RtSkip`), then `flg_first_ekf`
(`RtEnter`), and then tests `empty()` and takes the front without holding the mutex:
`RtTest` and `RtTake`. When the buffer has been emptied in between, or `Measures.imu.back()` is read with no IMU data in the
group, the behaviour is undefined, and the model stops (`alive`).

### The map's tree

The tree is abstracted to *blocks*, boxes of the downsampling grid, and its inner
nodes to the sets of the blocks below them; `held` are the blocks with a live
point. The shape of the tree, the balance criterion and the distances are left
out: a request to rebuild (`Rebuild`, on the way back of an operation) is a
choice, limited as in the code: not inside the subtree whose operation is done under the
lock, larger than the one already asked for, and dropped while the rebuilding
thread holds its mutex.

The mapping thread takes one point or box at a time. `MainDirect` is an operation
that does not reach the subtree `ptr`; one that does is done outside the subtree
first (`MainAsk`) and inside it under `working_flag_mutex` (`MainLocked`), where
it is logged if `rebuildFlag` is set. Searches are counted by
`search_mutex_counter`; the threads that search have joined before the mapping
thread goes on. `Search_by_range` of `Add_Points` holds `search_flag_mutex`
instead, or nothing when the whole tree is being rebuilt.

The rebuilding thread has one step per stretch between two points at which
another thread can come in. Between the unlock of `working_flag_mutex` and the
reset of `rebuild_flag` (`UnlockSearch`, `ClearFlag`) lies the race that
`ikd_stale_log` exhibits.

Of the lazy deletions one kind is kept: a box that covers an ancestor of the
subtree marks the ancestor (`MainCover`), and the subtree is `owed` the deletion
until `Push_Down` of its father hands it on and logs it. `owed` says where the
mark is: above, at the father by an earlier `Push_Down`, or at the father by
the deletion itself. `Add_by_point` and `Search_by_range` push at every node they
come to; `Delete_by_range` returns at a node that is marked, so that a deletion
hands nothing on. Two things are no step: `ikd_Tree.cpp:843` would take a request
back when its subtree has shrunk, but `TreeSize` counts deleted points too and does not
shrink; and small subtrees, rebuilt in place by the mapping thread, keep their content.

Two behaviours of the code are in the model and outside of the claims.
A rebuild that begins with an old entry in the logger, or that has copied no live
point (no tree is built, nothing is replayed, no lock is held, and a null root is
asked for its size), makes `clean` false for good: `ReplayAgrees` and
`SwapKeepsContent` speak of executions without one. And when `Push_Down` of the
grandfather has marked the father, whose `working_flag` it does not set, `Update`
after the swap may take that mark back: `SwapKeepsContent` leaves `owed =
"father"` out. A range search that entered the root without a lock is the
exception in `DiscardedUnread`.

### The Livox driver

`LidarDataQueue` has the counters of the rings modulo `Size * Laps`, which stands
for 2^32, and the slots. A push writes its slot (`PushBegin`: the slot is
`HalfPacket`) and moves `wr_idx` afterwards; a pop copies its slot and moves
`rd_idx` afterwards. The counters are `volatile` and the node runs on x86, where
the copy of the packet is visible before the counter; a machine with weaker
ordering is not modelled. The rings are allocated at the start, in the code with
the first packet.

`LivoxDriver` has three threads. PubHandler's stores the packets of a frame and
signals the semaphore if its count, read without the mutex, is zero. The
test of the ring and the reading of the count are two steps (`Wake`, `GetCount`). The
publishing thread waits, goes over the lidars in the order of their indices, which
is any order of the lidars, and empties the ring of each that samples. The SDK
calls back: the first appearance of a lidar without an index only gives it one,
another one (or the first of a listed lidar) requests every setting that the
configuration has, and each answer clears a bit, repeats the request or leaves it.
A lidar that is not listed has a zeroed configuration, in which every setting
counts as wanted. The destructor requests the exit, sets the signal and joins.

The publishing is that of the custom and the PointCloud2 message, which pop the
packet; `PublishPclMsg` of a ROS 2 build returns without popping, and this
workspace is one of ROS 1 (the default of the driver's `CMakeLists.txt`).

The IMU path repeats all this with a list under a mutex and is left out, with the
join of its thread in the destructor, like the callbacks that only send their request again (work mode, attitude, IMU).

### The flight

Times are ages, which stop growing at the last value that anything is compared
with: `heartbeat_age` above `Timeout`, `traj_age` at `Duration`. A command is the
trajectory it follows, how far it is on it and whether its heading is that of an
odometry (0 before). Positions, velocities and rotor speeds are not modelled:
what the controller publishes is the phase it is in.

Of the planner there is what the others see: `ExecTimer` sends a heartbeat and
may begin to plan, `SafetyTimer` may plan without one; while it plans it is
silent, for any time; then it publishes a trajectory dated now, or nothing. It may
die. Messages to a subscriber that is not connected yet are lost, and a full queue loses its oldest
message. The timeouts of the controller's inputs are defined in
`PX4CtrlFSM.cpp` and called by nobody, so that the model has none.

## Runs

| run | config | shows |
|---|---|---|
| `bridge_safety` | `ReliableBridge.cfg` | four calls, two faults, queue size 1, one peer: types, `EachMessageInOnePlace`, `OverrunByOne`, and that the bridge implements `OrderedChannel` (which has `StrictOrder`) |
| `bridge_liveness` | `ReliableBridgeLive.cfg` | two peers that may never connect, two calls to both: `CallerReturns`, `DrainsOnceAwake` |
| `bridge_overfull` | `QueueOverfull.cfg` | refutes `QueueBounded` |
| `bridge_lost_wakeup` | `LostWakeup.cfg` | refutes `QueuedIsSent` |
| `planner_safety` | `ReplanFSM.cfg` | three routes, two stops, other drones: types, `IndexMatchesRoute`, `ExecutesCurrentGoal`, `NoFailSafeRecovery`, `RouteFlownInOrder`, `EndsAtLastWaypoint`, `NoRouteForgotten` |
| `planner_index` | `RouteOverwritten.cfg` | refutes `IndexInRoute` |
| `lio_sync` | `LioSync.cfg` | five scans, four IMU messages, each sensor's time going back once: `OwnTime`, `RealtimeKeepsUp`, `FilterReachesScan`, `NoScanStuck`, `ImuOfSpan` |
| `mission` | `Mission.cfg` | three goals at any time, with a patient referee and without: `LegsConnect`, `LastGoalFlown` |
| `ikd_rebuild` | `IkdRebuild.cfg` | two searches, a logger of two, three blocks: types, `SearchesLockedOut`, `DiscardedUnread`, `ReplayAgrees`, `SwapKeepsContent`, `WaitersServed`, `QuietRebuildFinishes` |
| `ikd_stale_log` | `IkdStaleLog.cfg` | refutes `LoggerEmptyAtStart` |
| `livox` | `LivoxDriver.cfg` | two lidars, four packets, two reports and a timeout, an exit: types, `SlotsApart`, `SamplingConfigured`, `QueuesAreFifos`, `StoredPublished`, `PacketEndsThread`, `ConfiguredSamples` |
| `flight` | `Flight.cfg` | two trajectories, a planner that may die: types, `DroppedStaysDropped`, `TakeOffOnce`, `NeverFliesBack`, `DeadPlannerSilences`, `FlownToItsEnd` |

Bounds. `MaxCalls` and `QueueSize`: four calls fill a queue of size 1 beyond its
limit while one message is in the socket and one in the receiver's hands, so a
call is refused, the pipe is full, and a push falls into every phase of the
sending thread. `MaxFaults` 2: a broken connection after another, or after a
restart. The liveness run has two peers, since the question is what an
unreachable peer does to the other and to the caller. Routes of 2 and 3
waypoints (`planner`): overwriting with a longer and with a shorter one, an
index that skips a waypoint; two routes with the same end exercise the test for
a repetition. `MaxStops` 2: the second stop differs from the first. Three goals
and three stations (`mission`): the third leg is the first that starts where
`next_initial_num` was assigned; one of the positions is the `Origin`. `TopicDepth` 2 overflows while the planner
spins. Five scans (`lio_sync`): one is skipped, one initialises the filter
(`MaxIniCount` 1), one builds the map, one is matched, and one is on the way when
the realtime thread has started. The stamps interleave, and at 1 and 6 a scan and
an IMU message coincide; a stamp can come twice.
Three blocks (`ikd`): the leaf has a father and, in the root, a grandfather; each of
the three nodes can be rebuilt (a zone) and is a box that a deletion covers; `MaxLog` 2 lets an operation be logged while another is replayed; two
searches, since one at a time cannot keep the counter from 0. Rings of two slots
and counters of two laps (`livox`): four packets fill a ring and wrap its counters;
a lidar appears twice, so that an unlisted one is configured. `Timeout` and
`Duration` 1 (`flight`): every age that matters is reached; trajectory and heartbeat
queues of one message overflow, and commands wait two deep.

Deadlock is checked except where the system may stop: the bridge after
`StopThread` or its last call, the mission when the referee is silent, the
odometry when its sensors are, the Livox driver, whose threads may wait for ever or
have been joined.

### Fairness

* bridge: threads that can run do run; `Push` has strong fairness, since the
  mutex it waits for is released again and again. There is no fairness for
  spurious wakeups, for the network or for further calls: a message must not
  depend on them.
* planner: the execution timer fires and the waiting loop turns. What the timer
  finds (near a waypoint, at the end, a failed plan) is not fair, so
  `NoRouteForgotten` and `LastGoalFlown` assume what the code cannot guarantee,
  that missions end (`[]<>(exec_state_ = "WAIT_TARGET")`). `NoRouteForgotten` assumes
  besides that other drones do not for ever set this one flying again at the end of its
  missions (`SetOffByBroadcast`): they could do so each time before the waiting
  callback looks.
* mission: repeated topics are read, a message that has arrived is handled, the
  subscription succeeds eventually.
* ikd-Tree: each thread goes on whenever it can. Operations and searches do not
  have to begin. `QuietRebuildFinishes` takes a map that is left alone at last: a
  mapping thread that logs faster than the replay could keep it busy.
* Livox: the three threads run, the SDK answers each request, by its timeout at
  the latest. No frame has to arrive, no lidar to appear, no node to stop.
* flight: the clock goes on, timers fire, callbacks and loops run, sensors send and
  topics connect. Planning ends, with success or not. The execution timer has
  strong fairness: the planner's callback queue is first-in first-out, so that the
  safety timer, which plans as well, cannot keep it away for ever.

### What the refuted claims show

* `QueuedIsSent`: `transport_msg_thread` waits on its condition variable without
  a predicate. A message pushed while the thread is between finding the deque
  empty and waiting, or before its first wait, stays there until another one is
  pushed. The planner broadcasts often, which hides it; a `/goal` is sent once.
  What does hold is `DrainsOnceAwake`.
* `QueueBounded`: the documentation calls `queue_size` the maximum of the deque
  (`reliable_bridge.hpp:229`) and -1 the answer when it is full (`:380`), but the
  comparison at `:398` is `>`: a deque of `queue_size` messages takes one more. What
  does hold is `OverrunByOne`: since the size is compared without the lock, it is not
  plain that the overrun stops there.
* `IndexInRoute`: a route that arrives under way replaces `waypoint_num_` and
  `waypoints_` before the callback waits; the old `wps_` is then indexed up to
  the new number (past its end when the new route is longer; when it is shorter
  the mission ends before its last waypoint). With `path_sender`, this happens
  when the referee changes the goal under way. `IndexMatchesRoute` says that
  outside the wait all is well.
* `LoggerEmptyAtStart`: an operation that waits for `working_flag_mutex` while the
  rebuilding thread swaps gets it before `rebuild_flag` is reset, does itself on
  the new tree and logs itself for nobody. The next rebuild finds it, prints
  "ERROR!!!", and replays it into its own tree.

Some more things that the models do, as the code does, and that no run is about:
a second emergency stop of a run publishes no stop, since the flag that makes the
stop one-shot is set again only in `GEN_NEW_TRAJ`, which stops never reach
(`NoFailSafeRecovery`); the collision check that follows the loss of depth in the
same callback can replace the stop; a broadcast of another drone makes a drone
that has completed its mission replan. A scan without IMU data leaves `Process` early and is matched with the
points of the scan before, and the realtime thread may test a buffer that the
main loop empties before it takes from it (`RtTest`, `RtTake`): the model may stop
there. It is a theorem (`EmptyReadAfterUpdate`) that this happens only between the
replacement of the buffer and the moment the thread sees `flg_updated`; as that flag
is set after the mutex has been given back, the thread can meet the empty buffer
with the flag still false. `last_lidar_end_time_` is read once before it is set (`Garbage`). And after
a scan older than the one before, `lidar_buffer` is cleared and `time_buffer` is
not: `OwnTime` speaks of the time before.

## Proofs

For every set of peers, topics, routes and every value of the bounds
(assumptions `BridgeAssumption`, `FSMAssumption`, `MissionAssumption`, `LioAssumption`, `TreeAssumption`,
`QueueAssumption`, `DriverAssumption`, `ServerAssumption`, `ControllerAssumption` and
`FlightAssumption`, evaluated by the runs of their modules):

| theorem | of | along |
|---|---|---|
| `TypeCorrect` | `ReliableBridge` | `TypeOK` strengthened by what each thread position implies about its deque |
| `StrictOrderHolds` | `ReliableBridge` | the messages on the way to a peer, from the callback back to the deque, form an increasing chain bounded by `accepted`; a message that is sent and not yet popped counts once |
| `OverrunByOneHolds` | `ReliableBridge` | a caller past the size check has room: only the same caller appends |
| `BridgeImplementsChannel` | `ReliableBridge`, `OrderedChannel` | the step simulation under the chain invariant |
| `EachMessageInOnePlaceHolds` | `ReliableBridge` | what is lost is, by induction, what was sent and is neither on the way nor delivered; the other places are disjoint because the chain above is ordered |
| `TypeCorrect` | `ReplanFSM` | `TypeOK` is inductive |
| `IndexMatchesRouteHolds` | `ReplanFSM` | `RouteInv`: outside the waiting loop `wps_ = waypoints_`, which makes `waypoint_num_` the length of what is flown |
| `ExecutesCurrentGoalHolds` | `ReplanFSM` | inductive: every entry into `EXEC_TRAJ` plans, every new goal leaves it |
| `NoFailSafeRecoveryHolds` | `ReplanFSM` | inductive |
| `RouteFlownInOrderHolds` | `ReplanFSM` | `OrderInv`: with a target the goal is a waypoint of `wps_` not beyond the index; without one the index is 0 or nothing has been flown. It needs routes of two waypoints or more, which `path_sender` (three or more) and `fsm/waypoint_num` (7) give |
| `EndsAtLastWaypointHolds` | `ReplanFSM` | `RouteInv` and `GoalInv`: the goal is the waypoint of the index, or the last one after case 3 has reset the index |
| `OldGoalNotResumedHolds` | `ReplanFSM` | `NoTargetInv`: `WAIT_TARGET` is entered from `INIT`, where there is no target yet, and by case 3, which takes it away |
| `LegsConnectHolds` | `Mission` | `LegsInv`: under a patient referee at most two routes are about, the one flown and the one built last, in this order in the queue (`TwoRoutes`); a goal is announced only when they are the same and end at it, so that `next_initial_num` is where the drone is (`Numbers`) |
| `SettledOnGoalHolds` | `Mission` | `SettleInv`: the newest route is the last one in the queue or ends where the route taken last ends (`NewestOnItsWay`); what is ignored as a repetition ends there too; outside the wait the route taken is the one flown |
| `PlannerImplemented` | `Mission`, `ReplanFSM` | every step of the composition is a step of the planner or leaves it alone, as the queue holds routes only (`LegsInv`); the assumptions of `ReplanFSM` hold of what it is used with |
| `OwnTimeHolds` | `LioSync` | `PairInv`: without a loop back `lidar_buffer` and `time_buffer` are the same sequence, and the scan taken into the group is its head |
| `ImuOfSpanHolds` | `LioSync` | `ImuInv`: `imu_buffer` is in order and ends at `last_timestamp_imu`; the loop pops a prefix, whose length exists because every set of naturals has a least element |
| `NoScanStuckHolds` | `LioSync` | `TimeInv`: when `imu_buffer` is empty, the data that is gone is not newer than any scan that waits |
| `RealtimeKeepsUpHolds` | `LioSync` | `RealtimeInv`: the two buffers agree counted from their ends, whichever of them is taken from |
| `FilterReachesScanHolds` | `LioSync` | `FilterInv`; the propagation is a recursive function over the IMU data. The recursion defines a function on an initial part of the naturals, unfolded at a point; that its sum telescopes is shown by a least counterexample, since every set of naturals has a least element |
| `EmptyReadAfterUpdateHolds` | `LioSync` | inductive with the positions of the two threads: the realtime thread's own pops leave nothing it has tested, the callbacks only add, and only the main loop's replacement empties the buffer |
| `TypeCorrect` | `IkdRebuild` | inductive; blocks of a zone that an operation takes stay blocks |
| `SearchesCounted` | `IkdRebuild` | inductive under `Locking`, with the cardinality of the searches inside |
| `DiscardedNodes` | `IkdRebuild` | `Ranging`: a range search that reads the subtree holds `search_flag_mutex`, unless the subtree is the tree |
| `LoggerSuffices` | `IkdRebuild` | `Correct`: types, `Locking` (what each position of the rebuilding thread implies about locks and flags) and `LoggerEmpty`; an operation in the subtree is done and logged in one critical section, so appending it to the log extends the chain of intermediate contents that takes the copy to the tree; popping its head shortens it |
| `SwapIsInvisible` | `IkdRebuild` | from `LoggerSuffices` with `LoggerEmpty` |
| `NoDeadlockHolds` | `IkdRebuild` | `Joining` (the mapping thread asks for its mutex only when the searches have joined), `Ranging` and the count of the searches inside: whoever the rebuilding thread waits for can go on |
| `TypeCorrect` | `LivoxDriver` | part of `IInv`, with `Places` (what each thread position implies), `Rings` and `Requested`: who is about to signal has seen 0, and only the publishing thread decrements |
| `SampledConfigured` | `LivoxDriver` | `Requested`: a setting whose bit is clear has been accepted, or was never requested |
| `SlotsStayApart` | `LivoxDriver` | `Rings`: arithmetic of two counters modulo `Size * Laps` whose difference is at most `Size` |
| `RingsAreFifos` | `LivoxDriver`, `PacketFifo` | the step simulation under `IInv`: a push appends to the contents of the ring, a pop takes their head |
| `SettingsAnswered` | `LivoxDriver` | with `Requested`: each callback that leaves a bit set asks again or records the refusal |
| `WakeupsArrive` | `LivoxDriver` | from `IInv`, step by step: whoever stops attending to a ring has seen it empty or hands it to a pending wake-up |
| `ReleasedStays` | `LivoxDriver` | from `IInv`: after the exit nobody but the publishing thread takes from the semaphore, and it does so once |
| `TypeCorrect` | `Flight` | inductive |
| `DroppedHolds`, `NeverFliesBackHolds` | `Flight` | `TrajectoriesInOrder`: along the way from the planner through the queue to the server trajectories get older; `CommandsInOrder`: likewise for the commands on to the controller |
| `TakeOffOnceHolds` | `Flight` | `TakeOffCounted`: the phase is that of the count |
| `NewestKeptHolds` | `Flight` | inductive with `TrajectoriesInOrder`: a full queue loses its first message, and an older trajectory never replaces the one in use |
| `DeadPlannerRunsDownHolds` | `Flight` | step by step: no action but the planner's adds a heartbeat or a trajectory |

Every invariant, action property and refinement that a passing run checks is stated by one
of these theorems. Only model-checked are the liveness properties, which are beyond
the prover. Proved of them is what they rest on, a safety property each, which says
that what the fair steps are working towards cannot be lost or undone:

| liveness, checked by TLC | proved for all instances |
|---|---|
| `NoRouteForgotten` | `OldGoalNotResumed`: the waiting route is not overtaken at the end of the mission it waits for |
| `LastGoalFlown` | `SettledOnGoal`: when nothing is under way, the goal flown is the last one taken |
| `WaitersServed` | `NoCircularWait`: who waits, waits for somebody who can go on |
| `StoredPublished` | `NoWakeupLost`: a ring that is attended to stays so until it is empty |
| `ConfiguredSamples` | `NoSettingForgotten`: an unconfirmed setting has a request out or was refused |
| `PacketEndsThread` | `ReleasedForGood`: a thread released at the exit does not wait again |
| `FlownToItsEnd` | `NewestKept`: the newest trajectory waits, is in use or was dropped |
| `DeadPlannerSilences` | `DeadPlannerRunsDown`: what could make the server publish runs down |

`QuietRebuildFinishes`, `CallerReturns` and `DrainsOnceAwake` have no such core: their
safety part is the order of the steps of one thread. The properties on the right, and
`EmptyReadAfterUpdate`, are theorems and no run lists them; the instances of the runs
satisfy them.

## Not modelled

The numeric parts (filters, optimiser, A*, maps, controllers, image processing),
the simulator, the test tools, vendored code; the planner's flight types other
than `SUBED_POINTS`; the replacement of a trajectory by another drone's in
`RecvBroadcastMINCOTrajCallback` beyond what it does to the state machine; the
capacity of `waypoints_` (100 points; the longest route of `paths.yaml` has
fewer); a `paths.yaml` that cannot be read; of the odometry, the numeric filter, the
state the realtime thread extrapolates, and the synchronisation of clocks
(`time_sync_en`, off by default); of the server, a trajectory dated in the future
(`t_cur < 0`, for which the end position is published; all nodes run on one clock) and
one that is refused (an order other than 5, a wrong number of coefficients; the
planner sends none).

Of the tree: the re-insertion and radius functions, which FAST_LIO does not call, and the
deletions below a block; the test of `Rebuild_Ptr` without a lock
(`Nearest_Search`, a null dereference); the fixed length of the logger (a million).
Of the driver: decoding, the IMU path, `raw_packet_queue_`, which has no bound.
Of the controller: the control law, the filter of the thrust, and the functions of
`PX4CtrlFSM` that nothing calls.

`imu_gps_odometry`, the optimiser with its solvers (`lbfgs.hpp`, `gcopter.hpp`,
`root_finder.hpp`), `IKFoM_toolkit`, the maps and `helper_math.h` make up most of
the lines of the repository. They are arithmetic on floating-point matrices: their
control flow is a loop to convergence or a formula, and what could go wrong in
them is numeric, out of reach of both TLC and TLAPS.

## Plan

Done: the bridge (abstract channel, detailed model, refinement, proofs), the
planner's state machine, `path_sender`, and their composition with its proof; the front end of the
lidar odometry; the rebuilding of its map; the Livox driver with its rings; the
flight from the planner to the rotors.

Next, in this order:

1. More corollaries of the proofs: the theorems about `ReplanFSM` restated for `Mission`
   through `PlannerImplemented`.
2. Two planners joined by two bridges (`ReplanFSM` with `Swarm`, broadcast over
   `ReliableBridge`), for the sequential start.
3. The gating of GPS and lidar updates in `imu_gps_odometry`.
