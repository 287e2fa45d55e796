------------------------------ MODULE LioSync -------------------------------
(***************************************************************************)
(* The front end of the lidar odometry (laserMapping.cpp): the callbacks   *)
(* that fill the buffers, sync_packages, which pairs a scan with its time  *)
(* and its IMU data, the part of ImuProcess (IMU_Processing.hpp) that      *)
(* decides how far the filter is propagated, and the thread that           *)
(* extrapolates the odometry from the IMU data the filter has not used.    *)
(*                                                                         *)
(* A scan and an IMU message are their stamps.  The lidar type is MARSIM,  *)
(* as the launch file of the drone has it: a scan ends when it begins.     *)
(***************************************************************************)
EXTENDS Integers, Sequences, SequencesExt

CONSTANTS
  ScanStamps, ImuStamps,   \* stamps the sensors may give
  Garbage,       \* what last_lidar_end_time_, which is not initialised, may hold
  MaxScans,      \* scans that arrive
  MaxImus,       \* IMU messages that arrive
  LoopBacks,     \* the sensors whose time may go back, once each
  MaxIniCount    \* MAX_INI_COUNT, the IMU messages that initialise the filter

ASSUME LioAssumption ==
  /\ ScanStamps \subseteq Nat /\ ImuStamps \subseteq Nat /\ Garbage \subseteq Int
  /\ MaxScans \in Nat /\ MaxImus \in Nat
  /\ LoopBacks \subseteq {"lidar", "imu"}
  /\ MaxIniCount \in Nat \ {0}

VARIABLES
  lidar_buffer, time_buffer, last_timestamp_lidar,
  imu_buffer, realtime_imu_buffer, last_timestamp_imu,
  lidar_pushed, meas_lidar, lidar_beg_time, meas_imu,    \* the group being assembled
  main_pc,                \* "spin"; "update": the filter has matched a scan, "ekf" and
                          \* "updated": the flag of that name is to be set next
  flg_first_scan, map_built,
  feats_enough,           \* feats_undistort has points enough to be matched
  init_iter_num, imu_need_init_, last_imu_, last_lidar_end_time_,
  flg_first_ekf, flg_updated,
  rt_pc,                  \* the realtime thread: "idle", "begin", "loop" or "take"
  alive,                  \* FALSE after a deque has been read that is empty
  scans, imus, looped,    \* messages so far, and the sensors that went back
  kf_time                 \* how far the filter's state has been propagated

lidarVars  == <<lidar_buffer, time_buffer, last_timestamp_lidar>>
imuVars    == <<imu_buffer, realtime_imu_buffer, last_timestamp_imu>>
measVars   == <<lidar_pushed, meas_lidar, lidar_beg_time, meas_imu>>
matchVars  == <<flg_first_scan, map_built, main_pc>>
filterVars == <<init_iter_num, imu_need_init_, last_imu_, last_lidar_end_time_,
                feats_enough, kf_time>>
threadVars == <<flg_first_ekf, flg_updated, rt_pc>>
inputVars  == <<scans, imus, looped>>
vars == <<lidarVars, imuVars, measVars, matchVars, filterVars, threadVars, alive, inputVars>>

Unset == -1

Init ==
  /\ lidar_buffer = <<>> /\ time_buffer = <<>> /\ last_timestamp_lidar = 0
  /\ imu_buffer = <<>> /\ realtime_imu_buffer = <<>> /\ last_timestamp_imu = -1
  /\ lidar_pushed = FALSE /\ meas_lidar = 0 /\ lidar_beg_time = 0 /\ meas_imu = <<>>
  /\ main_pc = "spin" /\ flg_first_scan = TRUE /\ map_built = FALSE
  /\ feats_enough = FALSE
  /\ init_iter_num = 1 /\ imu_need_init_ = TRUE /\ last_imu_ = 0
  /\ last_lidar_end_time_ \in Garbage
  /\ flg_first_ekf = FALSE /\ flg_updated = FALSE /\ rt_pc = "idle"
  /\ alive = TRUE
  /\ scans = 0 /\ imus = 0 /\ looped = {} /\ kf_time = Unset

-----------------------------------------------------------------------------
(* The callbacks, which ros::spinOnce calls between two sync_packages.     *)

InTime(sensor, stamp, last) ==
  /\ stamp < last => sensor \in LoopBacks \ looped
  /\ looped' = IF stamp < last THEN looped \cup {sensor} ELSE looped

Kept(buffer, stamp, last) == IF stamp < last THEN <<>> ELSE buffer

BufferScan(scan, lidar, time) ==
  /\ main_pc = "spin" /\ scans < MaxScans
  /\ InTime("lidar", scan, last_timestamp_lidar)
  /\ lidar_buffer' = Append(lidar, scan)
  /\ time_buffer' = Append(time_buffer, time)
  /\ last_timestamp_lidar' = scan
  /\ scans' = scans + 1
  /\ UNCHANGED <<imuVars, measVars, matchVars, filterVars, threadVars, alive, imus>>

\* Mutant: the stamp is stored before it is updated.
Mut_StampBefore(scan) ==
  BufferScan(scan, Kept(lidar_buffer, scan, last_timestamp_lidar), last_timestamp_lidar)

\* "lidar loop back, clear buffer": one of the two that belong together
standard_pcl_cbk(scan) ==
  BufferScan(scan, Kept(lidar_buffer, scan, last_timestamp_lidar), scan)

BufferImu(stamp, imu, realtime) ==
  /\ main_pc = "spin" /\ imus < MaxImus
  /\ InTime("imu", stamp, last_timestamp_imu)
  /\ imu_buffer' = Append(imu, stamp)
  /\ realtime_imu_buffer' = Append(realtime, stamp)
  /\ last_timestamp_imu' = stamp
  /\ imus' = imus + 1
  /\ UNCHANGED <<lidarVars, measVars, matchVars, filterVars, threadVars, alive, scans>>

\* Mutants: one buffer is not cleared when the time goes back.
Mut_ImuKept(stamp) ==
  BufferImu(stamp, imu_buffer, Kept(realtime_imu_buffer, stamp, last_timestamp_imu))

Mut_RealtimeKept(stamp) ==
  BufferImu(stamp, Kept(imu_buffer, stamp, last_timestamp_imu), realtime_imu_buffer)

imu_cbk(stamp) ==
  BufferImu(stamp, Kept(imu_buffer, stamp, last_timestamp_imu),
            Kept(realtime_imu_buffer, stamp, last_timestamp_imu))

-----------------------------------------------------------------------------
(* sync_packages.                                                          *)

BuffersFilled == lidar_buffer # <<>> /\ imu_buffer # <<>>

\* push a lidar scan
GroupScan == IF lidar_pushed THEN meas_lidar ELSE Head(lidar_buffer)
GroupTime == IF lidar_pushed THEN lidar_beg_time ELSE Head(time_buffer)

TakeScan ==
  /\ main_pc = "spin" /\ BuffersFilled /\ ~lidar_pushed
  /\ last_timestamp_imu < GroupTime
  /\ lidar_pushed' = TRUE /\ meas_lidar' = GroupScan /\ lidar_beg_time' = GroupTime
  /\ UNCHANGED <<lidarVars, imuVars, meas_imu, matchVars, filterVars, threadVars, alive, inputVars>>

\* The IMU loop compares the stamp popped last, then the one at the front.
PoppedBefore(i, end) == imu_buffer[IF i = 1 THEN 1 ELSE i - 1] < end

\* Mutant: the loop is not left at a message that is newer than the scan.
Mut_NoBreak(end) ==
  LET Popped(i) == PoppedBefore(i, end)
  IN  CHOOSE k \in 0..Len(imu_buffer) :
        /\ \A i \in 1..k : Popped(i)
        /\ k < Len(imu_buffer) => ~Popped(k + 1)

ImuPopped(end) ==
  LET Popped(i) == PoppedBefore(i, end) /\ imu_buffer[i] <= end
  IN  CHOOSE k \in 0..Len(imu_buffer) :
        /\ \A i \in 1..k : Popped(i)
        /\ k < Len(imu_buffer) => ~Popped(k + 1)

-----------------------------------------------------------------------------
(* ImuProcess::Process and UndistortPcl.                                   *)

\* Mutant: an interval that began before the last scan ended counts in full.
Mut_WholeInterval(head, tail) == tail - head

\* What the interval from one IMU message to the next adds to the time of the filter.
Interval(head, tail) ==
  IF tail < last_lidar_end_time_ THEN 0
  ELSE IF head < last_lidar_end_time_ THEN tail - last_lidar_end_time_
  ELSE tail - head

\* ... after the first i intervals
IntervalTime(v_imu) ==
  LET Time[i \in 0..(Len(v_imu) - 1)] ==
        IF i = 0 THEN 0 ELSE Time[i - 1] + Interval(v_imu[i], v_imu[i + 1])
  IN  Time

\* What the IMU data and the end of the scan add to the time of the filter.
Propagated(imu, end) ==
  LET v_imu == <<last_imu_>> \o imu
      last == v_imu[Len(v_imu)]
  IN  IntervalTime(v_imu)[Len(imu)] + (IF end > last THEN end - last ELSE last - end)

IMU_init(imu) ==
  /\ imu_need_init_
  /\ init_iter_num' = init_iter_num + Len(imu)
  /\ imu_need_init_' = (init_iter_num' <= MaxIniCount)
  /\ last_imu_' = imu[Len(imu)]
  /\ UNCHANGED <<last_lidar_end_time_, feats_enough, kf_time>>

UndistortPcl(end, imu) ==
  /\ ~imu_need_init_
  /\ last_imu_' = imu[Len(imu)]
  /\ last_lidar_end_time_' = end
  /\ feats_enough' \in BOOLEAN
  /\ kf_time' = IF kf_time = Unset THEN end ELSE kf_time + Propagated(imu, end)
  /\ UNCHANGED <<init_iter_num, imu_need_init_>>

Process(end, imu) ==
  \/ imu = <<>> /\ UNCHANGED filterVars
  \/ imu # <<>> /\ (IMU_init(imu) \/ UndistortPcl(end, imu))

-----------------------------------------------------------------------------
(* The main loop after a successful sync_packages.                         *)

SkipFirstScan ==
  /\ flg_first_scan
  /\ flg_first_scan' = FALSE
  /\ UNCHANGED <<map_built, main_pc, filterVars>>

\* The first scan with points builds the map, the others are matched with it.
ProcessScan(end, imu) ==
  /\ ~flg_first_scan
  /\ Process(end, imu)
  /\ map_built' = (map_built \/ feats_enough')
  /\ main_pc' = IF map_built /\ feats_enough' THEN "update" ELSE "spin"
  /\ UNCHANGED flg_first_scan

HandOver ==
  LET end == GroupTime
      k   == ImuPopped(end)
      imu == SubSeq(imu_buffer, 1, k)
  IN  /\ main_pc = "spin" /\ BuffersFilled
      /\ last_timestamp_imu >= end
      /\ meas_lidar' = GroupScan /\ lidar_beg_time' = end /\ meas_imu' = imu
      /\ imu_buffer' = SubSeq(imu_buffer, k + 1, Len(imu_buffer))
      /\ lidar_buffer' = Tail(lidar_buffer) /\ time_buffer' = Tail(time_buffer)
      /\ lidar_pushed' = FALSE
      /\ SkipFirstScan \/ ProcessScan(end, imu)
      /\ UNCHANGED <<realtime_imu_buffer, last_timestamp_imu, last_timestamp_lidar,
                     threadVars, alive, inputVars>>

\* Under mtx_buffer the realtime thread is given what the filter has not used.
\* Measures.imu.back() of an empty deque is undefined: what it reads may or may not
\* be a message.
UpdateRealtime ==
  /\ main_pc = "update"
  /\ realtime_imu_buffer' = imu_buffer
  /\ main_pc' = "ekf"
  /\ alive' \in {TRUE, meas_imu # <<>>}
  /\ UNCHANGED <<lidarVars, imu_buffer, last_timestamp_imu, measVars, flg_first_scan, map_built,
                 filterVars, threadVars, inputVars>>

\* The flags are set one after the other when the mutex has been given back.
SetFlag(pc, next) ==
  /\ main_pc = pc /\ main_pc' = next
  /\ UNCHANGED <<lidarVars, imuVars, measVars, flg_first_scan, map_built, filterVars, rt_pc,
                 alive, inputVars>>

SetFirstEkf == SetFlag("ekf", "updated") /\ flg_first_ekf' = TRUE /\ UNCHANGED flg_updated

SetUpdated == SetFlag("updated", "spin") /\ flg_updated' = TRUE /\ UNCHANGED flg_first_ekf

-----------------------------------------------------------------------------
(* The realtime thread tests empty() without the mutex.                    *)

ThreadStep == UNCHANGED <<lidarVars, imu_buffer, last_timestamp_imu, measVars, matchVars,
                          filterVars, flg_first_ekf, inputVars>>

RtSkip ==
  /\ rt_pc = "idle" /\ flg_updated
  /\ flg_updated' = FALSE
  /\ UNCHANGED <<rt_pc, realtime_imu_buffer, alive>> /\ ThreadStep

RtBegin ==
  /\ rt_pc = "idle" /\ ~flg_updated
  /\ rt_pc' = "begin"
  /\ UNCHANGED <<flg_updated, realtime_imu_buffer, alive>> /\ ThreadStep

RtEnter ==
  /\ rt_pc = "begin"
  /\ rt_pc' = IF flg_first_ekf /\ realtime_imu_buffer # <<>> THEN "loop" ELSE "idle"
  /\ UNCHANGED <<flg_updated, realtime_imu_buffer, alive>> /\ ThreadStep

RtTest ==
  /\ rt_pc = "loop"
  /\ rt_pc' = IF realtime_imu_buffer = <<>> THEN "idle" ELSE "take"
  /\ UNCHANGED <<flg_updated, realtime_imu_buffer, alive>> /\ ThreadStep

\* front() and pop_front() of an empty deque leave no deque behind.
RtTake ==
  /\ rt_pc = "take"
  /\ rt_pc' = "loop"
  /\ alive' = (realtime_imu_buffer # <<>>)
  /\ realtime_imu_buffer' =
       IF realtime_imu_buffer = <<>> THEN <<>> ELSE Tail(realtime_imu_buffer)
  /\ UNCHANGED flg_updated /\ ThreadStep

-----------------------------------------------------------------------------
MainLoop == TakeScan \/ HandOver \/ UpdateRealtime \/ SetFirstEkf \/ SetUpdated
Realtime == RtSkip \/ RtBegin \/ RtEnter \/ RtTest \/ RtTake
Callbacks ==
  \/ \E stamp \in ScanStamps : standard_pcl_cbk(stamp)
  \/ \E stamp \in ImuStamps : imu_cbk(stamp)

Next == alive /\ (Callbacks \/ MainLoop \/ Realtime)

Spec == Init /\ [][Next]_vars

-----------------------------------------------------------------------------
(***************************************************************************)
(* Each scan is processed with its own time.  lidar_buffer and time_buffer *)
(* are two deques, and a scan taken into the group stays in them until its *)
(* IMU data has come.  It takes a lidar whose time never went back.        *)
(***************************************************************************)
OwnTime == "lidar" \notin looped => lidar_beg_time = meas_lidar

HandsOver == Len(time_buffer') < Len(time_buffer)

(***************************************************************************)
(* sync_packages hands over with a scan all IMU data up to its end and     *)
(* none beyond, whatever came late, twice or after the time went back:     *)
(* what stays behind is not older than the scan.                           *)
(***************************************************************************)
ImuOfSpan ==
  [][HandsOver =>
       /\ \A i \in 1..Len(meas_imu') : meas_imu'[i] <= lidar_beg_time'
       /\ \A i \in 1..Len(imu_buffer') : imu_buffer'[i] >= lidar_beg_time']_vars

(***************************************************************************)
(* The realtime thread extrapolates from the data the filter has not used: *)
(* its buffer and the filter's end in the same messages, so that none is   *)
(* lost to it, and none of another time is left in it.                     *)
(***************************************************************************)
RealtimeKeepsUp ==
  /\ IsSuffix(realtime_imu_buffer, imu_buffer) \/ IsSuffix(imu_buffer, realtime_imu_buffer)
  /\ \A i, j \in 1..Len(realtime_imu_buffer) :
       i < j => realtime_imu_buffer[i] <= realtime_imu_buffer[j]

\* The main loop has replaced the buffer and the thread has not seen the flag yet.
UpdateUnseen == main_pc \in {"ekf", "updated"} \/ flg_updated

(***************************************************************************)
(* A deque that is empty is read only in the wake of an update of the      *)
(* filter: the realtime thread has tested empty() and finds its buffer     *)
(* replaced, or the group that was matched had no IMU data.  Neither the   *)
(* callbacks nor the thread's own pops endanger it, and the danger is over *)
(* when it has seen the flag.  The flag itself may still be FALSE, since   *)
(* it is set after the mutex: looking at it again would not help.          *)
(***************************************************************************)
EmptyReadAfterUpdate ==
  ~alive \/ (rt_pc = "take" /\ realtime_imu_buffer = <<>>) => UpdateUnseen

(***************************************************************************)
(* UndistortPcl propagates the filter to the end of the scan and no        *)
(* further: the intervals of the IMU data, cut at the end of the scan      *)
(* before, add up, also over scans that came without IMU data.             *)
(***************************************************************************)
FilterReachesScan ==
  looped = {} /\ kf_time # Unset => kf_time = last_lidar_end_time_

(***************************************************************************)
(* No scan waits for data that is there: once IMU data newer than the next *)
(* scan has arrived, sync_packages hands the scan over.  It looks at the   *)
(* stamp of the last message, but takes what the scans before have left.   *)
(***************************************************************************)
NoScanStuck ==
  "lidar" \notin looped /\ lidar_buffer # <<>> /\ last_timestamp_imu > Head(time_buffer)
    => BuffersFilled /\ last_timestamp_imu >= GroupTime

=============================================================================
