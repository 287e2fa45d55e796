----------------------------- MODULE IkdRebuild -----------------------------
(***************************************************************************)
(* The incremental k-d tree of FAST_LIO (include/ikd-Tree/ikd_Tree.cpp):   *)
(* the thread of the mapping loop adds points and deletes boxes, the       *)
(* OpenMP threads of the scan matching search, and a background thread     *)
(* rebuilds the subtree *Rebuild_Ptr: it copies the live points, builds a  *)
(* balanced tree without a lock, replays the operations logged meanwhile,  *)
(* swaps the subtree in and deletes the old nodes.                         *)
(*                                                                         *)
(* The tree is abstracted to its blocks of points (a block is a box of the *)
(* downsampling grid): a node is the set of the blocks below it, and `held`*)
(* are the blocks with a live point in their nodes.  The nodes' shape, the *)
(* balance criterion and the distances are left out: a request to rebuild  *)
(* is a choice.  One lazy deletion is kept, the one that matters to the    *)
(* rebuild: a box that covers an ancestor of the subtree under rebuild     *)
(* marks the ancestor only, and the subtree is owed the deletion until     *)
(* Push_Down hands it on.                                                  *)
(***************************************************************************)
EXTENDS Naturals, Integers, Sequences, FiniteSets

CONSTANTS
  Block,      \* the boxes that may hold a point
  Node,       \* the inner nodes of the tree, each the set of the blocks below it
  Zone,       \* those with Multi_Thread_Rebuild_Point_Num points or more
  Box,        \* the boxes that are deleted
  Searcher,   \* the OpenMP threads of h_share_model
  MaxLog      \* bound on the length of Rebuild_Logger

ASSUME TreeAssumption ==
  /\ IsFiniteSet(Searcher)
  /\ IsFiniteSet(Block)
  /\ Node \subseteq (SUBSET Block) \ {{}}
  /\ Zone \subseteq Node
  /\ Block \in Node
  /\ Box \subseteq (SUBSET Block) \ {{}}
  /\ \A m, n \in Node : m \subseteq n \/ n \subseteq m \/ m \cap n = {}
  /\ MaxLog \in Nat

VARIABLES
  held,        \* the blocks with a live point
  ptr,         \* Rebuild_Ptr: the subtree to rebuild, {} for nullptr
  owed,        \* who still has to push a deletion down to that subtree
  rebuildFlag, \* rebuild_flag
  logger,      \* Rebuild_Logger
  counter,     \* search_mutex_counter
  workLock,    \* the rebuilding thread holds working_flag_mutex
  ptrLock,     \* the rebuilding thread holds rebuild_ptr_mutex_lock
  rangeLock,   \* a range search holds search_flag_mutex
  rpc, target, fresh, current,  \* the rebuilding thread and its new tree
  mpc, op, asked,               \* the mapping thread
  spc,                          \* the searching threads
  reading,     \* the mapping thread's range search reads nodes of the subtree
  stale,       \* ... which have been taken out of the tree since
  clean        \* no rebuild so far met old operations or an empty copy

treeVars   == <<held, owed>>
rebuildVars == <<rpc, target, fresh, current, ptrLock, clean>>
mainVars   == <<mpc, op, asked>>
rangeVars  == <<rangeLock, reading, stale>>
vars == <<held, ptr, owed, rebuildFlag, logger, counter, workLock, ptrLock,
          rangeLock, rpc, target, fresh, current, mpc, op, asked, spc,
          reading, stale, clean>>

Operation == [kind : {"add", "delete"}, blocks : SUBSET Block]

NoOperation == [kind |-> "delete", blocks |-> {}]

(* What an operation does to a set of live blocks (run_operation, and the  *)
(* same functions called on the tree itself).                              *)
run_operation(b, o) ==
  IF o.kind = "add" THEN b \cup o.blocks ELSE b \ o.blocks

Within(o, z) == [o EXCEPT !.blocks = @ \cap z]
Outside(o, z) == [o EXCEPT !.blocks = @ \ z]

Above(z) == {n \in Node : z \subseteq n /\ z # n}
IsFather(f, z) == f \in Above(z) /\ \A n \in Above(z) : f \subseteq n

Covers(o, n) == o.kind = "delete" /\ n \subseteq o.blocks
CoversAbove(o, z) == \E n \in Above(z) : Covers(o, n)

(* The nodes the operation comes to.  The range search looks at the box of *)
(* a node when it is there, and so comes to the sons of those that meet it. *)
Reached(n) ==
  \/ op.blocks \cap n # {}
  \/ mpc = "search" /\ \E f \in Node : IsFather(f, n) /\ op.blocks \cap f # {}

(* What the mapping thread has in its map: the live blocks, less those     *)
(* whose deletion still waits above the subtree.                           *)
Content == IF owed = "nobody" THEN held ELSE held \ ptr

Running == rpc # "crashed"
Searching(s) == spc[s] # "out"
AllOut == \A s \in Searcher : spc[s] = "out"

Init ==
  /\ held \in SUBSET Block
  /\ ptr = {} /\ owed = "nobody"
  /\ rebuildFlag = FALSE /\ logger = <<>>
  /\ counter = 0
  /\ workLock = FALSE /\ ptrLock = FALSE /\ rangeLock = FALSE
  /\ rpc = "idle" /\ target = {} /\ fresh = {} /\ current = NoOperation
  /\ mpc = "idle" /\ op = NoOperation /\ asked = {}
  /\ spc = [s \in Searcher |-> "out"]
  /\ reading = FALSE /\ stale = FALSE
  /\ clean = TRUE

-----------------------------------------------------------------------------
(* The mapping thread.                                                     *)

Log(o) == logger' = IF rebuildFlag THEN Append(logger, o) ELSE logger

(* Add_Points and Delete_Point_Boxes take the next point or box.  The      *)
(* searches of a scan have joined by then.                                 *)
MainBegin(o) ==
  /\ Running /\ mpc = "idle" /\ AllOut
  /\ Len(logger) + 1 < MaxLog
  /\ op' = o
  /\ \/ o.kind = "add" /\ mpc' = "search"  \* downsample_switch
     \/ mpc' = "walk"
  /\ UNCHANGED <<treeVars, ptr, rebuildFlag, logger, counter, workLock,
                 rebuildVars, rangeVars, asked, spc>>

(* Who hands deletions on: Add_by_point and Search_by_range at every node  *)
(* they come to.  Delete_by_range returns at a node that is marked.        *)
OwesPush ==
  /\ ptr # {} /\ owed # "nobody" /\ op.kind = "add"
  /\ \E f \in Above(ptr) : IsFather(f, ptr) /\ Reached(f)

(* ... from the grandfather to the father *)
HandedOn ==
  IF /\ owed = "above" /\ op.kind = "add"
     /\ \E f, g \in Above(ptr) : IsFather(f, ptr) /\ IsFather(g, f) /\ Reached(g)
    THEN "father" ELSE owed

(* Mutant: the pushed deletion is not logged.                              *)
Mut_Push_Down ==
  /\ Running /\ mpc \in {"search", "walk"} /\ OwesPush
  /\ ~workLock
  /\ held' = held \ ptr
  /\ owed' = "nobody"
  /\ logger' = logger
  /\ UNCHANGED <<ptr, rebuildFlag, counter, workLock, rebuildVars, rangeVars,
                 mainVars, spc>>

(* Push_Down at the father of the subtree under rebuild hands the deletion *)
(* on, and logs it.                                                        *)
Push_Down ==
  /\ Running /\ mpc \in {"search", "walk"} /\ OwesPush
  /\ ~workLock
  /\ held' = held \ ptr
  /\ owed' = "nobody"
  /\ Log([kind |-> "delete", blocks |-> ptr])
  /\ UNCHANGED <<ptr, rebuildFlag, counter, workLock, rebuildVars, rangeVars,
                 mainVars, spc>>

(* Search_by_range of Add_Points.  Below the root it enters the subtree    *)
(* under search_flag_mutex; when the whole tree is rebuilt it takes no     *)
(* lock.                                                                   *)
RangeEnter ==
  /\ Running /\ mpc = "search" /\ ~OwesPush
  /\ mpc' = "range"
  /\ reading' = (ptr # {} /\ Reached(ptr))
  /\ rangeLock' = (reading' /\ ptr # Block)
  /\ owed' = HandedOn
  /\ UNCHANGED <<held, ptr, rebuildFlag, logger, counter, workLock,
                 rebuildVars, stale, op, asked, spc>>

(* The point is kept, or a better one is in its box already.               *)
RangeLeave ==
  /\ Running /\ mpc = "range"
  /\ rangeLock' = FALSE /\ reading' = FALSE /\ stale' = FALSE
  /\ mpc' \in {"walk", "idle"}
  /\ UNCHANGED <<treeVars, ptr, rebuildFlag, logger, counter, workLock,
                 rebuildVars, op, asked, spc>>

(* The operation does not reach the subtree under rebuild.  On its way it  *)
(* may push a deletion from the grandfather to the father.                 *)
MainDirect ==
  /\ Running /\ mpc = "walk" /\ ~OwesPush
  /\ ptr \cap op.blocks = {}
  /\ held' = run_operation(held, op)
  /\ owed' = HandedOn
  /\ mpc' = "unwind" /\ asked' = {}
  /\ UNCHANGED <<ptr, rebuildFlag, logger, counter, workLock, rebuildVars,
                 rangeVars, op, spc>>

(* Delete_by_range returns at a node above the subtree: one that is marked *)
(* already, or one that lies in the box, which it marks and leaves with    *)
(* the working_flag it has just set.                                       *)
MainCover ==
  /\ Running /\ mpc = "walk" /\ op.kind = "delete"
  /\ ptr \cap op.blocks # {} /\ (owed # "nobody" \/ CoversAbove(op, ptr))
  /\ held' = run_operation(held, Outside(op, ptr))
  /\ owed' = CASE owed = "covered" -> "covered"
               [] \E n \in Above(ptr) : Covers(op, n) /\ ~IsFather(n, ptr) -> "above"
               [] owed = "nobody" -> "covered"
               [] OTHER -> owed
  /\ mpc' = "unwind" /\ asked' = ptr
  /\ UNCHANGED <<ptr, rebuildFlag, logger, counter, workLock, rebuildVars,
                 rangeVars, op, spc>>

(* Mutant: the box stands for the subtree.                                 *)
Mut_MainAsk ==
  /\ Running /\ mpc = "walk" /\ owed = "nobody"
  /\ ptr \cap op.blocks # {} /\ ~CoversAbove(op, ptr)
  /\ held' = run_operation(held, Outside(op, ptr))
  /\ mpc' = "ask" /\ asked' = op.blocks
  /\ UNCHANGED <<owed, ptr, rebuildFlag, logger, counter, workLock,
                 rebuildVars, rangeVars, op, spc>>

(* The rest of the operation is done, and the check `*Rebuild_Ptr == son`  *)
(* has sent it to the branch that waits for working_flag_mutex.            *)
MainAsk ==
  /\ Running /\ mpc = "walk" /\ owed = "nobody"
  /\ ptr \cap op.blocks # {} /\ ~CoversAbove(op, ptr)
  /\ held' = run_operation(held, Outside(op, ptr))
  /\ mpc' = "ask" /\ asked' = ptr
  /\ UNCHANGED <<owed, ptr, rebuildFlag, logger, counter, workLock,
                 rebuildVars, rangeVars, op, spc>>

(* With the lock: the operation inside the subtree, logged if a rebuild is *)
(* going on.                                                               *)
MainLocked ==
  /\ Running /\ mpc = "ask" /\ ~workLock
  /\ held' = run_operation(held, Within(op, asked))
  /\ Log(Within(op, asked))
  /\ mpc' = "unwind"
  /\ UNCHANGED <<owed, ptr, rebuildFlag, counter, workLock, rebuildVars,
                 rangeVars, op, asked, spc>>

(* Rebuild, called on the way back for a node whose criterion fails: the   *)
(* larger subtree wins, and a request is dropped while the rebuilding      *)
(* thread holds its mutex.  A small subtree is rebuilt at once, with the   *)
(* points it has; it lies outside the one under rebuild, whose TreeSize    *)
(* counts deleted points too and so never falls below the threshold that   *)
(* would reset Rebuild_Ptr (ikd_Tree.cpp:843).                             *)
Rebuild(z) ==
  /\ z \cap op.blocks # {} /\ ~(z \subseteq asked) /\ ~Covers(op, z)
  /\ ~ptrLock
  /\ ptr = {} \/ Cardinality(z) > Cardinality(ptr)
  /\ ptr' = z /\ held' = Content /\ owed' = "nobody"

MainUnwind ==
  /\ Running /\ mpc = "unwind"
  /\ \/ \E z \in Zone : Rebuild(z)
     \/ UNCHANGED <<ptr, treeVars>>
  /\ mpc' = "idle" /\ asked' = {}
  /\ UNCHANGED <<rebuildFlag, logger, counter, workLock, rebuildVars,
                 rangeVars, op, spc>>

-----------------------------------------------------------------------------
(* The searching threads, Nearest_Search and Search.                       *)

(* The check `*Rebuild_Ptr == son` of a search that comes to the subtree.  *)
SearchAsk(s) ==
  /\ Running /\ spc[s] = "out" /\ mpc = "idle" /\ ptr # {}
  /\ spc' = [spc EXCEPT ![s] = "ask"]
  /\ UNCHANGED <<treeVars, ptr, rebuildFlag, logger, counter, workLock,
                 rebuildVars, rangeVars, mainVars>>

(* Mutant: the search does not wait while the counter is -1.               *)
Mut_SearchEnter(s) ==
  /\ Running /\ spc[s] = "ask" /\ ~rangeLock
  /\ counter' = counter + 1
  /\ spc' = [spc EXCEPT ![s] = "in"]
  /\ UNCHANGED <<treeVars, ptr, rebuildFlag, logger, workLock, rebuildVars,
                 rangeVars, mainVars>>

SearchEnter(s) ==
  /\ Running /\ spc[s] = "ask" /\ ~rangeLock /\ counter # -1
  /\ counter' = counter + 1
  /\ spc' = [spc EXCEPT ![s] = "in"]
  /\ UNCHANGED <<treeVars, ptr, rebuildFlag, logger, workLock, rebuildVars,
                 rangeVars, mainVars>>

(* Mutant: the search leaves without taking itself off the counter.        *)
Mut_SearchLeave(s) ==
  /\ Running /\ spc[s] = "in" /\ ~rangeLock
  /\ counter' = counter
  /\ spc' = [spc EXCEPT ![s] = "out"]
  /\ UNCHANGED <<treeVars, ptr, rebuildFlag, logger, workLock, rebuildVars,
                 rangeVars, mainVars>>

SearchLeave(s) ==
  /\ Running /\ spc[s] = "in" /\ ~rangeLock
  /\ counter' = counter - 1
  /\ spc' = [spc EXCEPT ![s] = "out"]
  /\ UNCHANGED <<treeVars, ptr, rebuildFlag, logger, workLock, rebuildVars,
                 rangeVars, mainVars>>

-----------------------------------------------------------------------------
(* The rebuilding thread, multi_thread_rebuild.                            *)

(* Both mutexes; Rebuild_Ptr is looked at under them.                      *)
RebuildLook ==
  /\ Running /\ rpc = "idle"
  /\ ptrLock' = TRUE /\ rpc' = "look"
  /\ UNCHANGED <<treeVars, ptr, rebuildFlag, logger, counter, workLock, target,
                 fresh, current, clean, mainVars, spc, rangeVars>>

RebuildNothing ==
  /\ Running /\ rpc = "look" /\ ptr = {}
  /\ ptrLock' = FALSE /\ rpc' = "idle"
  /\ UNCHANGED <<treeVars, ptr, rebuildFlag, logger, counter, workLock, target,
                 fresh, current, clean, mainVars, spc, rangeVars>>

RebuildBegin ==
  /\ Running /\ rpc = "look" /\ ptr # {}
  /\ workLock' = TRUE /\ rebuildFlag' = TRUE
  /\ target' = ptr
  /\ clean' = (clean /\ logger = <<>>)
  /\ rpc' = "waitcopy"
  /\ UNCHANGED <<treeVars, ptr, logger, counter, ptrLock, fresh, current,
                 mainVars, spc, rangeVars>>

(* Lock Search: wait until no counted search is below, then -1.            *)
LockSearch(from, to) ==
  /\ Running /\ rpc = from /\ ~rangeLock /\ counter = 0
  /\ counter' = -1 /\ rpc' = to
  /\ UNCHANGED <<treeVars, ptr, rebuildFlag, logger, workLock, ptrLock, target,
                 fresh, current, clean, mainVars, spc, rangeVars>>

(* Mutant: Unlock Search is forgotten.                                     *)
Mut_Flatten ==
  /\ Running /\ rpc = "copy" /\ ~rangeLock
  /\ fresh' = held \cap target
  /\ counter' = counter /\ workLock' = FALSE
  /\ rpc' = "build"
  /\ UNCHANGED <<treeVars, ptr, rebuildFlag, logger, ptrLock, target, current,
                 clean, mainVars, spc, rangeVars>>

(* flatten has copied the live points; the locks are given back.           *)
Flatten ==
  /\ Running /\ rpc = "copy" /\ ~rangeLock
  /\ fresh' = held \cap target
  /\ counter' = 0 /\ workLock' = FALSE
  /\ rpc' = "build"
  /\ UNCHANGED <<treeVars, ptr, rebuildFlag, logger, ptrLock, target, current,
                 clean, mainVars, spc, rangeVars>>

(* BuildTree, then both mutexes; a copy without a point has no tree, no    *)
(* replay and no lock.                                                     *)
BuildTree ==
  /\ Running /\ rpc = "build"
  /\ IF fresh = {} THEN rpc' = "waitswap" /\ clean' = FALSE /\ UNCHANGED workLock
     ELSE rpc' = "replay" /\ workLock' = TRUE /\ UNCHANGED clean
  /\ UNCHANGED <<treeVars, ptr, rebuildFlag, logger, counter, ptrLock, target,
                 fresh, current, mainVars, spc, rangeVars>>

(* An operation is taken from the logger with both locks ...               *)
ReplayPop ==
  /\ Running /\ rpc = "replay" /\ logger # <<>>
  /\ current' = Head(logger) /\ logger' = Tail(logger)
  /\ workLock' = FALSE /\ rpc' = "run"
  /\ UNCHANGED <<treeVars, ptr, rebuildFlag, counter, ptrLock, target, fresh,
                 clean, mainVars, spc, rangeVars>>

(* ... and done on the new tree without them.                              *)
ReplayRun ==
  /\ Running /\ rpc = "run"
  /\ fresh' = run_operation(fresh, current)
  /\ current' = NoOperation
  /\ workLock' = TRUE /\ rpc' = "replay"
  /\ UNCHANGED <<treeVars, ptr, rebuildFlag, logger, counter, ptrLock, target,
                 clean, mainVars, spc, rangeVars>>

(* Mutant: the replay ends before the logger is empty.                     *)
Mut_ReplayDone ==
  /\ Running /\ rpc = "replay"
  /\ rpc' = "waitswap"
  /\ UNCHANGED <<treeVars, ptr, rebuildFlag, logger, counter, workLock, ptrLock,
                 target, fresh, current, clean, mainVars, spc, rangeVars>>

ReplayDone ==
  /\ Running /\ rpc = "replay" /\ logger = <<>>
  /\ rpc' = "waitswap"
  /\ UNCHANGED <<treeVars, ptr, rebuildFlag, logger, counter, workLock, ptrLock,
                 target, fresh, current, clean, mainVars, spc, rangeVars>>

(* The new tree takes the old one's place.  A deletion owed from above     *)
(* stays owed, unless it has come to the father by Push_Down, which leaves *)
(* the father's working_flag alone: then Update takes the father's mark    *)
(* back.                                                                   *)
Swap ==
  /\ Running /\ rpc = "swap"
  /\ \/ owed \in {"covered", "above", "father"} /\ held' = held \ target
     \/ owed \in {"nobody", "father"} /\ held' = (held \ target) \cup fresh
  /\ owed' = "nobody"
  /\ stale' = reading
  /\ rpc' = "unlock"
  /\ UNCHANGED <<ptr, rebuildFlag, logger, counter, workLock, ptrLock, target,
                 fresh, current, clean, mainVars, spc, rangeLock, reading>>

(* Without a lock there was nothing to build, and the new tree's null root *)
(* is asked for its size: the compiler may drop the unused value, or the   *)
(* process ends here.                                                      *)
SwapCrash ==
  /\ Running /\ rpc = "swap" /\ ~workLock
  /\ rpc' = "crashed"
  /\ UNCHANGED <<treeVars, ptr, rebuildFlag, logger, counter, workLock, ptrLock,
                 target, fresh, current, clean, mainVars, spc, rangeVars>>

(* Mutant: the old nodes are deleted without waiting for search_flag_mutex. *)
Mut_UnlockSearch ==
  /\ Running /\ rpc = "unlock"
  /\ counter' = 0 /\ ptr' = {} /\ workLock' = FALSE
  /\ rpc' = "clear"
  /\ UNCHANGED <<treeVars, rebuildFlag, logger, ptrLock, target, fresh, current,
                 clean, mainVars, spc, rangeVars>>

(* Unlock Search, and nothing is under rebuild any more.                   *)
UnlockSearch ==
  /\ Running /\ rpc = "unlock" /\ ~rangeLock
  /\ counter' = 0 /\ ptr' = {} /\ workLock' = FALSE
  /\ rpc' = "clear"
  /\ UNCHANGED <<treeVars, rebuildFlag, logger, ptrLock, target, fresh, current,
                 clean, mainVars, spc, rangeVars>>

(* rebuild_flag is reset after the mutex has been given back.              *)
ClearFlag ==
  /\ Running /\ rpc = "clear"
  /\ rebuildFlag' = FALSE /\ rpc' = "free"
  /\ UNCHANGED <<treeVars, ptr, logger, counter, workLock, ptrLock, target,
                 fresh, current, clean, mainVars, spc, rangeVars>>

(* Delete discarded tree nodes.                                            *)
Free ==
  /\ Running /\ rpc = "free"
  /\ target' = {} /\ fresh' = {}
  /\ ptrLock' = FALSE /\ rpc' = "idle"
  /\ UNCHANGED <<treeVars, ptr, rebuildFlag, logger, counter, workLock, current,
                 clean, mainVars, spc, rangeVars>>

-----------------------------------------------------------------------------
MainSteps ==
  \/ Push_Down \/ RangeEnter \/ RangeLeave
  \/ MainDirect \/ MainCover \/ MainAsk \/ MainLocked \/ MainUnwind

MainNext ==
  \/ \E b \in Block : MainBegin([kind |-> "add", blocks |-> {b}])
  \/ \E b \in Box : MainBegin([kind |-> "delete", blocks |-> b])
  \/ MainSteps

RebuildNext ==
  \/ RebuildLook \/ RebuildNothing \/ RebuildBegin
  \/ LockSearch("waitcopy", "copy") \/ Flatten \/ BuildTree
  \/ ReplayPop \/ ReplayRun \/ ReplayDone
  \/ LockSearch("waitswap", "swap") \/ Swap \/ SwapCrash \/ UnlockSearch
  \/ ClearFlag \/ Free

(* The process has ended.                                                  *)
Stopped == ~Running /\ UNCHANGED vars

Next ==
  \/ MainNext
  \/ \E s \in Searcher : SearchAsk(s) \/ SearchEnter(s) \/ SearchLeave(s)
  \/ RebuildNext
  \/ Stopped

Spec == Init /\ [][Next]_vars

(* Each thread goes on whenever it can; nothing makes the mapping thread   *)
(* begin an operation or a search begin.                                   *)
Fairness ==
  /\ WF_vars(RebuildNext)
  /\ WF_vars(MainSteps)
  /\ \A s \in Searcher : WF_vars(SearchEnter(s)) /\ WF_vars(SearchLeave(s))

FairSpec == Spec /\ Fairness

-----------------------------------------------------------------------------
TypeOK ==
  /\ held \in SUBSET Block
  /\ ptr \in Zone \cup {{}}
  /\ owed \in {"nobody", "covered", "above", "father"}
  /\ rebuildFlag \in BOOLEAN
  /\ logger \in Seq(Operation)
  /\ counter \in Int
  /\ workLock \in BOOLEAN /\ ptrLock \in BOOLEAN /\ rangeLock \in BOOLEAN
  /\ rpc \in {"idle", "look", "waitcopy", "copy", "build", "replay", "run",
              "waitswap", "swap", "unlock", "clear", "free", "crashed"}
  /\ target \in Zone \cup {{}}
  /\ fresh \in SUBSET Block
  /\ current \in Operation
  /\ mpc \in {"idle", "search", "range", "walk", "ask", "unwind"}
  /\ op \in Operation
  /\ asked \in Zone \cup {{}}
  /\ spc \in [Searcher -> {"out", "ask", "in"}]
  /\ reading \in BOOLEAN /\ stale \in BOOLEAN /\ clean \in BOOLEAN

Inside == {s \in Searcher : spc[s] = "in"}

(* search_mutex_counter is the number of searches inside, or -1 while the  *)
(* subtree is copied or swapped, and then no search is inside.             *)
SearchesLockedOut ==
  IF rpc \in {"copy", "swap", "unlock"} THEN counter = -1 /\ Inside = {}
  ELSE rpc # "crashed" => counter = Cardinality(Inside)

(* The nodes that are deleted are read by nobody, unless a range search    *)
(* has entered the tree at its root, where it takes no lock.               *)
DiscardedUnread ==
  rpc \in {"clear", "free"} /\ stale => target = Block

(* The operations of log take the blocks first to the blocks last.         *)
Reaches(first, log, last) ==
  \E h \in [1 .. Len(log) + 1 -> SUBSET Block] :
    /\ h[1] = first
    /\ h[Len(log) + 1] = last
    /\ \A i \in 1 .. Len(log) : h[i + 1] = run_operation(h[i], log[i])

(* What the new tree will hold when the operation in hand is done.         *)
Rebuilt == IF rpc = "run" THEN run_operation(fresh, current) ELSE fresh

(* As long as no rebuild has begun with operations of the last one in the  *)
(* logger or has copied nothing, the logger takes the new tree to what the *)
(* tree in use holds.                                                      *)
ReplayAgrees ==
  clean /\ rpc \in {"build", "replay", "run", "waitswap", "swap"}
    => Reaches(Rebuilt, logger, held \cap target)

(* Swapping the subtree changes nothing in the map, where the thread had a *)
(* copy to work on and no pushed deletion waits at the father.             *)
SwapKeepsContent ==
  [][rpc = "swap" /\ rpc' = "unlock" /\ clean /\ owed # "father"
       => Content' = Content]_vars

(* "ERROR!!!": a rebuild begins with an empty logger.                      *)
LoggerEmptyAtStart ==
  [][rpc = "look" /\ rpc' = "waitcopy" /\ clean => logger = <<>>]_vars

(* Who waits: the mapping thread for working_flag_mutex, a search for      *)
(* search_flag_mutex or the counter, the rebuilding thread for both.       *)
MainWaits == mpc = "ask" /\ workLock
SearchWaits(s) == spc[s] = "ask" /\ (rangeLock \/ counter = -1)
RebuildWaits ==
  \/ rpc \in {"waitcopy", "waitswap"} /\ (rangeLock \/ counter # 0)
  \/ rpc \in {"copy", "unlock"} /\ rangeLock

SearchCanLeave(s) == spc[s] = "in" /\ ~rangeLock

(* Nobody waits in a circle.  Locks are taken in different orders by three *)
(* kinds of threads, and a mark of one, the counter, is kept across the    *)
(* critical sections of another.  But the rebuilding thread waits only for *)
(* a range search, which waits for nobody, or for a search that can leave, *)
(* and nobody waits for the rebuilding thread while it waits itself: it    *)
(* lets searches in as long as it waits for others to leave, and the       *)
(* mapping thread asks for its mutex when the searches have joined.        *)
NoCircularWait ==
  Running =>
    /\ RebuildWaits => mpc = "range" \/ \E s \in Searcher : SearchCanLeave(s)
    /\ MainWaits => ~RebuildWaits
    /\ \A s \in Searcher : SearchWaits(s) => ~RebuildWaits

(* Who waits for the rebuilding thread is served: the mapping thread for   *)
(* its lock, a search for the counter.                                     *)
WaitersServed ==
  /\ mpc = "ask" ~> (mpc = "unwind" \/ ~Running)
  /\ \A s \in Searcher : spc[s] = "ask" ~> (spc[s] = "in" \/ ~Running)

(* Once the map is left alone a requested rebuild finishes.                *)
QuietRebuildFinishes ==
  <>[](mpc = "idle" /\ AllOut) => (ptr # {} ~> (ptr = {} \/ ~Running))
=============================================================================
