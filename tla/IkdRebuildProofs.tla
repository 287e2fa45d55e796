--------------------------- MODULE IkdRebuildProofs ---------------------------
(* The background rebuild of the ikd-Tree, for every tree of blocks, every *)
(* number of searching threads and a logger of any length: the locks keep  *)
(* searches out of the copy and of the swap, and the logger brings the new *)
(* tree up to date.                                                        *)
EXTENDS IkdRebuild, FiniteSetTheorems, SequenceTheorems, TLAPS

(* The thread that rebuilds holds Rebuild_Ptr still from its first look to *)
(* the end, and working_flag_mutex while it copies, takes an operation or, *)
(* having replayed, swaps.                                                 *)
Working == {"waitcopy", "copy", "build", "replay", "run", "waitswap", "swap", "unlock"}

Locking ==
  rpc # "crashed" =>
  /\ rpc # "idle" => ptrLock
  /\ rpc \in {"waitcopy", "copy", "replay"} => workLock
  /\ clean /\ rpc \in {"waitswap", "swap", "unlock"} => workLock
  /\ rpc \in Working => ptr = target /\ ptr # {} /\ rebuildFlag
  /\ mpc = "ask" /\ ptr # {} => asked = ptr

(* What a range search reads.                                              *)
Ranging ==
  /\ (rangeLock \/ stale) => reading
  /\ reading => mpc = "range"
  /\ reading /\ ~rangeLock /\ ptr # {} => ptr = Block
  /\ stale /\ rpc = "unlock" => rangeLock \/ target = Block
  /\ stale /\ rpc \in {"clear", "free"} => target = Block

(* No operation is in the logger before the copy and after the replay.     *)
LoggerEmpty ==
  clean /\ rpc \in {"waitcopy", "copy", "waitswap", "swap"} => logger = <<>>

-----------------------------------------------------------------------------
(* Types.                                                                  *)

(* What an operation leaves is a set of blocks.                            *)
LEMMA OperationType ==
  ASSUME NEW b \in SUBSET Block, NEW o \in Operation
  PROVE  run_operation(b, o) \in SUBSET Block
  BY DEF run_operation, Operation

(* A part of an operation is an operation.                                 *)
LEMMA PartType ==
  ASSUME NEW o \in Operation, NEW z
  PROVE  Within(o, z) \in Operation /\ Outside(o, z) \in Operation
  BY DEF Within, Outside, Operation

(* What the assumption says of the constants' types.                       *)
LEMMA TreeTypes ==
  /\ Zone \subseteq (SUBSET Block) \ {{}}
  /\ Box \subseteq SUBSET Block
  /\ IsFiniteSet(Searcher)
  BY TreeAssumption

(* Initially the variables have their types.                               *)
LEMMA InitTypeOK == Init => TypeOK
<1> SUFFICES ASSUME Init PROVE TypeOK
  OBVIOUS
<1>1. NoOperation \in Operation /\ <<>> \in Seq(Operation)
  BY DEF NoOperation, Operation
<1>2. /\ rebuildFlag \in BOOLEAN /\ workLock \in BOOLEAN /\ ptrLock \in BOOLEAN
      /\ rangeLock \in BOOLEAN /\ reading \in BOOLEAN /\ stale \in BOOLEAN
      /\ clean \in BOOLEAN
  BY DEF Init
<1>3. QED
  BY <1>1, <1>2, TreeTypes DEF Init, TypeOK

(* The logger stays a sequence of operations.                              *)
LEMMA LogType ==
  ASSUME TypeOK, NEW o \in Operation, Log(o)
  PROVE  logger' \in Seq(Operation)
  BY AppendProperties DEF TypeOK, Log

(* Every step keeps the types.                                             *)
LEMMA NextTypeOK == TypeOK /\ [Next]_vars => TypeOK'
<1> SUFFICES ASSUME TypeOK, [Next]_vars PROVE TypeOK'
  OBVIOUS
<1> USE TreeTypes
<1>1a. CASE \E b \in Block : MainBegin([kind |-> "add", blocks |-> {b}])
  <2>1. PICK b \in Block : MainBegin([kind |-> "add", blocks |-> {b}])
    BY <1>1a
  <2>2. [kind |-> "add", blocks |-> {b}] \in Operation
    BY DEF Operation
  <2>3. QED
    BY <2>1, <2>2 DEF TypeOK, MainBegin, treeVars, rebuildVars, rangeVars
<1>1b. CASE \E b \in Box : MainBegin([kind |-> "delete", blocks |-> b])
  <2>1. PICK b \in Box : MainBegin([kind |-> "delete", blocks |-> b])
    BY <1>1b
  <2>2. [kind |-> "delete", blocks |-> b] \in Operation
    BY DEF Operation
  <2>3. QED
    BY <2>1, <2>2 DEF TypeOK, MainBegin, treeVars, rebuildVars, rangeVars
<1>2. CASE Push_Down
  <2>1. [kind |-> "delete", blocks |-> ptr] \in Operation
    BY DEF Operation, TypeOK
  <2>2. logger' \in Seq(Operation)
    BY <1>2, <2>1, LogType DEF Push_Down
  <2>3. QED
    BY <1>2, <2>2 DEF TypeOK, Push_Down, rebuildVars, mainVars, rangeVars
<1>h. HandedOn \in {"nobody", "covered", "above", "father"}
  BY DEF TypeOK, HandedOn
<1>3. CASE RangeEnter
  <2>1. reading' \in BOOLEAN /\ rangeLock' \in BOOLEAN
    BY <1>3 DEF RangeEnter
  <2>2. QED
    BY <1>3, <1>h, <2>1 DEF TypeOK, RangeEnter, rebuildVars
<1>4. CASE RangeLeave
  <2>1. rangeLock' \in BOOLEAN /\ reading' \in BOOLEAN /\ stale' \in BOOLEAN
    BY <1>4 DEF TypeOK, RangeLeave
  <2>2. QED
    BY <1>4, <2>1 DEF TypeOK, RangeLeave, treeVars, rebuildVars, mainVars, rangeVars
<1>5. CASE MainDirect
  <2>1. held' \in SUBSET Block
    BY <1>5, OperationType DEF MainDirect, TypeOK
  <2>2. QED
    BY <1>5, <1>h, <2>1 DEF TypeOK, MainDirect, rebuildVars, rangeVars
<1>6. CASE MainCover
  <2>1. Outside(op, ptr) \in Operation
    BY PartType DEF TypeOK
  <2>2. held' \in SUBSET Block
    BY <1>6, <2>1, OperationType DEF MainCover, TypeOK
  <2>3. QED
    BY <1>6, <2>2 DEF TypeOK, MainCover, treeVars, rebuildVars, mainVars, rangeVars
<1>7. CASE MainAsk
  <2>1. Outside(op, ptr) \in Operation
    BY PartType DEF TypeOK
  <2>2. held' \in SUBSET Block
    BY <1>7, <2>1, OperationType DEF MainAsk, TypeOK
  <2>3. QED
    BY <1>7, <2>2 DEF TypeOK, MainAsk, treeVars, rebuildVars, mainVars, rangeVars
<1>8. CASE MainLocked
  <2>1. Within(op, asked) \in Operation
    BY PartType DEF TypeOK
  <2>2. logger' \in Seq(Operation) /\ held' \in SUBSET Block
    BY <1>8, <2>1, LogType, OperationType DEF MainLocked, TypeOK
  <2>3. QED
    BY <1>8, <2>2 DEF TypeOK, MainLocked, rebuildVars, rangeVars
<1>9. CASE MainUnwind
  BY <1>9 DEF TypeOK, MainUnwind, Rebuild, Content, treeVars, rebuildVars, rangeVars
<1>10. CASE \E s \in Searcher : SearchAsk(s)
  BY <1>10 DEF TypeOK, SearchAsk, treeVars, rebuildVars, mainVars, rangeVars
<1>11. CASE \E s \in Searcher : SearchEnter(s)
  BY <1>11 DEF TypeOK, SearchEnter, treeVars, rebuildVars, mainVars, rangeVars
<1>12. CASE \E s \in Searcher : SearchLeave(s)
  BY <1>12 DEF TypeOK, SearchLeave, treeVars, rebuildVars, mainVars, rangeVars
<1>13. CASE RebuildLook
  BY <1>13 DEF TypeOK, RebuildLook, treeVars, rebuildVars, mainVars, rangeVars
<1>14. CASE RebuildNothing
  <2>1. ptrLock' \in BOOLEAN
    BY <1>14 DEF TypeOK, RebuildNothing
  <2>2. QED
    BY <1>14, <2>1 DEF TypeOK, RebuildNothing, treeVars, rebuildVars, mainVars, rangeVars
<1>15. CASE RebuildBegin
  BY <1>15 DEF TypeOK, RebuildBegin, treeVars, rebuildVars, mainVars, rangeVars
<1>16. CASE LockSearch("waitcopy", "copy")
  BY <1>16 DEF TypeOK, LockSearch, treeVars, rebuildVars, mainVars, rangeVars
<1>17. CASE Flatten
  <2>1. workLock' \in BOOLEAN /\ fresh' \in SUBSET Block
    BY <1>17 DEF TypeOK, Flatten
  <2>2. QED
    BY <1>17, <2>1 DEF TypeOK, Flatten, treeVars, rebuildVars, mainVars, rangeVars
<1>18. CASE BuildTree
  <2>1. clean' \in BOOLEAN /\ workLock' \in BOOLEAN
    BY <1>18 DEF TypeOK, BuildTree
  <2>2. QED
    BY <1>18, <2>1 DEF TypeOK, BuildTree, treeVars, rebuildVars, mainVars, rangeVars
<1>19. CASE ReplayPop
  <2>1. current' \in Operation /\ logger' \in Seq(Operation)
    BY <1>19, HeadTailProperties DEF ReplayPop, TypeOK
  <2>2. workLock' \in BOOLEAN
    BY <1>19 DEF ReplayPop
  <2>3. QED
    BY <1>19, <2>1, <2>2 DEF TypeOK, ReplayPop, treeVars, mainVars, rangeVars
<1>20. CASE ReplayRun
  <2>1. fresh' \in SUBSET Block
    BY <1>20, OperationType DEF ReplayRun, TypeOK
  <2>2. QED
    BY <1>20, <2>1 DEF TypeOK, ReplayRun, NoOperation, Operation, treeVars, mainVars, rangeVars
<1>21. CASE ReplayDone
  BY <1>21 DEF TypeOK, ReplayDone, treeVars, rebuildVars, mainVars, rangeVars
<1>22. CASE LockSearch("waitswap", "swap")
  BY <1>22 DEF TypeOK, LockSearch, treeVars, rebuildVars, mainVars, rangeVars
<1>23. CASE Swap
  BY <1>23 DEF TypeOK, Swap, treeVars, rebuildVars, mainVars, rangeVars
<1>24. CASE SwapCrash
  BY <1>24 DEF TypeOK, SwapCrash, treeVars, rebuildVars, mainVars, rangeVars
<1>25. CASE UnlockSearch
  <2>1. workLock' \in BOOLEAN
    BY <1>25 DEF TypeOK, UnlockSearch
  <2>2. QED
    BY <1>25, <2>1 DEF TypeOK, UnlockSearch, treeVars, rebuildVars, mainVars, rangeVars
<1>26. CASE ClearFlag
  <2>1. rebuildFlag' \in BOOLEAN
    BY <1>26 DEF TypeOK, ClearFlag
  <2>2. QED
    BY <1>26, <2>1 DEF TypeOK, ClearFlag, treeVars, rebuildVars, mainVars, rangeVars
<1>27. CASE Free
  <2>1. ptrLock' \in BOOLEAN
    BY <1>27 DEF TypeOK, Free
  <2>2. QED
    BY <1>27, <2>1 DEF TypeOK, Free, treeVars, rebuildVars, mainVars, rangeVars
<1>28. CASE UNCHANGED vars
  BY <1>28 DEF TypeOK, vars
<1>q. QED
  BY <1>1a, <1>1b, <1>2, <1>3, <1>4, <1>5, <1>6, <1>7, <1>8, <1>9, <1>10, <1>11, <1>12, <1>13, <1>14, <1>15, <1>16, <1>17, <1>18, <1>19, <1>20, <1>21, <1>22, <1>23, <1>24, <1>25, <1>26, <1>27, <1>28
  DEF Next, MainNext, MainSteps, RebuildNext, Stopped

(* The types hold of every run.                                            *)
THEOREM TypeCorrect == Spec => []TypeOK
<1>1. Init => TypeOK
  BY InitTypeOK
<1>2. TypeOK /\ [Next]_vars => TypeOK'
  BY NextTypeOK
<1>3. QED
  BY <1>1, <1>2, PTL DEF Spec

-----------------------------------------------------------------------------
(* The locks.                                                              *)

(* Every step keeps the discipline of the locks.                           *)
LEMMA NextLocking == Locking /\ [Next]_vars => Locking'
<1> SUFFICES ASSUME Locking, [Next]_vars PROVE Locking'
  OBVIOUS
<1>1a. CASE \E b \in Block : MainBegin([kind |-> "add", blocks |-> {b}])
  BY <1>1a DEF Locking, Working, Running, MainBegin, treeVars, rebuildVars, mainVars, rangeVars
<1>1b. CASE \E b \in Box : MainBegin([kind |-> "delete", blocks |-> b])
  BY <1>1b DEF Locking, Working, Running, MainBegin, treeVars, rebuildVars, mainVars, rangeVars
<1>2. CASE Push_Down
  BY <1>2 DEF Locking, Working, Running, Push_Down, Log, treeVars, rebuildVars, mainVars, rangeVars
<1>3. CASE RangeEnter
  BY <1>3 DEF Locking, Working, Running, RangeEnter, treeVars, rebuildVars, mainVars, rangeVars
<1>4. CASE RangeLeave
  BY <1>4 DEF Locking, Working, Running, RangeLeave, treeVars, rebuildVars, mainVars, rangeVars
<1>5. CASE MainDirect
  BY <1>5 DEF Locking, Working, Running, MainDirect, treeVars, rebuildVars, mainVars, rangeVars
<1>6. CASE MainCover
  BY <1>6 DEF Locking, Working, Running, MainCover, treeVars, rebuildVars, mainVars, rangeVars
<1>7. CASE MainAsk
  BY <1>7 DEF Locking, Working, Running, MainAsk, treeVars, rebuildVars, mainVars, rangeVars
<1>8. CASE MainLocked
  BY <1>8 DEF Locking, Working, Running, MainLocked, Log, treeVars, rebuildVars, mainVars, rangeVars
<1>9. CASE MainUnwind
  BY <1>9 DEF Locking, Working, Running, MainUnwind, Rebuild, treeVars, rebuildVars, mainVars, rangeVars
<1>10. CASE \E s \in Searcher : SearchAsk(s)
  BY <1>10 DEF Locking, Working, Running, SearchAsk, treeVars, rebuildVars, mainVars, rangeVars
<1>11. CASE \E s \in Searcher : SearchEnter(s)
  BY <1>11 DEF Locking, Working, Running, SearchEnter, treeVars, rebuildVars, mainVars, rangeVars
<1>12. CASE \E s \in Searcher : SearchLeave(s)
  BY <1>12 DEF Locking, Working, Running, SearchLeave, treeVars, rebuildVars, mainVars, rangeVars
<1>13. CASE RebuildLook
  BY <1>13 DEF Locking, Working, Running, RebuildLook, treeVars, rebuildVars, mainVars, rangeVars
<1>14. CASE RebuildNothing
  BY <1>14 DEF Locking, Working, Running, RebuildNothing, treeVars, rebuildVars, mainVars, rangeVars
<1>15. CASE RebuildBegin
  BY <1>15 DEF Locking, Working, Running, RebuildBegin, treeVars, rebuildVars, mainVars, rangeVars
<1>16. CASE LockSearch("waitcopy", "copy")
  BY <1>16 DEF Locking, Working, Running, LockSearch, treeVars, rebuildVars, mainVars, rangeVars
<1>17. CASE Flatten
  BY <1>17 DEF Locking, Working, Running, Flatten, treeVars, rebuildVars, mainVars, rangeVars
<1>18. CASE BuildTree
  BY <1>18 DEF Locking, Working, Running, BuildTree, treeVars, rebuildVars, mainVars, rangeVars
<1>19. CASE ReplayPop
  BY <1>19 DEF Locking, Working, Running, ReplayPop, treeVars, rebuildVars, mainVars, rangeVars
<1>20. CASE ReplayRun
  BY <1>20 DEF Locking, Working, Running, ReplayRun, treeVars, rebuildVars, mainVars, rangeVars
<1>21. CASE ReplayDone
  BY <1>21 DEF Locking, Working, Running, ReplayDone, treeVars, rebuildVars, mainVars, rangeVars
<1>22. CASE LockSearch("waitswap", "swap")
  BY <1>22 DEF Locking, Working, Running, LockSearch, treeVars, rebuildVars, mainVars, rangeVars
<1>23. CASE Swap
  BY <1>23 DEF Locking, Working, Running, Swap, treeVars, rebuildVars, mainVars, rangeVars
<1>24. CASE SwapCrash
  BY <1>24 DEF Locking, Working, Running, SwapCrash, treeVars, rebuildVars, mainVars, rangeVars
<1>25. CASE UnlockSearch
  BY <1>25 DEF Locking, Working, Running, UnlockSearch, treeVars, rebuildVars, mainVars, rangeVars
<1>26. CASE ClearFlag
  BY <1>26 DEF Locking, Working, Running, ClearFlag, treeVars, rebuildVars, mainVars, rangeVars
<1>27. CASE Free
  BY <1>27 DEF Locking, Working, Running, Free, treeVars, rebuildVars, mainVars, rangeVars
<1>28. CASE UNCHANGED vars
  BY <1>28 DEF Locking, Working, Running, vars
<1>q. QED
  BY <1>1a, <1>1b, <1>2, <1>3, <1>4, <1>5, <1>6, <1>7, <1>8, <1>9, <1>10, <1>11, <1>12, <1>13, <1>14, <1>15, <1>16, <1>17, <1>18, <1>19, <1>20, <1>21, <1>22, <1>23, <1>24, <1>25, <1>26, <1>27, <1>28
  DEF Next, MainNext, MainSteps, RebuildNext, Stopped

(* Every step keeps what a range search reads.                             *)
LEMMA NextRanging == Locking /\ Ranging /\ [Next]_vars => Ranging'
<1> SUFFICES ASSUME Locking, Ranging, [Next]_vars PROVE Ranging'
  OBVIOUS
<1>1a. CASE \E b \in Block : MainBegin([kind |-> "add", blocks |-> {b}])
  BY <1>1a DEF Locking, Working, Ranging, Running, MainBegin, treeVars, rebuildVars, mainVars, rangeVars
<1>1b. CASE \E b \in Box : MainBegin([kind |-> "delete", blocks |-> b])
  BY <1>1b DEF Locking, Working, Ranging, Running, MainBegin, treeVars, rebuildVars, mainVars, rangeVars
<1>2. CASE Push_Down
  BY <1>2 DEF Locking, Working, Ranging, Running, Push_Down, Log, treeVars, rebuildVars, mainVars, rangeVars
<1>3. CASE RangeEnter
  BY <1>3 DEF Locking, Working, Ranging, Running, RangeEnter, treeVars, rebuildVars, mainVars, rangeVars
<1>4. CASE RangeLeave
  BY <1>4 DEF Locking, Working, Ranging, Running, RangeLeave, treeVars, rebuildVars, mainVars, rangeVars
<1>5. CASE MainDirect
  BY <1>5 DEF Locking, Working, Ranging, Running, MainDirect, treeVars, rebuildVars, mainVars, rangeVars
<1>6. CASE MainCover
  BY <1>6 DEF Locking, Working, Ranging, Running, MainCover, treeVars, rebuildVars, mainVars, rangeVars
<1>7. CASE MainAsk
  BY <1>7 DEF Locking, Working, Ranging, Running, MainAsk, treeVars, rebuildVars, mainVars, rangeVars
<1>8. CASE MainLocked
  BY <1>8 DEF Locking, Working, Ranging, Running, MainLocked, Log, treeVars, rebuildVars, mainVars, rangeVars
<1>9. CASE MainUnwind
  BY <1>9 DEF Locking, Working, Ranging, Running, MainUnwind, Rebuild, treeVars, rebuildVars, mainVars, rangeVars
<1>10. CASE \E s \in Searcher : SearchAsk(s)
  BY <1>10 DEF Locking, Working, Ranging, Running, SearchAsk, treeVars, rebuildVars, mainVars, rangeVars
<1>11. CASE \E s \in Searcher : SearchEnter(s)
  BY <1>11 DEF Locking, Working, Ranging, Running, SearchEnter, treeVars, rebuildVars, mainVars, rangeVars
<1>12. CASE \E s \in Searcher : SearchLeave(s)
  BY <1>12 DEF Locking, Working, Ranging, Running, SearchLeave, treeVars, rebuildVars, mainVars, rangeVars
<1>13. CASE RebuildLook
  BY <1>13 DEF Locking, Working, Ranging, Running, RebuildLook, treeVars, rebuildVars, mainVars, rangeVars
<1>14. CASE RebuildNothing
  BY <1>14 DEF Locking, Working, Ranging, Running, RebuildNothing, treeVars, rebuildVars, mainVars, rangeVars
<1>15. CASE RebuildBegin
  BY <1>15 DEF Locking, Working, Ranging, Running, RebuildBegin, treeVars, rebuildVars, mainVars, rangeVars
<1>16. CASE LockSearch("waitcopy", "copy")
  BY <1>16 DEF Locking, Working, Ranging, Running, LockSearch, treeVars, rebuildVars, mainVars, rangeVars
<1>17. CASE Flatten
  BY <1>17 DEF Locking, Working, Ranging, Running, Flatten, treeVars, rebuildVars, mainVars, rangeVars
<1>18. CASE BuildTree
  BY <1>18 DEF Locking, Working, Ranging, Running, BuildTree, treeVars, rebuildVars, mainVars, rangeVars
<1>19. CASE ReplayPop
  BY <1>19 DEF Locking, Working, Ranging, Running, ReplayPop, treeVars, rebuildVars, mainVars, rangeVars
<1>20. CASE ReplayRun
  BY <1>20 DEF Locking, Working, Ranging, Running, ReplayRun, treeVars, rebuildVars, mainVars, rangeVars
<1>21. CASE ReplayDone
  BY <1>21 DEF Locking, Working, Ranging, Running, ReplayDone, treeVars, rebuildVars, mainVars, rangeVars
<1>22. CASE LockSearch("waitswap", "swap")
  BY <1>22 DEF Locking, Working, Ranging, Running, LockSearch, treeVars, rebuildVars, mainVars, rangeVars
<1>23. CASE Swap
  BY <1>23 DEF Locking, Working, Ranging, Running, Swap, treeVars, rebuildVars, mainVars, rangeVars
<1>24. CASE SwapCrash
  BY <1>24 DEF Locking, Working, Ranging, Running, SwapCrash, treeVars, rebuildVars, mainVars, rangeVars
<1>25. CASE UnlockSearch
  BY <1>25 DEF Locking, Working, Ranging, Running, UnlockSearch, treeVars, rebuildVars, mainVars, rangeVars
<1>26. CASE ClearFlag
  BY <1>26 DEF Locking, Working, Ranging, Running, ClearFlag, treeVars, rebuildVars, mainVars, rangeVars
<1>27. CASE Free
  BY <1>27 DEF Locking, Working, Ranging, Running, Free, treeVars, rebuildVars, mainVars, rangeVars
<1>28. CASE UNCHANGED vars
  BY <1>28 DEF Locking, Working, Ranging, Running, vars
<1>q. QED
  BY <1>1a, <1>1b, <1>2, <1>3, <1>4, <1>5, <1>6, <1>7, <1>8, <1>9, <1>10, <1>11, <1>12, <1>13, <1>14, <1>15, <1>16, <1>17, <1>18, <1>19, <1>20, <1>21, <1>22, <1>23, <1>24, <1>25, <1>26, <1>27, <1>28
  DEF Next, MainNext, MainSteps, RebuildNext, Stopped

(* Every step keeps the logger empty where it must be.                     *)
LEMMA NextLoggerEmpty ==
  Locking /\ LoggerEmpty /\ [Next]_vars => LoggerEmpty'
<1> SUFFICES ASSUME Locking, LoggerEmpty, [Next]_vars PROVE LoggerEmpty'
  OBVIOUS
<1>1a. CASE \E b \in Block : MainBegin([kind |-> "add", blocks |-> {b}])
  BY <1>1a DEF Locking, Working, LoggerEmpty, Running, MainBegin, treeVars, rebuildVars, mainVars, rangeVars
<1>1b. CASE \E b \in Box : MainBegin([kind |-> "delete", blocks |-> b])
  BY <1>1b DEF Locking, Working, LoggerEmpty, Running, MainBegin, treeVars, rebuildVars, mainVars, rangeVars
<1>2. CASE Push_Down
  BY <1>2 DEF Locking, Working, LoggerEmpty, Running, Push_Down, Log, treeVars, rebuildVars, mainVars, rangeVars
<1>3. CASE RangeEnter
  BY <1>3 DEF Locking, Working, LoggerEmpty, Running, RangeEnter, treeVars, rebuildVars, mainVars, rangeVars
<1>4. CASE RangeLeave
  BY <1>4 DEF Locking, Working, LoggerEmpty, Running, RangeLeave, treeVars, rebuildVars, mainVars, rangeVars
<1>5. CASE MainDirect
  BY <1>5 DEF Locking, Working, LoggerEmpty, Running, MainDirect, treeVars, rebuildVars, mainVars, rangeVars
<1>6. CASE MainCover
  BY <1>6 DEF Locking, Working, LoggerEmpty, Running, MainCover, treeVars, rebuildVars, mainVars, rangeVars
<1>7. CASE MainAsk
  BY <1>7 DEF Locking, Working, LoggerEmpty, Running, MainAsk, treeVars, rebuildVars, mainVars, rangeVars
<1>8. CASE MainLocked
  BY <1>8 DEF Locking, Working, LoggerEmpty, Running, MainLocked, Log, treeVars, rebuildVars, mainVars, rangeVars
<1>9. CASE MainUnwind
  BY <1>9 DEF Locking, Working, LoggerEmpty, Running, MainUnwind, Rebuild, treeVars, rebuildVars, mainVars, rangeVars
<1>10. CASE \E s \in Searcher : SearchAsk(s)
  BY <1>10 DEF Locking, Working, LoggerEmpty, Running, SearchAsk, treeVars, rebuildVars, mainVars, rangeVars
<1>11. CASE \E s \in Searcher : SearchEnter(s)
  BY <1>11 DEF Locking, Working, LoggerEmpty, Running, SearchEnter, treeVars, rebuildVars, mainVars, rangeVars
<1>12. CASE \E s \in Searcher : SearchLeave(s)
  BY <1>12 DEF Locking, Working, LoggerEmpty, Running, SearchLeave, treeVars, rebuildVars, mainVars, rangeVars
<1>13. CASE RebuildLook
  BY <1>13 DEF Locking, Working, LoggerEmpty, Running, RebuildLook, treeVars, rebuildVars, mainVars, rangeVars
<1>14. CASE RebuildNothing
  BY <1>14 DEF Locking, Working, LoggerEmpty, Running, RebuildNothing, treeVars, rebuildVars, mainVars, rangeVars
<1>15. CASE RebuildBegin
  BY <1>15 DEF Locking, Working, LoggerEmpty, Running, RebuildBegin, treeVars, rebuildVars, mainVars, rangeVars
<1>16. CASE LockSearch("waitcopy", "copy")
  BY <1>16 DEF Locking, Working, LoggerEmpty, Running, LockSearch, treeVars, rebuildVars, mainVars, rangeVars
<1>17. CASE Flatten
  BY <1>17 DEF Locking, Working, LoggerEmpty, Running, Flatten, treeVars, rebuildVars, mainVars, rangeVars
<1>18. CASE BuildTree
  BY <1>18 DEF Locking, Working, LoggerEmpty, Running, BuildTree, treeVars, rebuildVars, mainVars, rangeVars
<1>19. CASE ReplayPop
  BY <1>19 DEF Locking, Working, LoggerEmpty, Running, ReplayPop, treeVars, rebuildVars, mainVars, rangeVars
<1>20. CASE ReplayRun
  BY <1>20 DEF Locking, Working, LoggerEmpty, Running, ReplayRun, treeVars, rebuildVars, mainVars, rangeVars
<1>21. CASE ReplayDone
  BY <1>21 DEF Locking, Working, LoggerEmpty, Running, ReplayDone, treeVars, rebuildVars, mainVars, rangeVars
<1>22. CASE LockSearch("waitswap", "swap")
  BY <1>22 DEF Locking, Working, LoggerEmpty, Running, LockSearch, treeVars, rebuildVars, mainVars, rangeVars
<1>23. CASE Swap
  BY <1>23 DEF Locking, Working, LoggerEmpty, Running, Swap, treeVars, rebuildVars, mainVars, rangeVars
<1>24. CASE SwapCrash
  BY <1>24 DEF Locking, Working, LoggerEmpty, Running, SwapCrash, treeVars, rebuildVars, mainVars, rangeVars
<1>25. CASE UnlockSearch
  BY <1>25 DEF Locking, Working, LoggerEmpty, Running, UnlockSearch, treeVars, rebuildVars, mainVars, rangeVars
<1>26. CASE ClearFlag
  BY <1>26 DEF Locking, Working, LoggerEmpty, Running, ClearFlag, treeVars, rebuildVars, mainVars, rangeVars
<1>27. CASE Free
  BY <1>27 DEF Locking, Working, LoggerEmpty, Running, Free, treeVars, rebuildVars, mainVars, rangeVars
<1>28. CASE UNCHANGED vars
  BY <1>28 DEF Locking, Working, LoggerEmpty, Running, vars
<1>q. QED
  BY <1>1a, <1>1b, <1>2, <1>3, <1>4, <1>5, <1>6, <1>7, <1>8, <1>9, <1>10, <1>11, <1>12, <1>13, <1>14, <1>15, <1>16, <1>17, <1>18, <1>19, <1>20, <1>21, <1>22, <1>23, <1>24, <1>25, <1>26, <1>27, <1>28
  DEF Next, MainNext, MainSteps, RebuildNext, Stopped

-----------------------------------------------------------------------------
(* The counter of searches.                                                *)

(* The searches inside are finitely many, and none when counted as none.   *)
LEMMA InsideFinite ==
  /\ IsFiniteSet(Inside)
  /\ Cardinality(Inside) \in Nat
  /\ Cardinality(Inside) = 0 <=> Inside = {}
<1>1. Inside \subseteq Searcher
  BY DEF Inside
<1>2. IsFiniteSet(Inside)
  BY <1>1, TreeTypes, FS_Subset
<1>3. QED
  BY <1>2, FS_CardinalityType, FS_EmptySet

(* Every step keeps the count.                                             *)
LEMMA NextSearches ==
  TypeOK /\ SearchesLockedOut /\ [Next]_vars => SearchesLockedOut'
<1> SUFFICES ASSUME TypeOK, SearchesLockedOut, [Next]_vars
             PROVE  SearchesLockedOut'
  OBVIOUS
<1>a. (spc' = spc) => Inside' = Inside
  BY DEF Inside
<1> DEFINE Out == {"copy", "swap", "unlock"}
<1>b. ASSUME spc' = spc, counter' = counter, rpc \in Out <=> rpc' \in Out,
             rpc' # "crashed" => rpc # "crashed"
      PROVE  SearchesLockedOut'
  BY <1>a, <1>b DEF SearchesLockedOut
<1>c. ASSUME spc' = spc, rpc \in Out, counter' = 0, rpc' \notin Out
      PROVE  SearchesLockedOut'
  <2>1. Inside = {} /\ Inside' = Inside
    BY <1>a, <1>c DEF SearchesLockedOut
  <2>2. Cardinality(Inside') = 0
    BY <2>1, FS_EmptySet
  <2>3. QED
    BY <1>c, <2>2 DEF SearchesLockedOut
<1>d. ASSUME spc' = spc, rpc \notin Out, rpc # "crashed", counter = 0,
             counter' = -1, rpc' \in Out
      PROVE  SearchesLockedOut'
  <2>1. Cardinality(Inside) = 0
    BY <1>d DEF SearchesLockedOut
  <2>2. Inside' = {}
    BY <2>1, <1>a, <1>d, InsideFinite
  <2>3. QED
    BY <1>d, <2>2 DEF SearchesLockedOut
<1>1. CASE MainNext
  BY <1>1, <1>b DEF MainNext, MainSteps, MainBegin, Push_Down, RangeEnter, RangeLeave,
     MainDirect, MainCover, MainAsk, MainLocked, MainUnwind, rebuildVars
<1>2. CASE \E s \in Searcher : SearchAsk(s)
  <2>1. PICK s \in Searcher : SearchAsk(s)
    BY <1>2
  <2>2. Inside' = Inside
    BY <2>1 DEF SearchAsk, Inside, TypeOK
  <2>3. QED
    BY <2>1, <2>2 DEF SearchAsk, SearchesLockedOut, rebuildVars
<1>3. CASE \E s \in Searcher : SearchEnter(s)
  <2>1. PICK s \in Searcher : SearchEnter(s)
    BY <1>3
  <2>2. Inside' = Inside \cup {s} /\ s \notin Inside
    BY <2>1 DEF SearchEnter, Inside, TypeOK
  <2>3. Cardinality(Inside') = Cardinality(Inside) + 1
    BY <2>2, InsideFinite, FS_AddElement
  <2>4. QED
    BY <2>1, <2>3 DEF SearchEnter, SearchesLockedOut, rebuildVars
<1>4. CASE \E s \in Searcher : SearchLeave(s)
  <2>1. PICK s \in Searcher : SearchLeave(s)
    BY <1>4
  <2>2. Inside' = Inside \ {s} /\ s \in Inside
    BY <2>1 DEF SearchLeave, Inside, TypeOK
  <2>3. Cardinality(Inside') = Cardinality(Inside) - 1
    BY <2>2, InsideFinite, FS_RemoveElement
  <2>4. rpc \notin Out
    BY <2>2 DEF SearchesLockedOut
  <2>5. QED
    BY <2>1, <2>3, <2>4 DEF SearchLeave, SearchesLockedOut, rebuildVars
<1>5. CASE LockSearch("waitcopy", "copy") \/ LockSearch("waitswap", "swap")
  BY <1>5, <1>d DEF LockSearch
<1>6. CASE Flatten \/ UnlockSearch
  BY <1>6, <1>c DEF Flatten, UnlockSearch, mainVars
<1>7. CASE RebuildLook \/ RebuildNothing \/ RebuildBegin \/ BuildTree
           \/ ReplayPop \/ ReplayRun \/ ReplayDone \/ ClearFlag \/ Free
  BY <1>7, <1>b DEF RebuildLook, RebuildNothing, RebuildBegin, BuildTree,
     ReplayPop, ReplayRun, ReplayDone, ClearFlag, Free, Running
<1>8. CASE Swap
  BY <1>8, <1>b DEF Swap, Running
<1>9. CASE SwapCrash
  BY <1>9 DEF SwapCrash, SearchesLockedOut
<1>10. CASE UNCHANGED vars
  BY <1>10, <1>b DEF vars
<1>q. QED
  BY <1>1, <1>2, <1>3, <1>4, <1>5, <1>6, <1>7, <1>8, <1>9, <1>10
  DEF Next, RebuildNext, Stopped

(* search_mutex_counter counts the searches in the subtree under rebuild,  *)
(* and while it is copied or swapped none is there.                        *)
THEOREM SearchesCounted == Spec => []SearchesLockedOut
<1>1. Init => SearchesLockedOut
  <2> SUFFICES ASSUME Init PROVE SearchesLockedOut
    OBVIOUS
  <2>1. Inside = {}
    BY DEF Init, Inside
  <2>2. QED
    BY <2>1, FS_EmptySet DEF Init, SearchesLockedOut
<1>2. TypeOK /\ SearchesLockedOut /\ [Next]_vars => SearchesLockedOut'
  BY NextSearches
<1>3. QED
  BY <1>1, <1>2, TypeCorrect, PTL DEF Spec

(* Nobody but a range search that came in at the root reads nodes that are *)
(* being deleted.                                                          *)
THEOREM DiscardedNodes == Spec => []DiscardedUnread
<1>1. Init => Locking /\ Ranging
  BY DEF Init, Locking, Ranging, Working
<1>2. Locking /\ Ranging /\ [Next]_vars => Locking' /\ Ranging'
  BY NextLocking, NextRanging
<1>3. Ranging => DiscardedUnread
  BY DEF Ranging, DiscardedUnread
<1>4. QED
  BY <1>1, <1>2, <1>3, PTL DEF Spec

(* The searches of a scan have joined before the mapping thread goes on,   *)
(* and working_flag_mutex is held in these stretches only.                 *)
Joining ==
  /\ mpc # "idle" => AllOut
  /\ workLock => rpc \in {"waitcopy", "copy", "replay", "waitswap", "swap", "unlock"}

(* Every step keeps the searches apart from the mapping thread.            *)
LEMMA NextJoining == TypeOK /\ Joining /\ [Next]_vars => Joining'
<1> SUFFICES ASSUME TypeOK, Joining, [Next]_vars PROVE Joining'
  OBVIOUS
<1> USE DEF Joining, AllOut, Running
<1>1. CASE \/ \E b \in Block : MainBegin([kind |-> "add", blocks |-> {b}])
           \/ \E b \in Box : MainBegin([kind |-> "delete", blocks |-> b])
  BY <1>1 DEF MainBegin, rebuildVars
<1>2. CASE MainSteps
  BY <1>2 DEF MainSteps, Push_Down, RangeEnter, RangeLeave, MainDirect, MainCover, MainAsk,
     MainLocked, MainUnwind, mainVars, rebuildVars
<1>3. CASE \E s \in Searcher : SearchAsk(s) \/ SearchEnter(s) \/ SearchLeave(s)
  BY <1>3 DEF SearchAsk, SearchEnter, SearchLeave, mainVars, rebuildVars, TypeOK
<1>4. CASE RebuildNext
  <2>1. mpc' = mpc /\ spc' = spc
    BY <1>4 DEF RebuildNext, mainVars, RebuildLook, RebuildNothing, RebuildBegin, LockSearch,
       Flatten, BuildTree, ReplayPop, ReplayRun, ReplayDone, Swap, SwapCrash, UnlockSearch,
       ClearFlag, Free
  <2>2. workLock' => rpc' \in {"waitcopy", "copy", "replay", "waitswap", "swap", "unlock"}
    BY <1>4 DEF RebuildNext, RebuildLook, RebuildNothing, RebuildBegin, LockSearch, Flatten,
       BuildTree, ReplayPop, ReplayRun, ReplayDone, Swap, SwapCrash, UnlockSearch,
       ClearFlag, Free
  <2>3. QED
    BY <2>1, <2>2
<1>5. CASE UNCHANGED vars
  BY <1>5 DEF vars
<1>q. QED
  BY <1>1, <1>2, <1>3, <1>4, <1>5 DEF Next, MainNext, Stopped

(* The three kinds of threads never wait for one another in a circle.      *)
THEOREM NoDeadlockHolds == Spec => []NoCircularWait
<1> DEFINE Locks == TypeOK /\ SearchesLockedOut /\ Joining /\ Ranging
<1>1. ASSUME Locks PROVE NoCircularWait
  <2> SUFFICES ASSUME Running PROVE NoCircularWait
    BY DEF NoCircularWait
  <2>1. rangeLock => mpc = "range"
    BY <1>1 DEF Ranging
  <2>2. rpc \in {"waitcopy", "waitswap"} /\ counter # 0 => \E s \in Searcher : spc[s] = "in"
    <3>1. Inside = {} => Cardinality(Inside) = 0
      BY FS_EmptySet
    <3>2. rpc \in {"waitcopy", "waitswap"} => counter = Cardinality(Inside)
      BY <1>1 DEF SearchesLockedOut
    <3>3. QED
      BY <3>1, <3>2 DEF Inside
  <2>3. RebuildWaits => mpc = "range" \/ \E s \in Searcher : SearchCanLeave(s)
    BY <2>1, <2>2 DEF RebuildWaits, SearchCanLeave
  <2>4. ASSUME MainWaits PROVE ~RebuildWaits
    <3>1. mpc = "ask" /\ ~rangeLock /\ \A s \in Searcher : spc[s] = "out"
      BY <1>1, <2>1, <2>4 DEF MainWaits, Joining, AllOut
    <3>2. QED
      BY <2>3, <3>1 DEF SearchCanLeave
  <2>5. ASSUME NEW s \in Searcher, SearchWaits(s) PROVE ~RebuildWaits
    <3>1. mpc = "idle" /\ ~rangeLock /\ counter = -1
      BY <1>1, <2>1, <2>5 DEF SearchWaits, Joining, AllOut
    <3>2. IsFiniteSet(Inside) => Cardinality(Inside) \in Nat
      BY FS_CardinalityType
    <3>3. IsFiniteSet(Inside)
      BY TreeTypes, FS_Subset DEF Inside
    <3>4. rpc \notin {"waitcopy", "waitswap"}
      BY <1>1, <3>1, <3>2, <3>3 DEF SearchesLockedOut
    <3>5. QED
      BY <3>1, <3>4 DEF RebuildWaits
  <2>6. QED
    BY <2>3, <2>4, <2>5 DEF NoCircularWait
<1>2. Init => Joining /\ Locking /\ Ranging
  BY DEF Init, Joining, Locking, Ranging, Working, AllOut
<1>3. Locking /\ Ranging /\ [Next]_vars => Locking' /\ Ranging'
  BY NextLocking, NextRanging
<1>4. TypeOK /\ Joining /\ [Next]_vars => Joining'
  BY NextJoining
<1>5. Spec => [](Joining /\ Ranging)
  BY <1>2, <1>3, <1>4, TypeCorrect, PTL DEF Spec
<1>6. Locks => NoCircularWait
  BY <1>1
<1>7. QED
  BY <1>5, <1>6, TypeCorrect, SearchesCounted, PTL

-----------------------------------------------------------------------------
(* The replay.                                                             *)

(* No operation takes a set of blocks to itself, and to no other.          *)
LEMMA ReachesNothing ==
  ASSUME NEW a \in SUBSET Block, NEW b
  PROVE  Reaches(a, <<>>, b) <=> b = a
<1>1. Len(<<>>) = 0
  BY EmptySeq
<1>2. ASSUME b = a PROVE Reaches(a, <<>>, b)
  <2> DEFINE h == [i \in 1 .. 0 + 1 |-> a]
  <2>1. h \in [1 .. 0 + 1 -> SUBSET Block] /\ h[1] = a /\ h[0 + 1] = a
    OBVIOUS
  <2> HIDE DEF h
  <2>2. /\ h \in [1 .. Len(<<>>) + 1 -> SUBSET Block]
        /\ h[1] = a
        /\ h[Len(<<>>) + 1] = a
        /\ \A i \in 1 .. Len(<<>>) : h[i + 1] = run_operation(h[i], <<>>[i])
    BY <1>1, <2>1
  <2>3. QED
    BY <1>2, <2>2, Zenon DEF Reaches
<1>3. ASSUME Reaches(a, <<>>, b) PROVE b = a
  BY <1>1, <1>3 DEF Reaches
<1>4. QED
  BY <1>2, <1>3

(* An operation done on the old tree and logged.                           *)
LEMMA ReachesAppend ==
  ASSUME NEW a, NEW b, NEW l \in Seq(Operation), NEW o \in Operation,
         Reaches(a, l, b)
  PROVE  Reaches(a, Append(l, o), run_operation(b, o))
<1>1. PICK h \in [1 .. Len(l) + 1 -> SUBSET Block] :
        /\ h[1] = a /\ h[Len(l) + 1] = b
        /\ \A i \in 1 .. Len(l) : h[i + 1] = run_operation(h[i], l[i])
  BY DEF Reaches
<1> DEFINE n == Len(l)
           m == Append(l, o)
           c == run_operation(b, o)
           g == [i \in 1 .. n + 2 |-> IF i = n + 2 THEN c ELSE h[i]]
<1>2. n \in Nat /\ Len(m) = n + 1
      /\ (\A i \in 1 .. n : m[i] = l[i]) /\ m[n + 1] = o
  BY AppendProperties, LenProperties
<1>3. b \in SUBSET Block /\ c \in SUBSET Block
  BY <1>1, <1>2, OperationType
<1> HIDE DEF n, m, c
<1>4. g \in [1 .. n + 2 -> SUBSET Block]
  BY <1>1, <1>2, <1>3 DEF n
<1>5. g[1] = a /\ g[n + 1] = b /\ g[n + 2] = c
  BY <1>1, <1>2 DEF n
<1>6. ASSUME NEW i \in 1 .. n + 1 PROVE g[i + 1] = run_operation(g[i], m[i])
  <2>1. CASE i = n + 1
    BY <2>1, <1>2, <1>5 DEF c
  <2>2. CASE i # n + 1
    <3>1. i \in 1 .. n /\ g[i] = h[i] /\ g[i + 1] = h[i + 1] /\ m[i] = l[i]
      BY <2>2, <1>2
    <3>2. QED
      BY <3>1, <1>1 DEF n
  <2>3. QED
    BY <2>1, <2>2
<1> HIDE DEF g
<1>7. /\ g \in [1 .. Len(m) + 1 -> SUBSET Block]
      /\ g[1] = a
      /\ g[Len(m) + 1] = c
      /\ \A i \in 1 .. Len(m) : g[i + 1] = run_operation(g[i], m[i])
  BY <1>2, <1>4, <1>5, <1>6
<1>8. Reaches(a, m, c)
  BY <1>7, Zenon DEF Reaches
<1>9. QED
  BY <1>8 DEF m, c

(* An operation taken from the logger and done on the new tree.            *)
LEMMA ReachesTail ==
  ASSUME NEW a, NEW b, NEW l \in Seq(Operation), l # <<>>, Reaches(a, l, b)
  PROVE  Reaches(run_operation(a, Head(l)), Tail(l), b)
<1>1. PICK h \in [1 .. Len(l) + 1 -> SUBSET Block] :
        /\ h[1] = a /\ h[Len(l) + 1] = b
        /\ \A i \in 1 .. Len(l) : h[i + 1] = run_operation(h[i], l[i])
  BY DEF Reaches
<1> DEFINE n == Len(l)
           t == Tail(l)
           g == [i \in 1 .. n |-> h[i + 1]]
<1>2. n \in Nat \ {0} /\ Len(t) = n - 1 /\ Head(l) = l[1]
      /\ (\A i \in 1 .. n - 1 : t[i] = l[i + 1])
  BY HeadTailProperties, LenProperties, EmptySeq
<1> HIDE DEF n, t
<1>3. g \in [1 .. n -> SUBSET Block]
  BY <1>1, <1>2 DEF n
<1>4. g[1] = run_operation(a, Head(l)) /\ g[n] = b
  BY <1>1, <1>2 DEF n
<1>5. ASSUME NEW i \in 1 .. n - 1 PROVE g[i + 1] = run_operation(g[i], t[i])
  <2>1. i + 1 \in 1 .. n /\ g[i] = h[i + 1] /\ g[i + 1] = h[i + 2] /\ t[i] = l[i + 1]
    BY <1>2
  <2>2. h[(i + 1) + 1] = run_operation(h[i + 1], l[i + 1])
    BY <2>1, <1>1 DEF n
  <2>3. QED
    BY <2>1, <2>2, <1>2
<1> HIDE DEF g
<1>6. /\ g \in [1 .. Len(t) + 1 -> SUBSET Block]
      /\ g[1] = run_operation(a, Head(l))
      /\ g[Len(t) + 1] = b
      /\ \A i \in 1 .. Len(t) : g[i + 1] = run_operation(g[i], t[i])
  BY <1>2, <1>3, <1>4, <1>5
<1>7. Reaches(run_operation(a, Head(l)), t, b)
  BY <1>6, Zenon DEF Reaches
<1>8. QED
  BY <1>7 DEF t

(* What every step is proved from.                                        *)
Correct == TypeOK /\ Locking /\ LoggerEmpty

(* Every step keeps the agreement of the two trees.                        *)
LEMMA NextReplayAgrees ==
  Correct /\ ReplayAgrees /\ [Next]_vars => ReplayAgrees'
<1> SUFFICES ASSUME Correct, ReplayAgrees, [Next]_vars,
                    clean', rpc' \in {"build", "replay", "run", "waitswap", "swap"}
             PROVE  Reaches(Rebuilt', logger', (held \cap target)')
  BY DEF ReplayAgrees
<1> DEFINE Busy == clean /\ rpc \in {"build", "replay", "run", "waitswap", "swap"}
<1>a. ASSUME Busy, Rebuilt' = Rebuilt, logger' = logger, target' = target,
             held' \cap target = held \cap target
      PROVE  Reaches(Rebuilt', logger', (held \cap target)')
  BY <1>a DEF ReplayAgrees
<1>b. ASSUME Busy, rpc' = rpc, fresh' = fresh, current' = current
      PROVE  Rebuilt' = Rebuilt
  BY <1>b DEF Rebuilt
<1>c. Busy => Running /\ target = ptr /\ rebuildFlag /\ ptrLock /\ target \in SUBSET Block
  BY TreeTypes DEF Correct, Locking, Working, Running, TypeOK
<1>e. held \in SUBSET Block /\ op \in Operation
  BY DEF Correct, TypeOK
<1>f. ptr \in SUBSET Block /\ target \in SUBSET Block
  BY TreeTypes DEF Correct, TypeOK
<1>g. run_operation(held, Outside(op, target)) \cap target = held \cap target
  BY <1>e, <1>f DEF run_operation, Within, Outside, Operation
<1>h. run_operation(held, Within(op, target)) \cap target
        = run_operation(held \cap target, Within(op, target))
  BY <1>e, <1>f DEF run_operation, Within, Outside, Operation
<1>i. target \cap op.blocks = {}
        => run_operation(held, op) \cap target = held \cap target
  BY <1>e, <1>f DEF run_operation, Within, Outside, Operation
<1>d. ASSUME Busy, rpc' = rpc, fresh' = fresh, current' = current, target' = target,
             NEW o \in Operation, Log(o),
             held' \cap target = run_operation(held \cap target, o)
      PROVE  Reaches(Rebuilt', logger', (held \cap target)')
  <2>1. logger' = Append(logger, o)
    BY <1>c, <1>d DEF Log
  <2>2. Reaches(Rebuilt, logger, held \cap target) /\ logger \in Seq(Operation)
    BY <1>d DEF ReplayAgrees, Correct, TypeOK
  <2>3. Reaches(Rebuilt, Append(logger, o), run_operation(held \cap target, o))
    BY <2>2, ReachesAppend
  <2>4. QED
    BY <2>1, <2>3, <1>b, <1>d
<1>1. CASE \/ \E b \in Block : MainBegin([kind |-> "add", blocks |-> {b}])
           \/ \E b \in Box : MainBegin([kind |-> "delete", blocks |-> b])
           \/ RangeEnter \/ RangeLeave
           \/ \E s \in Searcher : SearchAsk(s) \/ SearchEnter(s) \/ SearchLeave(s)
  BY <1>1, <1>a, <1>b DEF MainBegin, RangeEnter, RangeLeave, SearchAsk, SearchEnter,
     SearchLeave, rebuildVars, treeVars
<1>2. CASE Push_Down
  <2>1. Busy
    BY <1>2 DEF Push_Down, rebuildVars
  <2> DEFINE o == [kind |-> "delete", blocks |-> ptr]
  <2>a. o \in Operation
    BY <1>f DEF Operation
  <2>b. Log(o)
    BY <1>2, Zenon DEF Push_Down
  <2>2. o \in Operation /\ Log(o)
    BY <2>a, <2>b
  <2>3. held' \cap target = run_operation(held \cap target, o)
    BY <1>2, <1>c, <2>1 DEF Push_Down, run_operation
  <2> HIDE DEF o
  <2>4. QED
    BY <1>2, <1>d, <2>1, <2>2, <2>3 DEF Push_Down, rebuildVars
<1>3. CASE MainDirect
  <2>1. Busy
    BY <1>3 DEF MainDirect, rebuildVars
  <2>2. held' \cap target = held \cap target
    <3>1. held' = run_operation(held, op) /\ target \cap op.blocks = {}
      BY <1>3, <1>c, <2>1 DEF MainDirect
    <3>2. QED
      BY <3>1, <1>i
  <2>3. QED
    BY <1>3, <1>a, <1>b, <2>1, <2>2 DEF MainDirect, rebuildVars
<1>4. CASE MainCover
  <2>1. Busy
    BY <1>4 DEF MainCover, rebuildVars
  <2>2. held' = run_operation(held, Outside(op, ptr))
    BY <1>4 DEF MainCover
  <2>3. held' \cap target = held \cap target
    BY <2>2, <1>c, <1>g, <2>1
  <2>4. rpc' = rpc /\ fresh' = fresh /\ current' = current /\ target' = target
        /\ logger' = logger
    BY <1>4 DEF MainCover, rebuildVars
  <2>5. QED
    BY <1>a, <1>b, <2>1, <2>3, <2>4
<1>5. CASE MainAsk
  <2>1. Busy
    BY <1>5 DEF MainAsk, rebuildVars
  <2>2. held' \cap target = held \cap target
    <3>1. held' = run_operation(held, Outside(op, ptr))
      BY <1>5 DEF MainAsk
    <3>2. QED
      BY <3>1, <1>c, <1>g, <2>1
  <2>3. QED
    BY <1>5, <1>a, <1>b, <2>1, <2>2 DEF MainAsk, rebuildVars
<1>6. CASE MainLocked
  <2>1. Busy
    BY <1>6 DEF MainLocked, rebuildVars
  <2>2. asked = target
    BY <1>6, <1>c, <2>1 DEF MainLocked, Correct, Locking, Working
  <2> DEFINE o == Within(op, asked)
  <2>3. o \in Operation /\ Log(o)
    BY <1>6, PartType DEF MainLocked, Correct, TypeOK
  <2>4. held' \cap target = run_operation(held \cap target, o)
    <3>1. held' = run_operation(held, Within(op, target))
      BY <1>6, <2>2 DEF MainLocked
    <3>2. QED
      BY <3>1, <1>h, <2>2
  <2> HIDE DEF o
  <2>5. QED
    BY <1>6, <1>d, <2>1, <2>3, <2>4 DEF MainLocked, rebuildVars
<1>7. CASE MainUnwind
  <2>1. Busy /\ UNCHANGED treeVars
    BY <1>7, <1>c DEF MainUnwind, Rebuild, rebuildVars
  <2>2. QED
    BY <1>7, <1>a, <1>b, <2>1 DEF MainUnwind, rebuildVars, treeVars
<1>8. CASE Flatten
  <2>1. logger = <<>> /\ logger' = logger /\ target' = target /\ held' = held
        /\ rpc' = "build" /\ fresh' = held \cap target
    BY <1>8 DEF Flatten, Correct, LoggerEmpty, treeVars
  <2>2. Rebuilt' = held \cap target /\ held \cap target \in SUBSET Block
    BY <2>1 DEF Rebuilt, Correct, TypeOK
  <2>3. QED
    BY <2>1, <2>2, ReachesNothing
<1>9. CASE BuildTree \/ ReplayDone \/ LockSearch("waitswap", "swap")
  <2>1. Busy /\ rpc # "run" /\ rpc' # "run" /\ fresh' = fresh
        /\ UNCHANGED <<logger, target, held>>
    BY <1>9 DEF BuildTree, ReplayDone, LockSearch, treeVars
  <2>2. QED
    BY <1>a, <2>1 DEF Rebuilt
<1>10. CASE ReplayPop
  <2>1. Busy /\ Rebuilt = fresh /\ logger \in Seq(Operation) /\ logger # <<>>
    BY <1>10 DEF ReplayPop, Rebuilt, Correct, TypeOK
  <2>2. Reaches(run_operation(fresh, Head(logger)), Tail(logger), held \cap target)
    BY <2>1, ReachesTail DEF ReplayAgrees
  <2>3. Rebuilt' = run_operation(fresh, Head(logger)) /\ logger' = Tail(logger)
        /\ UNCHANGED <<held, target>>
    BY <1>10 DEF ReplayPop, Rebuilt, treeVars
  <2>4. QED
    BY <2>2, <2>3
<1>11. CASE ReplayRun
  <2>1. Busy /\ Rebuilt' = Rebuilt /\ UNCHANGED <<logger, target, held>>
    BY <1>11 DEF ReplayRun, Rebuilt, treeVars
  <2>2. QED
    BY <1>a, <2>1
<1>12. CASE RebuildLook \/ RebuildNothing \/ RebuildBegin
            \/ LockSearch("waitcopy", "copy") \/ Swap \/ SwapCrash
            \/ UnlockSearch \/ ClearFlag \/ Free
  BY <1>12 DEF RebuildLook, RebuildNothing, RebuildBegin, LockSearch, Swap, SwapCrash,
     UnlockSearch, ClearFlag, Free
<1>13. CASE UNCHANGED vars
  <2>1. Busy /\ Rebuilt' = Rebuilt /\ UNCHANGED <<logger, target, held>>
    BY <1>13 DEF vars, Rebuilt
  <2>2. QED
    BY <1>a, <2>1
<1>q. QED
  BY <1>1, <1>2, <1>3, <1>4, <1>5, <1>6, <1>7, <1>8, <1>9, <1>10, <1>11, <1>12, <1>13
  DEF Next, MainNext, MainSteps, RebuildNext, Stopped

(* The logger's discipline holds of every run.                             *)
LEMMA CorrectAlways == Spec => []Correct
<1>1. Init => Locking /\ LoggerEmpty
  BY DEF Init, Locking, LoggerEmpty, Working
<1>2. Correct /\ [Next]_vars => Correct'
  BY NextTypeOK, NextLocking, NextLoggerEmpty DEF Correct
<1>3. Init => Correct
  BY <1>1, InitTypeOK DEF Correct
<1>4. QED
  BY <1>2, <1>3, PTL DEF Spec

(* The logger takes the copy to what the old tree has become.              *)
THEOREM LoggerSuffices == Spec => []ReplayAgrees
<1>1. Init => ReplayAgrees
  BY DEF Init, ReplayAgrees
<1>2. Correct /\ ReplayAgrees /\ [Next]_vars => ReplayAgrees'
  BY NextReplayAgrees
<1>3. QED
  BY <1>1, <1>2, CorrectAlways, PTL DEF Spec

(* The swap changes nothing in the map.                                    *)
THEOREM SwapIsInvisible == Spec => SwapKeepsContent
<1> DEFINE Kept == rpc = "swap" /\ rpc' = "unlock" /\ clean /\ owed # "father"
                     => Content' = Content
<1>1. Correct /\ ReplayAgrees /\ [Next]_vars => Kept
  <2> SUFFICES ASSUME Correct, ReplayAgrees, [Next]_vars, rpc = "swap",
                      rpc' = "unlock", clean, owed # "father"
               PROVE  Content' = Content
    OBVIOUS
  <2>1. Swap
    BY DEF Next, MainNext, MainSteps, RebuildNext, Stopped, vars, MainBegin, Push_Down, RangeEnter,
       RangeLeave, MainDirect, MainCover, MainAsk, MainLocked, MainUnwind, SearchAsk,
       SearchEnter, SearchLeave, RebuildLook, RebuildNothing, RebuildBegin, LockSearch,
       Flatten, BuildTree, ReplayPop, ReplayRun, ReplayDone, SwapCrash, UnlockSearch,
       ClearFlag, Free, rebuildVars
  <2>2. target = ptr /\ logger = <<>>
    BY DEF Correct, Locking, LoggerEmpty, Working
  <2>3. Reaches(fresh, <<>>, held \cap target)
    BY <2>2 DEF ReplayAgrees, Rebuilt
  <2>4. held \cap target = fresh
    BY <2>3, ReachesNothing DEF Correct, TypeOK
  <2>5. owed' = "nobody"
    BY <2>1 DEF Swap
  <2>6. CASE owed = "nobody"
    BY <2>1, <2>4, <2>5, <2>6 DEF Swap, Content
  <2>7. CASE owed # "nobody"
    BY <2>1, <2>2, <2>5, <2>7 DEF Swap, Content
  <2>8. QED
    BY <2>6, <2>7
<1>2. QED
  BY <1>1, CorrectAlways, LoggerSuffices, PTL DEF Spec, SwapKeepsContent

=============================================================================
