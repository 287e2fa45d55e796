SPECIFICATION FairSpec
CONSTANTS
  Block <- MCBlock
  Node <- MCNode
  Zone <- MCZone
  Box <- MCBox
  Searcher = {s1, s2}
  MaxLog = 2
INVARIANTS
  TypeOK
  SearchesLockedOut
  DiscardedUnread
  ReplayAgrees
PROPERTIES
  SwapKeepsContent
  WaitersServed
  QuietRebuildFinishes
