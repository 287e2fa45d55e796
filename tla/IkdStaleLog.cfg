SPECIFICATION Spec
CONSTANTS
  Block <- MCBlock
  Node <- MCNode
  Zone <- MCZone
  Box <- MCBox
  Searcher = {s1, s2}
  MaxLog = 2
PROPERTIES
  LoggerEmptyAtStart
