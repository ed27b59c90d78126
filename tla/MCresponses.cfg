SPECIFICATION Spec
CONSTANTS
  MAX_BUF = 10
  Numbers <- MCNumbers
  Memories <- MCMemories
  Leftovers <- MCLeftovers
INVARIANTS CountersOfTheAnswer CountersNotLeftOver LengthOfTheChunk TotalOfTheNotice
CHECK_DEADLOCK FALSE
