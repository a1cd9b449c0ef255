SPECIFICATION FairSpec
CONSTANTS
  n1 = n1
  n2 = n2
  Nodes <- MCNodes
  MaxCalls = 3
  Members <- MCMembers
  MaxRestarts = 1
  MaxExits = 2
CHECK_DEADLOCK FALSE
INVARIANTS
  StaleBufferIsFlagged
  AnswersWhatItCopied
  
PROPERTIES
  EveryCallIsAnswered
