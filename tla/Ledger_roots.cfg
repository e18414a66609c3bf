\* Headers with and without enough votes for a root.
CONSTANTS
  ShardNum = 2
  TX_NUM = 2
  MinVote = 1
  Executor = {e1}
  Rounds = 3
  IntNum = 1
  CroNum = 2
  Deposit = 1
  RootVotes = {0, 1}
SPECIFICATION LedgerSpec
PROPERTIES OnlyVerifiedStates
\* The bound on rounds ends every behaviour.
CHECK_DEADLOCK FALSE
