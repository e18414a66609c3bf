\* Requests in any order, blocks accepted and refused: three rounds, so that a
\* relay transaction is made, packed, refused, put back, packed again, executed.
CONSTANTS
  ShardNum = 2
  TX_NUM = 2
  MinVote = 1
  Executor = {e1}
  Rounds = 3
  IntNum = 1
  CroNum = 2
  Deposit = 1
  RootVotes = {1}
SPECIFICATION LedgerSpec
INVARIANTS TypeOK LedgerTypeOK ListsAgree RelaysSurvive ValueConserved
\* The bound on rounds ends every behaviour.
CHECK_DEADLOCK FALSE
