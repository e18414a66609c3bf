\* Both servers give the last slot of a shard away.
CONSTANTS
  ShardNum = 2
  CLIENT_MAX = 2
  Client <- FiveClients
  Randoms = {1, 2, 3, 5, 6}
  RandomOf <- Shuffled
  Root = {"r"}
  None <- NobodyYet
  TX_NUM = 1
  IntNum = 0
  CroNum = 0
  Deposit = 1
  Lag = 2
SPECIFICATION JoiningSpec
INVARIANTS SlotsShared
\* The bound on clients ends every behaviour.
CHECK_DEADLOCK FALSE
