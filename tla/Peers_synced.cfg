\* Two servers that get to sync: a full round, and a client of the next.
CONSTANTS
  ShardNum = 2
  CLIENT_MAX = 2
  Client <- FiveClients
  Randoms = {1, 2, 3, 5, 6}
  RandomOf <- Shuffled
  Root = {"r"}
  None <- NobodyYet
  TX_NUM = 2
  IntNum = 0
  CroNum = 1
  Deposit = 1
  Lag = 1
SPECIFICATION PeersSpec
INVARIANTS ServersAgree BothServe
\* The bound on clients ends every behaviour.
CHECK_DEADLOCK FALSE
