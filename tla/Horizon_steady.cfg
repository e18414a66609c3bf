\* The steady schedule: two full rounds of two shards.
CONSTANTS
  ShardNum = 2
  CLIENT_MAX = 2
  Client <- EightClients
  Randoms = {1}
  Root = {"r"}
  None <- NobodyYet
  TX_NUM = 2
  IntNum = 0
  CroNum = 1
  Deposit = 1
SPECIFICATION HorizonSpec
INVARIANTS HeaderHasVotes
PROPERTIES ServerIsSteady ChainGrows
\* The bound on clients ends every behaviour.
CHECK_DEADLOCK FALSE
