\* Clients that follow the messages they get and are otherwise unconstrained:
\* two full rounds of two shards.
CONSTANTS
  ShardNum = 2
  CLIENT_MAX = 2
  Client <- EightClients
  Randoms = {1, 2}
  Root = {"r"}
  None <- NobodyYet
SPECIFICATION Spec
INVARIANTS TypeOK NoOverfill OneSeatPerShard LeaderIsSmallest
PROPERTIES CommitteeFrozen
\* The bound on clients ends every behaviour, and so does a panic under the lock.
CHECK_DEADLOCK FALSE
