\* Leaders that wait for the roots, with nothing to keep the shards in step.
CONSTANTS
  ShardNum = 2
  CLIENT_MAX = 2
  Client <- TwelveClients
  Randoms = {1}
  Root = {"r"}
  None <- NobodyYet
SPECIFICATION PacedSpec
PROPERTIES EveryoneVoted
CHECK_DEADLOCK FALSE
