\* Rounds in step: three full rounds.
CONSTANTS
  ShardNum = 2
  CLIENT_MAX = 2
  Client <- TwelveClients
  Randoms = {1}
  Root = {"r"}
  None <- NobodyYet
SPECIFICATION InStepSpec
INVARIANTS ExecutorsHeld RootsVoteWhole
PROPERTIES RoundsClose RootsCollected
\* The bound on clients ends every behaviour.
CHECK_DEADLOCK FALSE
