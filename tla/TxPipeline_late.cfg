\* Witnesses and roots in any order, every block with its votes.
CONSTANTS
  ShardNum = 2
  TX_NUM = 2
  MinVote = 2
  Executor = {e1, e2}
  Rounds = 2
  IntNum = 0
  CroNum = 2
SPECIFICATION VotedSpec
INVARIANTS RecordedOnce
CHECK_DEADLOCK FALSE
