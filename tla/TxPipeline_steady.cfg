\* The steady schedule with the four executors of two shards of three clients.
CONSTANTS
  ShardNum = 2
  TX_NUM = 2
  MinVote = 2
  Executor = {e1, e2, e3, e4}
  Rounds = 3
  IntNum = 7
  CroNum = 5
SYMMETRY Interchangeable
SPECIFICATION SteadySpec
PROPERTIES PipelineIsQueue
\* The bound on rounds ends every behaviour.
CHECK_DEADLOCK FALSE
