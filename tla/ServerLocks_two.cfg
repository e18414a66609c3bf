\* Two servers, three requests at a time, connections that hold one message.
SPECIFICATION Spec
CONSTANTS
  Server <- MCServer
  Handler <- MCHandler
  Requests <- MCRequests
  Capacity = 1
  Reader = 0
INVARIANTS TypeOK OnlyUploadsClash
PROPERTIES RequestsEnd
CHECK_DEADLOCK FALSE
