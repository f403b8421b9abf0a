\* Four requests, a channel of two, two sinks.  The process may end.
SPECIFICATION Spec
CONSTANTS
  r1 = r1  r2 = r2  r3 = r3  r4 = r4
  Requests <- FourRequests
  QueueSize = 2
  Sinks = 2
  NoEvent = NoEvent
INVARIANTS
  NoSendOnClosed
  Conservation
  CleanStop
PROPERTIES
  HandlersNeverBlock
  ShutdownEnds
CHECK_DEADLOCK FALSE
