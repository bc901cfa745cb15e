SPECIFICATION Spec
CONSTANTS
  SendThreads = {s1, s2}
  RecvThreads = {r1, r2}
  Requested = 2
  Values = {v1, v2}
  NoValue = NoValue
  Closed = Closed
INVARIANTS NoStrandedReceiver NoStrandedSender NeverBothParked ClosedIsFinal IInv
PROPERTY ImplementsContract
CHECK_DEADLOCK FALSE
