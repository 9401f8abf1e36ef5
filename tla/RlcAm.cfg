SPECIFICATION Spec
CONSTANTS
  Start = 3
  MaxSdus = 3
  Size = 2
  Mod = 4
  Window = 2
  MaxWindow = 0
  QueueSize = 1
  MaxRetx = 1
  PollPdu = 2
  PollByte = 0
  SnsPerStatus = 2
  NackRange = 2
  InAir = 2
  None = None
CHECK_DEADLOCK FALSE
INVARIANTS
  DeliveredOnce
  AcknowledgedWasDelivered
  RetxOnlyOfSentBytes
  NoFault
  AnswerIsAwaited
