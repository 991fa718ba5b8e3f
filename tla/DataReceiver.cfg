\* safety: ring of 3 slots (2 datagrams), two workers, one buffer per owner
CONSTANTS
  Workers = {w1, w2}
  RingSize = 3
  Bufs = {b1, b2, b3, b4, b5}
  HeaderSize = 2
  BufCap = 4
  Datagrams <- ForwardedDatagrams
  MaxMsgs = 4
  NoBuf = NoBuf
  NoOne = NoOne
  Receiver = Receiver
SPECIFICATION Spec
SYMMETRY Perms
INVARIANTS TypeOK RingMutex BufferOwnership NoIdleWorker OvertakenIsInHand
PROPERTY ImplementsQueue
CHECK_DEADLOCK FALSE
