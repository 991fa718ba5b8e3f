\* datagrams that panic or are refused, and liveness, so no symmetry; ring of 2
\* slots, two workers, three datagrams, buffers enough for a full ring beside one
\* busy worker
CONSTANTS
  Workers = {w1, w2}
  RingSize = 2
  Bufs = {b1, b2, b3}
  HeaderSize = 2
  BufCap = 4
  Datagrams <- BadDatagrams
  MaxMsgs = 3
  NoBuf = NoBuf
  NoOne = NoOne
  Receiver = Receiver
SPECIFICATION FairSpec
INVARIANTS NothingLost PayloadIsOwn
PROPERTIES QueuedIsFinished ReceiverReturns
CHECK_DEADLOCK FALSE
