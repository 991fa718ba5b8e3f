------------------------- MODULE DataReceiver_proofs -------------------------
(* Proofs about DataReceiver, for any number of workers, buffers, datagrams *)
(* and any size of the ring.                                                *)
EXTENDS DataReceiver, Sequences, FiniteSetTheorems, TLAPS

IInv == TypeOK /\ RingMutex /\ BufferOwnership

(* (i + 1) % ringSize stays in the ring and wraps at the last slot. *)
LEMMA SuccFacts ==
  ASSUME NEW i \in Slots
  PROVE  /\ Succ(i) \in Slots
         /\ Succ(i) = IF i = RingSize - 1 THEN 0 ELSE i + 1
<1>1. CASE i = RingSize - 1
  BY <1>1, RingAssumption DEF Succ, Slots
<1>2. CASE i # RingSize - 1
  BY <1>2, RingAssumption DEF Succ, Slots
<1> QED BY <1>1, <1>2

(* Storing into a ring that is not full adds the head to the live slots. *)
LEMMA LiveAfterStore ==
  ASSUME head \in Slots, tail \in Slots, head' = Succ(head), tail' = tail,
         Succ(head) # tail
  PROVE  Live' = Live \cup {head} /\ head \notin Live /\ QueueLen' = QueueLen + 1
<1>1. /\ head' \in Slots
      /\ head' = IF head = RingSize - 1 THEN 0 ELSE head + 1
  BY SuccFacts
<1>2. Live' = Live \cup {head} /\ head \notin Live
  BY <1>1, RingAssumption DEF Live, Slots
<1>3. QueueLen' = QueueLen + 1
  BY <1>1, RingAssumption DEF QueueLen, Slots
<1> QED BY <1>2, <1>3

(* Taking from a ring that is not empty removes the tail. *)
LEMMA LiveAfterTake ==
  ASSUME head \in Slots, tail \in Slots, tail' = Succ(tail), head' = head,
         head # tail
  PROVE  Live' = Live \ {tail} /\ tail \in Live /\ QueueLen' = QueueLen - 1
<1>1. /\ tail' \in Slots
      /\ tail' = IF tail = RingSize - 1 THEN 0 ELSE tail + 1
  BY SuccFacts
<1>2. Live' = Live \ {tail} /\ tail \in Live
  BY <1>1, RingAssumption DEF Live, Slots
<1>3. QueueLen' = QueueLen - 1
  BY <1>1, RingAssumption DEF QueueLen, Slots
<1> QED BY <1>2, <1>3

(* What a memory access may come to. *)
LEMMA AccessResults ==
  ASSUME NEW d, NEW r \in accessViaXBus(d) \cup accessViaRemote(d)
  PROVE  r \in {"panic", "applied", "error", "forwarded"}
<1>1. accessViaXBus(d) \subseteq {"panic", "applied", "error"}
  BY DEF accessViaXBus
<1> QED BY <1>1 DEF accessViaRemote

LEMMA InitIInv == Init => IInv
<1> SUFFICES ASSUME Init PROVE IInv
  OBVIOUS
<1> USE RingAssumption, NamesAssumption, SizeAssumption
<1>1. TypeOK
  <2>1. Empty \in [id: 0..MaxMsgs, msg: [len: Nat, op: Ops, size: Nat]]
    BY DEF Empty, Ops
  <2>2. crashed \in BOOLEAN
    BY Zenon DEF Init
  <2>3. data \in [Bufs -> [id: 0..MaxMsgs, msg: [len: Nat, op: Ops, size: Nat]]]
    BY <2>1 DEF Init
  <2>4. ring \in [Slots -> Bufs \cup {NoBuf}] /\ outcome \in [Ids -> Outcomes]
    BY DEF Init, Outcomes
  <2>5. head \in Slots /\ tail \in Slots /\ nrecv \in 0..MaxMsgs
    BY DEF Init, Slots
  <2> QED BY <2>2, <2>3, <2>4, <2>5 DEF Init, TypeOK
<1>2. RingMutex
  BY DEF Init, RingMutex
<1>3. BufferOwnership
  <2>1. Live = {} /\ Busy = {} /\ ~RecvOwns
    BY DEF Init, Live, Busy, RecvOwns, Slots
  <2> QED BY <2>1 DEF BufferOwnership
<1> QED BY <1>1, <1>2, <1>3 DEF IInv

(* Every step preserves the invariant: one step per action of the model. *)
LEMMA StepIInv == IInv /\ [Next]_vars => IInv'
<1> SUFFICES ASSUME IInv, [Next]_vars PROVE IInv'
  OBVIOUS
<1> USE RingAssumption, NamesAssumption, SizeAssumption, DatagramsAssumption
<1> USE DEF IInv, queueVars, workVars, recvVars, histVars
<1>1. CASE StartZMQReceiver
  <2>0. Live' = Live
    BY <1>1 DEF StartZMQReceiver, Live
  <2>1. TypeOK'
    BY <1>1, <2>0 DEF StartZMQReceiver, TypeOK, BufferOwnership, RecvOwns, Busy, Ids, Outcomes, Empty, Ops
  <2>2. RingMutex'
    BY <1>1 DEF StartZMQReceiver, TypeOK, RingMutex
  <2>3. BufferOwnership'
    BY <1>1, <2>0 DEF StartZMQReceiver, TypeOK, BufferOwnership, RecvOwns, Busy
  <2> QED BY <2>1, <2>2, <2>3
<1>2. CASE PoolGet
  <2>0. Live' = Live
    BY <1>2 DEF PoolGet, Live
  <2>1. TypeOK'
    BY <1>2, <2>0 DEF PoolGet, TypeOK, BufferOwnership, RecvOwns, Busy, Ids, Outcomes, Empty, Ops, InUse
  <2>2. RingMutex'
    BY <1>2 DEF PoolGet, TypeOK, RingMutex, InUse
  <2>3. BufferOwnership'
    BY <1>2, <2>0 DEF PoolGet, TypeOK, BufferOwnership, RecvOwns, Busy, InUse
  <2> QED BY <2>1, <2>2, <2>3
<1>3. CASE PoolForget
  <2>0. Live' = Live
    BY <1>3 DEF PoolForget, Live
  <2>1. TypeOK'
    BY <1>3, <2>0 DEF PoolForget, TypeOK, BufferOwnership, RecvOwns, Busy, Ids, Outcomes, Empty, Ops
  <2>2. RingMutex'
    BY <1>3 DEF PoolForget, TypeOK, RingMutex
  <2>3. BufferOwnership'
    BY <1>3, <2>0 DEF PoolForget, TypeOK, BufferOwnership, RecvOwns, Busy
  <2> QED BY <2>1, <2>2, <2>3
<1>4. CASE RecvDrop
  <2>0. Live' = Live
    BY <1>4 DEF RecvDrop, Live
  <2>1. TypeOK'
    BY <1>4, <2>0 DEF RecvDrop, TypeOK, BufferOwnership, RecvOwns, Busy, Ids, Outcomes, Empty, Ops
  <2>2. RingMutex'
    BY <1>4 DEF RecvDrop, TypeOK, RingMutex
  <2>3. BufferOwnership'
    BY <1>4, <2>0 DEF RecvDrop, TypeOK, BufferOwnership, RecvOwns, Busy
  <2> QED BY <2>1, <2>2, <2>3
<1>5. CASE RecvCopy
  <2>0. Live' = Live
    BY <1>5 DEF RecvCopy, Live
  <2>1. TypeOK'
    BY <1>5, <2>0 DEF RecvCopy, TypeOK, BufferOwnership, RecvOwns, Busy, Ids, Outcomes, Empty, Ops
  <2>2. RingMutex'
    BY <1>5 DEF RecvCopy, TypeOK, RingMutex
  <2>3. BufferOwnership'
    BY <1>5, <2>0 DEF RecvCopy, TypeOK, BufferOwnership, RecvOwns, Busy
  <2> QED BY <2>1, <2>2, <2>3
<1>6. CASE RecvLock
  <2>0. Live' = Live
    BY <1>6 DEF RecvLock, Live
  <2>1. TypeOK'
    BY <1>6, <2>0 DEF RecvLock, TypeOK, BufferOwnership, RecvOwns, Busy, Ids, Outcomes, Empty, Ops
  <2>2. RingMutex'
    BY <1>6 DEF RecvLock, TypeOK, RingMutex
  <2>3. BufferOwnership'
    BY <1>6, <2>0 DEF RecvLock, TypeOK, BufferOwnership, RecvOwns, Busy
  <2> QED BY <2>1, <2>2, <2>3
<1>7. CASE RecvCheck
  <2>0. Live' = Live
    BY <1>7 DEF RecvCheck, Live
  <2>1. TypeOK'
    BY <1>7, <2>0 DEF RecvCheck, TypeOK, BufferOwnership, RecvOwns, Busy, Ids, Outcomes, Empty, Ops
  <2>2. RingMutex'
    BY <1>7 DEF RecvCheck, TypeOK, RingMutex
  <2>3. BufferOwnership'
    BY <1>7, <2>0 DEF RecvCheck, TypeOK, BufferOwnership, RecvOwns, Busy
  <2> QED BY <2>1, <2>2, <2>3
<1>8. CASE RecvPut
  <2>0. Live' = Live
    BY <1>8 DEF RecvPut, Live
  <2>1. TypeOK'
    BY <1>8, <2>0 DEF RecvPut, TypeOK, BufferOwnership, RecvOwns, Busy, Ids, Outcomes, Empty, Ops
  <2>2. RingMutex'
    BY <1>8 DEF RecvPut, TypeOK, RingMutex
  <2>3. BufferOwnership'
    BY <1>8, <2>0 DEF RecvPut, TypeOK, BufferOwnership, RecvOwns, Busy
  <2> QED BY <2>1, <2>2, <2>3
<1>9. CASE RecvStore
  <2>0. Live' = Live \cup {head} /\ head \notin Live /\ Succ(head) \in Slots
    BY <1>9, LiveAfterStore, SuccFacts DEF RecvStore, TypeOK, RingMutex
  <2>1. TypeOK'
    BY <1>9, <2>0 DEF RecvStore, TypeOK, BufferOwnership, RecvOwns, Busy, Ids, Outcomes, Empty, Ops
  <2>2. RingMutex'
    BY <1>9 DEF RecvStore, TypeOK, RingMutex
  <2>3. BufferOwnership'
    BY <1>9, <2>0 DEF RecvStore, TypeOK, BufferOwnership, RecvOwns, Busy
  <2> QED BY <2>1, <2>2, <2>3
<1>10. CASE RecvSignal
  <2>0. Live' = Live
    BY <1>10 DEF RecvSignal, Live
  <2>1. TypeOK'
    BY <1>10, <2>0 DEF RecvSignal, TypeOK, BufferOwnership, RecvOwns, Busy, Ids, Outcomes, Empty, Ops
  <2>2. RingMutex'
    BY <1>10 DEF RecvSignal, TypeOK, RingMutex
  <2>3. BufferOwnership'
    BY <1>10, <2>0 DEF RecvSignal, TypeOK, BufferOwnership, RecvOwns, Busy
  <2> QED BY <2>1, <2>2, <2>3
<1>11. ASSUME NEW w \in Workers, WorkerLock(w) PROVE IInv'
  <2>0. Live' = Live
    BY <1>11 DEF WorkerLock, Live
  <2>1. TypeOK'
    BY <1>11, <2>0 DEF WorkerLock, TypeOK, BufferOwnership, RecvOwns, Busy, Ids, Outcomes, Empty, Ops
  <2>2. RingMutex'
    BY <1>11 DEF WorkerLock, TypeOK, RingMutex
  <2>3. BufferOwnership'
    BY <1>11, <2>0 DEF WorkerLock, TypeOK, BufferOwnership, RecvOwns, Busy
  <2> QED BY <2>1, <2>2, <2>3
<1>12. ASSUME NEW w \in Workers, WorkerTest(w) PROVE IInv'
  <2>0. Live' = Live
    BY <1>12 DEF WorkerTest, Live
  <2>1. TypeOK'
    BY <1>12, <2>0 DEF WorkerTest, TypeOK, BufferOwnership, RecvOwns, Busy, Ids, Outcomes, Empty, Ops
  <2>2. RingMutex'
    BY <1>12 DEF WorkerTest, TypeOK, RingMutex
  <2>3. BufferOwnership'
    BY <1>12, <2>0 DEF WorkerTest, TypeOK, BufferOwnership, RecvOwns, Busy
  <2> QED BY <2>1, <2>2, <2>3
<1>13. ASSUME NEW w \in Workers, WorkerTake(w) PROVE IInv'
  <2>0. Live' = Live \ {tail} /\ tail \in Live /\ Succ(tail) \in Slots
    BY <1>13, LiveAfterTake, SuccFacts DEF WorkerTake, TypeOK, RingMutex
  <2>1. TypeOK'
    BY <1>13, <2>0 DEF WorkerTake, TypeOK, BufferOwnership, RecvOwns, Busy, Ids, Outcomes, Empty, Ops
  <2>2. RingMutex'
    BY <1>13 DEF WorkerTake, TypeOK, RingMutex
  <2>3. BufferOwnership'
    BY <1>13, <2>0 DEF WorkerTake, TypeOK, BufferOwnership, RecvOwns, Busy
  <2> QED BY <2>1, <2>2, <2>3
<1>14. ASSUME NEW w \in Workers, processMessage(w) PROVE IInv'
  <2>0. Live' = Live
    BY <1>14 DEF processMessage, Live
  <2>1. TypeOK'
    BY <1>14, <2>0 DEF processMessage, TypeOK, BufferOwnership, RecvOwns, Busy, Ids, Outcomes, Empty, Ops, Datagram
  <2>2. RingMutex'
    BY <1>14 DEF processMessage, TypeOK, RingMutex, Datagram
  <2>3. BufferOwnership'
    BY <1>14, <2>0 DEF processMessage, TypeOK, BufferOwnership, RecvOwns, Busy, Datagram
  <2> QED BY <2>1, <2>2, <2>3
<1>15. ASSUME NEW w \in Workers, RouteMemoryAccess(w) PROVE IInv'
  <2>0. Live' = Live
    BY <1>15 DEF RouteMemoryAccess, Live
  <2>1. TypeOK'
    <3>1. outcome' \in [Ids -> Outcomes]
      BY <1>15, AccessResults DEF RouteMemoryAccess, TypeOK, Outcomes
    <3>2. wpc' \in [Workers -> {"off", "lock", "test", "wait", "take", "parse", "route", "put"}]
      BY <1>15 DEF RouteMemoryAccess, TypeOK
    <3>3. crashed' \in BOOLEAN
      BY <1>15, Zenon DEF RouteMemoryAccess, TypeOK
    <3> QED BY <1>15, <3>1, <3>2, <3>3 DEF RouteMemoryAccess, TypeOK
  <2>2. RingMutex'
    BY <1>15 DEF RouteMemoryAccess, TypeOK, RingMutex
  <2>3. BufferOwnership'
    BY <1>15, <2>0 DEF RouteMemoryAccess, TypeOK, BufferOwnership, RecvOwns, Busy
  <2> QED BY <2>1, <2>2, <2>3
<1>16. ASSUME NEW w \in Workers, WorkerPut(w) PROVE IInv'
  <2>0. Live' = Live
    BY <1>16 DEF WorkerPut, Live
  <2>1. TypeOK'
    BY <1>16, <2>0 DEF WorkerPut, TypeOK, BufferOwnership, RecvOwns, Busy, Ids, Outcomes, Empty, Ops
  <2>2. RingMutex'
    BY <1>16 DEF WorkerPut, TypeOK, RingMutex
  <2>3. BufferOwnership'
    BY <1>16, <2>0 DEF WorkerPut, TypeOK, BufferOwnership, RecvOwns, Busy
  <2> QED BY <2>1, <2>2, <2>3
<1>17. CASE UNCHANGED vars
  BY <1>17 DEF vars, TypeOK, RingMutex, BufferOwnership, RecvOwns, Busy, Live
<1> QED
  BY <1>1, <1>2, <1>3, <1>4, <1>5, <1>6, <1>7, <1>8, <1>9, <1>10, <1>11, <1>12, <1>13, <1>14, <1>15, <1>16, <1>17 DEF Next, RecvStep, WorkerStep

LEMMA InductiveIInv == Spec => []IInv
  BY InitIInv, StepIInv, PTL DEF Spec

-----------------------------------------------------------------------------
(* No worker sleeps beside unclaimed work *)

LEMMA QueueLenFacts ==
  ASSUME TypeOK
  PROVE  QueueLen \in Nat /\ (QueueLen = 0 <=> head = tail)
BY RingAssumption DEF TypeOK, QueueLen, Slots

(* Workers on their way to the ring: finitely many, counted one by one. *)
LEMMA ClaimingFacts ==
  /\ Cardinality(Claiming) \in Nat
  /\ \A w : w \notin Claiming /\ Claiming' = Claiming \cup {w}
            => Cardinality(Claiming') = Cardinality(Claiming) + 1
  /\ \A w : w \in Claiming /\ Claiming' = Claiming \ {w}
            => Cardinality(Claiming') = Cardinality(Claiming) - 1
<1>1. IsFiniteSet(Claiming)
  BY WorkersAssumption, FS_Subset DEF Claiming
<1> QED BY <1>1, FS_CardinalityType, FS_AddElement, FS_RemoveElement

(* Steps that move no index and change no worker's claim, and do not pass  *)
(* the receive loop's Signal.                                              *)
LEMMA NoIdleFrame ==
  ASSUME NoIdleWorker, UNCHANGED <<head, tail>>, Claiming' = Claiming,
         Waiting' = Waiting, rpc = "signal" => rpc' = "signal", TypeOK
  PROVE  NoIdleWorker'
<1>1. QueueLen' = QueueLen /\ QueueLen \in Nat
  BY QueueLenFacts DEF QueueLen
<1> QED BY <1>1, ClaimingFacts DEF NoIdleWorker

LEMMA StepNoIdle == IInv /\ NoIdleWorker /\ [Next]_vars => NoIdleWorker'
<1> SUFFICES ASSUME IInv, NoIdleWorker, [Next]_vars PROVE NoIdleWorker'
  OBVIOUS
<1>0. TypeOK /\ RingMutex
  BY DEF IInv
<1> USE DEF queueVars, workVars, recvVars, histVars
<1>1. CASE StartZMQReceiver
  BY <1>0, <1>1 DEF StartZMQReceiver, NoIdleWorker, Waiting, RingMutex, TypeOK
<1>2. CASE PoolGet \/ PoolForget \/ RecvDrop \/ RecvCopy \/ RecvLock \/ RecvCheck \/ RecvPut
  <2>1. UNCHANGED <<head, tail, wpc>> /\ (rpc = "signal" => rpc' = "signal")
    BY <1>2 DEF PoolGet, PoolForget, RecvDrop, RecvCopy, RecvLock, RecvCheck, RecvPut
  <2> QED BY <1>0, <2>1, NoIdleFrame DEF Claiming, Waiting
<1>3. CASE RecvStore
  <2>1. QueueLen' = QueueLen + 1
    BY <1>0, <1>3, LiveAfterStore DEF RecvStore, TypeOK, RingMutex
  <2>2. Claiming' = Claiming /\ Waiting' = Waiting
    BY <1>3 DEF RecvStore, Claiming, Waiting
  <2> QED BY <1>0, <1>3, <2>1, <2>2, QueueLenFacts, ClaimingFacts DEF RecvStore, NoIdleWorker
<1>4. CASE RecvSignal
  <2>1. QueueLen' = QueueLen /\ rpc = "signal" /\ rpc' = "get"
    BY <1>4 DEF RecvSignal, QueueLen
  <2>2. ASSUME NEW w \in Workers, wpc[w] = "wait", wpc' = [wpc EXCEPT ![w] = "lock"]
        PROVE  NoIdleWorker'
    <3>1. Claiming' = Claiming \cup {w} /\ w \notin Claiming
      BY <1>0, <2>2 DEF Claiming, TypeOK
    <3>2. Waiting # {}
      BY <2>2 DEF Waiting
    <3>3. Cardinality(Claiming') = Cardinality(Claiming) + 1
      BY <3>1, ClaimingFacts
    <3>4. QueueLen \in Nat /\ Cardinality(Claiming) \in Nat
      BY <1>0, QueueLenFacts, ClaimingFacts
    <3> QED BY <2>1, <3>2, <3>3, <3>4 DEF NoIdleWorker
  <2>3. ASSUME \A w \in Workers : wpc[w] # "wait", UNCHANGED wpc
        PROVE  NoIdleWorker'
    BY <2>3 DEF NoIdleWorker, Waiting
  <2> QED BY <1>4, <2>2, <2>3 DEF RecvSignal
<1>5. ASSUME NEW w \in Workers, WorkerLock(w) \/ processMessage(w) \/ RouteMemoryAccess(w)
      PROVE  NoIdleWorker'
  <2>1. UNCHANGED <<head, tail, rpc>>
    BY <1>5 DEF WorkerLock, processMessage, RouteMemoryAccess
  <2>2. Claiming' = Claiming /\ Waiting' = Waiting
    BY <1>0, <1>5 DEF WorkerLock, processMessage, RouteMemoryAccess, Claiming, Waiting, TypeOK
  <2> QED BY <1>0, <2>1, <2>2, NoIdleFrame
<1>6. ASSUME NEW w \in Workers, WorkerTest(w) PROVE NoIdleWorker'
  <2>1. UNCHANGED <<head, tail, rpc>>
    BY <1>6 DEF WorkerTest
  <2>2. CASE head = tail
    <3>1. QueueLen' = 0
      BY <1>0, <2>1, <2>2, QueueLenFacts DEF QueueLen
    <3>2. Cardinality(Claiming') \in Nat
      BY WorkersAssumption, FS_Subset, FS_CardinalityType DEF Claiming
    <3> QED BY <3>1, <3>2 DEF NoIdleWorker
  <2>3. CASE head # tail
    <3>1. Claiming' = Claiming /\ Waiting' = Waiting
      BY <1>0, <1>6, <2>3 DEF WorkerTest, Claiming, Waiting, TypeOK
    <3> QED BY <1>0, <2>1, <3>1, NoIdleFrame
  <2> QED BY <2>2, <2>3
<1>7. ASSUME NEW w \in Workers, WorkerTake(w) PROVE NoIdleWorker'
  <2>1. QueueLen' = QueueLen - 1 /\ rpc' = rpc
    BY <1>0, <1>7, LiveAfterTake DEF WorkerTake, TypeOK, RingMutex
  <2>2. Claiming' = Claiming \ {w} /\ w \in Claiming /\ Waiting' = Waiting
    BY <1>0, <1>7 DEF WorkerTake, Claiming, Waiting, TypeOK
  <2>3. Cardinality(Claiming') = Cardinality(Claiming) - 1
    BY <2>2, ClaimingFacts
  <2>4. QueueLen \in Nat /\ Cardinality(Claiming) \in Nat
    BY <1>0, QueueLenFacts, ClaimingFacts
  <2> QED BY <2>1, <2>2, <2>3, <2>4 DEF NoIdleWorker
<1>8. ASSUME NEW w \in Workers, WorkerPut(w) PROVE NoIdleWorker'
  <2>1. QueueLen' = QueueLen /\ rpc' = rpc
    BY <1>8 DEF WorkerPut, QueueLen
  <2>2. Claiming' = Claiming \cup {w} /\ w \notin Claiming /\ Waiting' = Waiting
    BY <1>0, <1>8 DEF WorkerPut, Claiming, Waiting, TypeOK
  <2>3. Cardinality(Claiming') = Cardinality(Claiming) + 1
    BY <2>2, ClaimingFacts
  <2>4. QueueLen \in Nat /\ Cardinality(Claiming) \in Nat
    BY <1>0, QueueLenFacts, ClaimingFacts
  <2> QED BY <2>1, <2>2, <2>3, <2>4 DEF NoIdleWorker
<1>9. CASE UNCHANGED vars
  BY <1>0, <1>9, NoIdleFrame DEF vars, Claiming, Waiting
<1> QED
  BY <1>1, <1>2, <1>3, <1>4, <1>5, <1>6, <1>7, <1>8, <1>9 DEF Next, RecvStep, WorkerStep

-----------------------------------------------------------------------------
(* No datagram is lost *)

(* Buffer b holds a received datagram that fits. *)
Holds(b) == data[b].id \in 1..nrecv /\ data[b].msg.len <= BufCap

(* The datagrams in the ring, in the workers' hands and in the receive     *)
(* loop's are received ones, and different ones.                           *)
Distinct ==
  /\ RecvHolds => data[rbuf].id = nrecv /\ Holds(rbuf)
  /\ \A i \in Live : Holds(ring[i]) /\ (RecvHolds => data[ring[i]].id # nrecv)
  /\ \A w \in Hands : Holds(wbuf[w]) /\ (RecvHolds => data[wbuf[w]].id # nrecv)
  /\ \A i, j \in Live : data[ring[i]].id = data[ring[j]].id => i = j
  /\ \A v, w \in Hands : data[wbuf[v]].id = data[wbuf[w]].id => v = w
  /\ \A i \in Live, w \in Hands : data[ring[i]].id # data[wbuf[w]].id

(* Datagrams not received yet have no outcome; what is routed was checked. *)
Ahead ==
  /\ \A m \in Ids : m > nrecv => outcome[m] = "pending"
  /\ \A w \in Workers : wpc[w] = "route" => WellFormed(data[wbuf[w]].msg)

LInv == Distinct /\ Ahead /\ NothingLost

(* Steps that change no datagram, no outcome and no owner of a datagram. *)
LEMMA LostFrame ==
  ASSUME TypeOK, LInv, Live' = Live, Hands' = Hands, nrecv' = nrecv,
         outcome' = outcome, RecvHolds' <=> RecvHolds,
         RecvHolds => data'[rbuf'] = data[rbuf],
         \A i \in Live : data'[ring'[i]] = data[ring[i]],
         \A w \in Hands : data'[wbuf'[w]] = data[wbuf[w]],
         \A w \in Workers : wpc'[w] = "route" => wpc[w] = "route"
  PROVE  LInv'
<1>1. Distinct'
  BY DEF LInv, Distinct, Holds
<1>2. Ahead'
  <2>1. \A w \in Workers : wpc'[w] = "route" => w \in Hands
    BY DEF Hands
  <2> QED BY <2>1 DEF LInv, Ahead, WellFormed
<1>3. NothingLost'
  BY DEF LInv, NothingLost, Located, Datagram
<1> QED BY <1>1, <1>2, <1>3 DEF LInv

LEMMA StepLInv == IInv /\ LInv /\ [Next]_vars => LInv'
<1> SUFFICES ASSUME IInv, LInv, [Next]_vars PROVE LInv'
  OBVIOUS
<1>0. TypeOK /\ RingMutex /\ BufferOwnership
  BY DEF IInv
<1> USE DEF queueVars, workVars, recvVars, histVars
<1>a. \A w \in Hands : w \in Busy
  BY DEF Hands, Busy
<1>1. CASE StartZMQReceiver
  <2>1. Live' = Live /\ Hands' = Hands /\ Hands = {}
    BY <1>0, <1>1 DEF StartZMQReceiver, Live, Hands, RingMutex, TypeOK
  <2>2. \A w \in Workers : wpc'[w] # "route"
    BY <1>0, <1>1 DEF StartZMQReceiver, RingMutex, TypeOK
  <2> QED BY <1>0, <1>1, <2>1, <2>2, LostFrame DEF StartZMQReceiver, RecvHolds
<1>2. CASE PoolGet
  <2>1. Live' = Live /\ Hands' = Hands /\ ~RecvHolds /\ ~RecvHolds'
    BY <1>2 DEF PoolGet, Live, Hands, RecvHolds
  <2>2. PICK b \in pool \cup (Bufs \ InUse) : data' = [data EXCEPT ![b] = Empty]
    BY <1>2 DEF PoolGet
  <2>3. \A i \in Live : ring[i] \in Bufs /\ ring[i] # b
    BY <1>0, <2>2 DEF BufferOwnership, InUse
  <2>4. \A w \in Hands : wbuf[w] \in Bufs /\ wbuf[w] # b
    BY <1>0, <1>a, <2>2 DEF BufferOwnership, InUse
  <2> QED BY <1>0, <1>2, <2>1, <2>2, <2>3, <2>4, LostFrame DEF PoolGet, TypeOK
<1>3. CASE PoolForget
  <2>1. Live' = Live /\ Hands' = Hands /\ (RecvHolds' <=> RecvHolds)
    BY <1>3 DEF PoolForget, Live, Hands, RecvHolds
  <2>2. PICK b \in pool : data' = [data EXCEPT ![b] = Empty]
    BY <1>3 DEF PoolForget
  <2>3. \A i \in Live : ring[i] \in Bufs /\ ring[i] # b
    BY <1>0, <2>2 DEF BufferOwnership
  <2>4. \A w \in Hands : wbuf[w] \in Bufs /\ wbuf[w] # b
    BY <1>0, <1>a, <2>2 DEF BufferOwnership
  <2>5. RecvHolds => rbuf \in Bufs /\ rbuf # b
    BY <1>0, <2>2 DEF BufferOwnership, RecvOwns, RecvHolds
  <2> QED BY <1>0, <1>3, <2>1, <2>2, <2>3, <2>4, <2>5, LostFrame DEF PoolForget, TypeOK
<1>4. CASE RecvDrop \/ RecvPut \/ RecvLock
  <2>1. Live' = Live /\ Hands' = Hands /\ (RecvHolds' <=> RecvHolds)
    BY <1>4 DEF RecvDrop, RecvPut, RecvLock, Live, Hands, RecvHolds
  <2>2. RecvHolds => rbuf' = rbuf
    BY <1>4 DEF RecvDrop, RecvPut, RecvLock, RecvHolds
  <2> QED BY <1>0, <1>4, <2>1, <2>2, LostFrame DEF RecvDrop, RecvPut, RecvLock
<1>5. CASE RecvSignal
  <2>1. Live' = Live /\ Hands' = Hands /\ ~RecvHolds /\ ~RecvHolds'
    BY <1>0, <1>5 DEF RecvSignal, Live, Hands, RecvHolds, TypeOK
  <2>2. \A w \in Workers : wpc'[w] = "route" => wpc[w] = "route"
    BY <1>0, <1>5 DEF RecvSignal, TypeOK
  <2> QED BY <1>0, <1>5, <2>1, <2>2, LostFrame DEF RecvSignal
<1>6. ASSUME NEW w \in Workers, WorkerLock(w) \/ WorkerTest(w) PROVE LInv'
  <2>1. Live' = Live /\ Hands' = Hands /\ (RecvHolds' <=> RecvHolds)
    BY <1>0, <1>6 DEF WorkerLock, WorkerTest, Live, Hands, RecvHolds, TypeOK
  <2>2. \A v \in Workers : wpc'[v] = "route" => wpc[v] = "route"
    BY <1>0, <1>6 DEF WorkerLock, WorkerTest, TypeOK
  <2> QED BY <1>0, <1>6, <2>1, <2>2, LostFrame DEF WorkerLock, WorkerTest
<1>7. ASSUME NEW w \in Workers, WorkerPut(w) PROVE LInv'
  <2>1. Live' = Live /\ Hands' = Hands /\ (RecvHolds' <=> RecvHolds) /\ w \notin Hands /\ w \in Busy
    BY <1>0, <1>7 DEF WorkerPut, Live, Hands, Busy, RecvHolds, TypeOK
  <2>2. \A v \in Workers : wpc'[v] = "route" => wpc[v] = "route"
    BY <1>0, <1>7 DEF WorkerPut, TypeOK
  <2>3. \A i \in Live : ring[i] \in Bufs /\ ring[i] # wbuf[w]
    BY <1>0, <2>1 DEF BufferOwnership
  <2>4. \A v \in Hands : wbuf[v] \in Bufs /\ wbuf[v] # wbuf[w] /\ wbuf'[v] = wbuf[v]
    BY <1>0, <1>7, <1>a, <2>1 DEF BufferOwnership, WorkerPut, TypeOK
  <2>5. RecvHolds => rbuf \in Bufs /\ rbuf # wbuf[w]
    BY <1>0, <2>1 DEF BufferOwnership, RecvOwns, RecvHolds
  <2> QED BY <1>0, <1>7, <2>1, <2>2, <2>3, <2>4, <2>5, LostFrame DEF WorkerPut, TypeOK
<1>8. CASE RecvCopy
  <2>1. Live' = Live /\ Hands' = Hands /\ ~RecvHolds /\ RecvHolds' /\ nrecv' = nrecv + 1
        /\ nrecv \in Nat /\ nrecv' \in Ids /\ rbuf' = rbuf /\ rbuf \in Bufs
    BY <1>0, <1>8, SizeAssumption
    DEF RecvCopy, Live, Hands, RecvHolds, TypeOK, Ids, BufferOwnership, RecvOwns
  <2>2. PICK d \in Datagrams : /\ d.len <= BufCap
                               /\ data' = [data EXCEPT ![rbuf] = [id |-> nrecv + 1, msg |-> d]]
    BY <1>8 DEF RecvCopy
  <2>3. data'[rbuf].id = nrecv' /\ data'[rbuf].msg = d
    BY <1>0, <2>1, <2>2 DEF TypeOK
  <2>4. \A i \in Live : data'[ring'[i]] = data[ring[i]]
    BY <1>0, <1>8, <2>2 DEF BufferOwnership, RecvOwns, RecvCopy, TypeOK
  <2>5. \A w \in Hands : data'[wbuf'[w]] = data[wbuf[w]]
    BY <1>0, <1>8, <1>a, <2>2 DEF BufferOwnership, RecvOwns, RecvCopy, TypeOK
  <2>6. Distinct'
    BY <2>1, <2>2, <2>3, <2>4, <2>5 DEF LInv, Distinct, Holds
  <2>7. Ahead'
    <3>1. \A w \in Workers : wpc'[w] = "route" => w \in Hands /\ wpc[w] = "route"
      BY <1>8 DEF RecvCopy, Hands
    <3>2. outcome' = outcome
      BY <1>8 DEF RecvCopy
    <3> QED BY <2>1, <2>5, <3>1, <3>2 DEF LInv, Ahead, WellFormed, Ids
  <2>8. NothingLost'
    <3>1. outcome' = outcome /\ outcome[nrecv + 1] = "pending"
      BY <1>8, <2>1 DEF RecvCopy, LInv, Ahead, Ids
    <3>2. \A m \in 1..nrecv : Located(m)' <=> Located(m)
      BY <2>1, <2>4, <2>5 DEF Located, Datagram
    <3>3. \A m : m = nrecv + 1 => Located(m)'
      BY <2>1 DEF Located
    <3>4. \A m \in 1..nrecv' : m \in 1..nrecv \/ m = nrecv + 1
      BY <2>1
    <3>5. \A m \in 1..nrecv' : outcome'[m] = "pending" <=> Located(m)'
      BY <3>1, <3>2, <3>3, <3>4 DEF LInv, NothingLost
    <3> QED BY <3>5 DEF NothingLost
  <2> QED BY <2>6, <2>7, <2>8 DEF LInv
<1>9. CASE RecvCheck
  <2>1. Live' = Live /\ Hands' = Hands /\ RecvHolds /\ nrecv' = nrecv
        /\ \A w \in Workers : wpc'[w] = "route" => wpc[w] = "route"
    BY <1>9 DEF RecvCheck, Live, Hands, RecvHolds
  <2>2. CASE Succ(head) # tail
    <3>1. RecvHolds' /\ outcome' = outcome
      BY <1>9, <2>2 DEF RecvCheck, RecvHolds
    <3> QED BY <1>0, <1>9, <2>1, <3>1, LostFrame DEF RecvCheck
  <2>3. CASE Succ(head) = tail
    <3>1. ~RecvHolds' /\ outcome' = [outcome EXCEPT ![nrecv] = "dropped"]
          /\ UNCHANGED <<data, ring, wbuf>>
      BY <1>9, <2>3 DEF RecvCheck, RecvHolds
    <3>2. nrecv \in Ids /\ outcome'[nrecv] = "dropped"
          /\ \A m \in Ids : m # nrecv => outcome'[m] = outcome[m]
      BY <1>0, <2>1, <3>1, SizeAssumption DEF LInv, Distinct, Holds, TypeOK, Ids
    <3>3. Distinct'
      BY <2>1, <3>1 DEF LInv, Distinct, Holds
    <3>4. Ahead'
      <4>1. \A m \in Ids : m > nrecv => outcome'[m] = "pending"
        BY <1>0, <3>2 DEF LInv, Ahead, TypeOK, Ids
      <4> QED BY <1>9, <2>1, <3>1, <4>1 DEF LInv, Ahead, WellFormed, RecvCheck
    <3>5. \A m \in 1..nrecv : Located(m)' <=> Located(m) /\ m # nrecv
      BY <2>1, <3>1 DEF LInv, Distinct, Holds, Located, Datagram
    <3>6. \A m \in 1..nrecv : m \in Ids
      BY <1>0, SizeAssumption DEF TypeOK, Ids
    <3>7. NothingLost'
      BY <2>1, <3>2, <3>5, <3>6 DEF LInv, NothingLost
    <3> QED BY <3>3, <3>4, <3>7 DEF LInv
  <2> QED BY <2>2, <2>3
<1>10. CASE RecvStore
  <2>1. Live' = Live \cup {head} /\ head \notin Live /\ head \in Slots
    BY <1>0, <1>10, LiveAfterStore DEF RecvStore, TypeOK, RingMutex
  <2>2. Hands' = Hands /\ RecvHolds /\ ~RecvHolds'
        /\ UNCHANGED <<data, wbuf, wpc, nrecv, outcome>>
    BY <1>10 DEF RecvStore, Hands, RecvHolds
  <2>3. ring'[head] = rbuf /\ \A i \in Live : ring'[i] = ring[i]
    BY <1>0, <1>10, <2>1 DEF RecvStore, TypeOK, Live
  <2>4. Distinct'
    BY <2>1, <2>2, <2>3 DEF LInv, Distinct, Holds
  <2>5. Ahead'
    BY <2>2 DEF LInv, Ahead, WellFormed
  <2>6. \A m \in 1..nrecv : Located(m)' <=> Located(m)
    BY <2>1, <2>2, <2>3 DEF LInv, Distinct, Located, Datagram
  <2>7. NothingLost'
    BY <2>2, <2>6 DEF LInv, NothingLost
  <2> QED BY <2>4, <2>5, <2>7 DEF LInv
<1>11. ASSUME NEW w \in Workers, WorkerTake(w) PROVE LInv'
  <2>1. Live' = Live \ {tail} /\ tail \in Live
    BY <1>0, <1>11, LiveAfterTake DEF WorkerTake, TypeOK, RingMutex
  <2>2. Hands' = Hands \cup {w} /\ w \notin Hands
    BY <1>0, <1>11 DEF WorkerTake, TypeOK, Hands
  <2>3. wbuf'[w] = ring[tail] /\ \A v \in Hands : wbuf'[v] = wbuf[v]
    BY <1>0, <1>11, <2>2 DEF WorkerTake, TypeOK, Hands
  <2>4. UNCHANGED <<data, ring, rbuf, nrecv, outcome>> /\ (RecvHolds' <=> RecvHolds)
    BY <1>11 DEF WorkerTake, RecvHolds
  <2>5. Distinct'
    BY <2>1, <2>2, <2>3, <2>4 DEF LInv, Distinct, Holds
  <2>6. Ahead'
    <3>1. \A v \in Workers : wpc'[v] = "route" => v \in Hands /\ wpc[v] = "route"
      BY <1>0, <1>11 DEF WorkerTake, TypeOK, Hands
    <3> QED BY <2>3, <2>4, <3>1 DEF LInv, Ahead, WellFormed
  <2>7. \A m \in 1..nrecv : Located(m)' <=> Located(m)
    BY <2>1, <2>2, <2>3, <2>4 DEF Located, Datagram
  <2>8. NothingLost'
    BY <2>4, <2>7 DEF LInv, NothingLost
  <2> QED BY <2>5, <2>6, <2>8 DEF LInv
<1>12. ASSUME NEW w \in Workers, NEW r \in Outcomes \ {"pending"}, w \in Hands,
              wpc' = [wpc EXCEPT ![w] = "put"],
              outcome' = [outcome EXCEPT ![Datagram(w).id] = r],
              UNCHANGED <<ring, head, tail, data, rpc, rbuf, wbuf, nrecv>>
       PROVE  LInv'
  <2>1. Live' = Live /\ Hands' = Hands \ {w} /\ (RecvHolds' <=> RecvHolds)
    BY <1>0, <1>12 DEF Live, Hands, RecvHolds, TypeOK
  <2>2. Datagram(w).id \in 1..nrecv /\ Datagram(w).id \in Ids
    BY <1>0, <1>12, SizeAssumption DEF LInv, Distinct, Holds, Datagram, TypeOK, Ids
  <2>3. outcome'[Datagram(w).id] = r /\ \A m \in Ids : m # Datagram(w).id => outcome'[m] = outcome[m]
    BY <1>0, <1>12, <2>2 DEF TypeOK
  <2>4. Distinct'
    BY <1>12, <2>1 DEF LInv, Distinct, Holds
  <2>5. Ahead'
    <3>1. \A v \in Workers : wpc'[v] = "route" => wpc[v] = "route"
      BY <1>0, <1>12 DEF TypeOK
    <3>2. \A m \in Ids : m > nrecv => outcome'[m] = "pending"
      BY <1>0, <2>2, <2>3 DEF LInv, Ahead, TypeOK, Ids
    <3> QED BY <1>12, <3>1, <3>2 DEF LInv, Ahead, WellFormed
  <2>6. \A m \in 1..nrecv : Located(m)' <=> Located(m) /\ m # Datagram(w).id
    BY <1>12, <2>1 DEF LInv, Distinct, Located, Datagram
  <2>7. \A m \in 1..nrecv : m \in Ids
    BY <1>0, SizeAssumption DEF TypeOK, Ids
  <2>8. NothingLost'
    BY <1>12, <2>3, <2>6, <2>7 DEF LInv, NothingLost
  <2> QED BY <2>4, <2>5, <2>8 DEF LInv
<1>13. ASSUME NEW w \in Workers, processMessage(w) PROVE LInv'
  <2>1. w \in Hands
    BY <1>13 DEF processMessage, Hands
  <2>2. CASE WellFormed(Datagram(w).msg)
    <3>1. Live' = Live /\ Hands' = Hands /\ (RecvHolds' <=> RecvHolds)
          /\ UNCHANGED <<ring, data, rbuf, wbuf, nrecv, outcome>>
      BY <1>0, <1>13, <2>2 DEF processMessage, Live, Hands, RecvHolds, TypeOK
    <3>2. Distinct'
      BY <3>1 DEF LInv, Distinct, Holds
    <3>3. \A v \in Workers : wpc'[v] = "route" => wpc[v] = "route" \/ v = w
      BY <1>0, <1>13, <2>2 DEF processMessage, TypeOK
    <3>4. Ahead'
      BY <2>2, <3>1, <3>3 DEF LInv, Ahead, WellFormed, Datagram
    <3>5. NothingLost'
      BY <3>1 DEF LInv, NothingLost, Located, Datagram
    <3> QED BY <3>2, <3>4, <3>5 DEF LInv
  <2>3. CASE ~WellFormed(Datagram(w).msg)
    BY <1>12, <1>13, <2>1, <2>3 DEF processMessage, Outcomes
  <2> QED BY <2>2, <2>3
<1>14. ASSUME NEW w \in Workers, RouteMemoryAccess(w) PROVE LInv'
  <2>1. w \in Hands
    BY <1>14 DEF RouteMemoryAccess, Hands
  <2>2. PICK r \in accessViaXBus(Datagram(w).msg) \cup accessViaRemote(Datagram(w).msg) :
           IF r = "panic"
             THEN crashed' = TRUE /\ UNCHANGED <<wpc, outcome>>
             ELSE /\ outcome' = [outcome EXCEPT ![Datagram(w).id] = r]
                  /\ wpc' = [wpc EXCEPT ![w] = "put"]
                  /\ UNCHANGED crashed
    BY <1>14 DEF RouteMemoryAccess
  <2>3. CASE r = "panic"
    <3>1. Live' = Live /\ Hands' = Hands /\ (RecvHolds' <=> RecvHolds)
      BY <1>14, <2>2, <2>3 DEF RouteMemoryAccess, Live, Hands, RecvHolds
    <3> QED BY <1>0, <1>14, <2>2, <2>3, <3>1, LostFrame DEF RouteMemoryAccess
  <2>4. CASE r # "panic"
    <3>1. r \in Outcomes \ {"pending"}
      BY <2>4, AccessResults DEF Outcomes
    <3> QED BY <1>12, <1>14, <2>1, <2>2, <2>4, <3>1 DEF RouteMemoryAccess
  <2> QED BY <2>3, <2>4
<1>15. CASE UNCHANGED vars
  <2>1. Live' = Live /\ Hands' = Hands /\ (RecvHolds' <=> RecvHolds)
    BY <1>15 DEF vars, Live, Hands, RecvHolds
  <2> QED BY <1>0, <1>15, <2>1, LostFrame DEF vars
<1> QED
  BY <1>1, <1>2, <1>3, <1>4, <1>5, <1>6, <1>7, <1>8, <1>9, <1>10, <1>11, <1>13, <1>14, <1>15
  DEF Next, RecvStep, WorkerStep

LEMMA InductiveLInv == Spec => [](IInv /\ LInv)
<1>1. Init => LInv
  <2> SUFFICES ASSUME Init PROVE LInv
    OBVIOUS
  <2>1. Live = {} /\ Hands = {} /\ ~RecvHolds /\ nrecv = 0 /\ 1..nrecv = {}
    BY RingAssumption DEF Init, Live, Hands, RecvHolds, Slots
  <2>2. Ahead
    BY DEF Init, Ahead
  <2> QED BY <2>1, <2>2 DEF LInv, Distinct, NothingLost
<1> QED BY <1>1, StepLInv, InductiveIInv, PTL DEF Spec

(* Every datagram copied into a buffer is, until it has an outcome, in one *)
(* place, and afterwards in none.                                          *)
THEOREM NothingLostCorrect == Spec => []NothingLost
<1>1. LInv => NothingLost
  BY DEF LInv
<1> QED BY <1>1, InductiveLInv, PTL

(* RouteMemoryAccess gets bytes of the worker's own datagram only. *)
THEOREM PayloadCorrect == Spec => []PayloadIsOwn
<1>1. IInv /\ LInv => PayloadIsOwn
  <2> SUFFICES ASSUME IInv, LInv, NEW w \in Workers, wpc[w] = "route"
               PROVE  /\ outcome[Datagram(w).id] = "pending"
                      /\ HeaderSize + Datagram(w).msg.size <= Datagram(w).msg.len
                      /\ Datagram(w).msg.len <= BufCap
    BY DEF PayloadIsOwn
  <2>1. w \in Hands
    BY DEF Hands
  <2>2. Datagram(w).id \in 1..nrecv /\ Datagram(w).msg.len <= BufCap
    BY <2>1 DEF LInv, Distinct, Holds, Datagram
  <2>3. outcome[Datagram(w).id] = "pending"
    BY <2>1, <2>2 DEF LInv, NothingLost, Located
  <2>4. WellFormed(Datagram(w).msg)
    BY DEF LInv, Ahead, Datagram
  <2>5. Datagram(w).msg \in [len: Nat, op: Ops, size: Nat]
    <3>1. wbuf[w] \in Bufs
      BY <2>1 DEF IInv, BufferOwnership, Hands, Busy
    <3> QED BY <3>1 DEF IInv, TypeOK, Datagram
  <2> QED BY <2>2, <2>3, <2>4, <2>5, SizeAssumption DEF WellFormed
<1> QED BY <1>1, InductiveLInv, PTL

(* The types of the state are as declared, along every behaviour. *)
THEOREM TypeCorrect == Spec => []TypeOK
<1>1. IInv => TypeOK
  BY DEF IInv
<1> QED BY <1>1, InductiveIInv, PTL

(* The critical sections of the receive loop and of the workers exclude    *)
(* each other, and the tests made in them hold until the index moves.      *)
THEOREM MutexCorrect == Spec => []RingMutex
<1>1. IInv => RingMutex
  BY DEF IInv
<1> QED BY <1>1, InductiveIInv, PTL

(* No message buffer ever has two owners (msgPool, ring, workers, loop). *)
THEOREM OwnershipCorrect == Spec => []BufferOwnership
<1>1. IInv => BufferOwnership
  BY DEF IInv
<1> QED BY <1>1, InductiveIInv, PTL

(* Signal after Unlock leaves no worker asleep beside unclaimed datagrams. *)
THEOREM WakeupCorrect == Spec => []NoIdleWorker
<1>1. Init => NoIdleWorker
  BY DEF Init, NoIdleWorker, Waiting
<1> QED BY <1>1, StepNoIdle, InductiveIInv, PTL DEF Spec
-----------------------------------------------------------------------------
(* The order of datagrams *)

Finished == {"error", "applied", "forwarded"}

(* The ring is in the order of reception, and what workers hold or have    *)
(* finished is older than all of it.                                       *)
OInv ==
  /\ \A k, l \in 1..QueueLen : k < l => IdAt(k) < IdAt(l)
  /\ \A k \in 1..QueueLen : \A w \in Hands : data[wbuf[w]].id < IdAt(k)
  /\ \A k \in 1..QueueLen : \A m \in Ids : outcome[m] \in Finished => m < IdAt(k)

(* Positions in the queue are live slots, and the other way round. *)
LEMMA SlotFacts ==
  ASSUME TypeOK
  PROVE  /\ QueueLen \in 0..(RingSize - 1)
         /\ \A k \in 1..QueueLen : Slot(k - 1) \in Live
         /\ \A i \in Live : \E k \in 1..QueueLen : i = Slot(k - 1)
         /\ Succ(head) = tail <=> QueueLen = RingSize - 1
<1> USE RingAssumption
<1>1. head \in Slots /\ tail \in Slots
  BY DEF TypeOK
<1>2. QueueLen \in 0..(RingSize - 1)
  BY <1>1 DEF QueueLen, Slots
<1>3. \A k \in 1..QueueLen : Slot(k - 1) \in Live
  BY <1>1 DEF QueueLen, Slots, Slot, Live
<1>4. ASSUME NEW i \in Live PROVE \E k \in 1..QueueLen : i = Slot(k - 1)
  <2> DEFINE k == IF tail <= i THEN i - tail + 1 ELSE i + RingSize - tail + 1
  <2>1. k \in 1..QueueLen /\ i = Slot(k - 1)
    BY <1>1 DEF QueueLen, Slots, Slot, Live
  <2> QED BY <2>1
<1>5. Succ(head) = tail <=> QueueLen = RingSize - 1
  <2>1. Succ(head) = IF head = RingSize - 1 THEN 0 ELSE head + 1
    BY <1>1, SuccFacts
  <2> QED BY <1>1, <2>1 DEF QueueLen, Slots
<1> QED BY <1>2, <1>3, <1>4, <1>5

LEMMA SlotsAfterStore ==
  ASSUME TypeOK, head' = Succ(head), tail' = tail, Succ(head) # tail
  PROVE  /\ QueueLen' = QueueLen + 1 /\ Slot(QueueLen) = head
         /\ \A k \in 1..(QueueLen + 1) : Slot(k - 1)' = Slot(k - 1)
<1>1. QueueLen' = QueueLen + 1
  BY LiveAfterStore DEF TypeOK
<1>2. Slot(QueueLen) = head
  BY RingAssumption DEF TypeOK, Slots, Slot, QueueLen
<1> QED BY <1>1, <1>2 DEF Slot

LEMMA SlotsAfterTake ==
  ASSUME TypeOK, tail' = Succ(tail), head' = head, head # tail
  PROVE  /\ QueueLen' = QueueLen - 1 /\ QueueLen > 0 /\ Slot(0) = tail
         /\ \A k \in 1..(QueueLen - 1) : Slot(k - 1)' = Slot(k)
<1> USE RingAssumption
<1>1. QueueLen' = QueueLen - 1
  BY LiveAfterTake DEF TypeOK
<1>2. tail' = IF tail = RingSize - 1 THEN 0 ELSE tail + 1
  BY SuccFacts DEF TypeOK
<1>3. Slot(0) = tail /\ QueueLen > 0
  BY DEF TypeOK, Slots, Slot, QueueLen
<1>4. \A k \in 1..(QueueLen - 1) : Slot(k - 1)' = Slot(k)
  BY <1>2 DEF TypeOK, Slots, Slot, QueueLen
<1> QED BY <1>1, <1>3, <1>4

(* What a step does to the datagrams *)
SameQueue == QueueLen' = QueueLen /\ \A k \in 1..QueueLen : IdAt(k)' = IdAt(k)
SameHands == Hands' = Hands /\ \A w \in Hands : data'[wbuf'[w]].id = data[wbuf[w]].id

Quiet == SameQueue /\ SameHands /\ LastOffered' = LastOffered /\ UNCHANGED <<outcome, crashed>>
Drops == /\ RecvHolds /\ SameQueue /\ SameHands /\ QueueLen = RingSize - 1
         /\ LastOffered' = LastOffered + 1 /\ LastOffered + 1 = nrecv
         /\ outcome' = [outcome EXCEPT ![nrecv] = "dropped"] /\ UNCHANGED crashed
Stores == /\ QueueLen' = QueueLen + 1 /\ QueueLen < RingSize - 1
          /\ \A k \in 1..QueueLen : IdAt(k)' = IdAt(k)
          /\ IdAt(QueueLen)' = nrecv
          /\ RecvHolds /\ SameHands /\ LastOffered' = LastOffered + 1 /\ LastOffered + 1 = nrecv
          /\ UNCHANGED <<outcome, crashed>>
Takes(w) == /\ QueueLen' = QueueLen - 1 /\ QueueLen > 0
            /\ \A k \in 1..(QueueLen - 1) : IdAt(k)' = IdAt(k + 1)
            /\ w \notin Hands /\ Hands' = Hands \cup {w}
            /\ data'[wbuf'[w]].id = IdAt(1)
            /\ \A v \in Hands : data'[wbuf'[v]].id = data[wbuf[v]].id
            /\ LastOffered' = LastOffered /\ UNCHANGED <<outcome, crashed>>
Ends(w, r) == /\ SameQueue /\ w \in Hands /\ Hands' = Hands \ {w}
              /\ \A v \in Hands : data'[wbuf'[v]].id = data[wbuf[v]].id
              /\ outcome' = [outcome EXCEPT ![data[wbuf[w]].id] = r]
              /\ LastOffered' = LastOffered /\ UNCHANGED crashed
Panics(w) == SameQueue /\ SameHands /\ w \in Hands /\ crashed' = TRUE
             /\ LastOffered' = LastOffered /\ UNCHANGED outcome

LEMMA SameSlots ==
  ASSUME TypeOK, UNCHANGED <<head, tail>>, \A i \in Live : data'[ring'[i]] = data[ring[i]]
  PROVE  SameQueue
<1>1. QueueLen' = QueueLen /\ \A k \in 1..QueueLen : Slot(k - 1)' = Slot(k - 1)
  BY DEF QueueLen, Slot
<1>2. \A k \in 1..QueueLen : Slot(k - 1) \in Live
  BY SlotFacts
<1>3. \A k \in 1..QueueLen : IdAt(k)' = IdAt(k)
  BY <1>1, <1>2 DEF IdAt
<1> QED BY <1>1, <1>3 DEF SameQueue

(* The buffers the ring and the workers hold are not the one written to. *)
LEMMA OtherBuffer ==
  ASSUME TypeOK, BufferOwnership, NEW b \in Bufs, NEW x, data' = [data EXCEPT ![b] = x],
         UNCHANGED ring, \A i \in Live : ring[i] # b, \A w \in Hands : wbuf[w] # b,
         \A w \in Hands : wbuf'[w] = wbuf[w]
  PROVE  /\ \A i \in Live : data'[ring'[i]] = data[ring[i]]
         /\ \A w \in Hands : data'[wbuf'[w]] = data[wbuf[w]]
<1>1. \A w \in Hands : w \in Busy
  BY DEF Hands, Busy
<1>2. (\A i \in Live : ring[i] \in Bufs) /\ \A w \in Hands : wbuf[w] \in Bufs
  BY <1>1 DEF BufferOwnership
<1> QED BY <1>2 DEF TypeOK
LEMMA QuietFrame ==
  ASSUME TypeOK, UNCHANGED <<head, tail, outcome, crashed>>, Hands' = Hands,
         LastOffered' = LastOffered,
         \A i \in Live : data'[ring'[i]] = data[ring[i]],
         \A w \in Hands : data'[wbuf'[w]] = data[wbuf[w]]
  PROVE  Quiet
  BY SameSlots DEF Quiet, SameHands

LEMMA StepKinds ==
  ASSUME IInv, LInv, [Next]_vars
  PROVE  \/ Quiet
         \/ ~crashed /\ \/ Drops \/ Stores
                        \/ \E w \in Workers : Takes(w) \/ Panics(w) \/ \E r \in Finished : Ends(w, r)
<1>0. TypeOK /\ RingMutex /\ BufferOwnership /\ Distinct
  BY DEF IInv, LInv
<1>a. \A w \in Hands : w \in Workers /\ w \in Busy
  BY DEF Hands, Busy
<1> USE DEF queueVars, workVars, recvVars, histVars
<1>1. ASSUME StartZMQReceiver PROVE Quiet
  <2>1. Hands = {} /\ Hands' = {}
    BY <1>0, <1>1 DEF StartZMQReceiver, Hands, RingMutex
  <2>2. LastOffered' = LastOffered
    BY <1>1 DEF StartZMQReceiver, LastOffered, RecvHolds
  <2> QED BY <1>0, <1>1, <2>1, <2>2, QuietFrame DEF StartZMQReceiver
<1>2. ASSUME PoolGet PROVE Quiet
  <2>1. Hands' = Hands /\ LastOffered' = LastOffered
    BY <1>2 DEF PoolGet, Hands, LastOffered, RecvHolds
  <2>2. PICK b \in pool \cup (Bufs \ InUse) : data' = [data EXCEPT ![b] = Empty]
    BY <1>2 DEF PoolGet
  <2>3. \A i \in Live : ring[i] # b
    BY <1>0, <2>2 DEF BufferOwnership, InUse
  <2>4. \A w \in Hands : wbuf[w] # b
    BY <1>0, <1>a, <2>2 DEF BufferOwnership, InUse
  <2>5. b \in Bufs
    BY <1>0, <2>2 DEF TypeOK
  <2>6. /\ \A i \in Live : data'[ring'[i]] = data[ring[i]]
        /\ \A w \in Hands : data'[wbuf'[w]] = data[wbuf[w]]
    BY <1>0, <1>2, <2>2, <2>3, <2>4, <2>5, OtherBuffer DEF PoolGet
  <2> QED BY <1>0, <1>2, <2>1, <2>6, QuietFrame DEF PoolGet
<1>3. ASSUME PoolForget PROVE Quiet
  <2>1. Hands' = Hands /\ LastOffered' = LastOffered
    BY <1>3 DEF PoolForget, Hands, LastOffered, RecvHolds
  <2>2. PICK b \in pool : data' = [data EXCEPT ![b] = Empty]
    BY <1>3 DEF PoolForget
  <2>3. \A i \in Live : ring[i] # b
    BY <1>0, <2>2 DEF BufferOwnership
  <2>4. \A w \in Hands : wbuf[w] # b
    BY <1>0, <1>a, <2>2 DEF BufferOwnership
  <2>5. b \in Bufs
    BY <1>0, <2>2 DEF TypeOK
  <2>6. /\ \A i \in Live : data'[ring'[i]] = data[ring[i]]
        /\ \A w \in Hands : data'[wbuf'[w]] = data[wbuf[w]]
    BY <1>0, <1>3, <2>2, <2>3, <2>4, <2>5, OtherBuffer DEF PoolForget
  <2> QED BY <1>0, <1>3, <2>1, <2>6, QuietFrame DEF PoolForget
<1>4. ASSUME RecvDrop \/ RecvPut \/ RecvLock \/ UNCHANGED vars PROVE Quiet
  <2>1. Hands' = Hands /\ LastOffered' = LastOffered
    BY <1>4 DEF RecvDrop, RecvPut, RecvLock, vars, Hands, LastOffered, RecvHolds
  <2> QED BY <1>0, <1>4, <2>1, QuietFrame DEF RecvDrop, RecvPut, RecvLock, vars
<1>5. ASSUME RecvSignal PROVE Quiet
  <2>1. Hands' = Hands
    BY <1>0, <1>5 DEF RecvSignal, Hands, TypeOK
  <2>2. LastOffered' = LastOffered
    BY <1>5 DEF RecvSignal, LastOffered, RecvHolds
  <2> QED BY <1>0, <1>5, <2>1, <2>2, QuietFrame DEF RecvSignal
<1>6. ASSUME NEW w \in Workers, WorkerLock(w) \/ WorkerTest(w) PROVE Quiet
  <2>1. Hands' = Hands
    BY <1>0, <1>6 DEF WorkerLock, WorkerTest, Hands, TypeOK
  <2>2. LastOffered' = LastOffered
    BY <1>6 DEF WorkerLock, WorkerTest, LastOffered, RecvHolds
  <2> QED BY <1>0, <1>6, <2>1, <2>2, QuietFrame DEF WorkerLock, WorkerTest
<1>7. ASSUME NEW w \in Workers, WorkerPut(w) PROVE Quiet
  <2>1. Hands' = Hands /\ w \notin Hands /\ w \in Busy
    BY <1>0, <1>7 DEF WorkerPut, Hands, Busy, TypeOK
  <2>2. LastOffered' = LastOffered
    BY <1>7 DEF WorkerPut, LastOffered, RecvHolds
  <2>3. wbuf[w] \in Bufs /\ \A i \in Live : ring[i] # wbuf[w]
    BY <1>0, <2>1 DEF BufferOwnership
  <2>4. \A v \in Hands : wbuf[v] # wbuf[w] /\ wbuf'[v] = wbuf[v]
    BY <1>0, <1>7, <1>a, <2>1 DEF BufferOwnership, WorkerPut, TypeOK
  <2>5. /\ \A i \in Live : data'[ring'[i]] = data[ring[i]]
        /\ \A v \in Hands : data'[wbuf'[v]] = data[wbuf[v]]
    BY <1>0, <1>7, <2>3, <2>4, OtherBuffer DEF WorkerPut
  <2> QED BY <1>0, <1>7, <2>1, <2>2, <2>5, QuietFrame DEF WorkerPut
<1>8. ASSUME RecvCopy PROVE Quiet
  <2>1. Hands' = Hands
    BY <1>8 DEF RecvCopy, Hands
  <2>2. LastOffered' = LastOffered
    BY <1>0, <1>8 DEF RecvCopy, LastOffered, RecvHolds, TypeOK
  <2>3. PICK d \in Datagrams : data' = [data EXCEPT ![rbuf] = [id |-> nrecv + 1, msg |-> d]]
    BY <1>8 DEF RecvCopy
  <2>4. rbuf \in Bufs /\ (\A i \in Live : ring[i] # rbuf) /\ \A w \in Hands : wbuf[w] # rbuf
    BY <1>0, <1>8, <1>a DEF BufferOwnership, RecvOwns, RecvCopy
  <2>5. /\ \A i \in Live : data'[ring'[i]] = data[ring[i]]
        /\ \A w \in Hands : data'[wbuf'[w]] = data[wbuf[w]]
    BY <1>0, <1>8, <2>3, <2>4, OtherBuffer DEF RecvCopy
  <2> QED BY <1>0, <1>8, <2>1, <2>2, <2>5, QuietFrame DEF RecvCopy
<1>9. ASSUME RecvCheck PROVE Quiet \/ Drops
  <2>1. Hands' = Hands /\ RecvHolds /\ UNCHANGED <<head, tail, ring, data, wbuf, nrecv, crashed>>
    BY <1>9 DEF RecvCheck, Hands, RecvHolds
  <2>2. CASE Succ(head) # tail
    <3>1. LastOffered' = LastOffered /\ outcome' = outcome
      BY <1>9, <2>2 DEF RecvCheck, RecvHolds, LastOffered
    <3> QED BY <1>0, <2>1, <3>1, QuietFrame
  <2>3. CASE Succ(head) = tail
    <3>1. ~RecvHolds' /\ outcome' = [outcome EXCEPT ![nrecv] = "dropped"]
      BY <1>9, <2>3 DEF RecvCheck, RecvHolds
    <3>2. LastOffered' = LastOffered + 1 /\ LastOffered + 1 = nrecv
      BY <1>0, <2>1, <3>1 DEF LastOffered, TypeOK
    <3>3. SameQueue /\ SameHands
      BY <1>0, <2>1, SameSlots DEF SameHands
    <3>4. QueueLen = RingSize - 1
      BY <1>0, <2>3, SlotFacts
    <3>5. Drops
      BY <2>1, <3>1, <3>2, <3>3, <3>4 DEF Drops
    <3> QED BY <3>5
  <2> QED BY <2>2, <2>3
<1>10. ASSUME RecvStore PROVE Stores
  <2>1. UNCHANGED <<data, wbuf, wpc, nrecv, outcome, crashed>> /\ RecvHolds /\ ~RecvHolds'
        /\ head' = Succ(head) /\ tail' = tail /\ Succ(head) # tail
        /\ ring' = [ring EXCEPT ![head] = rbuf]
    BY <1>0, <1>10 DEF RecvStore, RecvHolds, RingMutex
  <2>2. /\ QueueLen' = QueueLen + 1 /\ Slot(QueueLen) = head
        /\ \A k \in 1..(QueueLen + 1) : Slot(k - 1)' = Slot(k - 1)
    BY <1>0, <2>1, SlotsAfterStore
  <2>3. QueueLen \in Nat /\ QueueLen < RingSize - 1 /\ \A k \in 1..QueueLen : Slot(k - 1) \in Live
    BY <1>0, <2>1, SlotFacts, RingAssumption
  <2>4. head \notin Live
    BY <1>0, <2>1, LiveAfterStore DEF TypeOK
  <2>5. ASSUME NEW k \in 1..QueueLen PROVE IdAt(k)' = IdAt(k)
    <3>1. Slot(k - 1)' = Slot(k - 1) /\ Slot(k - 1) \in Live /\ Slot(k - 1) # head
      BY <2>2, <2>3, <2>4
    <3>2. ring'[Slot(k - 1)] = ring[Slot(k - 1)]
      BY <1>0, <2>1, <3>1 DEF TypeOK, Live
    <3> QED BY <2>1, <3>1, <3>2 DEF IdAt
  <2>6. IdAt(QueueLen)' = nrecv
    <3>1. Slot(QueueLen - 1)' = head
      BY <2>1, <2>2, <2>3 DEF Slot
    <3>2. ring'[head] = rbuf /\ data[rbuf].id = nrecv
      BY <1>0, <2>1 DEF TypeOK, Distinct
    <3> QED BY <2>1, <3>1, <3>2 DEF IdAt
  <2>7. LastOffered' = LastOffered + 1 /\ LastOffered + 1 = nrecv
    BY <1>0, <2>1 DEF LastOffered, TypeOK
  <2>8. SameHands
    BY <2>1 DEF SameHands, Hands
  <2> QED BY <2>1, <2>2, <2>3, <2>5, <2>6, <2>7, <2>8 DEF Stores
<1>11. ASSUME NEW w \in Workers, WorkerTake(w) PROVE Takes(w)
  <2>1. UNCHANGED <<ring, data, rpc, nrecv, outcome, crashed>>
        /\ tail' = Succ(tail) /\ head' = head /\ head # tail
        /\ wbuf' = [wbuf EXCEPT ![w] = ring[tail]]
    BY <1>0, <1>11 DEF WorkerTake, RingMutex
  <2>2. /\ QueueLen' = QueueLen - 1 /\ QueueLen > 0 /\ Slot(0) = tail
        /\ \A k \in 1..(QueueLen - 1) : Slot(k - 1)' = Slot(k)
    BY <1>0, <2>1, SlotsAfterTake
  <2>3. \A k \in 1..(QueueLen - 1) : IdAt(k)' = IdAt(k + 1)
    <3>1. ASSUME NEW k \in 1..(QueueLen - 1) PROVE IdAt(k)' = IdAt(k + 1)
      <4>1. k + 1 - 1 = k
        OBVIOUS
      <4>2. Slot(k - 1)' = Slot(k + 1 - 1)
        BY <2>2, <4>1
      <4> QED BY <2>1, <4>2 DEF IdAt
    <3> QED BY <3>1
  <2>4. w \notin Hands /\ Hands' = Hands \cup {w}
    BY <1>0, <1>11 DEF WorkerTake, TypeOK, Hands
  <2>5. wbuf'[w] = ring[tail] /\ \A v \in Hands : wbuf'[v] = wbuf[v]
    BY <1>0, <1>a, <2>1, <2>4 DEF TypeOK
  <2>6. data'[wbuf'[w]].id = IdAt(1)
    BY <2>1, <2>2, <2>5 DEF IdAt
  <2>7. LastOffered' = LastOffered
    BY <2>1 DEF LastOffered, RecvHolds
  <2> QED BY <2>1, <2>2, <2>3, <2>4, <2>5, <2>6, <2>7 DEF Takes
<1>12. ASSUME NEW w \in Workers, NEW r, w \in Hands,
              wpc' = [wpc EXCEPT ![w] = "put"],
              outcome' = [outcome EXCEPT ![Datagram(w).id] = r],
              UNCHANGED <<ring, head, tail, data, rpc, wbuf, nrecv, crashed>>
       PROVE  Ends(w, r)
  <2>1. SameQueue
    BY <1>0, <1>12, SameSlots
  <2>2. Hands' = Hands \ {w}
    BY <1>0, <1>12 DEF TypeOK, Hands
  <2>3. LastOffered' = LastOffered
    BY <1>12 DEF LastOffered, RecvHolds
  <2> QED BY <1>12, <2>1, <2>2, <2>3 DEF Ends, Datagram
<1>13. ASSUME NEW w \in Workers, processMessage(w) PROVE Quiet \/ Ends(w, "error")
  <2>1. w \in Hands
    BY <1>13 DEF processMessage, Hands
  <2>2. CASE WellFormed(Datagram(w).msg)
    <3>1. Hands' = Hands /\ UNCHANGED <<head, tail, ring, data, wbuf, outcome, crashed>>
      BY <1>0, <1>13, <2>2 DEF processMessage, Hands, TypeOK
    <3>2. LastOffered' = LastOffered
      BY <1>13 DEF processMessage, LastOffered, RecvHolds
    <3> QED BY <1>0, <3>1, <3>2, QuietFrame
  <2>3. CASE ~WellFormed(Datagram(w).msg)
    BY <1>12, <1>13, <2>1, <2>3 DEF processMessage
  <2> QED BY <2>2, <2>3
<1>14. ASSUME NEW w \in Workers, RouteMemoryAccess(w)
       PROVE  Panics(w) \/ \E r \in Finished : Ends(w, r)
  <2>1. w \in Hands
    BY <1>14 DEF RouteMemoryAccess, Hands
  <2>2. PICK r \in accessViaXBus(Datagram(w).msg) \cup accessViaRemote(Datagram(w).msg) :
           IF r = "panic"
             THEN crashed' = TRUE /\ UNCHANGED <<wpc, outcome>>
             ELSE /\ outcome' = [outcome EXCEPT ![Datagram(w).id] = r]
                  /\ wpc' = [wpc EXCEPT ![w] = "put"]
                  /\ UNCHANGED crashed
    BY <1>14 DEF RouteMemoryAccess
  <2>3. UNCHANGED <<ring, head, tail, data, rpc, wbuf, nrecv>>
    BY <1>14 DEF RouteMemoryAccess
  <2>4. CASE r = "panic"
    <3>1. SameQueue /\ SameHands
      BY <1>0, <2>2, <2>3, <2>4, SameSlots DEF SameHands, Hands
    <3>2. LastOffered' = LastOffered
      BY <2>3 DEF LastOffered, RecvHolds
    <3> QED BY <2>1, <2>2, <2>4, <3>1, <3>2 DEF Panics
  <2>5. CASE r # "panic"
    <3>1. r \in Finished
      BY <2>5, AccessResults DEF Finished
    <3> QED BY <1>12, <2>1, <2>2, <2>3, <2>5, <3>1
  <2> QED BY <2>4, <2>5
<1>15. "error" \in Finished
  BY DEF Finished
<1>16. CASE ~Next
  BY <1>4, <1>16
<1>17. CASE Next
  <2>1. ~crashed
    BY <1>17 DEF Next
  <2> QED BY <1>1, <1>2, <1>3, <1>4, <1>5, <1>6, <1>7, <1>8, <1>9, <1>10, <1>11, <1>13, <1>14,
             <1>15, <1>17, <2>1 DEF Next, RecvStep, WorkerStep
<1> QED BY <1>16, <1>17
LEMMA IdFacts ==
  ASSUME IInv, LInv
  PROVE  /\ QueueLen \in Nat /\ nrecv \in Nat /\ nrecv <= MaxMsgs
         /\ \A k \in 1..QueueLen : IdAt(k) \in 1..nrecv /\ (RecvHolds => IdAt(k) # nrecv)
         /\ \A w \in Hands : data[wbuf[w]].id \in 1..nrecv /\ (RecvHolds => data[wbuf[w]].id # nrecv)
         /\ \A m \in Ids : m > nrecv => outcome[m] = "pending"
         /\ RecvHolds => nrecv \in Ids /\ outcome[nrecv] = "pending"
         /\ \A w \in Hands : outcome[data[wbuf[w]].id] = "pending"
<1>1. TypeOK /\ Distinct /\ Ahead /\ NothingLost
  BY DEF IInv, LInv
<1>2. QueueLen \in Nat /\ nrecv \in Nat /\ nrecv <= MaxMsgs
  BY <1>1, QueueLenFacts, SizeAssumption DEF TypeOK
<1>3. \A k \in 1..QueueLen : IdAt(k) \in 1..nrecv /\ (RecvHolds => IdAt(k) # nrecv)
  BY <1>1, SlotFacts DEF IdAt, Distinct, Holds
<1>4. \A w \in Hands : data[wbuf[w]].id \in 1..nrecv /\ (RecvHolds => data[wbuf[w]].id # nrecv)
  BY <1>1 DEF Distinct, Holds
<1>5. RecvHolds => nrecv \in 1..nrecv
  BY <1>1 DEF Distinct, Holds
<1>6. RecvHolds => nrecv \in Ids /\ outcome[nrecv] = "pending"
  BY <1>1, <1>2, <1>5, SizeAssumption DEF NothingLost, Located, Ids
<1>7. \A w \in Hands : outcome[data[wbuf[w]].id] = "pending"
  BY <1>1, <1>4 DEF NothingLost, Located, Datagram
<1> QED BY <1>1, <1>2, <1>3, <1>4, <1>6, <1>7 DEF Ahead

LEMMA StepOInv == IInv /\ LInv /\ OInv /\ [Next]_vars => OInv'
<1> SUFFICES ASSUME IInv, LInv, OInv, [Next]_vars PROVE OInv'
  OBVIOUS
<1>0. /\ QueueLen \in Nat /\ nrecv \in Nat /\ nrecv <= MaxMsgs
      /\ \A k \in 1..QueueLen : IdAt(k) \in 1..nrecv /\ (RecvHolds => IdAt(k) # nrecv)
      /\ \A w \in Hands : data[wbuf[w]].id \in 1..nrecv /\ (RecvHolds => data[wbuf[w]].id # nrecv)
      /\ \A m \in Ids : m > nrecv => outcome[m] = "pending"
      /\ RecvHolds => nrecv \in Ids /\ outcome[nrecv] = "pending"
  BY IdFacts
<1>1. outcome \in [Ids -> Outcomes]
  BY DEF IInv, TypeOK
<1>2. ASSUME SameQueue, SameHands, \A m \in Ids : outcome'[m] \in Finished => outcome[m] \in Finished
      PROVE  OInv'
  BY <1>0, <1>2 DEF OInv, SameQueue, SameHands
<1>3. CASE Quiet
  BY <1>2, <1>3 DEF Quiet
<1>4. CASE Drops
  <2>1. \A m \in Ids : outcome'[m] \in Finished => outcome[m] \in Finished
    BY <1>1, <1>4 DEF Drops, Finished
  <2> QED BY <1>2, <1>4, <2>1 DEF Drops
<1>5. CASE Stores
  <2>1. /\ QueueLen' = QueueLen + 1 /\ RecvHolds /\ outcome' = outcome
        /\ \A k \in 1..QueueLen : IdAt(k)' = IdAt(k)
        /\ \A k \in 1..QueueLen' : k = QueueLen + 1 => IdAt(k)' = nrecv
        /\ Hands' = Hands /\ \A w \in Hands : data'[wbuf'[w]].id = data[wbuf[w]].id
    BY <1>0, <1>5 DEF Stores, SameHands, IdAt, Slot
  <2>2. \A k \in 1..QueueLen' : k \in 1..QueueLen \/ k = QueueLen + 1
    BY <1>0, <2>1
  <2>3. \A k, l \in 1..QueueLen' : k < l => IdAt(k)' < IdAt(l)'
    BY <1>0, <2>1, <2>2 DEF OInv
  <2>4. \A k \in 1..QueueLen' : \A w \in Hands' : data'[wbuf'[w]].id < IdAt(k)'
    BY <1>0, <2>1, <2>2 DEF OInv
  <2>5. ASSUME NEW k \in 1..QueueLen', NEW m \in Ids, outcome'[m] \in Finished PROVE m < IdAt(k)'
    <3>1. m \in Nat /\ m <= nrecv /\ m # nrecv
      BY <1>0, <2>1, <2>5, SizeAssumption DEF Finished, Ids
    <3> QED BY <1>0, <2>1, <2>2, <2>5, <3>1 DEF OInv
  <2> QED BY <2>3, <2>4, <2>5 DEF OInv
<1>6. ASSUME NEW w \in Workers, Takes(w) PROVE OInv'
  <2>1. /\ QueueLen' = QueueLen - 1 /\ QueueLen > 0 /\ outcome' = outcome
        /\ \A k \in 1..(QueueLen - 1) : IdAt(k)' = IdAt(k + 1)
        /\ w \notin Hands /\ Hands' = Hands \cup {w}
        /\ data'[wbuf'[w]].id = IdAt(1)
        /\ \A v \in Hands : data'[wbuf'[v]].id = data[wbuf[v]].id
    BY <1>6 DEF Takes
  <2>2. \A k \in 1..QueueLen' : k + 1 \in 1..QueueLen /\ 1 < k + 1 /\ IdAt(k)' = IdAt(k + 1)
    BY <1>0, <2>1
  <2>3. 1 \in 1..QueueLen
    BY <1>0, <2>1
  <2>4. \A k, l \in 1..QueueLen' : k < l => IdAt(k)' < IdAt(l)'
    <3>1. \A k, l \in 1..QueueLen' : k < l => k + 1 < l + 1
      BY <1>0, <2>1
    <3> QED BY <2>2, <3>1 DEF OInv
  <2>5. \A k \in 1..QueueLen' : \A v \in Hands' : data'[wbuf'[v]].id < IdAt(k)'
    BY <2>1, <2>2, <2>3 DEF OInv
  <2>6. \A k \in 1..QueueLen' : \A m \in Ids : outcome'[m] \in Finished => m < IdAt(k)'
    BY <2>1, <2>2 DEF OInv
  <2> QED BY <2>4, <2>5, <2>6 DEF OInv
<1>7. ASSUME NEW w \in Workers, NEW r \in Finished, Ends(w, r) PROVE OInv'
  <2>1. /\ SameQueue /\ w \in Hands /\ Hands' = Hands \ {w}
        /\ \A v \in Hands : data'[wbuf'[v]].id = data[wbuf[v]].id
        /\ outcome' = [outcome EXCEPT ![data[wbuf[w]].id] = r]
    BY <1>7 DEF Ends
  <2>2. \A m \in Ids : m # data[wbuf[w]].id => outcome'[m] = outcome[m]
    BY <1>1, <2>1
  <2>3. \A k \in 1..QueueLen : \A m \in Ids : outcome'[m] \in Finished => m < IdAt(k)
    BY <2>1, <2>2 DEF OInv
  <2> QED BY <1>0, <2>1, <2>3 DEF OInv, SameQueue
<1>8. ASSUME NEW w \in Workers, Panics(w) PROVE OInv'
  BY <1>2, <1>8 DEF Panics
<1> QED BY <1>3, <1>4, <1>5, <1>6, <1>7, <1>8, StepKinds

LEMMA InductiveOInv == Spec => [](IInv /\ LInv /\ OInv)
<1>1. Init => OInv
  <2> SUFFICES ASSUME Init PROVE OInv
    OBVIOUS
  <2>1. QueueLen = 0 /\ 1..QueueLen = {}
    BY DEF Init, QueueLen
  <2> QED BY <2>1 DEF OInv
<1> QED BY <1>1, StepOInv, InductiveLInv, PTL DEF Spec

(* A datagram overtaken by a newer one is in some worker's hands: the ring *)
(* gives datagrams out in the order of reception, for any number of        *)
(* workers.                                                                *)
THEOREM OvertakenCorrect == Spec => []OvertakenIsInHand
<1>1. IInv /\ LInv /\ OInv => OvertakenIsInHand
  <2> SUFFICES ASSUME IInv, LInv, OInv, NEW m \in Ids, NEW j \in 1..m - 1,
                      outcome[m] \in {"error", "applied", "forwarded"}, outcome[j] = "pending"
               PROVE  \E w \in Hands : Datagram(w).id = j
    BY DEF OvertakenIsInHand
  <2>1. nrecv \in Nat /\ \A k \in Ids : k > nrecv => outcome[k] = "pending"
    BY IdFacts
  <2>2. m <= nrecv /\ m \in Nat /\ j \in Nat /\ j < m /\ j \in 1..nrecv
    BY <2>1, SizeAssumption DEF Ids
  <2>3. Located(j)
    BY <2>2 DEF LInv, NothingLost
  <2>4. ~(RecvHolds /\ j = nrecv)
    BY <2>1, <2>2
  <2>5. ASSUME NEW i \in Live, data[ring[i]].id = j PROVE FALSE
    <3>1. PICK k \in 1..QueueLen : i = Slot(k - 1)
      BY SlotFacts DEF IInv
    <3>2. IdAt(k) = j
      BY <2>5, <3>1 DEF IdAt
    <3>3. m < IdAt(k)
      BY DEF OInv, Finished
    <3> QED BY <2>2, <3>2, <3>3
  <2> QED BY <2>3, <2>4, <2>5 DEF Located
<1> QED BY <1>1, InductiveOInv, PTL
-----------------------------------------------------------------------------
(* The refinement of DataQueue *)

LEMMA HandFacts ==
  ASSUME IInv, LInv
  PROVE  /\ IdsInHand = [w \in Workers |-> IF w \in Hands THEN data[wbuf[w]].id ELSE 0]
         /\ \A w \in Workers : IdsInHand[w] # 0 <=> w \in Hands
         /\ \A w \in Hands : w \in Workers /\ IdsInHand[w] = data[wbuf[w]].id
<1>1. IdsInHand = [w \in Workers |-> IF w \in Hands THEN data[wbuf[w]].id ELSE 0]
  BY DEF IdsInHand, Datagram, NoMsg
<1>2. \A w \in Hands : w \in Workers /\ data[wbuf[w]].id \in 1..nrecv
  BY IdFacts DEF Hands
<1>3. nrecv \in Nat
  BY IdFacts
<1> QED BY <1>1, <1>2, <1>3

LEMMA SameHandsFacts == ASSUME SameHands PROVE IdsInHand' = IdsInHand
  BY DEF SameHands, IdsInHand, Datagram

LEMMA MapIsSeq ==
  ASSUME NEW n \in Nat, NEW f \in [1..n -> Nat] PROVE f \in Seq(Nat) /\ Len(f) = n
  OBVIOUS

LEMMA QueueIsSeq ==
  ASSUME IInv, LInv
  PROVE  QueuedIds \in Seq(Nat) /\ Len(QueuedIds) = QueueLen
<1>1. QueueLen \in Nat /\ nrecv \in Nat /\ \A k \in 1..QueueLen : IdAt(k) \in 1..nrecv
  BY IdFacts
<1>2. \A k \in 1..QueueLen : IdAt(k) \in Nat
  BY <1>1
<1>3. QueuedIds \in [1..QueueLen -> Nat]
  BY <1>2 DEF QueuedIds
<1> QED BY <1>1, <1>3, MapIsSeq

LEMMA SameQueueFacts == ASSUME SameQueue PROVE QueuedIds' = QueuedIds
  BY DEF SameQueue, QueuedIds

LEMMA StoresFacts == ASSUME IInv, LInv, Stores PROVE QueuedIds' = Append(QueuedIds, nrecv)
<1>1. /\ QueueLen \in Nat /\ nrecv \in Nat /\ \A k \in 1..QueueLen : IdAt(k) \in 1..nrecv
      /\ QueuedIds \in Seq(Nat) /\ Len(QueuedIds) = QueueLen
  BY IdFacts, QueueIsSeq
<1>2. /\ QueueLen' = QueueLen + 1
      /\ \A k \in 1..QueueLen : IdAt(k)' = IdAt(k)
      /\ \A k \in 1..QueueLen' : k = QueueLen + 1 => IdAt(k)' = nrecv
  BY <1>1 DEF Stores, IdAt, Slot
<1>3. \A k \in 1..QueueLen' : k \in 1..QueueLen \/ k = QueueLen + 1
  BY <1>1, <1>2
<1>4. QueuedIds' = [k \in 1..QueueLen' |-> IdAt(k)'] /\ \A k \in 1..QueueLen' : IdAt(k)' \in Nat
  BY <1>1, <1>2, <1>3 DEF QueuedIds
<1>5. QueuedIds' \in Seq(Nat) /\ Len(QueuedIds') = QueueLen'
  <2>1. QueueLen' \in Nat /\ QueuedIds' \in [1..QueueLen' -> Nat]
    BY <1>1, <1>2, <1>4
  <2> QED BY <2>1, MapIsSeq
<1> DEFINE a == Append(QueuedIds, nrecv)
<1>6. a \in Seq(Nat) /\ Len(a) = QueueLen + 1 /\ a[QueueLen + 1] = nrecv
      /\ \A k \in 1..QueueLen : a[k] = QueuedIds[k]
  BY <1>1
<1>7. \A k \in 1..QueueLen : QueuedIds[k] = IdAt(k)
  BY DEF QueuedIds
<1> HIDE DEF a
<1>8. \A k \in 1..QueueLen' : QueuedIds'[k] = a[k]
  BY <1>2, <1>3, <1>4, <1>6, <1>7
<1>9. QueuedIds' = a
  BY <1>2, <1>5, <1>6, <1>8
<1> QED BY <1>9 DEF a

LEMMA TakesFacts ==
  ASSUME IInv, LInv, NEW w \in Workers, Takes(w)
  PROVE  /\ QueuedIds # <<>> /\ QueuedIds' = Tail(QueuedIds)
         /\ IdsInHand' = [IdsInHand EXCEPT ![w] = Head(QueuedIds)]
<1>1. /\ QueueLen \in Nat /\ nrecv \in Nat /\ \A k \in 1..QueueLen : IdAt(k) \in 1..nrecv
      /\ QueuedIds \in Seq(Nat) /\ Len(QueuedIds) = QueueLen
  BY IdFacts, QueueIsSeq
<1>2. /\ QueueLen' = QueueLen - 1 /\ QueueLen > 0
      /\ \A k \in 1..(QueueLen - 1) : IdAt(k)' = IdAt(k + 1)
      /\ w \notin Hands /\ Hands' = Hands \cup {w} /\ data'[wbuf'[w]].id = IdAt(1)
      /\ \A v \in Hands : data'[wbuf'[v]].id = data[wbuf[v]].id
  BY DEF Takes
<1>3. \A k \in 1..QueueLen' : k + 1 \in 1..QueueLen /\ IdAt(k)' = IdAt(k + 1)
  BY <1>1, <1>2
<1>4. QueuedIds' = [k \in 1..QueueLen' |-> IdAt(k)'] /\ \A k \in 1..QueueLen' : IdAt(k)' \in Nat
  BY <1>1, <1>3 DEF QueuedIds
<1>5. QueuedIds' \in Seq(Nat) /\ Len(QueuedIds') = QueueLen'
  <2>1. QueueLen' \in Nat /\ QueuedIds' \in [1..QueueLen' -> Nat]
    BY <1>1, <1>2, <1>4
  <2> QED BY <2>1, MapIsSeq
<1>6. QueuedIds # <<>> /\ Head(QueuedIds) = QueuedIds[1]
  BY <1>1, <1>2
<1> DEFINE a == Tail(QueuedIds)
<1>7. a \in Seq(Nat) /\ Len(a) = QueueLen - 1 /\ \A k \in 1..(QueueLen - 1) : a[k] = QueuedIds[k + 1]
  BY <1>1, <1>6
<1>8. \A k \in 1..QueueLen : QueuedIds[k] = IdAt(k)
  BY DEF QueuedIds
<1> HIDE DEF a
<1>9. \A k \in 1..QueueLen' : QueuedIds'[k] = a[k]
  BY <1>2, <1>3, <1>4, <1>7, <1>8
<1>10. QueuedIds' = a
  BY <1>2, <1>5, <1>7, <1>9
<1>11. Head(QueuedIds) = IdAt(1)
  <2>1. 1 \in 1..QueueLen
    BY <1>1, <1>2
  <2> QED BY <1>6, <1>8, <2>1
<1>12. IdsInHand' = [IdsInHand EXCEPT ![w] = Head(QueuedIds)]
  BY <1>2, <1>11 DEF IdsInHand, Datagram
<1> QED BY <1>6, <1>10, <1>12 DEF a

(* Each kind of step is a step of the abstract queue. *)
LEMMA StepImplements ==
  ASSUME IInv, LInv, [Next]_vars
  PROVE  [DQ!QueueNext]_(DQ!queueVars)
<1>0. /\ QueuedIds \in Seq(Nat) /\ Len(QueuedIds) = QueueLen
      /\ \A w \in Hands : w \in Workers /\ IdsInHand[w] = data[wbuf[w]].id
      /\ \A w \in Workers : IdsInHand[w] # 0 <=> w \in Hands
      /\ \A w \in Hands : outcome[data[wbuf[w]].id] = "pending"
      /\ RecvHolds => outcome[nrecv] = "pending"
  BY QueueIsSeq, HandFacts, IdFacts
<1>1. CASE Quiet
  BY <1>1, SameQueueFacts, SameHandsFacts DEF Quiet, DQ!queueVars
<1>2. ASSUME Drops PROVE DQ!Refuse
  <2>1. /\ QueuedIds' = QueuedIds /\ IdsInHand' = IdsInHand
        /\ Len(QueuedIds) = RingSize - 1 /\ LastOffered' = LastOffered + 1
        /\ outcome' = [outcome EXCEPT ![LastOffered + 1] = "dropped"] /\ crashed' = crashed
        /\ outcome[LastOffered + 1] = "pending"
    BY <1>0, <1>2, SameQueueFacts, SameHandsFacts DEF Drops
  <2> QED BY <2>1 DEF DQ!Refuse
<1>3. ASSUME Stores PROVE DQ!Accept
  <2>1. /\ QueuedIds' = Append(QueuedIds, LastOffered + 1) /\ IdsInHand' = IdsInHand
        /\ Len(QueuedIds) < RingSize - 1 /\ LastOffered' = LastOffered + 1
        /\ outcome' = outcome /\ crashed' = crashed
    BY <1>0, <1>3, StoresFacts, SameHandsFacts DEF Stores
  <2> QED BY <2>1 DEF DQ!Accept
<1>4. ASSUME NEW w \in Workers, Takes(w) PROVE DQ!Take(w)
  <2>1. /\ QueuedIds # <<>> /\ QueuedIds' = Tail(QueuedIds)
        /\ IdsInHand' = [IdsInHand EXCEPT ![w] = Head(QueuedIds)]
    BY <1>4, TakesFacts
  <2>2. IdsInHand[w] = NoMsg /\ LastOffered' = LastOffered /\ UNCHANGED <<outcome, crashed>>
    BY <1>0, <1>4 DEF Takes, NoMsg
  <2> QED BY <2>1, <2>2 DEF DQ!Take
<1>5. ASSUME NEW w \in Workers, NEW r \in Finished, Ends(w, r) PROVE DQ!Finish(w)
  <2>1. /\ QueuedIds' = QueuedIds /\ LastOffered' = LastOffered /\ crashed' = crashed
        /\ IdsInHand[w] # NoMsg /\ outcome[IdsInHand[w]] = "pending"
        /\ outcome' = [outcome EXCEPT ![IdsInHand[w]] = r]
    BY <1>0, <1>5, SameQueueFacts DEF Ends, NoMsg
  <2>2. IdsInHand' = [IdsInHand EXCEPT ![w] = NoMsg]
    BY <1>5 DEF Ends, IdsInHand, Datagram
  <2>3. r \in DQ!FinalOutcomes \ {"dropped"}
    BY DEF DQ!FinalOutcomes, Finished
  <2> QED BY <2>1, <2>2, <2>3 DEF DQ!Finish
<1>6. ASSUME NEW w \in Workers, Panics(w) PROVE DQ!Panic(w)
  <2>1. IdsInHand[w] # NoMsg /\ QueuedIds' = QueuedIds /\ IdsInHand' = IdsInHand
        /\ LastOffered' = LastOffered /\ outcome' = outcome /\ crashed' = TRUE
    BY <1>0, <1>6, SameQueueFacts, SameHandsFacts DEF Panics, NoMsg
  <2> QED BY <2>1 DEF DQ!Panic
<1> QED BY <1>1, <1>2, <1>3, <1>4, <1>5, <1>6, StepKinds DEF DQ!QueueNext

(* StartZMQReceiver, its ring, mutex, pool and workers implement a bounded *)
(* FIFO queue that drops a datagram exactly when it is full, for any       *)
(* number of workers and any size of the ring.                             *)
THEOREM RefinementCorrect == Spec => ImplementsQueue
<1>1. Init => DQ!QueueInit
  <2> SUFFICES ASSUME Init PROVE DQ!QueueInit
    OBVIOUS
  <2>1. QueueLen = 0 /\ 1..QueueLen = {} /\ Hands = {} /\ ~RecvHolds
    BY DEF Init, QueueLen, Hands, RecvHolds
  <2>2. QueuedIds = <<>>
    BY <2>1 DEF QueuedIds
  <2>3. IdsInHand = [w \in Workers |-> NoMsg] /\ LastOffered = 0
    BY <2>1 DEF IdsInHand, LastOffered, Init
  <2> QED BY <2>2, <2>3 DEF Init, DQ!QueueInit, Ids
<1>2. IInv /\ LInv /\ [Next]_vars => [DQ!QueueNext]_(DQ!queueVars)
  BY StepImplements
<1> QED BY <1>1, <1>2, InductiveLInv, PTL DEF Spec, ImplementsQueue, DQ!QueueSpec
==============================================================================
