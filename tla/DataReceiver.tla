---------------------------- MODULE DataReceiver ----------------------------
(***************************************************************************)
(* The UDP data plane of the Go server: CapnpServer.StartZMQReceiver       *)
(* (cmd/capnpserver/main.go), its receive loop, its ring buffer with a     *)
(* mutex and a condition variable, its worker goroutines, processMessage,  *)
(* the pool of message buffers they share, and the memory access that      *)
(* pkg/numa/routing.go performs for every datagram.                        *)
(*                                                                         *)
(* A program counter names the next step of every goroutine.  A datagram   *)
(* is its length and the two header fields the code branches on; a number  *)
(* in order of reception tells datagrams apart.  A buffer is an identity:  *)
(* two owners of one identity write and read the same bytes.               *)
(***************************************************************************)
EXTENDS Naturals, FiniteSets

CONSTANTS Workers,      \* worker goroutines (4 in the code)
          RingSize,     \* slots of the ring (1024 in the code)
          Bufs,         \* identities of message buffers
          HeaderSize,   \* bytes of the header (32 in the code)
          BufCap,       \* bytes of a pooled buffer (4096 in the code)
          Datagrams,    \* the datagrams peers may send: [len, op, size]
          MaxMsgs,      \* bound: datagrams received
          NoBuf,        \* an empty slot, an empty hand
          NoOne,        \* no goroutine holds ringMutex
          Receiver      \* the goroutine of the receive loop

Ops == {"memcpy", "memset", "other"}

ASSUME WorkersAssumption == IsFiniteSet(Workers) /\ Workers # {}
ASSUME RingAssumption    == RingSize \in Nat /\ RingSize > 1
ASSUME SizeAssumption    == HeaderSize \in Nat /\ BufCap \in Nat /\ MaxMsgs \in Nat
ASSUME DatagramsAssumption == Datagrams \subseteq [len: Nat, op: Ops, size: Nat]
ASSUME NamesAssumption   == NoBuf \notin Bufs /\ Receiver \notin Workers
                            /\ NoOne \notin Workers /\ NoOne # Receiver

VARIABLES ring,         \* ringBuffer: slot -> buffer
          head,         \* next slot the receive loop fills
          tail,         \* next slot a worker empties
          ringMutex,    \* holder of ringMutex
          pool,         \* msgPool: buffers put back and not yet reused
          data,         \* what each buffer contains: datagram and its number
          rpc,          \* next step of the receive loop
          rbuf,         \* buf of one turn of the receive loop
          wpc,          \* next step of each worker
          wbuf,         \* msg of one turn of each worker's loop
          nrecv,        \* datagrams copied into a buffer so far
          outcome,      \* end of each datagram: a memory access, a message, a logged error
          crashed       \* a goroutine has panicked: the process is gone

vars == <<ring, head, tail, ringMutex, pool, data, rpc, rbuf, wpc, wbuf,
          nrecv, outcome, crashed>>

Slots == 0..RingSize - 1
Ids   == 1..MaxMsgs
Outcomes == {"pending", "dropped", "error", "applied", "forwarded"}

Empty == [id |-> 0, msg |-> [len |-> 0, op |-> "other", size |-> 0]]

(* Faulty variant: the index is not wrapped. *)
Succ_NoWrap(i) == i + 1

(* (i + 1) % ringSize, the only arithmetic on ring indices *)
Succ(i) == (i + 1) % RingSize

(* Slots between tail and head: the ones that hold a queued datagram. *)
Live == { i \in Slots : IF tail <= head THEN tail <= i /\ i < head
                                        ELSE tail <= i \/ i < head }
QueueLen == IF tail <= head THEN head - tail ELSE (head + RingSize) - tail

Busy == { w \in Workers : wpc[w] \in {"parse", "route", "put"} }
RecvOwns == rpc \in {"recv", "lock", "check", "store", "put"}

(* Buffers some goroutine or the ring still refers to. *)
InUse == { ring[i] : i \in Live } \cup { wbuf[w] : w \in Busy }
         \cup (IF RecvOwns THEN {rbuf} ELSE {})

Init ==
  /\ ring = [i \in Slots |-> NoBuf]
  /\ head = 0 /\ tail = 0
  /\ ringMutex = NoOne
  /\ pool = {}
  /\ data = [b \in Bufs |-> Empty]
  /\ rpc = "setup" /\ rbuf = NoBuf
  /\ wpc = [w \in Workers |-> "off"]
  /\ wbuf = [w \in Workers |-> NoBuf]
  /\ nrecv = 0
  /\ outcome = [m \in Ids |-> "pending"]
  /\ crashed = FALSE

queueVars == <<ring, head, tail>>
workVars  == <<wpc, wbuf>>
recvVars  == <<rpc, rbuf>>
histVars  == <<nrecv, outcome, crashed>>

-----------------------------------------------------------------------------
(* The receive loop *)

(* Context, socket and endpoint; then the workers start, or, when one of   *)
(* the three fails, StartZMQReceiver returns and nothing ever receives.    *)
StartZMQReceiver ==
  /\ rpc = "setup"
  /\ \/ /\ rpc' = "get"
        /\ wpc' = [w \in Workers |-> "lock"]
     \/ /\ rpc' = "stopped"
        /\ UNCHANGED wpc
  /\ UNCHANGED <<queueVars, ringMutex, pool, data, rbuf, wbuf, histVars>>

(* msgPool.Get: a buffer that was put back, or a new one.  sync.Pool       *)
(* promises no more.  Every buffer has the capacity the pool's New gave it *)
(* because no code grows one; its contents are not read before they are    *)
(* overwritten.                                                            *)
PoolGet ==
  /\ rpc = "get"
  /\ \E b \in pool \cup (Bufs \ InUse) :
        /\ rbuf' = b
        /\ pool' = pool \ {b}
        /\ data' = [data EXCEPT ![b] = Empty]
  /\ rpc' = "recv"
  /\ UNCHANGED <<queueVars, ringMutex, workVars, histVars>>

(* sync.Pool may forget a buffer at any garbage collection; its identity   *)
(* then stands for a buffer not made yet.                                  *)
PoolForget ==
  /\ \E b \in pool : /\ pool' = pool \ {b}
                     /\ data' = [data EXCEPT ![b] = Empty]
  /\ UNCHANGED <<queueVars, ringMutex, recvVars, workVars, histVars>>

(* RecvBytes fails, or the datagram does not fit: the buffer goes back. *)
RecvDrop ==
  /\ rpc = "recv"
  /\ pool' = pool \cup {rbuf}
  /\ rpc' = "get" /\ rbuf' = NoBuf
  /\ UNCHANGED <<queueVars, ringMutex, data, workVars, histVars>>

(* A datagram that fits is copied into the buffer. *)
RecvCopy ==
  /\ rpc = "recv"
  /\ nrecv < MaxMsgs
  /\ \E d \in Datagrams :
        /\ d.len <= BufCap
        /\ data' = [data EXCEPT ![rbuf] = [id |-> nrecv + 1, msg |-> d]]
  /\ nrecv' = nrecv + 1
  /\ rpc' = "lock"
  /\ UNCHANGED <<queueVars, ringMutex, pool, rbuf, workVars, outcome, crashed>>

RecvLock ==
  /\ rpc = "lock"
  /\ ringMutex = NoOne
  /\ ringMutex' = Receiver
  /\ rpc' = "check"
  /\ UNCHANGED <<queueVars, pool, data, rbuf, workVars, histVars>>

(* Faulty variants: full one slot early; never full; Unlock forgotten on   *)
(* the way out.                                                            *)
RecvCheck_FullEarly ==
  /\ rpc = "check"
  /\ IF Succ(head) = tail \/ Succ(Succ(head)) = tail
       THEN /\ rpc' = "put"
            /\ ringMutex' = NoOne
            /\ outcome' = [outcome EXCEPT ![nrecv] = "dropped"]
       ELSE /\ rpc' = "store"
            /\ UNCHANGED <<ringMutex, outcome>>
  /\ UNCHANGED <<queueVars, pool, data, rbuf, workVars, nrecv, crashed>>

RecvCheck_NeverFull ==
  /\ rpc = "check"
  /\ rpc' = "store"
  /\ UNCHANGED <<queueVars, ringMutex, pool, data, rbuf, workVars, histVars>>

RecvCheck_NoUnlock ==
  /\ rpc = "check"
  /\ IF Succ(head) = tail
       THEN /\ rpc' = "put"
            /\ outcome' = [outcome EXCEPT ![nrecv] = "dropped"]
       ELSE /\ rpc' = "store"
            /\ UNCHANGED outcome
  /\ UNCHANGED <<queueVars, ringMutex, pool, data, rbuf, workVars, nrecv, crashed>>

(* Under the mutex: next == tail means full.  The datagram is dropped, the *)
(* mutex released, and the buffer put back afterwards.                     *)
RecvCheck ==
  /\ rpc = "check"
  /\ IF Succ(head) = tail
       THEN /\ rpc' = "put"
            /\ ringMutex' = NoOne
            /\ outcome' = [outcome EXCEPT ![nrecv] = "dropped"]
       ELSE /\ rpc' = "store"
            /\ UNCHANGED <<ringMutex, outcome>>
  /\ UNCHANGED <<queueVars, pool, data, rbuf, workVars, nrecv, crashed>>

RecvPut ==
  /\ rpc = "put"
  /\ pool' = pool \cup {rbuf}
  /\ rpc' = "get" /\ rbuf' = NoBuf
  /\ UNCHANGED <<queueVars, ringMutex, data, workVars, histVars>>

(* ringBuffer[head] = buf; head = next; Unlock *)
RecvStore ==
  /\ rpc = "store"
  /\ ring' = [ring EXCEPT ![head] = rbuf]
  /\ head' = Succ(head)
  /\ ringMutex' = NoOne
  /\ rpc' = "signal"
  /\ UNCHANGED <<tail, pool, data, rbuf, workVars, histVars>>

(* Faulty variants: the buffer is put back although the ring has it;       *)
(* Signal only when the ring was empty; no Signal.                         *)
RecvSignal_PutsBuffer ==
  /\ rpc = "signal"
  /\ \/ \E w \in Workers : wpc[w] = "wait" /\ wpc' = [wpc EXCEPT ![w] = "lock"]
     \/ (\A w \in Workers : wpc[w] # "wait") /\ UNCHANGED wpc
  /\ pool' = pool \cup {rbuf}
  /\ rpc' = "get" /\ rbuf' = NoBuf
  /\ UNCHANGED <<queueVars, ringMutex, data, wbuf, histVars>>

RecvSignal_OnlyFirst ==
  /\ rpc = "signal"
  /\ \/ /\ QueueLen = 1
        /\ \E w \in Workers : wpc[w] = "wait" /\ wpc' = [wpc EXCEPT ![w] = "lock"]
     \/ (QueueLen # 1 \/ \A w \in Workers : wpc[w] # "wait") /\ UNCHANGED wpc
  /\ rpc' = "get" /\ rbuf' = NoBuf
  /\ UNCHANGED <<queueVars, ringMutex, pool, data, wbuf, histVars>>

RecvSignal_Missing ==
  /\ rpc = "signal"
  /\ rpc' = "get" /\ rbuf' = NoBuf
  /\ UNCHANGED <<queueVars, ringMutex, pool, data, wpc, wbuf, histVars>>

(* ringCond.Signal, outside the mutex: wakes one waiting worker, if any. *)
RecvSignal ==
  /\ rpc = "signal"
  /\ \/ \E w \in Workers : wpc[w] = "wait" /\ wpc' = [wpc EXCEPT ![w] = "lock"]
     \/ (\A w \in Workers : wpc[w] # "wait") /\ UNCHANGED wpc
  /\ rpc' = "get" /\ rbuf' = NoBuf
  /\ UNCHANGED <<queueVars, ringMutex, pool, data, wbuf, histVars>>

-----------------------------------------------------------------------------
(* A worker *)

(* Faulty variant: the mutex is not taken. *)
WorkerLock_NoMutex(w) ==
  /\ wpc[w] = "lock"
  /\ ringMutex' = w
  /\ wpc' = [wpc EXCEPT ![w] = "test"]
  /\ UNCHANGED <<queueVars, pool, data, recvVars, wbuf, histVars>>

(* ringMutex.Lock at the top of the loop, and again when Wait returns. *)
WorkerLock(w) ==
  /\ wpc[w] = "lock"
  /\ ringMutex = NoOne
  /\ ringMutex' = w
  /\ wpc' = [wpc EXCEPT ![w] = "test"]
  /\ UNCHANGED <<queueVars, pool, data, recvVars, wbuf, histVars>>

(* for head == tail { ringCond.Wait() }: Wait joins the waiters before it  *)
(* releases the mutex, so no Signal falls between the two.                 *)
WorkerTest(w) ==
  /\ wpc[w] = "test"
  /\ IF head = tail
       THEN wpc' = [wpc EXCEPT ![w] = "wait"] /\ ringMutex' = NoOne
       ELSE wpc' = [wpc EXCEPT ![w] = "take"] /\ UNCHANGED ringMutex
  /\ UNCHANGED <<queueVars, pool, data, recvVars, wbuf, histVars>>

(* Faulty variant: the newest datagram is taken. *)
WorkerTake_Newest(w) ==
  /\ wpc[w] = "take"
  /\ \E i \in Slots : /\ Succ(i) = head
                      /\ wbuf' = [wbuf EXCEPT ![w] = ring[i]]
                      /\ head' = i
  /\ ringMutex' = NoOne
  /\ wpc' = [wpc EXCEPT ![w] = "parse"]
  /\ UNCHANGED <<ring, tail, pool, data, recvVars, histVars>>

(* msg = ringBuffer[tail]; tail = (tail + 1) % ringSize; Unlock *)
WorkerTake(w) ==
  /\ wpc[w] = "take"
  /\ wbuf' = [wbuf EXCEPT ![w] = ring[tail]]
  /\ tail' = Succ(tail)
  /\ ringMutex' = NoOne
  /\ wpc' = [wpc EXCEPT ![w] = "parse"]
  /\ UNCHANGED <<ring, head, pool, data, recvVars, histVars>>

Datagram(w) == data[wbuf[w]]

(* Faulty variant: the announced size is believed. *)
WellFormed_NoSizeCheck(d) == d.len >= HeaderSize

(* len(msg) holds the header and the payload the header announces. *)
WellFormed(d) == d.len >= HeaderSize /\ d.len >= HeaderSize + d.size

(* processMessage up to the routing: a short datagram, or one shorter than *)
(* its header says, is logged and given up.                                *)
processMessage(w) ==
  /\ wpc[w] = "parse"
  /\ IF WellFormed(Datagram(w).msg)
       THEN wpc' = [wpc EXCEPT ![w] = "route"] /\ UNCHANGED outcome
       ELSE /\ wpc' = [wpc EXCEPT ![w] = "put"]
            /\ outcome' = [outcome EXCEPT ![Datagram(w).id] = "error"]
  /\ UNCHANGED <<queueVars, ringMutex, pool, data, recvVars, wbuf, nrecv, crashed>>

(* What accessViaXBus may come to: mmap may fail; an empty memset and an   *)
(* unknown operation are errors; an empty memcpy takes &payload[0] of an   *)
(* empty slice, which panics.                                              *)
accessViaXBus(d) ==
  CASE d.op = "memcpy" /\ d.size = 0 -> {"panic"}
    [] d.op = "memcpy" /\ d.size # 0 -> {"applied", "error"}
    [] d.op = "memset" /\ d.size = 0 -> {"error"}
    [] d.op = "memset" /\ d.size # 0 -> {"applied", "error"}
    [] OTHER                         -> {"error"}

(* What accessViaRemote may come to: the command is sent, or not. *)
accessViaRemote(d) == {"forwarded", "error"}

(* RouteMemoryAccess: the node of the target address, and whether it is    *)
(* the local one, is the kernel's answer.                                  *)
RouteMemoryAccess(w) ==
  /\ wpc[w] = "route"
  /\ \E r \in accessViaXBus(Datagram(w).msg) \cup accessViaRemote(Datagram(w).msg) :
        IF r = "panic"
          THEN crashed' = TRUE /\ UNCHANGED <<wpc, outcome>>
          ELSE /\ outcome' = [outcome EXCEPT ![Datagram(w).id] = r]
               /\ wpc' = [wpc EXCEPT ![w] = "put"]
               /\ UNCHANGED crashed
  /\ UNCHANGED <<queueVars, ringMutex, pool, data, recvVars, wbuf, nrecv>>

(* msg = msg[:0]; msgPool.Put(msg); and the worker starts over. *)
WorkerPut(w) ==
  /\ wpc[w] = "put"
  /\ data' = [data EXCEPT ![wbuf[w]] = Empty]
  /\ pool' = pool \cup {wbuf[w]}
  /\ wpc' = [wpc EXCEPT ![w] = "lock"]
  /\ wbuf' = [wbuf EXCEPT ![w] = NoBuf]
  /\ UNCHANGED <<queueVars, ringMutex, recvVars, histVars>>

WorkerStep(w) == WorkerTest(w) \/ WorkerTake(w) \/ processMessage(w)
                 \/ RouteMemoryAccess(w) \/ WorkerPut(w)

RecvStep == PoolGet \/ RecvDrop \/ RecvCopy \/ RecvCheck \/ RecvPut
            \/ RecvStore \/ RecvSignal

Next ==
  /\ ~crashed
  /\ \/ StartZMQReceiver \/ RecvLock \/ RecvStep \/ PoolForget
     \/ \E w \in Workers : WorkerLock(w) \/ WorkerStep(w)

Spec == Init /\ [][Next]_vars

(* Goroutines that can run do run, and Go's mutex goes to a goroutine that *)
(* has waited too long (starvation mode), which is strong fairness of the  *)
(* lock.  RecvDrop is left out: errors need not happen.                    *)
Fairness ==
  /\ SF_vars(~crashed /\ RecvLock)
  /\ WF_vars(~crashed /\ (RecvCheck \/ RecvPut \/ RecvStore \/ RecvSignal))
  /\ \A w \in Workers : /\ SF_vars(~crashed /\ WorkerLock(w))
                        /\ WF_vars(~crashed /\ WorkerStep(w))

FairSpec == Spec /\ Fairness
-----------------------------------------------------------------------------
(* Properties *)

TypeOK ==
  /\ ring \in [Slots -> Bufs \cup {NoBuf}]
  /\ head \in Slots /\ tail \in Slots
  /\ ringMutex \in Workers \cup {Receiver, NoOne}
  /\ pool \subseteq Bufs
  /\ data \in [Bufs -> [id: 0..MaxMsgs, msg: [len: Nat, op: Ops, size: Nat]]]
  /\ rpc \in {"setup", "stopped", "get", "recv", "lock", "check", "store", "put", "signal"}
  /\ rbuf \in Bufs \cup {NoBuf}
  /\ wpc \in [Workers -> {"off", "lock", "test", "wait", "take", "parse", "route", "put"}]
  /\ wbuf \in [Workers -> Bufs \cup {NoBuf}]
  /\ nrecv \in 0..MaxMsgs
  /\ outcome \in [Ids -> Outcomes]
  /\ crashed \in BOOLEAN

(* ringMutex protects the ring: one goroutine at a time is between Lock    *)
(* and Unlock, and what it tested there (not empty, not full) still holds  *)
(* when it moves an index (main.go 249-255, 292-303).                      *)
RingMutex ==
  /\ \A w \in Workers : wpc[w] \in {"test", "take"} <=> ringMutex = w
  /\ rpc \in {"check", "store"} <=> ringMutex = Receiver
  /\ \A w \in Workers : wpc[w] = "take" => head # tail
  /\ rpc = "store" => Succ(head) # tail
  /\ rpc = "setup" => \A w \in Workers : wpc[w] = "off"

(* A message buffer has one owner: the receive loop, one live slot of the  *)
(* ring, one worker, or the pool.  Otherwise a new datagram could be       *)
(* copied over one that waits or is being applied (main.go 261-304).       *)
BufferOwnership ==
  /\ RecvOwns => /\ rbuf \in Bufs \ pool
                 /\ \A i \in Live : ring[i] # rbuf
                 /\ \A w \in Busy : wbuf[w] # rbuf
  /\ \A i \in Live : /\ ring[i] \in Bufs \ pool
                     /\ \A j \in Live : ring[i] = ring[j] => i = j
                     /\ \A w \in Busy : wbuf[w] # ring[i]
  /\ \A w \in Busy : /\ wbuf[w] \in Bufs \ pool
                     /\ \A v \in Busy : wbuf[v] = wbuf[w] => v = w

Claiming == { w \in Workers : wpc[w] \in {"lock", "test", "take"} }
Waiting  == { w \in Workers : wpc[w] = "wait" }

(* No worker sleeps beside work nobody is about to claim: while one waits, *)
(* each queued datagram has a worker on its way to the ring, the pending   *)
(* Signal of the receive loop counting for one.  Signal is called after    *)
(* Unlock (main.go 303-304), so this rests on the order of the two sides.  *)
NoIdleWorker ==
  Waiting # {} =>
    QueueLen <= Cardinality(Claiming) + (IF rpc = "signal" THEN 1 ELSE 0)

RecvHolds == rpc \in {"lock", "check", "store"}
Hands     == { w \in Workers : wpc[w] \in {"parse", "route"} }

Located(m) == \/ RecvHolds /\ m = nrecv
              \/ \E i \in Live : data[ring[i]].id = m
              \/ \E w \in Hands : Datagram(w).id = m

(* A received datagram without an outcome is somewhere, and one with an    *)
(* outcome is nowhere: none is lost silently, none is applied after it was *)
(* dropped, none is processed twice.                                       *)
NothingLost == \A m \in 1..nrecv : outcome[m] = "pending" <=> Located(m)

(* What a worker hands to RouteMemoryAccess lies within its own datagram,  *)
(* so no byte an earlier user left in the buffer is applied (main.go       *)
(* 328-334): the slice bounds alone would allow it up to the capacity.     *)
PayloadIsOwn ==
  \A w \in Workers : wpc[w] = "route" =>
    /\ outcome[Datagram(w).id] = "pending"
    /\ HeaderSize + Datagram(w).msg.size <= Datagram(w).msg.len
    /\ Datagram(w).msg.len <= BufCap

(* Four workers may finish datagrams out of order, but only so far: one    *)
(* that was overtaken is in some worker's hands, never still queued.       *)
OvertakenIsInHand ==
  \A m \in Ids : \A j \in 1..m - 1 :
    outcome[m] \in {"error", "applied", "forwarded"} /\ outcome[j] = "pending"
      => \E w \in Hands : Datagram(w).id = j

(* The ring, the mutex and the pool together implement DataQueue: what     *)
(* waits, oldest first; what each worker has; the last one that was either *)
(* stored or dropped.                                                      *)
NoMsg == 0
Slot(k) == IF tail + k < RingSize THEN tail + k ELSE (tail + k) - RingSize
IdAt(k) == data[ring[Slot(k - 1)]].id
QueuedIds == [k \in 1..QueueLen |-> IdAt(k)]
IdsInHand == [w \in Workers |-> IF w \in Hands THEN Datagram(w).id ELSE NoMsg]
LastOffered == IF RecvHolds THEN nrecv - 1 ELSE nrecv

DQ == INSTANCE DataQueue WITH Capacity <- RingSize - 1, queue <- QueuedIds,
                              inHand <- IdsInHand, last <- LastOffered

(* StartZMQReceiver implements a bounded FIFO queue that drops a datagram  *)
(* exactly when ringSize - 1 datagrams wait (main.go 293-299).             *)
ImplementsQueue == DQ!QueueSpec

Queued(m) == \E i \in Live : data[ring[i]].id = m

(* A queued datagram is eventually finished, unless a panic takes the      *)
(* process down: no wakeup is lost for good and no worker stays blocked.   *)
QueuedIsFinished == \A m \in Ids : Queued(m) ~> (outcome[m] # "pending" \/ crashed)

(* The receive loop, once it has a datagram, gets back to the socket: it   *)
(* is never blocked for good by workers or by a full ring.                 *)
ReceiverReturns == RecvHolds ~> (rpc = "get" \/ crashed)
=============================================================================
