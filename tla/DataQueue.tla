------------------------------ MODULE DataQueue ------------------------------
(***************************************************************************)
(* What the UDP data plane of capnpserver (StartZMQReceiver and the worker *)
(* goroutines it starts) promises: a bounded FIFO queue of datagrams that  *)
(* drops a datagram when, and only when, it is full; every accepted        *)
(* datagram is handed to one worker, in the order of reception, and ends   *)
(* with one outcome.  Nothing is promised about the order in which         *)
(* datagrams in different hands are finished.                              *)
(***************************************************************************)
EXTENDS Naturals, Sequences

CONSTANTS Workers,      \* worker goroutines
          Capacity,     \* most datagrams that wait at once
          MaxMsgs,      \* bound: datagrams numbered 1..MaxMsgs in order of reception
          NoMsg         \* a worker's empty hand

VARIABLES queue,        \* numbers of the datagrams that wait, oldest first
          inHand,       \* what each worker is processing
          outcome,      \* the end of each datagram
          last,         \* number of the last datagram offered to the queue
          crashed       \* the process has panicked

queueVars == <<queue, inHand, outcome, last, crashed>>

FinalOutcomes == {"dropped", "error", "applied", "forwarded"}

QueueInit ==
  /\ queue = <<>>
  /\ inHand = [w \in Workers |-> NoMsg]
  /\ outcome = [m \in 1..MaxMsgs |-> "pending"]
  /\ last = 0
  /\ crashed = FALSE

(* The next datagram is queued: there is room. *)
Accept ==
  /\ Len(queue) < Capacity
  /\ queue' = Append(queue, last + 1)
  /\ last' = last + 1
  /\ UNCHANGED <<inHand, outcome, crashed>>

(* The next datagram is lost: the queue is full. *)
Refuse ==
  /\ Len(queue) = Capacity
  /\ last' = last + 1
  /\ outcome[last + 1] = "pending"
  /\ outcome' = [outcome EXCEPT ![last + 1] = "dropped"]
  /\ UNCHANGED <<queue, inHand, crashed>>

(* A worker with an empty hand takes the oldest datagram. *)
Take(w) ==
  /\ inHand[w] = NoMsg
  /\ queue # <<>>
  /\ inHand' = [inHand EXCEPT ![w] = Head(queue)]
  /\ queue' = Tail(queue)
  /\ UNCHANGED <<outcome, last, crashed>>

(* A worker finishes the datagram in its hand, which had no outcome yet. *)
Finish(w) ==
  /\ inHand[w] # NoMsg
  /\ outcome[inHand[w]] = "pending"
  /\ \E o \in FinalOutcomes \ {"dropped"} :
        outcome' = [outcome EXCEPT ![inHand[w]] = o]
  /\ inHand' = [inHand EXCEPT ![w] = NoMsg]
  /\ UNCHANGED <<queue, last, crashed>>

(* Processing a datagram panics and takes the process down. *)
Panic(w) ==
  /\ inHand[w] # NoMsg
  /\ crashed' = TRUE
  /\ UNCHANGED <<queue, inHand, outcome, last>>

QueueNext ==
  /\ ~crashed
  /\ \/ Accept
     \/ Refuse
     \/ \E w \in Workers : Take(w) \/ Finish(w) \/ Panic(w)

QueueSpec == QueueInit /\ [][QueueNext]_queueVars
=============================================================================
