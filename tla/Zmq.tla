-------------------------------- MODULE Zmq --------------------------------
(***************************************************************************)
(* Datagrams over ZeroMQ: SendData and ReceiveData of the data transfer    *)
(* library, which open a context and a socket for every call, and          *)
(* ZmqTransport::Transfer, which opens a socket in the context of its      *)
(* object and tries up to three times.                                     *)
(*                                                                         *)
(* libzmq is external.  A message handed to it without a copy is queued    *)
(* until its I/O thread sends it; zmq_ctx_destroy waits until the sockets  *)
(* of the context are closed and what they queued is sent.  A datagram to  *)
(* the local port reaches the socket bound there at that moment, or is     *)
(* lost.                                                                   *)
(***************************************************************************)
EXTENDS Naturals, Sequences

CONSTANTS Threads, Sizes,  \* callers; sizes of the buffers
          NoThread,
          OtherProcess,    \* a process on the same host that uses the port
          MaxRetries,      \* max_retries
          MaxInbox         \* datagrams the bound socket holds

ASSUME ZmqAssumption ==
  /\ NoThread \notin Threads /\ OtherProcess \notin Threads
  /\ Sizes \subseteq Nat
  /\ MaxRetries \in Nat \ {0} /\ MaxInbox \in Nat

VARIABLES xfer,            \* the transfer each thread is in
          port,            \* who is bound to 127.0.0.1:5555
          inbox,           \* datagrams at the bound socket
          queued           \* messages libzmq has still to send

zmqVars == <<xfer, port, inbox, queued>>

NoTransfer == [op |-> "none", pc |-> "idle", held |-> {}, size |-> 0, retries |-> 0,
               sent |-> 0, success |-> FALSE, from |-> NoThread]

ZmqInit == /\ xfer = [t \in Threads |-> NoTransfer]
           /\ port = NoThread /\ inbox = <<>> /\ queued = {}

At(t, pc) == xfer[t].pc = pc
Goes(t, pc) == xfer' = [xfer EXCEPT ![t].pc = pc]
Opens(t, r, pc) == xfer' = [xfer EXCEPT ![t].pc = pc, ![t].held = @ \cup {r}]
Begin(t, op, first, size) ==
  xfer' = [xfer EXCEPT ![t] = [NoTransfer EXCEPT !.op = op, !.pc = first, !.size = size]]

-----------------------------------------------------------------------------
SendData(t, size) == Begin(t, "send", "context", size)
ReceiveData(t, size) == Begin(t, "receive", "context", size)

(* Transfer copies its buffer, with a CRC, to a packet of its own; its size *)
(* makes no difference to the sender.                                      *)
Transfer(t) ==
  /\ At(t, "idle")
  /\ Begin(t, "transfer", "socket", 0)
  /\ UNCHANGED <<port, inbox, queued>>

(* What fails closes what was opened. *)
OpenContext(t) ==
  /\ At(t, "context")
  /\ Opens(t, "context", "socket") \/ Goes(t, "close")
  /\ UNCHANGED <<port, inbox, queued>>

OpenSocket(t) ==
  /\ At(t, "socket")
  /\ Opens(t, "socket", "endpoint") \/ Goes(t, "close")
  /\ UNCHANGED <<port, inbox, queued>>

Connect(t) ==
  /\ At(t, "endpoint") /\ xfer[t].op # "receive"
  /\ Goes(t, "message") \/ Goes(t, "close")
  /\ UNCHANGED <<port, inbox, queued>>

Bind(t) ==
  /\ At(t, "endpoint") /\ xfer[t].op = "receive"
  /\ \/ port = NoThread /\ port' = t /\ Goes(t, "message")
     \/ Goes(t, "close") /\ UNCHANGED port
  /\ UNCHANGED <<inbox, queued>>

(* Transfer tries again what failed; the others give up. *)
Retry(t) ==
  LET n == xfer[t].retries + 1
  IN  xfer' = [xfer EXCEPT ![t].retries = n, ![t].held = @ \ {"message"},
                 ![t].pc = IF n < MaxRetries THEN "message" ELSE "close"]

InitMessage(t) ==
  /\ At(t, "message")
  /\ \/ Opens(t, "message", IF xfer[t].op = "receive" THEN "receive" ELSE "send")
     \/ IF xfer[t].op = "transfer" THEN Retry(t) ELSE Goes(t, "close")
  /\ UNCHANGED <<port, inbox, queued>>

(* A message that is accepted belongs to libzmq.  In the faulty variant    *)
(* Transfer does not note its success.                                     *)
Message(t) == [by |-> t, op |-> xfer[t].op, try |-> xfer[t].retries, size |-> xfer[t].size, freed |-> FALSE]

Send_NotNoted(t) ==
  /\ At(t, "send")
  /\ \/ /\ queued' = queued \cup {Message(t)}
        /\ xfer' = [xfer EXCEPT ![t].sent = @ + 1, ![t].retries = @ + 1,
                      ![t].pc = IF xfer[t].retries + 1 < MaxRetries THEN "message" ELSE "close"]
     \/ /\ IF xfer[t].op = "transfer" THEN Retry(t) ELSE Goes(t, "close")
        /\ UNCHANGED queued
  /\ UNCHANGED <<port, inbox>>

Send(t) ==
  /\ At(t, "send")
  /\ \/ /\ queued' = queued \cup {Message(t)}
        /\ xfer' = [xfer EXCEPT ![t].sent = @ + 1, ![t].success = TRUE, ![t].pc = "close",
                      ![t].held = IF xfer[t].op = "transfer" THEN @ \ {"message"} ELSE @]
     \/ /\ IF xfer[t].op = "transfer" THEN Retry(t) ELSE Goes(t, "close")
        /\ UNCHANGED queued
  /\ UNCHANGED <<port, inbox>>

(* ReceiveData takes the first datagram that comes, and succeeds when its   *)
(* size is right.  zmq_msg_recv may also fail.                             *)
Receive(t) ==
  /\ At(t, "receive") /\ inbox # <<>>
  /\ xfer' = [xfer EXCEPT ![t].pc = "close", ![t].success = Head(inbox).size = xfer[t].size,
                ![t].from = Head(inbox).by]
  /\ inbox' = Tail(inbox)
  /\ UNCHANGED <<port, queued>>

ReceiveFails(t) ==
  /\ At(t, "receive") /\ Goes(t, "close")
  /\ UNCHANGED <<port, inbox, queued>>

(* Message, socket and context are closed in this order; the faulty        *)
(* variant destroys the context first.                                     *)
CloseOrder_ContextFirst == <<"context", "message", "socket">>
CloseOrder == <<"message", "socket", "context">>

DestroyWaits(t) == "socket" \in xfer[t].held \/ \E m \in queued : m.by = t

Close(t) ==
  /\ At(t, "close") /\ xfer[t].held # {}
  /\ \E i \in DOMAIN CloseOrder :
       LET r == CloseOrder[i]
       IN  /\ r \in xfer[t].held /\ \A j \in 1..(i - 1) : CloseOrder[j] \notin xfer[t].held
           /\ r = "context" => ~DestroyWaits(t)
           /\ xfer' = [xfer EXCEPT ![t].held = @ \ {r}]
           /\ IF r = "socket" /\ port = t THEN port' = NoThread /\ inbox' = <<>>
                                          ELSE UNCHANGED <<port, inbox>>
  /\ UNCHANGED queued

(* The call returns.  What it queued without a copy is then memory it no   *)
(* longer answers for: the caller's buffer, or the packet Transfer frees.  *)
Returned(t) == At(t, "close") /\ xfer[t].held = {}
Return(t) ==
  /\ Returned(t)
  /\ queued' = { IF m.by = t THEN [m EXCEPT !.freed = TRUE] ELSE m : m \in queued }
  /\ xfer' = [xfer EXCEPT ![t] = NoTransfer]
  /\ UNCHANGED <<port, inbox>>

ZmqStep(t) == \/ OpenContext(t) \/ OpenSocket(t) \/ Connect(t) \/ Bind(t) \/ InitMessage(t)
              \/ Send(t) \/ Receive(t) \/ Close(t)

-----------------------------------------------------------------------------
(* The I/O thread sends a message: to the bound socket, or it is lost. *)
Reaches(m) == inbox' = Append(inbox, [by |-> m.by, size |-> m.size])
IoThread ==
  /\ \E m \in queued :
       /\ queued' = queued \ {m}
       /\ \/ m.op = "send" /\ port \in Threads /\ Len(inbox) < MaxInbox /\ Reaches(m)
          \/ UNCHANGED inbox
  /\ UNCHANGED <<xfer, port>>

(* Another process on the host sends to the port, or holds it for a while. *)
OtherSends ==
  /\ port \in Threads /\ Len(inbox) < MaxInbox
  /\ \E s \in Sizes : Reaches([by |-> OtherProcess, size |-> s])
  /\ UNCHANGED <<xfer, port, queued>>

OtherBinds ==
  /\ \/ port = NoThread /\ port' = OtherProcess
     \/ port = OtherProcess /\ port' = NoThread
  /\ UNCHANGED <<xfer, inbox, queued>>

(* The threads T of a process that calls ZmqTransport::Transfer *)
TransportNext(T) == (\E t \in T : ZmqStep(t) \/ Return(t) \/ Transfer(t)) \/ IoThread
TransportSpec == ZmqInit /\ [][TransportNext(Threads)]_zmqVars

-----------------------------------------------------------------------------
(* Properties *)

(* A message that is still queued when its call has returned refers to     *)
(* memory that may change or be gone.  SendData (zmq_manager.cpp 33-43)    *)
(* leaves none, because it destroys its context before it returns; a       *)
(* ZmqTransport::Transfer (zmq_transport.cpp 54-83) leaves at most the one *)
(* it reported, however often it tried.                                    *)
QueuedOnce ==
  /\ \A m \in queued : m.freed => m.op = "transfer"
  /\ \A t \in Threads : /\ xfer[t].sent <= 1
                        /\ At(t, "close") /\ xfer[t].op # "receive" =>
                             (xfer[t].success <=> xfer[t].sent = 1)
=============================================================================
