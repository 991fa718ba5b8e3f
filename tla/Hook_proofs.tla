----------------------------- MODULE Hook_proofs -----------------------------
(***************************************************************************)
(* What the transfers of Zmq and the hook keep, for any number of threads, *)
(* pointers, functions and datagrams, and any hooks that fail to install.  *)
(***************************************************************************)
EXTENDS Hook, TLAPS

-----------------------------------------------------------------------------
(* Transfers.  The invariant is about one call: what it has opened where   *)
(* it stands, and what it has handed to libzmq.                            *)

Resources == {"message", "socket", "context"}
Transfers ==
  [op: {"none", "send", "receive", "transfer"},
   pc: {"idle", "context", "socket", "endpoint", "message", "send", "receive", "close"},
   held: SUBSET Resources, size: Nat, retries: Nat, sent: Nat, success: BOOLEAN,
   from: Threads \cup {NoThread, OtherProcess}]
Messages == [by: Threads, op: {"send", "transfer"}, try: Nat, size: Nat, freed: BOOLEAN]
Datagrams == [by: Threads \cup {OtherProcess}, size: Nat]

Fine(r) ==
  /\ r.pc = "idle" <=> r.op = "none"
  /\ r.pc = "context" => r.op # "transfer"
  /\ r.pc = "send" => r.op # "receive"
  /\ r.pc = "receive" => r.op = "receive"
  /\ r.pc # "close" => r.sent = 0 /\ ~r.success
  /\ r.pc = "close" => r.sent <= 1
  /\ r.pc = "close" /\ r.op # "receive" => (r.success <=> r.sent = 1)
  /\ r.pc \in {"socket", "endpoint", "message", "send", "receive"} /\ r.op # "transfer" => "context" \in r.held
  /\ r.pc \in {"endpoint", "message", "send", "receive"} => "socket" \in r.held

(* A message of SendData keeps its context open, a bound port its socket.  *)
Sending == \A m \in queued : m.op = "send" =>
             xfer[m.by].op = "send" /\ "context" \in xfer[m.by].held /\ ~m.freed
Bound == port \in Threads => xfer[port].op = "receive" /\ "socket" \in xfer[port].held

ZTypes == /\ xfer \in [Threads -> Transfers] /\ queued \subseteq Messages
          /\ inbox \in Seq(Datagrams) /\ port \in Threads \cup {NoThread, OtherProcess}

ZInv == ZTypes /\ (\A t \in Threads : Fine(xfer[t])) /\ Sending /\ Bound

LEMMA InitZInv == ZmqInit => ZInv
<1> SUFFICES ASSUME ZmqInit PROVE ZInv
  OBVIOUS
<1>1. NoTransfer \in Transfers /\ Fine(NoTransfer)
  BY DEF NoTransfer, Transfers, Fine
<1>2. ZTypes
  BY <1>1 DEF ZmqInit, ZTypes
<1> QED
  BY <1>1, <1>2, ZmqAssumption DEF ZmqInit, ZInv, Sending, Bound

(* The call of t becomes r and the other calls stay. *)
Becomes(t, r) == xfer' \in [Threads -> Transfers] /\ xfer'[t] = r
                 /\ \A u \in Threads : u # t => xfer'[u] = xfer[u]

LEMMA Quiet ==
  ASSUME ZInv, NEW t \in Threads, NEW r, Becomes(t, r), Fine(r),
         UNCHANGED <<port, inbox, queued>>,
         xfer[t].op \in {"none", r.op}, "context" \in xfer[t].held => "context" \in r.held,
         "socket" \in xfer[t].held => "socket" \in r.held
  PROVE  ZInv'
<1>1. ZTypes'
  BY DEF ZInv, ZTypes, Becomes
<1>2. \A u \in Threads : Fine(xfer[u])'
  BY DEF ZInv, Becomes, Fine
<1>3. Sending'
  <2> SUFFICES ASSUME NEW m \in queued, m.op = "send"
               PROVE  xfer'[m.by].op = "send" /\ "context" \in xfer'[m.by].held /\ ~m.freed
    BY DEF Sending
  <2>1. xfer[m.by].op = "send" /\ "context" \in xfer[m.by].held /\ ~m.freed /\ m.by \in Threads
    BY DEF ZInv, ZTypes, Sending, Messages
  <2> QED BY <2>1 DEF Becomes
<1>4. Bound'
  BY DEF ZInv, Bound, Becomes
<1> QED BY <1>1, <1>2, <1>3, <1>4 DEF ZInv

(* What most steps leave of the calls *)
Keeps(t) == /\ xfer'[t].op = xfer[t].op /\ xfer'[t].size = xfer[t].size
            /\ \A u \in Threads : u # t => xfer'[u] = xfer[u]

Pcs == {"idle", "context", "socket", "endpoint", "message", "send", "receive", "close"}
LEMMA Updates ==
  ASSUME NEW r \in Transfers, NEW pc \in Pcs, NEW held \in SUBSET Resources, NEW n \in Nat,
         NEW b \in BOOLEAN, NEW from \in Threads \cup {NoThread, OtherProcess}
  PROVE  /\ [r EXCEPT !.pc = pc] \in Transfers /\ [r EXCEPT !.held = held] \in Transfers
         /\ [r EXCEPT !.retries = n] \in Transfers /\ [r EXCEPT !.sent = n] \in Transfers
         /\ [r EXCEPT !.success = b] \in Transfers /\ [r EXCEPT !.from = from] \in Transfers
<1>1. [r EXCEPT !.pc = pc] \in Transfers
  BY DEF Transfers, Pcs
<1>2. [r EXCEPT !.held = held] \in Transfers
  BY DEF Transfers
<1>3. [r EXCEPT !.retries = n] \in Transfers
  BY DEF Transfers
<1>4. [r EXCEPT !.sent = n] \in Transfers
  BY DEF Transfers
<1>5. [r EXCEPT !.success = b] \in Transfers
  BY DEF Transfers
<1>6. [r EXCEPT !.from = from] \in Transfers
  BY DEF Transfers
<1> QED BY <1>1, <1>2, <1>3, <1>4, <1>5, <1>6

(* A function that differs at t only *)
LEMMA OneChange ==
  ASSUME xfer \in [Threads -> Transfers], NEW t \in Threads, NEW r \in Transfers,
         xfer' = [u \in Threads |-> xfer'[u]], xfer'[t] = r,
         \A u \in Threads : u # t => xfer'[u] = xfer[u]
  PROVE  xfer' \in [Threads -> Transfers]
  OBVIOUS

LEMMA GoesKeeps ==
  ASSUME ZTypes, NEW t \in Threads, NEW pc \in {"message", "close"}, Goes(t, pc)
  PROVE  /\ xfer' \in [Threads -> Transfers] /\ Keeps(t)
         /\ xfer'[t].pc = pc /\ xfer'[t].held = xfer[t].held /\ xfer'[t].sent = xfer[t].sent
         /\ xfer'[t].success = xfer[t].success /\ xfer'[t].from = xfer[t].from
<1> USE DEF ZTypes, Goes
<1>1. xfer' \in [Threads -> Transfers]
  BY DEF Transfers
<1>2. \A u \in Threads : u # t => xfer'[u] = xfer[u]
  OBVIOUS
<1> QED BY <1>1, <1>2 DEF Transfers, Keeps

LEMMA OpensKeeps ==
  ASSUME ZTypes, NEW t \in Threads, NEW r \in Resources,
         NEW pc \in {"socket", "endpoint", "send", "receive"}, Opens(t, r, pc)
  PROVE  /\ xfer' \in [Threads -> Transfers] /\ Keeps(t)
         /\ xfer'[t].pc = pc /\ xfer'[t].held = xfer[t].held \cup {r} /\ xfer'[t].sent = xfer[t].sent
         /\ xfer'[t].success = xfer[t].success /\ xfer'[t].from = xfer[t].from
<1> USE DEF ZTypes, Opens
<1> DEFINE r1 == [xfer[t] EXCEPT !.pc = pc]
           r2 == [r1 EXCEPT !.held = xfer[t].held \cup {r}]
<1>0. xfer' = [u \in Threads |-> xfer'[u]] /\ xfer'[t] = r2
  OBVIOUS
<1>2. \A u \in Threads : u # t => xfer'[u] = xfer[u]
  OBVIOUS
<1>1. xfer' \in [Threads -> Transfers]
  <2>1. pc \in Pcs /\ xfer[t] \in Transfers /\ xfer[t].held \cup {r} \in SUBSET Resources
    BY DEF Pcs, Transfers
  <2>2. r1 \in Transfers
    BY <2>1, Updates
  <2> HIDE DEF r1
  <2>3. r2 \in Transfers
    BY <2>1, <2>2, Updates
  <2> QED BY <1>0, <1>2, <2>3, OneChange
<1> QED BY <1>1, <1>2 DEF Transfers, Keeps

LEMMA RetryKeeps ==
  ASSUME ZTypes, NEW t \in Threads, Retry(t)
  PROVE  /\ xfer' \in [Threads -> Transfers] /\ Keeps(t)
         /\ xfer'[t].pc \in {"message", "close"} /\ xfer'[t].held = xfer[t].held \ {"message"}
         /\ xfer'[t].sent = xfer[t].sent
         /\ xfer'[t].success = xfer[t].success /\ xfer'[t].from = xfer[t].from
<1> USE DEF ZTypes, Retry
<1> DEFINE n == xfer[t].retries + 1
           pc == IF n < MaxRetries THEN "message" ELSE "close"
           h == xfer[t].held \ {"message"}
           r1 == [xfer[t] EXCEPT !.retries = n]
           r2 == [r1 EXCEPT !.held = h]
           r3 == [r2 EXCEPT !.pc = pc]
<1>0. xfer' = [u \in Threads |-> xfer'[u]] /\ xfer'[t] = r3
  OBVIOUS
<1>2. \A u \in Threads : u # t => xfer'[u] = xfer[u]
  OBVIOUS
<1>1. xfer' \in [Threads -> Transfers]
  <2>1. n \in Nat /\ pc \in Pcs /\ xfer[t] \in Transfers /\ h \in SUBSET Resources
    BY DEF Pcs, Transfers
  <2> HIDE DEF n, pc, h
  <2>2. r1 \in Transfers
    BY <2>1, Updates
  <2> HIDE DEF r1
  <2>3. r2 \in Transfers
    BY <2>1, <2>2, Updates
  <2> HIDE DEF r2
  <2>4. r3 \in Transfers
    BY <2>1, <2>3, Updates
  <2> QED BY <1>0, <1>2, <2>4, OneChange
<1> QED BY <1>1, <1>2 DEF Transfers, Keeps

LEMMA BeginBecomes ==
  ASSUME ZTypes, NEW t \in Threads, NEW op \in {"send", "receive", "transfer"},
         NEW pc \in {"context", "socket"}, NEW size \in Nat, Begin(t, op, pc, size)
  PROVE  Becomes(t, [op |-> op, pc |-> pc, held |-> {}, size |-> size, retries |-> 0,
                     sent |-> 0, success |-> FALSE, from |-> NoThread])
<1> DEFINE r == [op |-> op, pc |-> pc, held |-> {}, size |-> size, retries |-> 0,
                 sent |-> 0, success |-> FALSE, from |-> NoThread]
<1>1. xfer'[t] = r /\ DOMAIN xfer' = Threads /\ \A u \in Threads : u # t => xfer'[u] = xfer[u]
  BY DEF Begin, NoTransfer, ZTypes
<1>2. r \in Transfers
  BY DEF Transfers
<1>3. xfer' = [u \in Threads |-> xfer'[u]]
  BY DEF Begin, ZTypes
<1> HIDE DEF r
<1>4. xfer' \in [Threads -> Transfers]
  BY <1>1, <1>2, <1>3 DEF ZTypes
<1> QED BY <1>1, <1>4 DEF Becomes, r

-----------------------------------------------------------------------------
(* The steps of a transfer *)

LEMMA FineFacts == ASSUME ZInv, NEW t \in Threads
                   PROVE  ZTypes /\ Fine(xfer[t]) /\ xfer[t] \in Transfers
  BY DEF ZInv, ZTypes

(* A failure goes to the closing of what was opened, or to a retry. *)
LEMMA FailsStep ==
  ASSUME ZInv, NEW t \in Threads, UNCHANGED <<port, inbox, queued>>,
         xfer[t].pc \in {"context", "socket", "endpoint", "message", "send", "receive"},
         \/ Goes(t, "close")
         \/ Retry(t) /\ xfer[t].pc \in {"message", "send"} /\ xfer[t].op = "transfer"
  PROVE  ZInv'
<1>1. ZTypes /\ Fine(xfer[t])
  BY FineFacts
<1>2. CASE Goes(t, "close")
  <2>1. /\ xfer' \in [Threads -> Transfers] /\ Keeps(t) /\ xfer'[t].pc = "close"
        /\ xfer'[t].held = xfer[t].held /\ xfer'[t].sent = xfer[t].sent
        /\ xfer'[t].success = xfer[t].success
    BY <1>1, <1>2, GoesKeeps
  <2>2. Becomes(t, xfer'[t])
    BY <2>1 DEF Becomes, Keeps
  <2>3. Fine(xfer'[t])
    BY <1>1, <2>1 DEF Fine, Keeps
  <2> QED BY <2>1, <2>2, <2>3, Quiet DEF Keeps
<1>3. CASE Retry(t) /\ xfer[t].pc \in {"message", "send"} /\ xfer[t].op = "transfer"
  <2>1. /\ xfer' \in [Threads -> Transfers] /\ Keeps(t) /\ xfer'[t].pc \in {"message", "close"}
        /\ xfer'[t].held = xfer[t].held \ {"message"} /\ xfer'[t].sent = xfer[t].sent
        /\ xfer'[t].success = xfer[t].success
    BY <1>1, <1>3, RetryKeeps
  <2>2. Becomes(t, xfer'[t])
    BY <2>1 DEF Becomes, Keeps
  <2>3. Fine(xfer'[t])
    BY <1>1, <1>3, <2>1 DEF Fine, Keeps
  <2> QED BY <2>1, <2>2, <2>3, Quiet DEF Keeps
<1> QED BY <1>2, <1>3

LEMMA OpensStep ==
  ASSUME ZInv, NEW t \in Threads, UNCHANGED <<port, inbox, queued>>,
         NEW r \in Resources, NEW pc, Opens(t, r, pc),
         \/ At(t, "context") /\ r = "context" /\ pc = "socket"
         \/ At(t, "socket") /\ r = "socket" /\ pc = "endpoint"
         \/ At(t, "message") /\ pc = IF xfer[t].op = "receive" THEN "receive" ELSE "send"
  PROVE  ZInv'
<1>1. ZTypes /\ Fine(xfer[t])
  BY FineFacts
<1>2. /\ xfer' \in [Threads -> Transfers] /\ Keeps(t) /\ xfer'[t].pc = pc
      /\ xfer'[t].held = xfer[t].held \cup {r} /\ xfer'[t].sent = xfer[t].sent
      /\ xfer'[t].success = xfer[t].success
  BY <1>1, OpensKeeps
<1>3. Becomes(t, xfer'[t])
  BY <1>2 DEF Becomes, Keeps
<1>4. Fine(xfer'[t])
  BY <1>1, <1>2 DEF Fine, Keeps, At
<1> QED BY <1>2, <1>3, <1>4, Quiet DEF Keeps

LEMMA EndpointStep ==
  ASSUME ZInv, NEW t \in Threads, At(t, "endpoint"), Goes(t, "message"),
         UNCHANGED <<inbox, queued>>,
         port' = port \/ (port' = t /\ xfer[t].op = "receive")
  PROVE  ZInv'
<1>1. ZTypes /\ Fine(xfer[t])
  BY FineFacts
<1>2. /\ xfer' \in [Threads -> Transfers] /\ Keeps(t) /\ xfer'[t].pc = "message"
      /\ xfer'[t].held = xfer[t].held /\ xfer'[t].sent = xfer[t].sent
      /\ xfer'[t].success = xfer[t].success
  BY <1>1, GoesKeeps
<1>3. Fine(xfer'[t])
  BY <1>1, <1>2 DEF Fine, Keeps, At
<1>4. \A u \in Threads : Fine(xfer[u])'
  BY <1>2, <1>3 DEF ZInv, Keeps, Fine
<1>5. ZTypes'
  BY <1>1, <1>2 DEF ZTypes
<1>6. \A u \in Threads : xfer'[u].op = xfer[u].op /\ xfer'[u].held = xfer[u].held
  BY <1>2 DEF Keeps
<1>7. Sending'
  BY <1>1, <1>6 DEF ZInv, Sending, ZTypes, Messages
<1>8. Bound'
  <2>1. "socket" \in xfer[t].held
    BY <1>1 DEF Fine, At
  <2> QED BY <1>6, <2>1 DEF ZInv, Bound
<1> QED BY <1>4, <1>5, <1>7, <1>8 DEF ZInv

LEMMA SendStep == ASSUME ZInv, NEW t \in Threads, Send(t) PROVE ZInv'
<1>1. ZTypes /\ Fine(xfer[t]) /\ xfer[t] \in Transfers /\ xfer[t].pc = "send"
  BY FineFacts DEF Send, At
<1>2. CASE (IF xfer[t].op = "transfer" THEN Retry(t) ELSE Goes(t, "close")) /\ UNCHANGED queued
  BY <1>1, <1>2, FailsStep DEF Send
<1>3. ASSUME queued' = queued \cup {Message(t)},
             xfer' = [xfer EXCEPT ![t].sent = @ + 1, ![t].success = TRUE, ![t].pc = "close",
                      ![t].held = IF xfer[t].op = "transfer" THEN @ \ {"message"} ELSE @]
      PROVE  ZInv'
  <2> DEFINE n == xfer[t].sent + 1
             h == IF xfer[t].op = "transfer" THEN xfer[t].held \ {"message"} ELSE xfer[t].held
             r1 == [xfer[t] EXCEPT !.sent = n]
             r2 == [r1 EXCEPT !.success = TRUE]
             r3 == [r2 EXCEPT !.pc = "close"]
             r4 == [r3 EXCEPT !.held = h]
  <2>1. xfer' = [u \in Threads |-> xfer'[u]] /\ xfer'[t] = r4
    BY <1>1, <1>3 DEF ZTypes
  <2>2. \A u \in Threads : u # t => xfer'[u] = xfer[u]
    BY <1>1, <1>3 DEF ZTypes
  <2>3. xfer' \in [Threads -> Transfers]
    <3>1. n \in Nat /\ "close" \in Pcs /\ h \in SUBSET Resources
      BY <1>1 DEF Pcs, Transfers
    <3> HIDE DEF n, h
    <3>2. r1 \in Transfers
      BY <1>1, <3>1, Updates
    <3> HIDE DEF r1
    <3>3. r2 \in Transfers
      BY <3>2 DEF Transfers
    <3> HIDE DEF r2
    <3>4. r3 \in Transfers
      BY <3>1, <3>3, Updates
    <3> HIDE DEF r3
    <3>5. r4 \in Transfers
      BY <3>1, <3>4, Updates
    <3> QED BY <1>1, <2>1, <2>2, <3>5, OneChange DEF ZTypes
  <2>4. xfer'[t].op = xfer[t].op /\ xfer'[t].sent = n /\ xfer'[t].success /\ xfer'[t].pc = "close"
        /\ xfer'[t].held = h
    BY <1>1, <2>1 DEF Transfers
  <2> HIDE DEF r1, r2, r3, r4
  <2>5. n = 1
    BY <1>1 DEF Fine
  <2>6. Fine(xfer'[t])
    BY <1>1, <2>4, <2>5 DEF Fine
  <2>7. \A u \in Threads : Fine(xfer[u])'
    BY <2>2, <2>6 DEF ZInv, Fine
  <2>8. xfer[t].op \in {"send", "transfer"} /\ (xfer[t].op = "send" => "context" \in h)
        /\ ("context" \in xfer[t].held => "context" \in h) /\ ("socket" \in xfer[t].held => "socket" \in h)
    BY <1>1 DEF Fine, Transfers
  <2>9. Message(t) \in Messages
    BY <1>1, <2>8 DEF Message, Messages, Transfers
  <2>10. Message(t).by = t /\ Message(t).op = xfer[t].op /\ Message(t).freed = FALSE
    BY DEF Message
  <2>11. ZTypes'
    BY <1>1, <1>3, <2>3, <2>9 DEF ZTypes, Send
  <2>12. Sending'
    <3> SUFFICES ASSUME NEW m \in queued', m.op = "send"
                 PROVE  xfer'[m.by].op = "send" /\ "context" \in xfer'[m.by].held /\ ~m.freed
      BY DEF Sending
    <3>1. CASE m = Message(t)
      BY <2>4, <2>8, <2>10, <3>1
    <3>2. CASE m \in queued
      <4>1. xfer[m.by].op = "send" /\ "context" \in xfer[m.by].held /\ ~m.freed /\ m.by \in Threads
        BY <1>1, <3>2 DEF ZInv, Sending, ZTypes, Messages
      <4> QED BY <2>2, <2>4, <2>8, <4>1
    <3> QED BY <1>3, <3>1, <3>2
  <2>13. Bound'
    BY <2>2, <2>4, <2>8 DEF ZInv, Bound, Send
  <2> QED BY <2>7, <2>11, <2>12, <2>13 DEF ZInv
<1> QED BY <1>2, <1>3 DEF Send

LEMMA ReceiveStep == ASSUME ZInv, NEW t \in Threads, Receive(t)
                     PROVE  ZInv' /\ xfer'[t].from = Head(inbox).by
                            /\ \A u \in Threads : u # t => xfer'[u] = xfer[u]
<1>1. ZTypes /\ Fine(xfer[t]) /\ xfer[t] \in Transfers /\ xfer[t].pc = "receive"
  BY FineFacts DEF Receive, At
<1>2. Head(inbox) \in Datagrams /\ inbox' \in Seq(Datagrams) /\ UNCHANGED <<port, queued>>
  BY <1>1 DEF Receive, ZTypes
<1> DEFINE b == (Head(inbox).size = xfer[t].size)
           f == Head(inbox).by
           r1 == [xfer[t] EXCEPT !.pc = "close"]
           r2 == [r1 EXCEPT !.success = b]
           r3 == [r2 EXCEPT !.from = f]
<1>3. xfer' = [u \in Threads |-> xfer'[u]] /\ xfer'[t] = r3
  BY <1>1 DEF Receive, ZTypes
<1>4. \A u \in Threads : u # t => xfer'[u] = xfer[u]
  BY <1>1 DEF Receive, ZTypes
<1>5. b \in BOOLEAN /\ f \in Threads \cup {NoThread, OtherProcess}
  BY <1>2 DEF Datagrams
<1> HIDE DEF b, f
<1>6. xfer' \in [Threads -> Transfers]
  <2>1. r1 \in Transfers
    BY <1>1 DEF Transfers
  <2> HIDE DEF r1
  <2>2. r2 \in Transfers
    BY <1>5, <2>1 DEF Transfers
  <2> HIDE DEF r2
  <2>3. r3 \in Transfers
    BY <1>5, <2>2 DEF Transfers
  <2> QED BY <1>1, <1>3, <1>4, <2>3, OneChange DEF ZTypes
<1>7. xfer'[t].op = xfer[t].op /\ xfer'[t].sent = xfer[t].sent /\ xfer'[t].pc = "close"
      /\ xfer'[t].held = xfer[t].held /\ xfer'[t].from = f
  BY <1>1, <1>3 DEF Transfers
<1> HIDE DEF r1, r2, r3
<1>8. Fine(xfer'[t])
  BY <1>1, <1>7 DEF Fine
<1>9. \A u \in Threads : Fine(xfer[u])'
  BY <1>4, <1>8 DEF ZInv, Fine
<1>10. ZTypes'
  BY <1>1, <1>2, <1>6 DEF ZTypes
<1>11. \A u \in Threads : xfer'[u].op = xfer[u].op /\ xfer'[u].held = xfer[u].held
  BY <1>4, <1>7
<1>12. Sending'
  BY <1>1, <1>2, <1>11 DEF ZInv, Sending, ZTypes, Messages
<1>13. Bound'
  BY <1>2, <1>11 DEF ZInv, Bound
<1> QED BY <1>4, <1>7, <1>9, <1>10, <1>12, <1>13 DEF ZInv, f

(* The order of closing: the context is kept until the socket is closed    *)
(* and libzmq has sent what it queued.                                     *)
LEMMA CloseStep == ASSUME ZInv, NEW t \in Threads, Close(t)
                   PROVE  /\ ZInv' /\ Keeps(t) /\ xfer'[t].pc = xfer[t].pc
                          /\ xfer'[t].from = xfer[t].from
                          /\ inbox' \in {inbox, <<>>} /\ queued' = queued
<1>1. ZTypes /\ Fine(xfer[t]) /\ xfer[t] \in Transfers /\ xfer[t].pc = "close"
  BY FineFacts DEF Close, At
<1>2. PICK i \in DOMAIN CloseOrder :
        LET r == CloseOrder[i]
        IN  /\ r \in xfer[t].held /\ \A j \in 1..(i - 1) : CloseOrder[j] \notin xfer[t].held
            /\ r = "context" => ~DestroyWaits(t)
            /\ xfer' = [xfer EXCEPT ![t].held = @ \ {r}]
            /\ IF r = "socket" /\ port = t THEN port' = NoThread /\ inbox' = <<>>
                                           ELSE UNCHANGED <<port, inbox>>
  BY DEF Close
<1> DEFINE r == CloseOrder[i]
           h == xfer[t].held \ {r}
<1>3. xfer' = [xfer EXCEPT ![t].held = h] /\ queued' = queued
  BY <1>2 DEF Close
<1>4. r = "context" => ~DestroyWaits(t)
  BY <1>2
<1>5. IF r = "socket" /\ port = t THEN port' = NoThread /\ inbox' = <<>> ELSE UNCHANGED <<port, inbox>>
  BY <1>2
<1>6. h \in SUBSET Resources /\ r \in Resources
  BY <1>1, <1>2 DEF Transfers
<1>7. "context" \in h \/ "context" \notin xfer[t].held \/ r = "context"
  OBVIOUS
<1>8. "socket" \in h \/ "socket" \notin xfer[t].held \/ r = "socket"
  OBVIOUS
<1> HIDE DEF r, h
<1>9. xfer' \in [Threads -> Transfers]
  BY <1>1, <1>3, <1>6 DEF ZTypes, Transfers
<1>10. /\ xfer'[t].op = xfer[t].op /\ xfer'[t].sent = xfer[t].sent /\ xfer'[t].pc = "close"
       /\ xfer'[t].success = xfer[t].success /\ xfer'[t].size = xfer[t].size
       /\ xfer'[t].held = h /\ xfer'[t].from = xfer[t].from
       /\ \A u \in Threads : u # t => xfer'[u] = xfer[u]
  BY <1>1, <1>3 DEF ZTypes, Transfers
<1>11. Fine(xfer'[t])
  BY <1>1, <1>10 DEF Fine
<1>12. \A u \in Threads : Fine(xfer[u])'
  BY <1>10, <1>11 DEF ZInv, Fine
<1>13. ZTypes'
  <2>1. port' \in {port, NoThread} /\ inbox' \in {inbox, <<>>}
    BY <1>5
  <2>2. inbox' \in Seq(Datagrams)
    <3>1. <<>> \in Seq(Datagrams)
      OBVIOUS
    <3> QED BY <1>1, <2>1, <3>1 DEF ZTypes
  <2>3. port' \in Threads \cup {NoThread, OtherProcess}
    BY <1>1, <2>1 DEF ZTypes
  <2> QED BY <1>1, <1>3, <1>9, <2>2, <2>3 DEF ZTypes
<1>14. Sending'
  <2> SUFFICES ASSUME NEW m \in queued, m.op = "send"
               PROVE  xfer'[m.by].op = "send" /\ "context" \in xfer'[m.by].held /\ ~m.freed
    BY <1>3 DEF Sending
  <2>1. xfer[m.by].op = "send" /\ "context" \in xfer[m.by].held /\ ~m.freed /\ m.by \in Threads
    BY <1>1 DEF ZInv, Sending, ZTypes, Messages
  <2>2. m.by = t => "context" \in h
    BY <1>4, <1>7, <2>1 DEF DestroyWaits
  <2> QED BY <1>10, <2>1, <2>2
<1>15. Bound'
  <2> SUFFICES ASSUME port' \in Threads
               PROVE  xfer'[port'].op = "receive" /\ "socket" \in xfer'[port'].held
    BY DEF Bound
  <2>1. port' = port /\ (port = t => r # "socket")
    BY <1>5, ZmqAssumption
  <2>2. xfer[port].op = "receive" /\ "socket" \in xfer[port].held
    BY <2>1 DEF ZInv, Bound
  <2> QED BY <1>8, <1>10, <2>1, <2>2
<1> QED BY <1>1, <1>3, <1>5, <1>10, <1>12, <1>13, <1>14, <1>15 DEF ZInv, Keeps

LEMMA ZmqStepStep == ASSUME ZInv, NEW t \in Threads, ZmqStep(t) PROVE ZInv'
<1>1. CASE OpenContext(t)
  BY <1>1, OpensStep, FailsStep DEF OpenContext, At, Resources
<1>2. CASE OpenSocket(t)
  BY <1>2, OpensStep, FailsStep DEF OpenSocket, At, Resources
<1>3. CASE Connect(t)
  BY <1>3, EndpointStep, FailsStep DEF Connect, At
<1>4. CASE Bind(t)
  BY <1>4, EndpointStep, FailsStep DEF Bind, At
<1>5. CASE InitMessage(t)
  BY <1>5, OpensStep, FailsStep DEF InitMessage, At, Resources
<1> QED BY <1>1, <1>2, <1>3, <1>4, <1>5, SendStep, ReceiveStep, CloseStep DEF ZmqStep

LEMMA BeginStep ==
  ASSUME ZInv, NEW t \in Threads, At(t, "idle"), UNCHANGED <<port, inbox, queued>>,
         \/ \E size \in Sizes : SendData(t, size) \/ ReceiveData(t, size)
         \/ Begin(t, "transfer", "socket", 0)
  PROVE  ZInv'
<1>1. PICK op \in {"send", "receive", "transfer"}, pc \in {"context", "socket"}, size \in Nat :
        Begin(t, op, pc, size) /\ (op = "transfer" <=> pc = "socket")
  BY ZmqAssumption DEF SendData, ReceiveData
<1> DEFINE r == [op |-> op, pc |-> pc, held |-> {}, size |-> size, retries |-> 0,
                 sent |-> 0, success |-> FALSE, from |-> NoThread]
<1>2. Becomes(t, r)
  BY <1>1, BeginBecomes, FineFacts
<1>3. Fine(r)
  BY <1>1 DEF Fine
<1>4. r.op = op /\ r.held = {}
  OBVIOUS
<1> HIDE DEF r
<1>5. ZTypes /\ xfer[t].op = "none"
  BY FineFacts DEF Fine, At
<1>6. ZTypes'
  BY <1>2, <1>5 DEF ZTypes, Becomes
<1>7. \A u \in Threads : Fine(xfer[u])'
  BY <1>2, <1>3 DEF ZInv, Becomes, Fine
<1>8. Sending'
  BY <1>2, <1>5 DEF ZInv, Sending, ZTypes, Messages, Becomes
<1>9. Bound'
  BY <1>2, <1>5 DEF ZInv, Bound, Becomes
<1> QED BY <1>6, <1>7, <1>8, <1>9 DEF ZInv

(* A SendData that returns has no message left in the queue. *)
LEMMA ReturnStep == ASSUME ZInv, NEW t \in Threads, Return(t)
                    PROVE  /\ ZInv' /\ xfer'[t] = NoTransfer
                           /\ \A u \in Threads : u # t => xfer'[u] = xfer[u]
                           /\ \A m \in queued' : m.op = "transfer" \/ m \in queued
<1>1. ZTypes /\ xfer[t].held = {} /\ UNCHANGED <<port, inbox>>
  BY FineFacts DEF Return, Returned
<1>2. NoTransfer \in Transfers /\ Fine(NoTransfer)
  BY DEF NoTransfer, Transfers, Fine
<1>3. /\ xfer' \in [Threads -> Transfers] /\ xfer'[t] = NoTransfer
      /\ \A u \in Threads : u # t => xfer'[u] = xfer[u]
  BY <1>1, <1>2 DEF Return, ZTypes
<1>4. \A m \in queued : m.by = t => m.op = "transfer"
  BY <1>1 DEF ZInv, Sending, ZTypes, Messages
<1>5. ASSUME NEW m \in queued'
      PROVE  m \in Messages /\ (m.op = "transfer" \/ (m \in queued /\ m.by # t))
  <2>1. PICK k \in queued : m = IF k.by = t THEN [k EXCEPT !.freed = TRUE] ELSE k
    BY <1>5 DEF Return
  <2>2. CASE k.by = t
    BY <1>1, <1>4, <2>1, <2>2 DEF ZTypes, Messages
  <2>3. CASE k.by # t
    BY <1>1, <2>1, <2>3 DEF ZTypes, Messages
  <2> QED BY <2>2, <2>3
<1>6. ZTypes'
  BY <1>1, <1>3, <1>5 DEF ZTypes
<1>7. \A u \in Threads : Fine(xfer[u])'
  BY <1>2, <1>3 DEF ZInv, Fine
<1>8. Sending'
  BY <1>1, <1>3, <1>5 DEF ZInv, Sending, ZTypes, Messages
<1>9. Bound'
  BY <1>1, <1>3 DEF ZInv, Bound
<1> QED BY <1>3, <1>5, <1>6, <1>7, <1>8, <1>9 DEF ZInv

LEMMA IoStep == ASSUME ZInv, IoThread \/ OtherSends \/ OtherBinds PROVE ZInv'
<1>1. inbox' \in Seq(Datagrams)
  <2>1. ASSUME NEW m \in queued, Reaches(m) PROVE inbox' \in Seq(Datagrams)
    BY <2>1 DEF ZInv, ZTypes, Reaches, Messages, Datagrams
  <2>2. ASSUME NEW s \in Sizes, Reaches([by |-> OtherProcess, size |-> s]) PROVE inbox' \in Seq(Datagrams)
    BY <2>2, ZmqAssumption DEF ZInv, ZTypes, Reaches, Datagrams
  <2> QED BY <2>1, <2>2 DEF IoThread, OtherSends, OtherBinds, ZInv, ZTypes
<1>2. xfer' = xfer /\ queued' \subseteq queued
  BY DEF IoThread, OtherSends, OtherBinds
<1>3. port' = port \/ port' \in {NoThread, OtherProcess}
  BY DEF IoThread, OtherSends, OtherBinds
<1> QED BY <1>1, <1>2, <1>3, ZmqAssumption DEF ZInv, ZTypes, Sending, Bound, Fine

LEMMA QueuedFromZInv == ZInv => QueuedOnce
<1> SUFFICES ASSUME ZInv PROVE QueuedOnce
  OBVIOUS
<1>1. \A m \in queued : m.freed => m.op = "transfer"
  BY DEF ZInv, ZTypes, Sending, Messages
<1>2. ASSUME NEW t \in Threads
      PROVE  /\ xfer[t].sent <= 1
             /\ At(t, "close") /\ xfer[t].op # "receive" => (xfer[t].success <=> xfer[t].sent = 1)
  <2>1. Fine(xfer[t]) /\ xfer[t] \in Transfers
    BY FineFacts
  <2> QED BY <2>1 DEF Fine, At
<1> QED BY <1>1, <1>2 DEF QueuedOnce

(* ZmqTransport::Transfer, in any number of threads: a call leaves at most  *)
(* one message behind, the one it reported, however often it tries.        *)
THEOREM TransportQueuedOnce == TransportSpec => []QueuedOnce
<1>1. ZInv /\ [TransportNext(Threads)]_zmqVars => ZInv'
  <2> SUFFICES ASSUME ZInv, [TransportNext(Threads)]_zmqVars PROVE ZInv'
    OBVIOUS
  <2>1. ASSUME NEW t \in Threads, Transfer(t) PROVE ZInv'
    BY <2>1, BeginStep DEF Transfer
  <2>2. CASE UNCHANGED zmqVars
    BY <2>2 DEF zmqVars, ZInv, ZTypes, Sending, Bound, Fine
  <2> QED BY <2>1, <2>2, ZmqStepStep, ReturnStep, IoStep DEF TransportNext
<1> QED BY <1>1, InitZInv, QueuedFromZInv, PTL DEF TransportSpec
-----------------------------------------------------------------------------
(* The hook.  A call holds g_api_mutex while it is under way, so that one  *)
(* call is, and only that one has a transfer.  No socket of the process is *)
(* bound while a message of the process waits to be sent: every datagram   *)
(* it receives is another process's.                                       *)

HookCalls == [fn: Hooks \cup {"none"}, pc: {"idle", "rpc", "driver", "xfer"},
              ptr: Ptrs \cup {NoPtr}]
Foreign == [by: {OtherProcess}, size: Nat]

HTypes == /\ call \in [Threads -> HookCalls] /\ g_api_mutex \in Threads \cup {NoThread}
          /\ hooked \subseteq Hooks
Locked == \A t \in Threads :
            /\ call[t].pc # "idle" <=> g_api_mutex = t
            /\ call[t].pc = "idle" <=> call[t].fn = "none"
            /\ call[t].pc = "xfer" <=> xfer[t].op # "none"
            /\ call[t].pc = "xfer" => call[t].fn # "cuMemFree_v2"
Outside == /\ inbox \in Seq(Foreign) /\ \A m \in queued : m.op = "send"
           /\ \A t \in Threads : xfer[t].op # "transfer" /\ xfer[t].from \in {NoThread, OtherProcess}
Nameless == g_function_name_map = {}

(* A pointer is in one place: with the application, with a call that frees *)
(* it, or lost to one that threw.                                          *)
Freeing == { u \in Threads : call[u].fn = "cuMemFree_v2" }
Pointers == /\ FreedUnlessThrown /\ owned \cap thrown = {}
            /\ \A t \in Freeing : call[t].ptr \notin owned \cup thrown

HInv == ZInv /\ HTypes /\ Locked /\ Outside /\ Nameless /\ Pointers

LEMMA InitHInv == HookInit /\ ZmqInit => HInv
<1> SUFFICES ASSUME HookInit, ZmqInit PROVE HInv
  OBVIOUS
<1>1. NoCall \in HookCalls /\ NoCall.pc = "idle" /\ NoCall.fn = "none"
  BY DEF NoCall, HookCalls
<1>2. \A t \in Threads : call[t] = NoCall
  BY DEF HookInit
<1>3. HTypes
  BY <1>1 DEF HTypes, HookInit
<1>4. \A t \in Threads : xfer[t].op = "none" /\ xfer[t].from = NoThread
  BY DEF ZmqInit, NoTransfer
<1>5. Locked
  BY <1>1, <1>2, <1>4, ZmqAssumption DEF Locked, HookInit
<1>6. Outside
  BY <1>4 DEF Outside, ZmqInit
<1>7. Pointers
  BY <1>1, <1>2 DEF Pointers, FreedUnlessThrown, Freeing, HookInit
<1> QED BY <1>3, <1>5, <1>6, <1>7, InitZInv DEF HInv, Nameless, HookInit

(* What the steps of a transfer do, as far as the hook is concerned *)
Moves(t) ==
  /\ Keeps(t) /\ queued' \subseteq queued \cup {Message(t)}
  /\ \/ xfer'[t].from = xfer[t].from
     \/ inbox # <<>> /\ xfer'[t].from = Head(inbox).by
  /\ inbox' \in {inbox, <<>>} \/ (inbox # <<>> /\ inbox' = Tail(inbox))

LEMMA SendMoves == ASSUME ZInv, NEW t \in Threads, Send(t) PROVE Moves(t)
<1>1. ZTypes /\ xfer[t] \in Transfers /\ inbox' = inbox /\ queued' \subseteq queued \cup {Message(t)}
  BY FineFacts DEF Send
<1>2. CASE Retry(t)
  BY <1>1, <1>2, RetryKeeps DEF Moves
<1>3. CASE Goes(t, "close")
  BY <1>1, <1>3, GoesKeeps DEF Moves
<1>4. CASE xfer' = [xfer EXCEPT ![t].sent = @ + 1, ![t].success = TRUE, ![t].pc = "close",
                      ![t].held = IF xfer[t].op = "transfer" THEN @ \ {"message"} ELSE @]
  <2>1. \A u \in Threads : u # t => xfer'[u] = xfer[u]
    BY <1>1, <1>4 DEF ZTypes
  <2>2. xfer'[t].op = xfer[t].op /\ xfer'[t].size = xfer[t].size /\ xfer'[t].from = xfer[t].from
    BY <1>1, <1>4 DEF ZTypes, Transfers
  <2> QED BY <1>1, <2>1, <2>2 DEF Moves, Keeps
<1> QED BY <1>2, <1>3, <1>4 DEF Send

LEMMA ReceiveMoves == ASSUME ZInv, NEW t \in Threads, Receive(t) PROVE Moves(t)
<1>1. ZTypes /\ xfer[t] \in Transfers /\ inbox # <<>> /\ inbox' = Tail(inbox) /\ queued' = queued
  BY FineFacts DEF Receive
<1>2. xfer'[t].from = Head(inbox).by /\ \A u \in Threads : u # t => xfer'[u] = xfer[u]
  BY ReceiveStep
<1>3. xfer'[t].op = xfer[t].op /\ xfer'[t].size = xfer[t].size
  BY <1>1 DEF Receive, ZTypes, Transfers
<1> QED BY <1>1, <1>2, <1>3 DEF Moves, Keeps

LEMMA TransferMoves ==
  ASSUME ZInv, NEW t \in Threads, ZmqStep(t) \/ ReceiveFails(t) PROVE ZInv' /\ Moves(t)
<1>1. ZTypes
  BY FineFacts
<1>2. ReceiveFails(t) => ZInv'
  BY FailsStep DEF ReceiveFails, At
<1> SUFFICES Moves(t)
  BY <1>2, ZmqStepStep
<1>3. CASE OpenContext(t)
  BY <1>1, <1>3, OpensKeeps, GoesKeeps DEF OpenContext, Moves, Resources
<1>4. CASE OpenSocket(t)
  BY <1>1, <1>4, OpensKeeps, GoesKeeps DEF OpenSocket, Moves, Resources
<1>5. CASE Connect(t)
  BY <1>1, <1>5, GoesKeeps DEF Connect, Moves
<1>6. CASE Bind(t)
  BY <1>1, <1>6, GoesKeeps DEF Bind, Moves
<1>7. CASE InitMessage(t)
  BY <1>1, <1>7, OpensKeeps, RetryKeeps, GoesKeeps DEF InitMessage, Moves, Resources
<1>8. CASE Close(t)
  BY <1>8, CloseStep DEF Moves
<1>9. CASE ReceiveFails(t)
  BY <1>1, <1>9, GoesKeeps DEF ReceiveFails, Moves
<1> QED BY <1>3, <1>4, <1>5, <1>6, <1>7, <1>8, <1>9, SendMoves, ReceiveMoves DEF ZmqStep
-----------------------------------------------------------------------------
(* The steps of the hook *)

(* A step of a transfer: what it queues is a send, what it takes foreign. *)
LEMMA TransferStep ==
  ASSUME HInv, NEW t \in Threads, ZmqStep(t) \/ ReceiveFails(t), UNCHANGED hookVars
  PROVE  HInv'
<1>1. ZInv /\ ZInv' /\ Moves(t)
  BY TransferMoves DEF HInv
<1>2. \A u \in Threads : xfer'[u].op = xfer[u].op
  BY <1>1 DEF Moves, Keeps
<1>3. HTypes' /\ Nameless' /\ Pointers'
  BY DEF HInv, hookVars, HTypes, Nameless, Pointers, FreedUnlessThrown, Freeing
<1>4. Locked'
  BY <1>2 DEF HInv, hookVars, Locked
<1>5. \A m \in queued' : m.op = "send"
  <2>1. queued' \subseteq Messages /\ Message(t).op = xfer[t].op /\ xfer[t].op # "transfer"
    BY <1>1 DEF ZInv, ZTypes, Message, HInv, Outside
  <2>2. ASSUME NEW m \in queued' PROVE m.op = "send"
    <3>1. m.op \in {"send", "transfer"}
      BY <2>1 DEF Messages
    <3> QED BY <1>1, <2>1, <3>1 DEF Moves, HInv, Outside
  <2> QED BY <2>2
<1>6. inbox' \in Seq(Foreign) /\ (inbox # <<>> => Head(inbox).by = OtherProcess)
  <2>1. inbox \in Seq(Foreign) /\ <<>> \in Seq(Foreign)
    BY DEF HInv, Outside
  <2>2. inbox # <<>> => Head(inbox) \in Foreign /\ Tail(inbox) \in Seq(Foreign)
    BY <2>1
  <2>3. inbox' \in Seq(Foreign)
    BY <1>1, <2>1, <2>2 DEF Moves
  <2> QED BY <2>2, <2>3 DEF Foreign
<1>7. \A u \in Threads : xfer'[u].from \in {NoThread, OtherProcess}
  BY <1>1, <1>6 DEF HInv, Outside, Moves, Keeps
<1>8. Outside'
  BY <1>2, <1>5, <1>6, <1>7 DEF HInv, Outside
<1> QED BY <1>1, <1>3, <1>4, <1>8 DEF HInv

(* The I/O thread cannot deliver what the process sent: a bound port and a *)
(* queued message would be those of two calls that are under way.          *)
LEMMA DeliveryStep ==
  ASSUME HInv, IoThread \/ OtherSends \/ OtherBinds, UNCHANGED hookVars
  PROVE  HInv'
<1>1. ZInv /\ ZInv'
  BY IoStep DEF HInv
<1>2. xfer' = xfer /\ queued' \subseteq queued
  BY DEF IoThread, OtherSends, OtherBinds
<1>3. HTypes' /\ Nameless' /\ Pointers' /\ Locked'
  BY <1>2 DEF HInv, hookVars, HTypes, Nameless, Pointers, FreedUnlessThrown, Freeing, Locked
<1>4. port \notin Threads \/ queued = {}
  <2> SUFFICES ASSUME port \in Threads, NEW m \in queued PROVE FALSE
    OBVIOUS
  <2>1. m.op = "send" /\ m.by \in Threads
    BY <1>1 DEF HInv, Outside, ZInv, ZTypes, Messages
  <2>2. xfer[m.by].op = "send" /\ xfer[port].op = "receive"
    BY <1>1, <2>1 DEF ZInv, Sending, Bound
  <2>3. g_api_mutex = m.by /\ g_api_mutex = port
    BY <2>1, <2>2 DEF HInv, Locked
  <2> QED BY <2>2, <2>3
<1>5. inbox' = inbox \/ \E s \in Sizes : Reaches([by |-> OtherProcess, size |-> s])
  BY <1>4 DEF IoThread, OtherSends, OtherBinds
<1>6. inbox' \in Seq(Foreign)
  <2>1. inbox \in Seq(Foreign)
    BY DEF HInv, Outside
  <2>2. ASSUME NEW s \in Sizes, Reaches([by |-> OtherProcess, size |-> s])
        PROVE  inbox' \in Seq(Foreign)
    BY <2>1, <2>2, ZmqAssumption DEF Reaches, Foreign
  <2> QED BY <1>5, <2>1, <2>2
<1>7. Outside'
  BY <1>2, <1>6 DEF HInv, Outside
<1> QED BY <1>1, <1>3, <1>7 DEF HInv

(* Entering: no other call is under way.  Leaving: none is any more. *)
LEMMA EnterFacts ==
  ASSUME HInv, NEW t \in Threads, NEW fn \in Hooks, NEW pc \in {"rpc", "xfer"},
         NEW p \in Ptrs \cup {NoPtr}, Enter(t, fn, pc, p)
  PROVE  /\ call' \in [Threads -> HookCalls] /\ g_api_mutex' = t /\ t # NoThread
         /\ call[t].pc = "idle" /\ call[t].fn = "none" /\ xfer[t].op = "none"
         /\ call'[t].fn = fn /\ call'[t].pc = pc /\ call'[t].ptr = p
         /\ \A u \in Threads : u # t => call'[u] = call[u]
         /\ \A u \in Threads : call[u].pc = "idle" /\ call[u].fn = "none"
<1>1. [fn |-> fn, pc |-> pc, ptr |-> p] \in HookCalls
  BY DEF HookCalls
<1>2. call' \in [Threads -> HookCalls] /\ \A u \in Threads : u # t => call'[u] = call[u]
  BY <1>1 DEF Enter, HInv, HTypes
<1>3. call'[t] = [fn |-> fn, pc |-> pc, ptr |-> p]
  BY DEF Enter, HInv, HTypes
<1>4. \A u \in Threads : call[u].pc = "idle" /\ call[u].fn = "none"
  BY ZmqAssumption DEF Enter, HInv, Locked
<1>5. xfer[t].op = "none"
  BY <1>4 DEF HInv, Locked
<1> QED BY <1>2, <1>3, <1>4, <1>5, ZmqAssumption DEF Enter

LEMMA LeaveFacts ==
  ASSUME HInv, NEW t \in Threads, call[t].pc # "idle", Leave(t)
  PROVE  /\ call' \in [Threads -> HookCalls] /\ g_api_mutex' = NoThread
         /\ g_api_mutex = t
         /\ \A u \in Threads : /\ call'[u].pc = "idle" /\ call'[u].fn = "none"
                               /\ u # t => call[u].pc = "idle" /\ call[u].fn = "none"
<1>1. NoCall \in HookCalls /\ NoCall.pc = "idle" /\ NoCall.fn = "none"
  BY DEF HookCalls, NoCall
<1>2. call' \in [Threads -> HookCalls] /\ \A u \in Threads : u # t => call'[u] = call[u]
  BY <1>1 DEF Leave, HInv, HTypes
<1>3. call'[t] = NoCall
  BY DEF Leave, HInv, HTypes
<1>4. g_api_mutex = t
  BY DEF HInv, Locked
<1>5. \A u \in Threads : u # t => call[u].pc = "idle" /\ call[u].fn = "none"
  BY <1>4 DEF HInv, Locked
<1> QED BY <1>1, <1>2, <1>3, <1>4, <1>5 DEF Leave

(* A step that leaves the transfers alone *)
LEMMA Aside == ASSUME HInv, UNCHANGED zmqVars PROVE ZInv' /\ Outside'
  BY DEF HInv, zmqVars, ZInv, ZTypes, Sending, Bound, Fine, Outside
(* InstallHook, UninstallHook, a blocking launcher and cuModuleGetFunction, *)
(* which is not hooked                                                      *)
LEMMA TableStep ==
  ASSUME HInv, \/ InstallHook \/ UninstallHook \/ LauncherBlocks
               \/ \E f \in Functions : cuModuleGetFunction(f)
  PROVE  HInv'
<1>1. ZInv' /\ Outside'
  BY Aside DEF InstallHook, UninstallHook, LauncherBlocks, cuModuleGetFunction
<1>2. hooked' \subseteq Hooks
  BY DEF InstallHook, UninstallHook, LauncherBlocks, cuModuleGetFunction, HInv, HTypes
<1>3. g_function_name_map' = g_function_name_map
  <2>1. "cuModuleGetFunction" \notin hooked
    BY DEF HInv, HTypes, Hooks
  <2> QED BY <2>1 DEF InstallHook, UninstallHook, LauncherBlocks, cuModuleGetFunction
<1>4. UNCHANGED <<g_api_mutex, owned, driver, thrown, call, xfer>>
  BY DEF InstallHook, UninstallHook, LauncherBlocks, cuModuleGetFunction, zmqVars
<1> QED BY <1>1, <1>2, <1>3, <1>4 DEF HInv, HTypes, Locked, Nameless, Pointers, FreedUnlessThrown, Freeing

(* No launch is forwarded, as no function has a name. *)
LEMMA LaunchStep ==
  ASSUME HInv, NEW t \in Threads, NEW f \in Functions, Hooked_cuLaunchKernel(t, f) PROVE HInv'
<1>1. f \notin g_function_name_map
  BY DEF HInv, Nameless
<1>2. UNCHANGED <<g_api_mutex, hooked, owned, driver, thrown, call, g_function_name_map, zmqVars>>
  BY <1>1 DEF Hooked_cuLaunchKernel
<1>3. ZInv' /\ Outside'
  BY <1>2, Aside
<1> QED BY <1>2, <1>3 DEF HInv, HTypes, Locked, Nameless, Pointers, FreedUnlessThrown, Freeing, zmqVars

LEMMA AllocStep == ASSUME HInv, NEW t \in Threads, Hooked_cuMemAlloc(t) PROVE HInv'
<1>1. ZInv' /\ Outside' /\ UNCHANGED <<hooked, owned, driver, thrown, g_function_name_map, xfer>>
  BY Aside DEF Hooked_cuMemAlloc, zmqVars
<1>2. /\ call' \in [Threads -> HookCalls] /\ g_api_mutex' = t /\ t # NoThread
      /\ xfer[t].op = "none" /\ call'[t].fn = "cuMemAlloc_v2" /\ call'[t].pc = "rpc"
      /\ \A u \in Threads : u # t => call'[u] = call[u]
      /\ \A u \in Threads : call[u].pc = "idle" /\ call[u].fn = "none"
  BY EnterFacts DEF Hooked_cuMemAlloc, Hooks
<1>3. Locked'
  BY <1>1, <1>2 DEF HInv, Locked
<1>4. Freeing = {} /\ Freeing' = {}
  BY <1>2 DEF Freeing
<1>5. Pointers'
  BY <1>1, <1>4 DEF HInv, Pointers, FreedUnlessThrown, Freeing
<1> QED BY <1>1, <1>2, <1>3, <1>5 DEF HInv, HTypes, Nameless

LEMMA FreeStep ==
  ASSUME HInv, NEW t \in Threads, NEW p \in Ptrs, Hooked_cuMemFree(t, p) PROVE HInv'
<1>1. /\ ZInv' /\ Outside' /\ UNCHANGED <<hooked, driver, thrown, g_function_name_map, xfer>>
      /\ p \in owned /\ owned' = owned \ {p}
  BY Aside DEF Hooked_cuMemFree, zmqVars
<1>2. /\ call' \in [Threads -> HookCalls] /\ g_api_mutex' = t /\ t # NoThread
      /\ xfer[t].op = "none" /\ call'[t].fn = "cuMemFree_v2" /\ call'[t].pc = "rpc" /\ call'[t].ptr = p
      /\ \A u \in Threads : u # t => call'[u] = call[u]
      /\ \A u \in Threads : call[u].pc = "idle" /\ call[u].fn = "none"
  BY EnterFacts DEF Hooked_cuMemFree, Hooks
<1>3. Locked'
  BY <1>1, <1>2 DEF HInv, Locked
<1>4. Freeing = {} /\ Freeing' = {t}
  BY <1>2 DEF Freeing
<1>5. driver = owned \cup thrown /\ owned \cap thrown = {}
  BY <1>4 DEF HInv, Pointers, FreedUnlessThrown, Freeing
<1>6. driver' = owned' \cup thrown' \cup {p}
  BY <1>1, <1>5
<1>7. FreedUnlessThrown'
  BY <1>2, <1>4, <1>6 DEF FreedUnlessThrown, Freeing
<1>8. Pointers'
  BY <1>1, <1>2, <1>4, <1>5, <1>7 DEF Pointers
<1> QED BY <1>1, <1>2, <1>3, <1>8 DEF HInv, HTypes, Nameless

(* The pointers while t is the one call under way *)
LEMMA OneFree ==
  ASSUME HInv, NEW t \in Threads, \A u \in Threads : u # t => call[u].fn = "none"
  PROVE  /\ driver = owned \cup thrown \cup (IF call[t].fn = "cuMemFree_v2" THEN {call[t].ptr} ELSE {})
         /\ owned \cap thrown = {}
         /\ call[t].fn = "cuMemFree_v2" => call[t].ptr \notin owned \cup thrown
<1>1. Freeing = IF call[t].fn = "cuMemFree_v2" THEN {t} ELSE {}
  BY DEF Freeing
<1>2. driver = owned \cup thrown \cup { call[u].ptr : u \in Freeing }
  BY DEF HInv, Pointers, FreedUnlessThrown, Freeing
<1>3. { call[u].ptr : u \in Freeing } = IF call[t].fn = "cuMemFree_v2" THEN {call[t].ptr} ELSE {}
  BY <1>1
<1> QED BY <1>1, <1>2, <1>3 DEF HInv, Pointers

LEMMA LeftPointers ==
  ASSUME \A u \in Threads : call'[u].fn = "none", driver' = owned' \cup thrown', owned' \cap thrown' = {}
  PROVE  Pointers'
<1>1. Freeing' = {}
  BY DEF Freeing
<1> QED BY <1>1 DEF Pointers, FreedUnlessThrown, Freeing

LEMMA RpcStep == ASSUME HInv, NEW t \in Threads, Rpc(t) PROVE HInv'
<1>1. /\ ZInv' /\ Outside' /\ call[t].pc = "rpc"
      /\ UNCHANGED <<hooked, owned, driver, g_function_name_map, xfer>>
  BY Aside DEF Rpc, zmqVars
<1>2. ASSUME Leave(t), driver = owned \cup thrown', owned \cap thrown' = {} PROVE HInv'
  <2>1. /\ call' \in [Threads -> HookCalls] /\ g_api_mutex' = NoThread /\ g_api_mutex = t
        /\ \A u \in Threads : /\ call'[u].pc = "idle" /\ call'[u].fn = "none"
                              /\ u # t => call[u].pc = "idle" /\ call[u].fn = "none"
    BY <1>1, <1>2, LeaveFacts
  <2>2. Pointers'
    BY <1>1, <1>2, <2>1, LeftPointers
  <2>3. Locked'
    BY <1>1, <2>1, ZmqAssumption DEF HInv, Locked
  <2> QED BY <1>1, <2>1, <2>2, <2>3 DEF HInv, HTypes, Nameless
<1>3. \A u \in Threads : u # t => call[u].fn = "none"
  BY <1>1 DEF HInv, Locked
<1>4. /\ driver = owned \cup thrown \cup (IF call[t].fn = "cuMemFree_v2" THEN {call[t].ptr} ELSE {})
      /\ owned \cap thrown = {}
      /\ call[t].fn = "cuMemFree_v2" => call[t].ptr \notin owned \cup thrown
  BY <1>3, OneFree
<1>5. CASE Throws(t)
  <2>1. Leave(t) /\ thrown' = IF call[t].fn = "cuMemFree_v2" THEN thrown \cup {call[t].ptr} ELSE thrown
    BY <1>5 DEF Throws
  <2>2. driver = owned \cup thrown' /\ owned \cap thrown' = {}
    BY <1>4, <2>1
  <2> QED BY <1>2, <2>1, <2>2
<1>6. CASE Answered(t) /\ call[t].fn = "cuLaunchKernel"
  <2>1. Leave(t) /\ thrown' = thrown
    BY <1>6 DEF Answered
  <2>2. driver = owned \cup thrown'
    BY <1>4, <1>6, <2>1
  <2> QED BY <1>2, <1>4, <2>1, <2>2
<1>7. CASE Answered(t) /\ call[t].fn # "cuLaunchKernel"
  <2>1. call' = [call EXCEPT ![t].pc = "driver"] /\ UNCHANGED <<g_api_mutex, thrown>>
    BY <1>7 DEF Answered
  <2>2. call' \in [Threads -> HookCalls]
    BY <2>1 DEF HInv, HTypes, HookCalls
  <2>3. \A u \in Threads : /\ call'[u].fn = call[u].fn /\ call'[u].ptr = call[u].ptr
                           /\ u # t => call'[u].pc = call[u].pc
    BY <2>1 DEF HInv, HTypes, HookCalls
  <2>4. call'[t].pc = "driver"
    BY <2>1 DEF HInv, HTypes, HookCalls
  <2>5. Locked'
    BY <1>1, <2>1, <2>3, <2>4 DEF HInv, Locked
  <2>6. Freeing' = Freeing
    BY <2>3 DEF Freeing
  <2>7. { call[u].ptr : u \in Freeing }' = { call[u].ptr : u \in Freeing }
    BY <2>3, <2>6 DEF Freeing
  <2>8. Pointers'
    BY <1>1, <2>1, <2>3, <2>6, <2>7 DEF HInv, Pointers, FreedUnlessThrown, Freeing
  <2> QED BY <1>1, <2>1, <2>2, <2>5, <2>8 DEF HInv, HTypes, Nameless
<1> QED BY <1>5, <1>6, <1>7 DEF Rpc
LEMMA OriginalStep == ASSUME HInv, NEW t \in Threads, Original(t) PROVE HInv'
<1>1. /\ ZInv' /\ Outside' /\ call[t].pc = "driver" /\ Leave(t)
      /\ UNCHANGED <<hooked, thrown, g_function_name_map, xfer>>
  BY Aside DEF Original, zmqVars
<1>2. /\ call' \in [Threads -> HookCalls] /\ g_api_mutex' = NoThread /\ g_api_mutex = t
      /\ \A u \in Threads : /\ call'[u].pc = "idle" /\ call'[u].fn = "none"
                            /\ u # t => call[u].pc = "idle" /\ call[u].fn = "none"
  BY <1>1, LeaveFacts
<1>3. /\ driver = owned \cup thrown \cup (IF call[t].fn = "cuMemFree_v2" THEN {call[t].ptr} ELSE {})
      /\ owned \cap thrown = {}
      /\ call[t].fn = "cuMemFree_v2" => call[t].ptr \notin owned \cup thrown
  BY <1>2, OneFree
<1>4. driver' = owned' \cup thrown' /\ owned' \cap thrown' = {}
  <2>1. CASE call[t].fn = "cuMemFree_v2" /\ driver' = driver \ {call[t].ptr} /\ UNCHANGED owned
    BY <1>1, <1>3, <2>1
  <2>2. ASSUME call[t].fn = "cuMemAlloc_v2", NEW p \in Ptrs, DriverAllocates(p)
        PROVE  driver' = owned' \cup thrown' /\ owned' \cap thrown' = {}
    BY <1>1, <1>3, <2>2 DEF DriverAllocates
  <2>3. CASE call[t].fn = "cuMemAlloc_v2" /\ UNCHANGED <<driver, owned>>
    BY <1>1, <1>3, <2>3
  <2> QED BY <2>1, <2>2, <2>3 DEF Original
<1>5. Pointers'
  BY <1>2, <1>4, LeftPointers
<1>6. Locked'
  BY <1>1, <1>2, ZmqAssumption DEF HInv, Locked
<1> QED BY <1>1, <1>2, <1>5, <1>6 DEF HInv, HTypes, Nameless

LEMMA UnhookedStep == ASSUME HInv, NEW p \in Ptrs, Unhooked(p) PROVE HInv'
<1>1. /\ ZInv' /\ Outside'
      /\ UNCHANGED <<g_api_mutex, hooked, thrown, call, g_function_name_map, xfer>>
  BY Aside DEF Unhooked, zmqVars
<1> DEFINE F == { call[u].ptr : u \in Freeing }
<1>2. F' = F /\ Freeing' = Freeing
  BY <1>1 DEF Freeing
<1>3. driver = owned \cup thrown \cup F /\ owned \cap thrown = {} /\ F \cap (owned \cup thrown) = {}
  BY DEF HInv, Pointers, FreedUnlessThrown, Freeing
<1>4. driver' = owned' \cup thrown' \cup F /\ owned' \cap thrown' = {} /\ F \cap (owned' \cup thrown') = {}
  <2>1. CASE p \notin driver /\ driver' = driver \cup {p} /\ owned' = owned \cup {p}
    <3> HIDE DEF F
    <3> QED BY <1>1, <1>3, <2>1
  <2>2. CASE p \in owned /\ owned' = owned \ {p} /\ driver' = driver \ {p}
    <3> HIDE DEF F
    <3> QED BY <1>1, <1>3, <2>2
  <2> QED BY <2>1, <2>2 DEF Unhooked, DriverAllocates
<1>5. \A u \in Freeing : call[u].ptr \notin owned' \cup thrown'
  BY <1>4
<1>6. FreedUnlessThrown'
  BY <1>2, <1>4 DEF FreedUnlessThrown, Freeing
<1>7. Pointers'
  BY <1>1, <1>2, <1>4, <1>5, <1>6 DEF Pointers
<1> QED BY <1>1, <1>7 DEF HInv, HTypes, Locked, Nameless

(* A copy starts one transfer, with nothing opened and nothing received. *)
LEMMA CopyStep ==
  ASSUME HInv, NEW t \in Threads, NEW s \in Sizes,
         Hooked_cuMemcpyHtoD(t, s) \/ Hooked_cuMemcpyDtoH(t, s)
  PROVE  HInv'
<1>1. /\ UNCHANGED <<hooked, owned, driver, thrown, g_function_name_map, port, inbox, queued>>
      /\ SendData(t, s) \/ ReceiveData(t, s)
  BY DEF Hooked_cuMemcpyHtoD, Hooked_cuMemcpyDtoH
<1>2. PICK fn \in {"cuMemcpyHtoD_v2", "cuMemcpyDtoH_v2"} : Enter(t, fn, "xfer", NoPtr)
  BY DEF Hooked_cuMemcpyHtoD, Hooked_cuMemcpyDtoH
<1>3. /\ call' \in [Threads -> HookCalls] /\ g_api_mutex' = t /\ t # NoThread
      /\ xfer[t].op = "none" /\ call'[t].fn = fn /\ call'[t].pc = "xfer"
      /\ \A u \in Threads : u # t => call'[u] = call[u]
      /\ \A u \in Threads : call[u].pc = "idle" /\ call[u].fn = "none"
  BY <1>2, EnterFacts DEF Hooks
<1>4. ZInv /\ ZTypes /\ At(t, "idle") /\ s \in Nat
  BY <1>3, FineFacts, ZmqAssumption DEF HInv, Fine, At
<1>5. ZInv'
  BY <1>1, <1>4, BeginStep
<1>6. /\ xfer'[t].op \in {"send", "receive"} /\ xfer'[t].from = NoThread
      /\ \A u \in Threads : u # t => xfer'[u] = xfer[u]
  <2>1. PICK op \in {"send", "receive"} : Begin(t, op, "context", s)
    BY <1>1 DEF SendData, ReceiveData
  <2>2. Becomes(t, [op |-> op, pc |-> "context", held |-> {}, size |-> s, retries |-> 0,
                    sent |-> 0, success |-> FALSE, from |-> NoThread])
    BY <1>4, <2>1, BeginBecomes
  <2> QED BY <2>2 DEF Becomes
<1>7. Outside'
  BY <1>1, <1>6 DEF HInv, Outside
<1>8. Locked'
  BY <1>3, <1>6 DEF HInv, Locked
<1>9. Freeing = {} /\ Freeing' = {}
  BY <1>3 DEF Freeing
<1>10. Pointers'
  BY <1>1, <1>9 DEF HInv, Pointers, FreedUnlessThrown, Freeing
<1> QED BY <1>1, <1>3, <1>5, <1>7, <1>8, <1>10 DEF HInv, HTypes, Nameless

LEMMA CopyReturnStep == ASSUME HInv, NEW t \in Threads, CopyReturns(t) PROVE HInv'
<1>1. /\ UNCHANGED <<hooked, owned, driver, thrown, g_function_name_map>>
      /\ call[t].pc = "xfer" /\ Return(t) /\ Leave(t) /\ inbox' = inbox
  BY DEF CopyReturns, Return
<1>2. /\ ZInv' /\ xfer'[t].op = "none" /\ xfer'[t].from = NoThread
      /\ \A u \in Threads : u # t => xfer'[u] = xfer[u]
      /\ \A m \in queued' : m.op = "transfer" \/ m \in queued
  BY <1>1, ReturnStep DEF HInv, NoTransfer
<1>3. /\ call' \in [Threads -> HookCalls] /\ g_api_mutex' = NoThread /\ g_api_mutex = t
      /\ \A u \in Threads : /\ call'[u].pc = "idle" /\ call'[u].fn = "none"
                            /\ u # t => call[u].pc = "idle" /\ call[u].fn = "none"
  BY <1>1, LeaveFacts
<1>4. queued' \subseteq queued
  <2>1. xfer[t].held = {} /\ ZInv /\ queued \subseteq Messages
    BY <1>1 DEF Return, Returned, HInv, ZInv, ZTypes
  <2>2. \A m \in queued : m.op = "send" /\ m.by # t
    BY <2>1 DEF HInv, Outside, ZInv, Sending
  <2> QED BY <1>1, <2>2 DEF Return
<1>5. Outside'
  BY <1>1, <1>2, <1>4 DEF HInv, Outside
<1>6. Locked'
  BY <1>2, <1>3, ZmqAssumption DEF HInv, Locked
<1>7. call[t].fn # "cuMemFree_v2"
  BY <1>1 DEF HInv, Locked
<1>8. driver = owned \cup thrown /\ owned \cap thrown = {}
  BY <1>3, <1>7, OneFree
<1>9. Pointers'
  BY <1>1, <1>3, <1>8, LeftPointers
<1> QED BY <1>1, <1>2, <1>3, <1>5, <1>6, <1>9 DEF HInv, HTypes, Nameless

LEMMA HookStepStep == HInv /\ [HookNext]_vars => HInv'
<1> SUFFICES ASSUME HInv, [HookNext]_vars PROVE HInv'
  OBVIOUS
<1>1. CASE UNCHANGED vars
  <2>1. UNCHANGED zmqVars /\ UNCHANGED hookVars
    BY <1>1 DEF vars
  <2>2. ZInv' /\ Outside'
    BY <2>1, Aside
  <2> QED BY <2>1, <2>2 DEF HInv, hookVars, zmqVars, HTypes, Locked, Nameless, Pointers,
                            FreedUnlessThrown, Freeing
<1>2. CASE InstallHook \/ UninstallHook \/ LauncherBlocks \/ \E f \in Functions : cuModuleGetFunction(f)
  BY <1>2, TableStep
<1>3. CASE (IoThread \/ OtherSends \/ OtherBinds) /\ UNCHANGED hookVars
  BY <1>3, DeliveryStep
<1>4. CASE \E p \in Ptrs : Unhooked(p)
  BY <1>4, UnhookedStep
<1>5. ASSUME NEW t \in Threads, HookStep(t) \/ (ReceiveFails(t) /\ UNCHANGED hookVars) PROVE HInv'
  BY <1>5, RpcStep, OriginalStep, CopyReturnStep, TransferStep DEF HookStep
<1>6. ASSUME NEW t \in Threads,
             \/ Hooked_cuMemAlloc(t)
             \/ \E f \in Functions : Hooked_cuLaunchKernel(t, f)
             \/ \E p \in Ptrs : Hooked_cuMemFree(t, p)
             \/ \E s \in Sizes : Hooked_cuMemcpyHtoD(t, s) \/ Hooked_cuMemcpyDtoH(t, s)
      PROVE  HInv'
  BY <1>6, AllocStep, LaunchStep, FreeStep, CopyStep
<1> QED BY <1>1, <1>2, <1>3, <1>4, <1>5, <1>6 DEF HookNext

LEMMA HookInvariant == HookSpec => []HInv
  BY InitHInv, HookStepStep, PTL DEF HookSpec

-----------------------------------------------------------------------------
(* For any number of threads of the application and of datagrams of others, *)
(* a copy from the device never takes what a copy to the device sent: the   *)
(* mutex keeps the two transfers apart, and the first leaves nothing queued. *)
THEOREM OwnDataCorrect == HookSpec => []OwnDataNeverReceived
<1>1. HInv => OwnDataNeverReceived
  BY DEF HInv, Outside, OwnDataNeverReceived
<1> QED BY <1>1, HookInvariant, PTL

(* The driver holds exactly what the application holds, is freeing, or lost *)
(* to a cuMemFree whose call of the launcher threw, whichever hooks were    *)
(* installed and whenever they are removed.                                 *)
THEOREM FreedCorrect == HookSpec => []FreedUnlessThrown
<1>1. HInv => FreedUnlessThrown
  BY DEF HInv, Pointers
<1> QED BY <1>1, HookInvariant, PTL

(* The copies of the hook leave no message queued when they return. *)
THEOREM HookQueuedOnce == HookSpec => []QueuedOnce
<1>1. HInv => QueuedOnce
  BY QueuedFromZInv DEF HInv
<1> QED BY <1>1, HookInvariant, PTL
==============================================================================
