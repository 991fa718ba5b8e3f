--------------------------- MODULE Launcher_proofs ---------------------------
(* Proofs about Launcher, for any number of clients, nodes, pointers and    *)
(* reloads, and for every outcome of the second lock of the mutex.          *)
EXTENDS Launcher, SequenceTheorems, TLAPS

(* Every client but c keeps its request; c's becomes the one given. *)
Others(c) == \A d \in Clients : d # c => call'[d] = call[d]
Becomes(c, s, p, n, h) ==
  /\ call' \in [Clients -> CallType]
  /\ Others(c)
  /\ call'[c].step = s /\ call'[c].ptr = p /\ call'[c].node = n /\ call'[c].handle = h

LEMMA GotoBecomes ==
  ASSUME call \in [Clients -> CallType], NEW c \in Clients, NEW s \in Steps, Goto(c, s)
  PROVE  Becomes(c, s, call[c].ptr, call[c].node, call[c].handle)
<1>1. [call[c] EXCEPT !.step = s] \in CallType
  BY DEF CallType
<1>2. call' = [call EXCEPT ![c] = [call[c] EXCEPT !.step = s]]
  BY DEF Goto
<1>3. call'[c] = [call[c] EXCEPT !.step = s]
  BY <1>2
<1>4. Others(c) /\ call' \in [Clients -> CallType]
  BY <1>1, <1>2 DEF Others
<1>5. call'[c].step = s /\ call'[c].ptr = call[c].ptr /\ call'[c].node = call[c].node
      /\ call'[c].handle = call[c].handle
  BY <1>3 DEF CallType
<1> QED BY <1>4, <1>5 DEF Becomes

LEMMA CallBecomes ==
  ASSUME call \in [Clients -> CallType], NEW c \in Clients, NEW s \in Steps,
         NEW p \in Ptrs \cup {NoPtr}, NEW n \in NodeIds \cup {NoOne},
         NEW h \in Handles \cup {NoOne}, NEW e \in 0..MaxReloads,
         call' = [call EXCEPT ![c] = Call(s, p, n, h, e)]
  PROVE  Becomes(c, s, p, n, h) /\ call'[c].epoch = e
<1>1. Call(s, p, n, h, e) \in CallType
  BY DEF Call, CallType
<1>2. call'[c] = Call(s, p, n, h, e) /\ Others(c) /\ call' \in [Clients -> CallType]
  BY <1>1 DEF Others
<1> QED BY <1>2 DEF Becomes, Call

LEMMA AnswerBecomes ==
  ASSUME call \in [Clients -> CallType], NEW c \in Clients, Answer(c)
  PROVE  Becomes(c, "idle", NoPtr, NoOne, NoOne)
<1>1. "idle" \in Steps /\ 0 \in 0..MaxReloads
  BY LauncherAssumption DEF Steps
<1> QED BY <1>1, CallBecomes DEF Answer, Idle

-----------------------------------------------------------------------------
(* The inductive invariant *)

(* The vector moves at most once in a reload, and only while it runs. *)
ConfTypes ==
  /\ nodes \in Seq(NodeIds)
  /\ epoch \in 0..MaxReloads /\ reloads \in 0..MaxReloads
  /\ mutex \in {"rpc", "config", NoOne}
  /\ epoch <= reloads
  /\ mutex = "config" => epoch < reloads

MapTypes ==
  /\ Mapped \subseteq Ptrs
  /\ memory_map \in [Mapped -> [node: NodeIds, handle: Handles]]
  /\ heap \subseteq Ptrs
  /\ owns \in [Clients -> SUBSET Ptrs] /\ retry \in [Clients -> SUBSET Ptrs]
  /\ remote \subseteq NodeIds \X Handles /\ lost \subseteq remote /\ spent \subseteq Mapped
  /\ dangled \in BOOLEAN /\ refreed \in BOOLEAN /\ doubleDelete \in BOOLEAN

CallTypes == call \in [Clients -> CallType] /\ loop \in Clients \cup {NoOne}

Target(c) == <<call[c].node, call[c].handle>>

(* The steps in which a handler occupies the event loop *)
LoopSteps == {"pick", "relock", "sendAlloc", "getNode", "sendFree", "planNode", "sendPlan", "crashed"}

(* What a request in progress knows: it has the loop, its node once it has *)
(* one, a mapped pointer while it looks one up and, while it frees, the    *)
(* allocation that its pointer stands for.                                 *)
CallKnows(c) ==
  /\ call[c].step \in LoopSteps => loop = c
  /\ call[c].step \in {"sendAlloc", "allocAtNode", "allocReply", "sendFree", "freeAtNode", "freeReply"}
       => call[c].node \in NodeIds
  /\ call[c].step = "allocAtNode" => call[c].handle = NoOne
  /\ call[c].step \in {"getNode", "sendFree", "freeAtNode", "freeReply"} => call[c].ptr # NoPtr
  /\ call[c].step = "planNode" => call[c].ptr \in Mapped
  /\ call[c].step \in {"sendFree", "freeAtNode", "freeReply"} /\ (call[c].step = "sendFree" \/ ~dangled)
       => Target(c) = Allocation(call[c].ptr)
CallsKnow == \A c \in Clients : CallKnows(c)

(* The pointers a client holds, is freeing or may free again, and those of *)
(* them whose allocation no node has freed; the replies on their way.      *)
Claims(c) == Has(c) \cup { p \in {call[c].ptr} : Freeing(c) /\ p # NoPtr }
Held(c) == Claims(c) \ spent
Pending(c) == call[c].step = "allocReply" /\ call[c].handle # NoOne

(* PointersMapped in terms of the claims *)
Disjoint ==
  /\ Mapped = heap /\ ~doubleDelete
  /\ \A c \in Clients : /\ Claims(c) \subseteq Mapped
                        /\ Freeing(c) /\ call[c].ptr # NoPtr => call[c].ptr \notin Has(c)
                        /\ \A d \in Clients : d # c => Claims(c) \cap Claims(d) = {}

(* A pointer whose allocation a node has freed is in no owns. *)
Unspent == \A c \in Clients : owns[c] \cap spent = {}

(* No two claims are on one allocation, and every one is on a live one. *)
Live ==
  \A c \in Clients :
    /\ \A p \in Held(c) : /\ Allocation(p) \in remote
                          /\ \A d \in Clients : \A q \in Held(d) : Allocation(p) = Allocation(q) => p = q
    /\ Pending(c) => /\ Target(c) \in remote
                     /\ \A d \in Clients : /\ \A p \in Held(d) : Allocation(p) # Target(c)
                                           /\ Pending(d) /\ Target(c) = Target(d) => c = d

(* A pointer whose free is answered does not count for RemoteAccounted:    *)
(* its mapping is about to go.                                             *)
Answered(p) == \E c \in Clients : call[c].step = "freeReply" /\ call[c].ptr = p
Accounted ==
  \A a \in remote \ lost :
    \/ \E p \in Mapped : Allocation(p) = a /\ ~Answered(p)
    \/ \E c \in Clients : Pending(c) /\ Target(c) = a

LInv == /\ ConfTypes /\ MapTypes /\ CallTypes
        /\ Disjoint /\ Unspent /\ CallsKnow
        /\ ~dangled /\ ~refreed => Live
        /\ ~dangled => Accounted

LEMMA SubSeqLoaded == \A new \in Loaded : new \in Seq(NodeIds)
<1> SUFFICES ASSUME NEW conf \in Configs, NEW k \in 0..Len(conf)
             PROVE  SubSeq(conf, 1, k) \in Seq(NodeIds)
  BY DEF Loaded
<1>1. conf \in Seq(NodeIds)
  BY LauncherAssumption
<1> QED BY <1>1

LEMMA InitLInv == Init => LInv
<1> SUFFICES ASSUME Init PROVE LInv
  OBVIOUS
<1> USE LauncherAssumption DEF Init
<1>1. ConfTypes
  BY SubSeqLoaded DEF ConfTypes
<1>2. MapTypes
  BY DEF MapTypes, Mapped
<1>3. CallTypes
  BY DEF CallTypes, CallType, Idle, Call, Steps
<1>4. \A c \in Clients : Claims(c) = {} /\ ~Freeing(c)
  BY DEF Claims, Has, Freeing, Idle, Call
<1>5. Disjoint
  BY <1>4 DEF Disjoint, Mapped
<1>6. CallsKnow /\ Unspent
  BY DEF CallsKnow, CallKnows, LoopSteps, Idle, Call, Unspent
<1>7. Live /\ Accounted
  BY <1>4 DEF Live, Accounted, Held, Pending, Idle, Call
<1> QED BY <1>1, <1>2, <1>3, <1>5, <1>6, <1>7 DEF LInv

LEMMA DisjointIsMapped == Disjoint <=> PointersMapped
  BY DEF Disjoint, PointersMapped, Claims

-----------------------------------------------------------------------------
(* The configuration as seen by everything but a reload. *)
LEMMA ConfQuiet == ConfTypes /\ UNCHANGED confVars /\ mutex' \in {mutex, "rpc"} => ConfTypes'
  BY DEF ConfTypes, confVars

(* Steps that change one request: it makes no new claim, it has no reply   *)
(* left to come but one given up as lost, and it knows what it must.       *)
LEMMA Passed ==
  ASSUME LInv, NEW c \in Clients, NEW s, NEW p, NEW n, NEW h, Becomes(c, s, p, n, h),
         UNCHANGED confVars, mutex' \in {mutex, "rpc"},
         loop' = loop \/ (loop \in {c, NoOne} /\ loop' \in {c, NoOne}),
         UNCHANGED <<memory_map, heap, doubleDelete, remote, spent, refreed>>,
         lost \subseteq lost', lost' \subseteq remote,
         dangled' \in BOOLEAN, dangled => dangled',
         owns' \in [Clients -> SUBSET Ptrs], retry' \in [Clients -> SUBSET Ptrs],
         \A d \in Clients : owns'[d] \subseteq owns[d] /\ (d # c => Has(d)' = Has(d)),
         Claims(c)' \subseteq Claims(c),
         Freeing(c)' /\ p # NoPtr => p \notin Has(c)',
         CallKnows(c)', ~Pending(c)', s # "freeReply",
         ~dangled' /\ Pending(c) /\ Target(c) \in remote => Target(c) \in lost'
  PROVE  LInv'
<1> USE LauncherAssumption DEF LInv
<1>1. ConfTypes'
  BY ConfQuiet
<1>2. call' \in [Clients -> CallType] /\ Others(c) /\ call'[c].ptr = p /\ call'[c].step = s
  BY DEF Becomes
<1>3. Mapped' = Mapped /\ \A q : Allocation(q)' = Allocation(q)
  BY DEF Mapped, Allocation
<1>4. MapTypes'
  BY <1>3 DEF MapTypes
<1>5. CallTypes'
  BY <1>2 DEF CallTypes
<1>6. \A d \in Clients : d # c => /\ (Freeing(d)' <=> Freeing(d)) /\ call'[d].ptr = call[d].ptr
                                  /\ Claims(d)' = Claims(d)
  BY <1>2 DEF Others, Freeing, Claims
<1>7. Disjoint' /\ Unspent'
  BY <1>2, <1>3, <1>6 DEF Disjoint, Unspent
<1>8. CallsKnow'
  <2>1. ASSUME NEW d \in Clients, d # c PROVE CallKnows(d)'
    <3>1. call'[d] = call[d] /\ CallKnows(d)
      BY <1>2, <2>1 DEF Others, CallsKnow
    <3>2. call[d].step \in LoopSteps => loop' = d
      BY <2>1, <3>1 DEF CallKnows
    <3> QED BY <1>3, <3>1, <3>2 DEF CallKnows, Target
  <2> QED BY <2>1 DEF CallsKnow
<1>9. \A d \in Clients : Held(d)' \subseteq Held(d)
  BY <1>6 DEF Held
<1>10. \A d \in Clients : Pending(d)' => Pending(d) /\ Target(d)' = Target(d)
  BY <1>2 DEF Others, Pending, Target
<1>11. ASSUME ~dangled', ~refreed' PROVE Live'
  <2>1. Live
    BY <1>11
  <2> QED BY <1>3, <1>9, <1>10, <2>1 DEF Live
<1>12. ASSUME ~dangled' PROVE Accounted'
  <2>1. \A q : Answered(q)' => Answered(q)
    BY <1>2 DEF Answered, Others
  <2>2. \A d \in Clients : d # c /\ Pending(d) => Pending(d)' /\ Target(d)' = Target(d)
    BY <1>2 DEF Pending, Others, Target
  <2>3. \A a \in remote' \ lost' : a \in remote \ lost /\ ~(Pending(c) /\ Target(c) = a)
    BY <1>12
  <2>4. Accounted
    BY <1>12
  <2> QED BY <1>3, <2>1, <2>2, <2>3, <2>4 DEF Accounted
<1> QED BY <1>1, <1>4, <1>5, <1>7, <1>8, <1>11, <1>12

(* The same when the client's pointers stay as they are. *)
LEMMA Quiet ==
  ASSUME LInv, NEW c \in Clients, NEW s, NEW p, NEW n, NEW h, Becomes(c, s, p, n, h),
         UNCHANGED confVars, mutex' \in {mutex, "rpc"},
         loop' = loop \/ (loop \in {c, NoOne} /\ loop' \in {c, NoOne}),
         UNCHANGED <<memory_map, heap, doubleDelete, owns, retry, remote, lost, spent, refreed>>,
         dangled' \in BOOLEAN, dangled => dangled',
         Freeing(c)' => Freeing(c) /\ p = call[c].ptr,
         CallKnows(c)', ~Pending(c), ~Pending(c)', s # "freeReply"
  PROVE  LInv'
<1>1. call'[c].ptr = p
  BY DEF Becomes
<1>2. \A d \in Clients : Has(d)' = Has(d)
  BY DEF Has
<1>3. Claims(c)' \subseteq Claims(c)
  BY <1>1, <1>2 DEF Claims
<1>4. Freeing(c)' /\ p # NoPtr => p \notin Has(c)'
  BY <1>2 DEF LInv, Disjoint
<1>5. owns' \in [Clients -> SUBSET Ptrs] /\ retry' \in [Clients -> SUBSET Ptrs] /\ lost \subseteq remote
  BY DEF LInv, MapTypes
<1> QED BY <1>2, <1>3, <1>4, <1>5, Passed

-----------------------------------------------------------------------------
(* One lemma per operation *)

LEMMA ClientAllocatesStep == ASSUME LInv, NEW c \in Clients, ClientAllocates(c) PROVE LInv'
<1> USE LauncherAssumption DEF LInv
<1>1. /\ UNCHANGED <<memory_map, heap, doubleDelete, owns, retry, remote, lost, spent, refreed>> /\ UNCHANGED confVars
      /\ call[c].step = "idle" /\ mutex' = mutex /\ loop' = loop /\ dangled' \in BOOLEAN /\ (dangled => dangled')
  BY DEF ClientAllocates, mapVars, nodeVars, ownVars, MapTypes

<1>2. ASSUME Becomes(c, "alloc", call[c].ptr, call[c].node, call[c].handle) PROVE LInv'
  <2>1. Freeing(c)' => Freeing(c) /\ call'[c].ptr = call[c].ptr
    BY <1>1, <1>2 DEF Becomes, Freeing
  <2>2. CallKnows(c)' /\ ~Pending(c) /\ ~Pending(c)'
    BY <1>1, <1>2 DEF Becomes, CallKnows, LoopSteps, Pending
  <2> QED BY <1>1, <1>2, <2>1, <2>2, Quiet DEF Becomes
<1> QED BY <1>2, GotoBecomes DEF ClientAllocates, CallTypes, Steps

LEMMA requestAllocationStep == ASSUME LInv, NEW c \in Clients, requestAllocation(c) PROVE LInv'
<1> USE LauncherAssumption DEF LInv
<1>1. /\ UNCHANGED <<memory_map, heap, doubleDelete, owns, retry, remote, lost, spent, refreed>> /\ UNCHANGED confVars
      /\ call[c].step = "alloc" /\ mutex' = mutex /\ loop = NoOne /\ loop' = c /\ dangled' \in BOOLEAN /\ (dangled => dangled')
  BY DEF requestAllocation, mapVars, nodeVars, ownVars, MapTypes

<1>2. ASSUME Becomes(c, "pick", call[c].ptr, call[c].node, call[c].handle) PROVE LInv'
  <2>1. Freeing(c)' => Freeing(c) /\ call'[c].ptr = call[c].ptr
    BY <1>1, <1>2 DEF Becomes, Freeing
  <2>2. CallKnows(c)' /\ ~Pending(c) /\ ~Pending(c)'
    BY <1>1, <1>2 DEF Becomes, CallKnows, LoopSteps, Pending
  <2> QED BY <1>1, <1>2, <2>1, <2>2, Quiet DEF Becomes
<1> QED BY <1>2, GotoBecomes DEF requestAllocation, CallTypes, Steps

LEMMA ClientPlansCopyStep == ASSUME LInv, NEW c \in Clients, ClientPlansCopy(c) PROVE LInv'
<1> USE LauncherAssumption DEF LInv
<1>1. /\ UNCHANGED <<memory_map, heap, doubleDelete, owns, retry, remote, lost, spent, refreed>> /\ UNCHANGED confVars
      /\ call[c].step = "idle" /\ mutex' = mutex /\ loop' = loop /\ dangled' \in BOOLEAN /\ (dangled => dangled')
  BY DEF ClientPlansCopy, mapVars, nodeVars, ownVars, MapTypes

<1>2. ASSUME NEW p \in Ptrs \cup {NoPtr}, Becomes(c, "plan", p, NoOne, NoOne) PROVE LInv'
  <2>1. Freeing(c)' => Freeing(c) /\ call'[c].ptr = call[c].ptr
    BY <1>1, <1>2 DEF Becomes, Freeing
  <2>2. CallKnows(c)' /\ ~Pending(c) /\ ~Pending(c)'
    BY <1>1, <1>2 DEF Becomes, CallKnows, LoopSteps, Pending
  <2> QED BY <1>1, <1>2, <2>1, <2>2, Quiet DEF Becomes
<1>3. \A p \in Has(c) : p \in Ptrs
  BY DEF MapTypes, Has
<1>4. "plan" \in Steps /\ 0 \in 0..MaxReloads
  BY DEF Steps
<1> QED BY <1>2, <1>3, <1>4, CallBecomes DEF ClientPlansCopy, CallTypes

LEMMA PickNodeStep == ASSUME LInv, NEW c \in Clients, PickNode(c) PROVE LInv'
<1> USE LauncherAssumption DEF LInv
<1>1. /\ UNCHANGED <<memory_map, heap, doubleDelete, owns, retry, remote, lost, spent, refreed>> /\ UNCHANGED confVars
      /\ call[c].step = "pick" /\ mutex' \in {mutex, "rpc"} /\ loop = c /\ loop' \in {c, NoOne} /\ dangled' \in BOOLEAN /\ (dangled => dangled')
  BY DEF PickNode, mapVars, nodeVars, ownVars, MapTypes, CallsKnow, CallKnows, LoopSteps

<1>2. ASSUME Becomes(c, "idle", NoPtr, NoOne, NoOne) PROVE LInv'
  <2>1. Freeing(c)' => Freeing(c) /\ call'[c].ptr = call[c].ptr
    BY <1>1, <1>2 DEF Becomes, Freeing
  <2>2. CallKnows(c)' /\ ~Pending(c) /\ ~Pending(c)'
    BY <1>1, <1>2 DEF Becomes, CallKnows, LoopSteps, Pending
  <2> QED BY <1>1, <1>2, <2>1, <2>2, Quiet DEF Becomes
<1>3. ASSUME Becomes(c, "relock", call[c].ptr, call[c].node, call[c].handle), loop' = c PROVE LInv'
  <2>1. Freeing(c)' => Freeing(c) /\ call'[c].ptr = call[c].ptr
    BY <1>1, <1>3 DEF Becomes, Freeing
  <2>2. CallKnows(c)' /\ ~Pending(c) /\ ~Pending(c)'
    BY <1>1, <1>3 DEF Becomes, CallKnows, LoopSteps, Pending
  <2> QED BY <1>1, <1>3, <2>1, <2>2, Quiet DEF Becomes
<1>4. ASSUME NEW n \in NodeIds, Becomes(c, "sendAlloc", NoPtr, n, NoOne), loop' = c PROVE LInv'
  <2>1. Freeing(c)' => Freeing(c) /\ call'[c].ptr = call[c].ptr
    BY <1>1, <1>4 DEF Becomes, Freeing
  <2>2. CallKnows(c)' /\ ~Pending(c) /\ ~Pending(c)'
    BY <1>1, <1>4 DEF Becomes, CallKnows, LoopSteps, Pending
  <2> QED BY <1>1, <1>4, <2>1, <2>2, Quiet DEF Becomes
<1>5. \A i \in DOMAIN nodes : nodes[i] \in NodeIds
  BY DEF ConfTypes
<1>6. {"relock", "sendAlloc"} \subseteq Steps /\ epoch \in 0..MaxReloads
  BY DEF Steps, ConfTypes
<1> QED BY <1>1, <1>2, <1>3, <1>4, <1>5, <1>6, AnswerBecomes, GotoBecomes, CallBecomes DEF PickNode, CallTypes

(* What a request may read through its pointer is some node. *)
LEMMA NodeReadType == ASSUME NEW c \in Clients, call[c].node \in NodeIds PROVE NodeRead(c) \subseteq NodeIds
  BY DEF NodeRead

LEMMA SendAllocationStep == ASSUME LInv, NEW c \in Clients, SendAllocation(c) PROVE LInv'
<1> USE LauncherAssumption DEF LInv
<1>1. /\ UNCHANGED <<memory_map, heap, doubleDelete, owns, retry, remote, lost, spent, refreed>> /\ UNCHANGED confVars
      /\ call[c].step = "sendAlloc" /\ mutex' = mutex /\ loop = c /\ loop' \in {c, NoOne} /\ call[c].node \in NodeIds
  BY DEF SendAllocation, mapVars, nodeVars, ownVars, MapTypes, Crash, CallsKnow, CallKnows, LoopSteps
<1>2. dangled' \in BOOLEAN /\ (dangled => dangled')
  BY Zenon DEF SendAllocation, Dangles, MapTypes

<1>3. ASSUME NEW n \in NodeIds, Becomes(c, "allocAtNode", NoPtr, n, NoOne) PROVE LInv'
  <2>1. Freeing(c)' => Freeing(c) /\ call'[c].ptr = call[c].ptr
    BY <1>1, <1>2, <1>3 DEF Becomes, Freeing
  <2>2. CallKnows(c)' /\ ~Pending(c) /\ ~Pending(c)'
    BY <1>1, <1>2, <1>3 DEF Becomes, CallKnows, LoopSteps, Pending
  <2> QED BY <1>1, <1>2, <1>3, <2>1, <2>2, Quiet DEF Becomes
<1>4. ASSUME Becomes(c, "crashed", call[c].ptr, call[c].node, call[c].handle), loop' = c PROVE LInv'
  <2>1. Freeing(c)' => Freeing(c) /\ call'[c].ptr = call[c].ptr
    BY <1>1, <1>2, <1>4 DEF Becomes, Freeing
  <2>2. CallKnows(c)' /\ ~Pending(c) /\ ~Pending(c)'
    BY <1>1, <1>2, <1>4 DEF Becomes, CallKnows, LoopSteps, Pending
  <2> QED BY <1>1, <1>2, <1>4, <2>1, <2>2, Quiet DEF Becomes
<1>5. {"allocAtNode", "crashed"} \subseteq Steps /\ call[c].epoch \in 0..MaxReloads
  BY DEF Steps, CallTypes, CallType
<1> QED BY <1>1, <1>3, <1>4, <1>5, NodeReadType, GotoBecomes, CallBecomes DEF SendAllocation, Crash, CallTypes

LEMMA requestFreeStep == ASSUME LInv, NEW c \in Clients, requestFree(c) PROVE LInv'
<1> USE LauncherAssumption DEF LInv
<1>1. /\ UNCHANGED <<memory_map, heap, doubleDelete, owns, retry, remote, lost, spent, refreed>> /\ UNCHANGED confVars
      /\ call[c].step = "free" /\ mutex' = mutex /\ loop = NoOne /\ loop' \in {c, NoOne} /\ dangled' \in BOOLEAN /\ (dangled => dangled')
  BY DEF requestFree, mapVars, nodeVars, ownVars, MapTypes

<1>2. ASSUME Becomes(c, "idle", NoPtr, NoOne, NoOne) PROVE LInv'
  <2>1. Freeing(c)' => Freeing(c) /\ call'[c].ptr = call[c].ptr
    BY <1>1, <1>2 DEF Becomes, Freeing
  <2>2. CallKnows(c)' /\ ~Pending(c) /\ ~Pending(c)'
    BY <1>1, <1>2 DEF Becomes, CallKnows, LoopSteps, Pending
  <2> QED BY <1>1, <1>2, <2>1, <2>2, Quiet DEF Becomes
<1>3. ASSUME Becomes(c, "getNode", call[c].ptr, call[c].node, call[c].handle), loop' = c, call[c].ptr \in Mapped PROVE LInv'
  <2>1. Freeing(c)' => Freeing(c) /\ call'[c].ptr = call[c].ptr
    BY <1>1, <1>3 DEF Becomes, Freeing
  <2>2. CallKnows(c)' /\ ~Pending(c) /\ ~Pending(c)'
    BY <1>1, <1>3 DEF Becomes, CallKnows, LoopSteps, Pending, MapTypes
  <2> QED BY <1>1, <1>3, <2>1, <2>2, Quiet DEF Becomes
<1>4. "getNode" \in Steps
  BY DEF Steps
<1> QED BY <1>1, <1>2, <1>3, <1>4, AnswerBecomes, GotoBecomes DEF requestFree, CallTypes

LEMMA planMemcpyHtoDStep == ASSUME LInv, NEW c \in Clients, planMemcpyHtoD(c) PROVE LInv'
<1> USE LauncherAssumption DEF LInv
<1>1. /\ UNCHANGED <<memory_map, heap, doubleDelete, owns, retry, remote, lost, spent, refreed>> /\ UNCHANGED confVars
      /\ call[c].step \in {"plan", "sendPlan"} /\ mutex' = mutex /\ loop \in {c, NoOne} /\ loop' \in {c, NoOne}
  BY DEF planMemcpyHtoD, mapVars, nodeVars, ownVars, MapTypes, Crash, CallsKnow, CallKnows, LoopSteps
<1>2. dangled' \in BOOLEAN /\ (dangled => dangled')
  BY Zenon DEF planMemcpyHtoD, Dangles, MapTypes

<1>3. ASSUME Becomes(c, "idle", NoPtr, NoOne, NoOne) PROVE LInv'
  <2>1. Freeing(c)' => Freeing(c) /\ call'[c].ptr = call[c].ptr
    BY <1>1, <1>2, <1>3 DEF Becomes, Freeing
  <2>2. CallKnows(c)' /\ ~Pending(c) /\ ~Pending(c)'
    BY <1>1, <1>2, <1>3 DEF Becomes, CallKnows, LoopSteps, Pending
  <2> QED BY <1>1, <1>2, <1>3, <2>1, <2>2, Quiet DEF Becomes
<1>4. ASSUME Becomes(c, "planNode", call[c].ptr, call[c].node, call[c].handle), loop' = c, call[c].ptr \in Mapped PROVE LInv'
  <2>1. Freeing(c)' => Freeing(c) /\ call'[c].ptr = call[c].ptr
    BY <1>1, <1>2, <1>4 DEF Becomes, Freeing
  <2>2. CallKnows(c)' /\ ~Pending(c) /\ ~Pending(c)'
    BY <1>1, <1>2, <1>4 DEF Becomes, CallKnows, LoopSteps, Pending, Mapped
  <2> QED BY <1>1, <1>2, <1>4, <2>1, <2>2, Quiet DEF Becomes
<1>5. ASSUME Becomes(c, "crashed", call[c].ptr, call[c].node, call[c].handle), loop' = c PROVE LInv'
  <2>1. Freeing(c)' => Freeing(c) /\ call'[c].ptr = call[c].ptr
    BY <1>1, <1>2, <1>5 DEF Becomes, Freeing
  <2>2. CallKnows(c)' /\ ~Pending(c) /\ ~Pending(c)'
    BY <1>1, <1>2, <1>5 DEF Becomes, CallKnows, LoopSteps, Pending
  <2> QED BY <1>1, <1>2, <1>5, <2>1, <2>2, Quiet DEF Becomes
<1>6. {"planNode", "crashed"} \subseteq Steps
  BY DEF Steps
<1> QED BY <1>1, <1>3, <1>4, <1>5, <1>6, AnswerBecomes, GotoBecomes DEF planMemcpyHtoD, Crash, CallTypes

LEMMA SendFreeStep == ASSUME LInv, NEW c \in Clients, SendFree(c) PROVE LInv'
<1> USE LauncherAssumption DEF LInv
<1>1. /\ UNCHANGED <<memory_map, heap, doubleDelete, owns, retry, remote, lost, spent, refreed>> /\ UNCHANGED confVars
      /\ call[c].step = "sendFree" /\ mutex' = mutex /\ loop = c /\ loop' \in {c, NoOne} /\ call[c].node \in NodeIds /\ call[c].ptr # NoPtr
  BY DEF SendFree, mapVars, nodeVars, ownVars, MapTypes, Crash, CallsKnow, CallKnows, LoopSteps
<1>2. dangled' \in BOOLEAN /\ (dangled => dangled') /\ (~dangled' => ~Moved(c))
  BY Zenon DEF SendFree, Dangles, MapTypes

<1>3. Target(c) = Allocation(call[c].ptr)
  BY <1>1 DEF CallsKnow, CallKnows
<1>4. ASSUME NEW n \in NodeRead(c), Becomes(c, "freeAtNode", call[c].ptr, n, call[c].handle) PROVE LInv'
  <2>1. Freeing(c)' => Freeing(c) /\ call'[c].ptr = call[c].ptr
    BY <1>1, <1>2, <1>3, NodeReadType, <1>4 DEF Becomes, Freeing
  <2>2. CallKnows(c)' /\ ~Pending(c) /\ ~Pending(c)'
    BY <1>1, <1>2, <1>3, NodeReadType, <1>4 DEF Becomes, CallKnows, LoopSteps, Pending, Target, Allocation, NodeRead
  <2> QED BY <1>1, <1>2, <1>4, <2>1, <2>2, Quiet DEF Becomes
<1>5. ASSUME Becomes(c, "crashed", call[c].ptr, call[c].node, call[c].handle), loop' = c PROVE LInv'
  <2>1. Freeing(c)' => Freeing(c) /\ call'[c].ptr = call[c].ptr
    BY <1>1, <1>2, <1>5 DEF Becomes, Freeing
  <2>2. CallKnows(c)' /\ ~Pending(c) /\ ~Pending(c)'
    BY <1>1, <1>2, <1>5 DEF Becomes, CallKnows, LoopSteps, Pending
  <2> QED BY <1>1, <1>2, <1>5, <2>1, <2>2, Quiet DEF Becomes
<1>6. /\ {"freeAtNode", "crashed"} \subseteq Steps /\ 0 \in 0..MaxReloads
      /\ call[c].ptr \in Ptrs \cup {NoPtr} /\ call[c].handle \in Handles \cup {NoOne}
  BY DEF Steps, CallTypes, CallType
<1> QED BY <1>1, <1>4, <1>5, <1>6, NodeReadType, GotoBecomes, CallBecomes DEF SendFree, Crash, CallTypes

(* The node of a mapped pointer is looked up; a free that finds none leaves *)
(* its pointer with the client.                                            *)
LEMMA GetNodeByIdStep == ASSUME LInv, NEW c \in Clients, GetNodeById(c) PROVE LInv'
<1> USE LauncherAssumption DEF LInv
<1> DEFINE p == call[c].ptr
<1>1. /\ UNCHANGED <<memory_map, heap, doubleDelete, owns, remote, lost, spent, refreed, dangled, mutex>>
      /\ UNCHANGED confVars
      /\ call[c].step \in {"getNode", "planNode"} /\ loop = c /\ loop' \in {c, NoOne}
  BY DEF GetNodeById, mapVars, nodeVars, CallsKnow, CallKnows, LoopSteps
<1>2. dangled' \in BOOLEAN /\ (dangled => dangled')
  BY <1>1 DEF MapTypes
<1>3. p \in Mapped /\ p \in Ptrs /\ (call[c].step = "getNode" => p # NoPtr)
  <2>1. call[c].step = "getNode" => p \in Claims(c) /\ p # NoPtr
    BY DEF CallsKnow, CallKnows, Claims, Freeing
  <2> QED BY <1>1, <2>1 DEF CallsKnow, CallKnows, Disjoint, MapTypes
<1>4. memory_map[p].node \in NodeIds /\ memory_map[p].handle \in Handles
  BY <1>3 DEF MapTypes
<1>5. ASSUME NEW s \in {"sendFree", "sendPlan"}, s = "sendFree" => call[c].step = "getNode",
             Becomes(c, s, p, memory_map[p].node, memory_map[p].handle), UNCHANGED <<loop, retry>>
      PROVE  LInv'
  <2>1. Freeing(c)' => Freeing(c) /\ call'[c].ptr = call[c].ptr
    BY <1>1, <1>5 DEF Becomes, Freeing
  <2>2. CallKnows(c)' /\ ~Pending(c) /\ ~Pending(c)'
    BY <1>1, <1>3, <1>4, <1>5 DEF Becomes, CallKnows, LoopSteps, Pending, Target, Allocation
  <2> QED BY <1>1, <1>2, <1>5, <2>1, <2>2, Quiet DEF Becomes
<1>6. ASSUME Becomes(c, "idle", NoPtr, NoOne, NoOne),
             retry' = IF call[c].step = "getNode" THEN [retry EXCEPT ![c] = @ \cup {p}] ELSE retry
      PROVE  LInv'
  <2>1. /\ retry' \in [Clients -> SUBSET Ptrs] /\ owns' \in [Clients -> SUBSET Ptrs] /\ lost \subseteq remote
        /\ \A d \in Clients : d # c => retry'[d] = retry[d]
        /\ retry'[c] = IF call[c].step = "getNode" THEN retry[c] \cup {p} ELSE retry[c]
    BY <1>1, <1>3, <1>6 DEF MapTypes
  <2>2. \A d \in Clients : owns'[d] \subseteq owns[d] /\ (d # c => Has(d)' = Has(d))
    BY <1>1, <2>1 DEF Has
  <2>3. Claims(c)' \subseteq Claims(c) /\ ~Freeing(c)'
    BY <1>1, <1>3, <1>6, <2>1 DEF Claims, Has, Becomes, Freeing
  <2>4. CallKnows(c)' /\ ~Pending(c) /\ ~Pending(c)'
    BY <1>1, <1>6 DEF Becomes, CallKnows, LoopSteps, Pending
  <2> QED BY <1>1, <1>2, <1>6, <2>1, <2>2, <2>3, <2>4, Passed
<1>7. {"sendFree", "sendPlan"} \subseteq Steps /\ epoch \in 0..MaxReloads
  BY DEF Steps, ConfTypes
<1> DEFINE s == IF call[c].step = "getNode" THEN "sendFree" ELSE "sendPlan"
<1>8. \/ /\ call' = [call EXCEPT ![c] = Call(s, p, memory_map[p].node, memory_map[p].handle, epoch)]
         /\ UNCHANGED <<loop, retry>>
      \/ /\ Answer(c)
         /\ retry' = IF call[c].step = "getNode" THEN [retry EXCEPT ![c] = @ \cup {p}] ELSE retry
  BY DEF GetNodeById
<1>9. s \in {"sendFree", "sendPlan"} /\ (s = "sendFree" => call[c].step = "getNode")
  BY <1>1
<1> HIDE DEF s
<1>10. CASE Answer(c) /\ retry' = IF call[c].step = "getNode" THEN [retry EXCEPT ![c] = @ \cup {p}] ELSE retry
  BY <1>6, <1>10, AnswerBecomes DEF CallTypes
<1>11. CASE call' = [call EXCEPT ![c] = Call(s, p, memory_map[p].node, memory_map[p].handle, epoch)]
            /\ UNCHANGED <<loop, retry>>
  <2>1. Becomes(c, s, p, memory_map[p].node, memory_map[p].handle)
    BY <1>3, <1>4, <1>7, <1>9, <1>11, CallBecomes DEF CallTypes
  <2> QED BY <1>5, <1>9, <1>11, <2>1
<1> QED BY <1>8, <1>10, <1>11

(* A pointer passes from the client to its request. *)
LEMMA ClientFreesStep == ASSUME LInv, NEW c \in Clients, ClientFrees(c) PROVE LInv'
<1> USE LauncherAssumption DEF LInv
<1>1. /\ UNCHANGED <<memory_map, heap, dangled, doubleDelete, remote, lost, spent, refreed, loop, mutex>>
      /\ UNCHANGED confVars /\ call[c].step = "idle"
  BY DEF ClientFrees, mapVars, nodeVars
<1>2. PICK p \in Has(c) \cup {NoPtr} :
        /\ owns' = [owns EXCEPT ![c] = @ \ {p}]
        /\ retry' = [retry EXCEPT ![c] = @ \ {p}]
        /\ call' = [call EXCEPT ![c] = Call("free", p, NoOne, NoOne, 0)]
  BY DEF ClientFrees
<1>3. Becomes(c, "free", p, NoOne, NoOne)
  <2>1. "free" \in Steps /\ 0 \in 0..MaxReloads /\ p \in Ptrs \cup {NoPtr}
    BY DEF Steps, MapTypes, Has
  <2> QED BY <1>2, <2>1, CallBecomes DEF CallTypes
<1>4. /\ owns' \in [Clients -> SUBSET Ptrs] /\ retry' \in [Clients -> SUBSET Ptrs]
      /\ dangled' \in BOOLEAN /\ lost \subseteq remote
      /\ owns'[c] = owns[c] \ {p} /\ retry'[c] = retry[c] \ {p}
      /\ \A d \in Clients : d # c => owns'[d] = owns[d] /\ retry'[d] = retry[d]
  BY <1>1, <1>2 DEF MapTypes
<1>5. Has(c)' = Has(c) \ {p} /\ \A d \in Clients : owns'[d] \subseteq owns[d] /\ (d # c => Has(d)' = Has(d))
  BY <1>4 DEF Has
<1>6. Claims(c)' \subseteq Claims(c) /\ p \notin Has(c)'
  BY <1>3, <1>5 DEF Claims, Becomes
<1>7. CallKnows(c)' /\ ~Pending(c) /\ ~Pending(c)'
  BY <1>1, <1>3 DEF Becomes, CallKnows, LoopSteps, Pending
<1> QED BY <1>1, <1>3, <1>4, <1>5, <1>6, <1>7, Passed

(* A request that ends with the allocation it was about given up as lost. *)
LEMMA ConnectionLostStep == ASSUME LInv, NEW c \in Clients, ConnectionLost(c) PROVE LInv'
<1> USE LauncherAssumption DEF LInv
<1> DEFINE p == call[c].ptr
           freeing == call[c].step \in {"freeAtNode", "freeReply"}
<1>1. /\ UNCHANGED <<memory_map, heap, dangled, doubleDelete, owns, remote, spent, refreed, loop, mutex>>
      /\ UNCHANGED confVars
      /\ retry' = IF freeing THEN [retry EXCEPT ![c] = @ \cup {p}] ELSE retry
  BY DEF ConnectionLost, mapVars
<1>2. Becomes(c, "idle", NoPtr, NoOne, NoOne)
  BY AnswerBecomes DEF ConnectionLost, CallTypes
<1>3. lost \subseteq lost' /\ lost' \subseteq remote /\ (Pending(c) /\ Target(c) \in remote => Target(c) \in lost')
  BY DEF ConnectionLost, MapTypes, Pending, Target
<1>4. freeing => p \in Ptrs /\ p \in Claims(c)
  <2>1. freeing => p \in Claims(c)
    BY DEF CallsKnow, CallKnows, Claims, Freeing
  <2> QED BY <2>1 DEF Disjoint, MapTypes
<1>5. /\ retry' \in [Clients -> SUBSET Ptrs] /\ owns' \in [Clients -> SUBSET Ptrs] /\ dangled' \in BOOLEAN
      /\ \A d \in Clients : d # c => retry'[d] = retry[d]
      /\ retry'[c] = IF freeing THEN retry[c] \cup {p} ELSE retry[c]
  BY <1>1, <1>4 DEF MapTypes
<1>6. \A d \in Clients : owns'[d] \subseteq owns[d] /\ (d # c => Has(d)' = Has(d))
  BY <1>1, <1>5 DEF Has
<1>7. Claims(c)' \subseteq Claims(c) /\ ~Freeing(c)'
  BY <1>1, <1>2, <1>4, <1>5 DEF Claims, Has, Becomes, Freeing
<1>8. CallKnows(c)' /\ ~Pending(c)'
  BY <1>2 DEF Becomes, CallKnows, LoopSteps, Pending
<1> QED BY <1>1, <1>2, <1>3, <1>5, <1>6, <1>7, <1>8, Passed

LEMMA AllocationDoneStep == ASSUME LInv, NEW c \in Clients, AllocationDone(c) PROVE LInv'
<1> USE LauncherAssumption DEF LInv
<1>1. call[c].step = "allocReply" /\ loop = NoOne /\ call[c].node \in NodeIds /\ ~Freeing(c)
  BY DEF AllocationDone, CallsKnow, CallKnows, Freeing
<1>2. UNCHANGED <<mutex, remote, retry, spent, refreed>> /\ UNCHANGED confVars
  BY DEF AllocationDone
<1>3. ASSUME NEW s \in {"idle", "crashed"}, NEW q, NEW n, NEW h, Becomes(c, s, q, n, h),
             s = "crashed" => loop' = c, loop' \in {c, NoOne}, UNCHANGED <<mapVars, owns>>,
             lost \subseteq lost', lost' \subseteq remote, dangled' \in BOOLEAN, dangled => dangled',
             ~dangled' /\ Pending(c) /\ Target(c) \in remote => Target(c) \in lost'
      PROVE  LInv'
  <2>1. UNCHANGED <<memory_map, heap, doubleDelete>>
        /\ owns' \in [Clients -> SUBSET Ptrs] /\ retry' \in [Clients -> SUBSET Ptrs]
    BY <1>2, <1>3 DEF mapVars, MapTypes
  <2>2. \A d \in Clients : Has(d)' = Has(d)
    BY <1>2, <1>3 DEF Has
  <2>3. ~Freeing(c)' /\ Claims(c)' \subseteq Claims(c) /\ CallKnows(c)' /\ ~Pending(c)'
    BY <1>3, <2>2 DEF Claims, Freeing, Becomes, CallKnows, LoopSteps, Pending
  <2> QED BY <1>1, <1>2, <1>3, <2>1, <2>2, <2>3, Passed
<1>4. CASE call[c].handle = NoOne /\ Answer(c) /\ UNCHANGED <<loop, mapVars, owns, lost, dangled>>
  <2>1. Becomes(c, "idle", NoPtr, NoOne, NoOne)
    BY <1>4, AnswerBecomes DEF CallTypes
  <2>2. ~Pending(c) /\ lost' \subseteq remote /\ dangled' \in BOOLEAN
    BY <1>4 DEF Pending, MapTypes
  <2> QED BY <1>1, <1>3, <1>4, <2>1, <2>2
<1>5. CASE /\ lost' = lost \cup ({<<call[c].node, call[c].handle>>} \cap remote)
           /\ Answer(c) /\ UNCHANGED <<loop, mapVars, owns, dangled>>
  <2>1. Becomes(c, "idle", NoPtr, NoOne, NoOne)
    BY <1>5, AnswerBecomes DEF CallTypes
  <2>2. /\ lost \subseteq lost' /\ lost' \subseteq remote /\ (Target(c) \in remote => Target(c) \in lost')
        /\ dangled' \in BOOLEAN
    BY <1>5 DEF MapTypes, Target
  <2> QED BY <1>1, <1>3, <1>5, <2>1, <2>2
<1>6. CASE Dangles(c) /\ Crash(c) /\ UNCHANGED <<mapVars, owns, lost>>
  <2>1. Becomes(c, "crashed", call[c].ptr, call[c].node, call[c].handle) /\ loop' = c
    BY <1>6, GotoBecomes DEF Crash, CallTypes, Steps
  <2>2. dangled' = TRUE /\ lost' \subseteq remote
    BY <1>6 DEF Dangles, Crash, MapTypes
  <2> QED BY <1>3, <1>6, <2>1, <2>2
<1>7. ASSUME call[c].handle # NoOne, Answer(c), NEW p \in Ptrs \ heap, NEW n \in NodeRead(c),
             heap' = heap \cup {p},
             memory_map' = [q \in Mapped \cup {p} |->
                              IF q = p THEN [node |-> n, handle |-> call[c].handle] ELSE memory_map[q]],
             owns' = [owns EXCEPT ![c] = @ \cup {p}],
             Dangles(c), UNCHANGED <<loop, doubleDelete, lost>>
      PROVE  LInv'
  <2>1. n \in NodeIds /\ call[c].handle \in Handles
    BY <1>1, <1>7, NodeReadType DEF CallTypes, CallType
  <2>2. Mapped' = Mapped \cup {p} /\ p \notin Mapped
    BY <1>7 DEF Mapped, Disjoint
  <2>3. \A q \in Mapped : Allocation(q)' = Allocation(q)
    BY <1>7, <2>2 DEF Allocation
  <2>4. Allocation(p)' = <<n, call[c].handle>>
    BY <1>7, <2>2 DEF Allocation
  <2>5. /\ owns'[c] = owns[c] \cup {p} /\ (\A d \in Clients : d # c => owns'[d] = owns[d])
        /\ owns' \in [Clients -> SUBSET Ptrs]
    BY <1>7 DEF MapTypes
  <2>6. dangled' \in BOOLEAN /\ doubleDelete' \in BOOLEAN /\ (~dangled' => ~dangled /\ ~Moved(c))
    BY <1>7, Zenon DEF MapTypes, Dangles
  <2>7. MapTypes'
    <3>1. memory_map' \in [Mapped' -> [node: NodeIds, handle: Handles]] /\ Mapped' \subseteq Ptrs
      BY <1>7, <2>1, <2>2 DEF MapTypes
    <3> QED BY <1>2, <1>7, <2>2, <2>5, <2>6, <3>1 DEF MapTypes
  <2>8. Becomes(c, "idle", NoPtr, NoOne, NoOne) /\ Others(c)
    BY <1>7, AnswerBecomes DEF CallTypes, Becomes
  <2>9. CallTypes' /\ ConfTypes'
    BY <1>2, <1>7, <2>8, ConfQuiet DEF CallTypes, Becomes
  <2>10. /\ Has(c)' = Has(c) \cup {p} /\ ~Freeing(c)' /\ Claims(c)' \subseteq Claims(c) \cup {p}
         /\ \A d \in Clients : d # c => /\ Has(d)' = Has(d) /\ Claims(d)' = Claims(d)
                                        /\ (Freeing(d)' <=> Freeing(d)) /\ call'[d].ptr = call[d].ptr
    <3>1. Has(c)' = Has(c) \cup {p} /\ \A d \in Clients : d # c => Has(d)' = Has(d)
      BY <1>2, <2>5 DEF Has
    <3>2. ~Freeing(c)' /\ \A d \in Clients : d # c => (Freeing(d)' <=> Freeing(d)) /\ call'[d].ptr = call[d].ptr
      BY <2>8 DEF Becomes, Others, Freeing
    <3> QED BY <3>1, <3>2 DEF Claims
  <2>11. \A d \in Clients : p \notin Claims(d)
    BY <2>2 DEF Disjoint
  <2>12. Disjoint' /\ Unspent'
    <3>1. Disjoint'
      BY <1>7, <2>2, <2>10, <2>11 DEF Disjoint
    <3>2. Unspent'
      BY <1>2, <2>2, <2>5 DEF Unspent, MapTypes
    <3> QED BY <3>1, <3>2
  <2>13. CallsKnow'
    <3>1. ASSUME NEW d \in Clients, d # c PROVE CallKnows(d)'
      <4>1. call'[d] = call[d] /\ CallKnows(d)
        BY <2>8, <3>1 DEF Others, CallsKnow
      <4>2. call[d].step \in {"sendFree", "freeAtNode", "freeReply"} => call[d].ptr \in Mapped
        BY <4>1 DEF CallKnows, Disjoint, Claims, Freeing
      <4> QED BY <1>7, <2>2, <2>3, <2>6, <4>1, <4>2 DEF CallKnows, Target
    <3>2. CallKnows(c)'
      BY <2>8 DEF Becomes, CallKnows, LoopSteps
    <3> QED BY <3>1, <3>2 DEF CallsKnow
  <2>14. \A d \in Clients : Pending(d)' <=> d # c /\ Pending(d)
    BY <2>8 DEF Becomes, Others, Pending
  <2>15. \A d \in Clients : d # c => Target(d)' = Target(d)
    BY <2>8 DEF Others, Target
  <2>16. ASSUME ~dangled' PROVE ~dangled /\ Allocation(p)' = Target(c) /\ Pending(c)
    BY <1>1, <1>7, <2>4, <2>6, <2>16 DEF Target, Pending, NodeRead
  <2>17. ASSUME ~dangled', ~refreed' PROVE Live'
    <3>1. Live /\ Pending(c) /\ Allocation(p)' = Target(c)
      BY <1>2, <2>16, <2>17
    <3>2. \A d \in Clients : \A q \in Held(d)' :
             q = p \/ (q \in Held(d) /\ q \in Mapped /\ Allocation(q)' = Allocation(q))
      BY <1>2, <2>3, <2>10 DEF Held, Disjoint
    <3>3. ASSUME NEW d \in Clients, NEW q \in Held(d)'
          PROVE  /\ Allocation(q)' \in remote'
                 /\ \A e \in Clients : \A r \in Held(e)' : Allocation(q)' = Allocation(r)' => q = r
      BY <1>2, <3>1, <3>2 DEF Live
    <3>4. ASSUME NEW d \in Clients, Pending(d)'
          PROVE  /\ Target(d)' \in remote'
                 /\ \A e \in Clients : /\ \A r \in Held(e)' : Allocation(r)' # Target(d)'
                                       /\ Pending(e)' /\ Target(d)' = Target(e)' => d = e
      BY <1>2, <2>14, <2>15, <3>1, <3>2, <3>4 DEF Live
    <3> QED BY <3>3, <3>4 DEF Live
  <2>18. ASSUME ~dangled' PROVE Accounted'
    <3>1. \A q : Answered(q)' => Answered(q)
      BY <2>8 DEF Answered, Becomes, Others
    <3>2. ~Answered(p)
      BY <2>11 DEF Answered, Claims, Freeing, CallsKnow, CallKnows
    <3>3. Accounted /\ Allocation(p)' = Target(c) /\ remote' \ lost' = remote \ lost
      BY <1>2, <1>7, <2>16, <2>18
    <3> QED BY <2>2, <2>3, <2>14, <2>15, <3>1, <3>2, <3>3 DEF Accounted
  <2> QED BY <2>7, <2>9, <2>12, <2>13, <2>17, <2>18
<1> QED BY <1>4, <1>5, <1>6, <1>7 DEF AllocationDone

(* The mapping that goes is nobody else's: its pointer is in no Has and in *)
(* no other request.                                                       *)
LEMMA FreeDoneStep == ASSUME LInv, NEW c \in Clients, FreeDone(c) PROVE LInv'
<1> USE LauncherAssumption DEF LInv
<1> DEFINE p == call[c].ptr
<1>1. Becomes(c, "idle", NoPtr, NoOne, NoOne) /\ Others(c) /\ call[c].step = "freeReply"
  BY AnswerBecomes DEF FreeDone, CallTypes, Becomes
<1>2. UNCHANGED <<loop, mutex, remote, lost, owns, retry, refreed, dangled>> /\ UNCHANGED confVars
      /\ loop = NoOne
  BY DEF FreeDone, ownVars
<1>3. p # NoPtr /\ Freeing(c) /\ p \in Claims(c)
  BY <1>1 DEF CallsKnow, CallKnows, Freeing, Claims
<1>4. p \in Mapped /\ p \in heap /\ p \notin Has(c) /\ \A d \in Clients : d # c => p \notin Claims(d)
  BY <1>3 DEF Disjoint
<1>5. memory_map' = [q \in Mapped \ {p} |-> memory_map[q]] /\ heap' = heap \ {p} /\ spent' = spent \ {p}
  BY DEF FreeDone
<1>6. doubleDelete' = doubleDelete
  BY <1>4, Zenon DEF FreeDone, MapTypes
<1>7. Answered(p)
  BY <1>1 DEF Answered
<1> HIDE DEF p
<1>8. Mapped' = Mapped \ {p} /\ \A q \in Mapped : q # p => Allocation(q)' = Allocation(q)
  BY <1>5 DEF Mapped, Allocation
<1>9. ConfTypes' /\ CallTypes'
  BY <1>1, <1>2, ConfQuiet DEF CallTypes, Becomes
<1>10. MapTypes'
  BY <1>2, <1>5, <1>6, <1>8 DEF MapTypes
<1>11. \A d \in Clients : Has(d)' = Has(d)
  BY <1>2 DEF Has
<1>12. /\ ~Freeing(c)'
       /\ \A d \in Clients : d # c => (Freeing(d)' <=> Freeing(d)) /\ call'[d].ptr = call[d].ptr
  BY <1>1 DEF Becomes, Others, Freeing
<1>13. Claims(c)' \subseteq Claims(c) \ {p} /\ \A d \in Clients : d # c => Claims(d)' = Claims(d)
  BY <1>4, <1>11, <1>12 DEF Claims
<1>14. Disjoint' /\ Unspent'
  BY <1>2, <1>4, <1>5, <1>6, <1>8, <1>11, <1>12, <1>13 DEF Disjoint, Unspent
<1>15. CallsKnow'
  <2>1. ASSUME NEW d \in Clients, d # c PROVE CallKnows(d)'
    <3>1. call'[d] = call[d] /\ CallKnows(d)
      BY <1>1, <2>1 DEF Others, CallsKnow
    <3>2. call[d].step \in {"sendFree", "freeAtNode", "freeReply"} => call[d].ptr \in Mapped /\ call[d].ptr # p
      <4>1. call[d].step \in {"sendFree", "freeAtNode", "freeReply"} => call[d].ptr \in Claims(d)
        BY <3>1 DEF CallKnows, Freeing, Claims
      <4> QED BY <1>4, <2>1, <4>1 DEF Disjoint
    <3>3. call[d].step \notin LoopSteps
      BY <1>2, <3>1 DEF CallKnows
    <3> QED BY <1>2, <1>8, <3>1, <3>2, <3>3 DEF CallKnows, Target, LoopSteps
  <2>2. CallKnows(c)'
    BY <1>1 DEF Becomes, CallKnows, LoopSteps
  <2> QED BY <2>1, <2>2 DEF CallsKnow
<1>16. \A d \in Clients : Pending(d)' <=> Pending(d)
  BY <1>1 DEF Becomes, Others, Pending
<1>17. \A d \in Clients : Pending(d) => Target(d)' = Target(d)
  BY <1>1 DEF Becomes, Others, Pending, Target
<1>18. ASSUME ~dangled', ~refreed' PROVE Live'
  <2>1. \A d \in Clients : \A q \in Held(d)' : q \in Held(d) /\ Allocation(q)' = Allocation(q)
    BY <1>4, <1>5, <1>8, <1>13 DEF Held, Disjoint
  <2>2. Live
    BY <1>2, <1>18
  <2> QED BY <1>2, <1>16, <1>17, <2>1, <2>2 DEF Live
<1>19. ASSUME ~dangled' PROVE Accounted'
  <2>1. \A q : Answered(q)' => Answered(q)
    BY <1>1 DEF Answered, Becomes, Others
  <2> QED BY <1>2, <1>7, <1>8, <1>16, <1>17, <1>19, <2>1 DEF Accounted
<1> QED BY <1>9, <1>10, <1>14, <1>15, <1>18, <1>19

LEMMA NodeAllocatesStep == ASSUME LInv, NEW c \in Clients, NodeAllocates(c) PROVE LInv'
<1> USE LauncherAssumption DEF LInv
<1>1. /\ UNCHANGED <<loop, mutex, lost, owns, retry, memory_map, heap, dangled, doubleDelete, spent, refreed>>
      /\ UNCHANGED confVars
      /\ call[c].step = "allocAtNode" /\ call[c].node \in NodeIds /\ call[c].handle = NoOne
  BY DEF NodeAllocates, mapVars, ownVars, CallsKnow, CallKnows
<1>2. CASE Goto(c, "allocReply") /\ UNCHANGED remote
  <2>1. Becomes(c, "allocReply", call[c].ptr, call[c].node, NoOne)
    BY <1>1, <1>2, GotoBecomes DEF CallTypes, Steps
  <2>2. ~Freeing(c)' /\ CallKnows(c)' /\ ~Pending(c) /\ ~Pending(c)' /\ dangled' \in BOOLEAN
    BY <1>1, <2>1 DEF Becomes, Freeing, CallKnows, LoopSteps, Pending, MapTypes
  <2> QED BY <1>1, <1>2, <2>1, <2>2, Quiet
<1>3. ASSUME NEW h \in Handles, <<call[c].node, h>> \notin remote,
             remote' = remote \cup {<<call[c].node, h>>},
             call' = [call EXCEPT ![c] = Call("allocReply", NoPtr, call[c].node, h, call[c].epoch)]
      PROVE  LInv'
  <2>1. Becomes(c, "allocReply", NoPtr, call[c].node, h)
    <3>1. "allocReply" \in Steps /\ call[c].epoch \in 0..MaxReloads
      BY DEF Steps, CallTypes, CallType
    <3> QED BY <1>1, <1>3, <3>1, CallBecomes DEF CallTypes
  <2>2. Others(c) /\ CallTypes' /\ ConfTypes'
    BY <1>1, <2>1, ConfQuiet DEF CallTypes, Becomes
  <2>3. Mapped' = Mapped /\ \A q : Allocation(q)' = Allocation(q)
    BY <1>1 DEF Mapped, Allocation
  <2>4. MapTypes'
    BY <1>1, <1>3, <2>3 DEF MapTypes
  <2>5. /\ ~Freeing(c)' /\ (\A d \in Clients : Has(d)' = Has(d))
        /\ \A d \in Clients : d # c => (Freeing(d)' <=> Freeing(d)) /\ call'[d].ptr = call[d].ptr
    BY <1>1, <2>1, <2>2 DEF Becomes, Others, Freeing, Has
  <2>6. \A d \in Clients : Claims(d)' \subseteq Claims(d)
    BY <2>5 DEF Claims
  <2>7. Disjoint' /\ Unspent'
    BY <1>1, <2>3, <2>5, <2>6 DEF Disjoint, Unspent
  <2>8. CallsKnow'
    <3>1. ASSUME NEW d \in Clients, d # c PROVE CallKnows(d)'
      BY <1>1, <2>2, <2>3, <3>1 DEF CallsKnow, CallKnows, Others, Target
    <3>2. CallKnows(c)'
      BY <1>1, <2>1 DEF Becomes, CallKnows, LoopSteps
    <3> QED BY <3>1, <3>2 DEF CallsKnow
  <2>9. Target(c)' = <<call[c].node, h>> /\ h # NoOne /\ Pending(c)' /\ ~Pending(c)
    BY <1>1, <2>1 DEF Becomes, Target, Pending
  <2>10. \A d \in Clients : d # c => (Pending(d)' <=> Pending(d)) /\ Target(d)' = Target(d)
    BY <2>2 DEF Others, Pending, Target
  <2>11. ASSUME ~dangled', ~refreed' PROVE Live'
    <3>1. \A d \in Clients : Held(d)' \subseteq Held(d)
      BY <1>1, <2>6 DEF Held
    <3>2. Live
      BY <1>1, <2>11
    <3>3. ASSUME NEW d \in Clients, NEW q \in Held(d)'
          PROVE  /\ Allocation(q)' \in remote' /\ Allocation(q)' # Target(c)'
                 /\ \A e \in Clients : \A r \in Held(e)' : Allocation(q)' = Allocation(r)' => q = r
      BY <1>3, <2>3, <2>9, <3>1, <3>2 DEF Live
    <3>4. ASSUME NEW d \in Clients, Pending(d)', d # c
          PROVE  /\ Target(d)' \in remote' /\ Target(d)' # Target(c)'
                 /\ \A e \in Clients : /\ \A r \in Held(e)' : Allocation(r)' # Target(d)'
                                       /\ Pending(e)' /\ Target(d)' = Target(e)' => d = e
      BY <1>3, <2>3, <2>9, <2>10, <3>1, <3>2, <3>4 DEF Live
    <3>5. Target(c)' \in remote'
      BY <1>3, <2>9
    <3> QED BY <3>3, <3>4, <3>5 DEF Live
  <2>12. ASSUME ~dangled' PROVE Accounted'
    <3>1. \A q : Answered(q)' => Answered(q)
      BY <2>1 DEF Answered, Becomes, Others
    <3>2. \A d \in Clients : Pending(d) => Pending(d)' /\ Target(d)' = Target(d)
      BY <2>9, <2>10
    <3> QED BY <1>1, <1>3, <2>3, <2>9, <2>12, <3>1, <3>2 DEF Accounted
  <2> QED BY <2>2, <2>4, <2>7, <2>8, <2>11, <2>12
<1> QED BY <1>2, <1>3 DEF NodeAllocates

(* What the node frees is what the pointer stands for, and nobody else's   *)
(* unless the pointer's own allocation is gone and its handle is in use    *)
(* again.                                                                  *)
LEMMA NodeFreesStep == ASSUME LInv, NEW c \in Clients, NodeFrees(c) PROVE LInv'
<1> USE LauncherAssumption DEF LInv
<1> DEFINE a == Target(c)
           p == call[c].ptr
<1>1. /\ UNCHANGED <<loop, mutex, owns, retry, memory_map, heap, dangled, doubleDelete>> /\ UNCHANGED confVars
      /\ call[c].step = "freeAtNode"
  BY DEF NodeFrees, mapVars, ownVars
<1>2. Becomes(c, "freeReply", p, call[c].node, call[c].handle) /\ Others(c)
  BY GotoBecomes DEF NodeFrees, CallTypes, Steps, Becomes
<1>3. p # NoPtr /\ p \in Claims(c) /\ Freeing(c) /\ call[c].node \in NodeIds /\ (~dangled => a = Allocation(p))
  BY <1>1 DEF CallsKnow, CallKnows, Claims, Freeing
<1>4. \/ remote' = remote \ {a} /\ lost' = lost \ {a} /\ spent' = spent \cup {p}
      \/ remote' = remote /\ lost' = lost \cup ({a} \cap remote) /\ spent' = spent
  BY DEF NodeFrees, Target
<1>5. refreed' \in BOOLEAN /\ (refreed => refreed')
  <2>1. refreed' = (refreed \/ (p \in spent /\ a \in remote)) \/ refreed' = refreed
    BY DEF NodeFrees, Target
  <2> HIDE DEF a, p
  <2> QED BY <2>1, Zenon DEF MapTypes
<1>6. ~refreed' /\ remote' # remote => p \notin spent
  BY DEF NodeFrees, Target
<1>7. Mapped' = Mapped /\ \A q : Allocation(q)' = Allocation(q)
  BY <1>1 DEF Mapped, Allocation
<1>8. CallTypes' /\ ConfTypes'
  BY <1>1, <1>2, ConfQuiet DEF CallTypes, Becomes
<1>9. p \in Mapped /\ \A d \in Clients : d # c => p \notin Claims(d)
  BY <1>3 DEF Disjoint
<1>10. MapTypes'
  BY <1>1, <1>4, <1>5, <1>7, <1>9 DEF MapTypes
<1>11. \A d \in Clients : /\ (Freeing(d)' <=> Freeing(d)) /\ call'[d].ptr = call[d].ptr
                          /\ Has(d)' = Has(d)
  BY <1>1, <1>2, <1>3 DEF Becomes, Others, Freeing, Has
<1>12. \A d \in Clients : Claims(d)' = Claims(d)
  BY <1>11 DEF Claims
<1>13. Disjoint' /\ Unspent'
  <2>1. \A d \in Clients : p \notin owns[d]
    BY <1>3, <1>9 DEF Disjoint, Claims, Has
  <2>2. Unspent'
    BY <1>1, <1>4, <2>1 DEF Unspent
  <2> QED BY <1>1, <1>7, <1>11, <1>12, <2>2 DEF Disjoint
<1>14. CallsKnow'
  <2>1. ASSUME NEW d \in Clients, d # c PROVE CallKnows(d)'
    BY <1>1, <1>2, <1>7, <2>1 DEF CallsKnow, CallKnows, Others, Target
  <2>2. CallKnows(c)'
    BY <1>1, <1>2, <1>3, <1>7 DEF Becomes, CallKnows, LoopSteps, Target
  <2> QED BY <2>1, <2>2 DEF CallsKnow
<1>15. \A d \in Clients : (Pending(d)' <=> Pending(d)) /\ Target(d)' = Target(d)
  BY <1>1, <1>2 DEF Becomes, Others, Pending, Target
<1> HIDE DEF a, p
<1>16. ASSUME ~dangled', ~refreed' PROVE Live'
  <2>1. Live /\ a = Allocation(p)
    BY <1>1, <1>3, <1>5, <1>16
  <2>2. CASE remote' = remote
    <3>1. \A d \in Clients : Held(d)' \subseteq Held(d)
      BY <1>4, <1>12 DEF Held
    <3> QED BY <1>7, <1>15, <2>1, <2>2, <3>1 DEF Live
  <2>3. CASE remote' # remote
    <3>1. p \in Held(c) /\ remote' = remote \ {a} /\ spent' = spent \cup {p}
      BY <1>3, <1>4, <1>6, <1>16, <2>3 DEF Held
    <3>2. \A d \in Clients : \A q \in Held(d)' : q \in Held(d) /\ Allocation(q) # a
      BY <1>12, <2>1, <3>1 DEF Held, Live
    <3>3. \A d \in Clients : Pending(d) => Target(d) # a
      BY <2>1, <3>1 DEF Live
    <3> QED BY <1>7, <1>15, <2>1, <3>1, <3>2, <3>3 DEF Live
  <2> QED BY <2>2, <2>3
<1>17. ASSUME ~dangled' PROVE Accounted'
  <2>1. \A q : Answered(q)' => Answered(q) \/ q = p
    BY <1>2 DEF Answered, Becomes, Others
  <2>2. a \notin remote' \ lost' /\ remote' \ lost' \subseteq remote \ lost
    BY <1>4
  <2> QED BY <1>1, <1>3, <1>7, <1>15, <1>17, <2>1, <2>2 DEF Accounted
<1> QED BY <1>8, <1>10, <1>13, <1>14, <1>16, <1>17

(* Everything but the configuration stays. *)
LEMMA SameState ==
  ASSUME LInv, ConfTypes', UNCHANGED <<loop, call, memory_map, heap, dangled, doubleDelete, owns, retry,
                                       spent, refreed, remote, lost>>
  PROVE  LInv'
<1>1. MapTypes' /\ CallTypes'
  BY DEF LInv, MapTypes, CallTypes, Mapped
<1>2. Disjoint' /\ Unspent' /\ CallsKnow'
  BY DEF LInv, Disjoint, Unspent, Claims, Has, Freeing, CallsKnow, CallKnows, Target, Allocation, Mapped
<1>3. ~dangled' /\ ~refreed' => Live'
  BY DEF LInv, Live, Held, Claims, Has, Freeing, Pending, Target, Allocation
<1>4. ~dangled' => Accounted'
  BY DEF LInv, Accounted, Pending, Target, Answered, Allocation, Mapped
<1> QED BY <1>1, <1>2, <1>3, <1>4 DEF LInv

(* A reload leaves requests, pointers and nodes alone. *)
LEMMA ReloadStep == ASSUME LInv, LoadConfig \/ LoadConfigDone PROVE LInv'
<1> USE LauncherAssumption DEF LInv
<1>1. ConfTypes'
  <2>1. CASE LoadConfig
    BY <2>1 DEF LoadConfig, ConfTypes
  <2>2. CASE LoadConfigDone
    <3>1. PICK new \in Loaded : /\ nodes' = nodes \o new
                                /\ epoch' \in IF new = <<>> THEN {epoch} ELSE {epoch, epoch + 1}
      BY <2>2 DEF LoadConfigDone
    <3>2. nodes' \in Seq(NodeIds)
      BY <3>1, SubSeqLoaded DEF ConfTypes
    <3>3. epoch' \in {epoch, epoch + 1} /\ mutex = "config" /\ mutex' = NoOne /\ reloads' = reloads
      BY <2>2, <3>1 DEF LoadConfigDone
    <3> QED BY <3>2, <3>3 DEF ConfTypes
  <2> QED BY <2>1, <2>2
<1>2. UNCHANGED <<loop, call, memory_map, heap, dangled, doubleDelete, owns, retry, spent, refreed, remote, lost>>
  BY DEF LoadConfig, LoadConfigDone, mapVars, nodeVars, ownVars
<1> QED BY <1>1, <1>2, SameState

LEMMA StepLInv == LInv /\ [Next]_vars => LInv'
<1> SUFFICES ASSUME LInv, [Next]_vars PROVE LInv'
  OBVIOUS
<1>1. CASE UNCHANGED vars
  <2>1. ConfTypes'
    BY <1>1 DEF vars, LInv, ConfTypes
  <2> QED BY <1>1, <2>1, SameState DEF vars
<1> QED
  BY <1>1, ClientAllocatesStep, ClientFreesStep, ClientPlansCopyStep, requestAllocationStep,
     PickNodeStep, SendAllocationStep, AllocationDoneStep, requestFreeStep, GetNodeByIdStep,
     SendFreeStep, FreeDoneStep, planMemcpyHtoDStep, NodeAllocatesStep, NodeFreesStep,
     ConnectionLostStep, ReloadStep
     DEF Next, Serve, NodeStep

LEMMA InductiveLInv == Spec => []LInv
  BY InitLInv, StepLInv, PTL DEF Spec

-----------------------------------------------------------------------------
(* Every variable keeps its type; the vector has moved no more often than  *)
(* the configuration was loaded again.                                     *)
THEOREM LauncherTypeCorrect == Spec => []TypeOK
<1>1. LInv => TypeOK
  BY DEF LInv, TypeOK, ConfTypes, MapTypes, CallTypes
<1> QED BY <1>1, InductiveLInv, PTL

(* memory_map_ and the cells of operator new agree, no cell is deleted     *)
(* twice, and a fake pointer has one owner, whatever nodes, connections,   *)
(* repeated frees and reloads do.                                          *)
THEOREM PointersCorrect == Spec => []PointersMapped
<1>1. LInv => PointersMapped
  BY DisjointIsMapped DEF LInv
<1> QED BY <1>1, InductiveLInv, PTL

(* As long as no request has read through a moved vector and no repeated   *)
(* free has hit a handle in use again, what a client holds is alive on its *)
(* node and nobody else's.                                                 *)
THEOREM OwnedCorrect == Spec => []OwnedStaysLive
<1>1. ASSUME LInv, ~dangled, ~refreed PROVE OwnedIsLive
  <2>1. \A c \in Clients : owns[c] \subseteq Held(c)
    BY <1>1 DEF LInv, Unspent, Held, Claims, Has
  <2>2. Live
    BY <1>1 DEF LInv
  <2> QED BY <2>1, <2>2 DEF OwnedIsLive, Live
<1>2. LInv => OwnedStaysLive
  BY <1>1 DEF OwnedStaysLive
<1> QED BY <1>2, InductiveLInv, PTL

(* No allocation on a node is forgotten without a failure having been      *)
(* reported, as long as no request has read through a moved vector.        *)
THEOREM RemoteCorrect == Spec => []RemoteAccounted
<1>1. LInv => RemoteAccounted
  BY DEF LInv, RemoteAccounted, Accounted, Pending, Target
<1> QED BY <1>1, InductiveLInv, PTL
==============================================================================
