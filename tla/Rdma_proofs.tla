---------------------------- MODULE Rdma_proofs ----------------------------
(***************************************************************************)
(* What RdmaTransport and transferGpuBuffer keep for any number of threads *)
(* and addresses.  The two properties rest on one invariant: who holds   *)
(* m_mutex, and what a thread may rely on while it does.                   *)
(***************************************************************************)
EXTENDS Rdma, TLAPS

Pcs == {"idle", "register", "copy", "free", "lock", "relocked", "reentered", "qp", "post", "poll"}
Locked == {"register", "relocked", "reentered", "qp", "post", "poll"}

(* A call, told by the fields the invariant speaks of *)
InCall(c) ==
  /\ {"pc", "op", "addr"} \subseteq DOMAIN c
  /\ c.pc \in Pcs /\ c.op \in {"none", "app", "gpu"}
  /\ c.addr \in Addrs \cup {NoBuffer}
  /\ c.pc = "idle" => c.op = "none" /\ c.addr = NoBuffer
  /\ c.pc # "idle" => c.addr \in Addrs
  /\ c.pc = "register" => c.op = "none"
  /\ c.pc \in {"copy", "free"} => c.op = "gpu"

(* What the transport's state is for a thread in a call *)
Sees(t, c, mutex, regions, memory, pairs) ==
  /\ mutex = t <=> c.pc \in Locked
  /\ c.pc = "register" => regions[c.addr] = "none" /\ memory[c.addr] = "app"
  /\ c.pc = "reentered" => regions[c.addr] = "none"
  /\ c.op = "gpu" => memory[c.addr] = "host"
  /\ c.pc \in {"qp", "post", "poll"} => regions[c.addr] # "none"
  /\ t \in pairs => c.pc \in {"post", "poll"}

ThreadsOK ==
  \A t \in RdmaThreads :
    InCall(rdmaCall[t]) /\ Sees(t, rdmaCall[t], m_mutex, m_memoryRegions, mem, qps)

(* Each host buffer belongs to one call, or to none after an exception. *)
HostsOK ==
  /\ \A t, u \in RdmaThreads : t # u /\ rdmaCall[t].op = "gpu" /\ rdmaCall[u].op = "gpu"
                                => rdmaCall[t].addr # rdmaCall[u].addr
  /\ \A a \in Addrs : mem[a] = "host" /\ a \notin threw =>
       \E t \in RdmaThreads : rdmaCall[t].op = "gpu" /\ rdmaCall[t].addr = a

Types ==
  /\ m_mutex \in RdmaThreads \cup {NoRdmaThread} /\ qps \subseteq RdmaThreads
  /\ m_memoryRegions \in [Addrs -> {"none", "own", "stale"}]
  /\ mrs \in [Addrs -> Nat] /\ mem \in [Addrs -> {"free", "app", "host"}]
  /\ DOMAIN rdmaCall = RdmaThreads

RInv == Types /\ ThreadsOK /\ HostsOK /\ RegionsTracked

-----------------------------------------------------------------------------
(* How a step changes the call of its thread *)
Moves(t, pc, op, addr) ==
  /\ DOMAIN rdmaCall' = RdmaThreads
  /\ \A u \in RdmaThreads \ {t} : rdmaCall'[u] = rdmaCall[u]
  /\ {"pc", "op", "addr"} \subseteq DOMAIN rdmaCall'[t]
  /\ rdmaCall'[t].pc = pc /\ rdmaCall'[t].op = op /\ rdmaCall'[t].addr = addr

LEMMA GoesMoves ==
  ASSUME RInv, NEW t \in RdmaThreads, NEW pc, GoesTo(t, pc)
  PROVE  Moves(t, pc, rdmaCall[t].op, rdmaCall[t].addr)
<1>1. DOMAIN rdmaCall = RdmaThreads /\ {"pc", "op", "addr"} \subseteq DOMAIN rdmaCall[t]
  BY DEF RInv, Types, ThreadsOK, InCall
<1>2. DOMAIN rdmaCall' = RdmaThreads /\ \A u \in RdmaThreads \ {t} : rdmaCall'[u] = rdmaCall[u]
  BY <1>1 DEF GoesTo
<1>3. rdmaCall'[t] = [rdmaCall[t] EXCEPT !.pc = pc]
  BY <1>1 DEF GoesTo
<1>4. DOMAIN rdmaCall'[t] = DOMAIN rdmaCall[t]
  BY <1>3
<1>5. rdmaCall'[t].pc = pc /\ rdmaCall'[t].op = rdmaCall[t].op /\ rdmaCall'[t].addr = rdmaCall[t].addr
  BY <1>1, <1>3
<1> QED
  BY <1>1, <1>2, <1>4, <1>5 DEF Moves

LEMMA EndsMoves ==
  ASSUME RInv, NEW t \in RdmaThreads, Ends(t)
  PROVE  Moves(t, "idle", "none", NoBuffer)
<1>1. DOMAIN rdmaCall = RdmaThreads
  BY DEF RInv, Types
<1>2. DOMAIN rdmaCall' = RdmaThreads /\ \A u \in RdmaThreads \ {t} : rdmaCall'[u] = rdmaCall[u]
  BY <1>1 DEF Ends
<1>3. rdmaCall'[t] = NoRdmaCall
  BY <1>1 DEF Ends
<1> QED
  BY <1>2, <1>3 DEF Moves, NoRdmaCall

LEMMA BeginMoves ==
  ASSUME RInv, NEW t \in RdmaThreads, NEW c, rdmaCall' = [rdmaCall EXCEPT ![t] = c],
         {"pc", "op", "addr"} \subseteq DOMAIN c
  PROVE  Moves(t, c.pc, c.op, c.addr)
<1>1. DOMAIN rdmaCall = RdmaThreads
  BY DEF RInv, Types
<1>2. DOMAIN rdmaCall' = RdmaThreads /\ \A u \in RdmaThreads \ {t} : rdmaCall'[u] = rdmaCall[u]
  BY <1>1
<1>3. rdmaCall'[t] = c
  BY <1>1
<1> QED
  BY <1>2, <1>3 DEF Moves

-----------------------------------------------------------------------------
(* A step of one thread that changes no buffer and no region: it is enough *)
(* to look at that thread and at what it does to m_mutex and qps.          *)
LEMMA QuietStep ==
  ASSUME RInv, NEW t \in RdmaThreads, NEW pc, NEW op, NEW addr, Moves(t, pc, op, addr),
         UNCHANGED <<m_memoryRegions, mrs, mem, threw>>,
         InCall(rdmaCall'[t]), Sees(t, rdmaCall'[t], m_mutex', m_memoryRegions, mem, qps'),
         m_mutex' = m_mutex \/ {m_mutex, m_mutex'} \subseteq {t, NoRdmaThread},
         qps' \subseteq RdmaThreads, qps' \ {t} = qps \ {t},
         op = "gpu" <=> rdmaCall[t].op = "gpu",
         op = "gpu" => addr = rdmaCall[t].addr
  PROVE  RInv'
<1>1. Types'
  BY DEF RInv, Types, Moves
<1>2. ASSUME NEW u \in RdmaThreads
      PROVE  InCall(rdmaCall'[u]) /\ Sees(u, rdmaCall'[u], m_mutex', m_memoryRegions', mem', qps')
  <2>1. CASE u = t
    BY <2>1
  <2>2. CASE u # t
    <3>1. rdmaCall'[u] = rdmaCall[u]
      BY <2>2 DEF Moves
    <3>2. (m_mutex' = u) <=> (m_mutex = u)
      BY <2>2, RdmaAssumption
    <3>3. u \in qps' <=> u \in qps
      BY <2>2
    <3> QED
      BY <3>1, <3>2, <3>3 DEF RInv, ThreadsOK, Sees
  <2> QED
    BY <2>1, <2>2
<1>3. \A u \in RdmaThreads : /\ rdmaCall'[u].op = "gpu" <=> rdmaCall[u].op = "gpu"
                             /\ rdmaCall'[u].op = "gpu" => rdmaCall'[u].addr = rdmaCall[u].addr
  BY DEF Moves
<1>4. HostsOK'
  <2>1. \A u, v \in RdmaThreads : u # v /\ rdmaCall'[u].op = "gpu" /\ rdmaCall'[v].op = "gpu"
                                  => rdmaCall'[u].addr # rdmaCall'[v].addr
    BY <1>3 DEF RInv, HostsOK
  <2>2. ASSUME NEW a \in Addrs, mem'[a] = "host", a \notin threw'
        PROVE  \E u \in RdmaThreads : rdmaCall'[u].op = "gpu" /\ rdmaCall'[u].addr = a
    <3>1. PICK u \in RdmaThreads : rdmaCall[u].op = "gpu" /\ rdmaCall[u].addr = a
      BY <2>2 DEF RInv, HostsOK
    <3> QED
      BY <1>3, <3>1
  <2> QED
    BY <2>1, <2>2 DEF HostsOK
<1>5. RegionsTracked'
  BY DEF RInv, RegionsTracked
<1> QED
  BY <1>1, <1>2, <1>4, <1>5 DEF RInv, ThreadsOK

(* What the invariant says of the thread that moves *)
LEMMA OwnFacts ==
  ASSUME RInv, NEW t \in RdmaThreads
  PROVE  /\ InCall(rdmaCall[t]) /\ Sees(t, rdmaCall[t], m_mutex, m_memoryRegions, mem, qps)
         /\ qps \subseteq RdmaThreads /\ t # NoRdmaThread
  BY RdmaAssumption DEF RInv, ThreadsOK, Types

LEMMA RegisterStep ==
  ASSUME RInv, NEW t \in RdmaThreads, NEW a \in Addrs, RegisterMemory(t, a)
  PROVE  RInv'
<1> DEFINE c == [NoRdmaCall EXCEPT !.pc = "register", !.addr = a]
<1>1. Moves(t, "register", "none", a)
  <2>1. DOMAIN NoRdmaCall = {"pc", "op", "addr", "gdr"} /\ NoRdmaCall.op = "none"
    BY DEF NoRdmaCall
  <2>2. DOMAIN c = DOMAIN NoRdmaCall
    OBVIOUS
  <2>3. c.pc = "register" /\ c.op = "none" /\ c.addr = a
    BY <2>1
  <2>4. rdmaCall' = [rdmaCall EXCEPT ![t] = c]
    BY DEF RegisterMemory
  <2> HIDE DEF c
  <2>5. Moves(t, c.pc, c.op, c.addr)
    BY <2>1, <2>2, <2>4, BeginMoves
  <2> QED
    BY <2>3, <2>5
<1>2. InCall(rdmaCall'[t])
  BY <1>1 DEF Moves, InCall, Pcs
<1>3. Sees(t, rdmaCall'[t], m_mutex', m_memoryRegions, mem, qps')
  BY <1>1, OwnFacts DEF Moves, Sees, RegisterMemory, InStep, Locked, InCall
<1> QED
  BY <1>1, <1>2, <1>3, OwnFacts, QuietStep DEF RegisterMemory, InStep, InCall

LEMMA CopyStep ==
  ASSUME RInv, NEW t \in RdmaThreads, CopyFromGpu(t)
  PROVE  RInv'
<1>1. PICK pc \in {"lock", "free"} : GoesTo(t, pc)
  BY DEF CopyFromGpu
<1>2. Moves(t, pc, rdmaCall[t].op, rdmaCall[t].addr)
  BY <1>1, GoesMoves
<1>3. InCall(rdmaCall'[t])
  BY <1>2, OwnFacts DEF Moves, InCall, Pcs, CopyFromGpu, InStep
<1>4. Sees(t, rdmaCall'[t], m_mutex', m_memoryRegions, mem, qps')
  BY <1>2, OwnFacts DEF Moves, Sees, CopyFromGpu, InStep, Locked
<1> QED
  BY <1>2, <1>3, <1>4, OwnFacts, QuietStep DEF CopyFromGpu

LEMMA TransferStep ==
  ASSUME RInv, NEW t \in RdmaThreads, NEW a \in Addrs, RdmaTransfer(t, a)
  PROVE  RInv'
<1>1. PICK g \in BOOLEAN :
        rdmaCall' = [rdmaCall EXCEPT ![t] = [pc |-> "lock", op |-> "app", addr |-> a, gdr |-> g]]
  BY DEF RdmaTransfer
<1>2. Moves(t, "lock", "app", a)
  <2> DEFINE c == [pc |-> "lock", op |-> "app", addr |-> a, gdr |-> g]
  <2>1. {"pc", "op", "addr"} \subseteq DOMAIN c /\ c.pc = "lock" /\ c.op = "app" /\ c.addr = a
    OBVIOUS
  <2>2. rdmaCall' = [rdmaCall EXCEPT ![t] = c]
    BY <1>1
  <2> HIDE DEF c
  <2>3. Moves(t, c.pc, c.op, c.addr)
    BY <2>1, <2>2, BeginMoves
  <2> QED
    BY <2>1, <2>3
<1>3. InCall(rdmaCall'[t])
  BY <1>2 DEF Moves, InCall, Pcs
<1>4. Sees(t, rdmaCall'[t], m_mutex', m_memoryRegions, mem, qps')
  BY <1>2, OwnFacts DEF Moves, Sees, RdmaTransfer, InStep, Locked
<1> QED
  BY <1>2, <1>3, <1>4, OwnFacts, QuietStep DEF RdmaTransfer, InStep, InCall

(* Transfer returns: to transferGpuBuffer, or to the application. *)
LEMMA ReturnsStep ==
  ASSUME RInv, NEW t \in RdmaThreads, rdmaCall[t].pc \in {"reentered", "qp", "post", "poll"}, Returns(t),
         UNCHANGED <<m_memoryRegions, mrs, mem, threw>>, qps' = qps \ {t}
  PROVE  RInv'
<1>1. m_mutex = t /\ m_mutex' = NoRdmaThread
  BY OwnFacts DEF Sees, Returns, Locked
<1>2. CASE rdmaCall[t].op = "gpu"
  <2>1. Moves(t, "free", rdmaCall[t].op, rdmaCall[t].addr)
    BY <1>2, GoesMoves DEF Returns
  <2>2. InCall(rdmaCall'[t])
    BY <1>2, <2>1, OwnFacts DEF Moves, InCall, Pcs
  <2>3. Sees(t, rdmaCall'[t], m_mutex', m_memoryRegions, mem, qps')
    BY <1>1, <2>1, OwnFacts DEF Moves, Sees, Locked
  <2> QED
    BY <1>1, <2>1, <2>2, <2>3, OwnFacts, QuietStep
<1>3. CASE rdmaCall[t].op # "gpu"
  <2>1. Moves(t, "idle", "none", NoBuffer)
    BY <1>3, EndsMoves DEF Returns
  <2>2. InCall(rdmaCall'[t])
    BY <2>1 DEF Moves, InCall, Pcs
  <2>3. Sees(t, rdmaCall'[t], m_mutex', m_memoryRegions, mem, qps')
    BY <1>1, <2>1, OwnFacts DEF Moves, Sees, Locked
  <2> QED
    BY <1>1, <1>3, <2>1, <2>2, <2>3, OwnFacts, QuietStep
<1> QED
  BY <1>2, <1>3

LEMMA QpStep ==
  ASSUME RInv, NEW t \in RdmaThreads, TransferQp(t)
  PROVE  RInv'
<1>0. m_mutex = t /\ t \notin qps /\ rdmaCall[t].pc = "qp"
  BY OwnFacts DEF TransferQp, InStep, Sees, Locked
<1>1. CASE qps' = qps \cup {t} /\ GoesTo(t, "post") /\ UNCHANGED m_mutex
  <2>1. Moves(t, "post", rdmaCall[t].op, rdmaCall[t].addr)
    BY <1>1, GoesMoves
  <2>2. InCall(rdmaCall'[t])
    BY <1>0, <2>1, OwnFacts DEF Moves, InCall, Pcs
  <2>3. Sees(t, rdmaCall'[t], m_mutex', m_memoryRegions, mem, qps')
    BY <1>0, <1>1, <2>1, OwnFacts DEF Moves, Sees, Locked
  <2> QED
    BY <1>0, <1>1, <2>1, <2>2, <2>3, OwnFacts, QuietStep DEF TransferQp
<1>2. CASE Returns(t) /\ UNCHANGED qps
  <2>1. qps' = qps \ {t}
    BY <1>0, <1>2
  <2> QED
    BY <1>0, <1>2, <2>1, ReturnsStep DEF TransferQp
<1> QED
  BY <1>1, <1>2 DEF TransferQp

LEMMA PostStep ==
  ASSUME RInv, NEW t \in RdmaThreads, TransferPost(t)
  PROVE  RInv'
<1>0. rdmaCall[t].pc = "post" /\ m_mutex = t
  BY OwnFacts DEF TransferPost, InStep, Sees, Locked
<1>1. CASE GoesTo(t, "poll") /\ UNCHANGED <<qps, m_mutex>>
  <2>1. Moves(t, "poll", rdmaCall[t].op, rdmaCall[t].addr)
    BY <1>1, GoesMoves
  <2>2. InCall(rdmaCall'[t])
    BY <1>0, <2>1, OwnFacts DEF Moves, InCall, Pcs
  <2>3. Sees(t, rdmaCall'[t], m_mutex', m_memoryRegions, mem, qps')
    BY <1>0, <1>1, <2>1, OwnFacts DEF Moves, Sees, Locked
  <2> QED
    BY <1>1, <2>1, <2>2, <2>3, OwnFacts, QuietStep DEF TransferPost
<1>2. CASE Returns(t) /\ qps' = qps \ {t}
  BY <1>0, <1>2, ReturnsStep DEF TransferPost
<1> QED
  BY <1>1, <1>2 DEF TransferPost

LEMMA PollStep ==
  ASSUME RInv, NEW t \in RdmaThreads, TransferPoll(t)
  PROVE  RInv'
  BY ReturnsStep DEF TransferPoll, InStep

LEMMA LockStep ==
  ASSUME RInv, NEW t \in RdmaThreads, TransferLock(t)
  PROVE  RInv'
<1>0. rdmaCall[t].pc = "lock" /\ m_mutex = NoRdmaThread /\ t \notin qps /\ rdmaCall[t].addr \in Addrs
  BY OwnFacts DEF TransferLock, InStep, Sees, InCall
<1>1. CASE /\ Registered(t) /\ m_mutex' = t /\ GoesTo(t, "qp")
           /\ UNCHANGED <<m_memoryRegions, mrs, threw>>
  <2>1. Moves(t, "qp", rdmaCall[t].op, rdmaCall[t].addr)
    BY <1>1, GoesMoves
  <2>2. InCall(rdmaCall'[t])
    BY <1>0, <2>1, OwnFacts DEF Moves, InCall, Pcs
  <2>3. Sees(t, rdmaCall'[t], m_mutex', m_memoryRegions, mem, qps')
    BY <1>0, <1>1, <2>1, OwnFacts DEF Moves, Sees, Locked, Registered, TransferLock
  <2> QED
    BY <1>0, <1>1, <2>1, <2>2, <2>3, OwnFacts, QuietStep DEF TransferLock
<1>2. CASE m_mutex' = t /\ GoesTo(t, "relocked") /\ UNCHANGED <<m_memoryRegions, mrs, threw>>
  <2>1. Moves(t, "relocked", rdmaCall[t].op, rdmaCall[t].addr)
    BY <1>2, GoesMoves
  <2>2. InCall(rdmaCall'[t])
    BY <1>0, <2>1, OwnFacts DEF Moves, InCall, Pcs
  <2>3. Sees(t, rdmaCall'[t], m_mutex', m_memoryRegions, mem, qps')
    BY <1>0, <1>2, <2>1, OwnFacts DEF Moves, Sees, Locked, TransferLock
  <2> QED
    BY <1>0, <1>2, <2>1, <2>2, <2>3, OwnFacts, QuietStep DEF TransferLock
<1>3. CASE /\ threw' = threw \cup {rdmaCall[t].addr} /\ Ends(t)
           /\ UNCHANGED <<m_mutex, m_memoryRegions, mrs>>
  <2>1. Moves(t, "idle", "none", NoBuffer)
    BY <1>3, EndsMoves
  <2>2. UNCHANGED <<m_memoryRegions, mrs, mem, qps>>
    BY <1>3 DEF TransferLock
  <2>3. Types'
    BY <1>3, <2>1, <2>2 DEF RInv, Types, Moves
  <2>4. ASSUME NEW u \in RdmaThreads
        PROVE  InCall(rdmaCall'[u]) /\ Sees(u, rdmaCall'[u], m_mutex', m_memoryRegions', mem', qps')
    <3>1. CASE u = t
      <4>1. InCall(rdmaCall'[t])
        BY <2>1 DEF Moves, InCall, Pcs
      <4>2. Sees(t, rdmaCall'[t], m_mutex', m_memoryRegions', mem', qps')
        BY <1>0, <1>3, <2>1, <2>2, OwnFacts DEF Moves, Sees, Locked
      <4> QED
        BY <3>1, <4>1, <4>2
    <3>2. CASE u # t
      BY <3>2, <1>3, <2>1, <2>2 DEF Moves, RInv, ThreadsOK, Sees
    <3> QED
      BY <3>1, <3>2
  <2>5. HostsOK'
    BY <1>3, <2>1, <2>2 DEF Moves, RInv, HostsOK
  <2>6. RegionsTracked'
    BY <2>2 DEF RInv, RegionsTracked
  <2> QED
    BY <2>3, <2>4, <2>5, <2>6 DEF RInv, ThreadsOK
<1>4. CASE /\ ~Registered(t) /\ m_mutex' = t /\ GoesTo(t, "reentered")
           /\ UNCHANGED <<m_memoryRegions, mrs, threw>>
  <2>1. Moves(t, "reentered", rdmaCall[t].op, rdmaCall[t].addr)
    BY <1>4, GoesMoves
  <2>2. InCall(rdmaCall'[t])
    BY <1>0, <2>1, OwnFacts DEF Moves, InCall, Pcs
  <2>3. Sees(t, rdmaCall'[t], m_mutex', m_memoryRegions, mem, qps')
    BY <1>0, <1>4, <2>1, OwnFacts DEF Moves, Sees, Locked, Registered, TransferLock
  <2> QED
    BY <1>0, <1>4, <2>1, <2>2, <2>3, OwnFacts, QuietStep DEF TransferLock
<1> QED
  BY <1>1, <1>2, <1>3, <1>4 DEF TransferLock

(* A region is added, or not, for an address without one, by the holder of *)
(* m_mutex: the others rely on no region being missing.                    *)
Adds(a) ==
  \/ /\ m_memoryRegions' = [m_memoryRegions EXCEPT ![a] = "own"]
     /\ mrs' = [mrs EXCEPT ![a] = @ + 1]
  \/ UNCHANGED <<m_memoryRegions, mrs>>

LEMMA AddsFacts ==
  ASSUME RInv, NEW a \in Addrs, m_memoryRegions[a] = "none", Adds(a)
  PROVE  /\ RegionsTracked'
         /\ m_memoryRegions' \in [Addrs -> {"none", "own", "stale"}]
         /\ mrs' \in [Addrs -> Nat]
         /\ \A b \in Addrs : m_memoryRegions[b] # "none" => m_memoryRegions'[b] # "none"
  BY DEF RInv, Types, RegionsTracked, Adds

LEMMA InnerRegisterStep ==
  ASSUME RInv, NEW t \in RdmaThreads, TransferRegister(t)
  PROVE  RInv'
<1> DEFINE a == rdmaCall[t].addr
<1>0. /\ rdmaCall[t].pc = "reentered" /\ m_mutex = t /\ t \notin qps /\ a \in Addrs
      /\ m_memoryRegions[a] = "none"
  BY OwnFacts DEF TransferRegister, InStep, Sees, InCall, Locked
<1>1. CASE /\ m_memoryRegions' = [m_memoryRegions EXCEPT ![a] = "own"]
           /\ mrs' = [mrs EXCEPT ![a] = @ + 1]
           /\ GoesTo(t, "qp") /\ UNCHANGED m_mutex
  <2>1. Moves(t, "qp", rdmaCall[t].op, a)
    BY <1>1, GoesMoves
  <2>2. UNCHANGED <<qps, mem, threw, m_mutex>>
    BY <1>1 DEF TransferRegister
  <2>3. Adds(a)
    BY <1>1 DEF Adds
  <2>4. m_memoryRegions'[a] = "own"
    BY <1>0, <1>1 DEF RInv, Types
  <2>5. InCall(rdmaCall'[t])
    BY <1>0, <2>1, OwnFacts DEF Moves, InCall, Pcs
  <2>6. Sees(t, rdmaCall'[t], m_mutex', m_memoryRegions', mem', qps')
    BY <1>0, <2>1, <2>2, <2>4, OwnFacts DEF Moves, Sees, Locked
  <2> HIDE DEF a
  <2>7. /\ RegionsTracked' /\ m_memoryRegions' \in [Addrs -> {"none", "own", "stale"}]
        /\ mrs' \in [Addrs -> Nat]
        /\ \A b \in Addrs : m_memoryRegions[b] # "none" => m_memoryRegions'[b] # "none"
    BY <1>0, <2>3, AddsFacts
  <2>8. Types'
    BY <2>1, <2>2, <2>7 DEF RInv, Types, Moves
  <2>9. ASSUME NEW u \in RdmaThreads, u # t
        PROVE  InCall(rdmaCall'[u]) /\ Sees(u, rdmaCall'[u], m_mutex', m_memoryRegions', mem', qps')
    <3>1. rdmaCall'[u] = rdmaCall[u] /\ InCall(rdmaCall[u]) /\ Sees(u, rdmaCall[u], m_mutex, m_memoryRegions, mem, qps)
      BY <2>9, <2>1, OwnFacts DEF Moves
    <3>2. rdmaCall[u].pc \notin Locked /\ m_mutex' # u
      BY <2>9, <3>1, <1>0, <2>2 DEF Sees
    <3> QED
      BY <3>1, <3>2, <2>2 DEF Sees, Locked
  <2>10. HostsOK'
    BY <2>1, <2>2 DEF a, Moves, RInv, HostsOK
  <2> QED
    BY <2>5, <2>6, <2>7, <2>8, <2>9, <2>10 DEF RInv, ThreadsOK
<1>2. CASE Returns(t) /\ UNCHANGED <<m_memoryRegions, mrs>>
  <2>1. qps' = qps \ {t} /\ UNCHANGED <<mem, threw>>
    BY <1>0 DEF TransferRegister
  <2> QED
    BY <1>0, <1>2, <2>1, ReturnsStep
<1> QED
  BY <1>1, <1>2 DEF TransferRegister

LEMMA RegisterDoneStep ==
  ASSUME RInv, NEW t \in RdmaThreads, RegisterDone(t)
  PROVE  RInv'
<1> DEFINE a == rdmaCall[t].addr
<1>0. /\ rdmaCall[t].pc = "register" /\ m_mutex = t /\ t \notin qps /\ a \in Addrs
      /\ rdmaCall[t].op = "none" /\ m_memoryRegions[a] = "none" /\ mem[a] = "app"
  BY OwnFacts DEF RegisterDone, InStep, Sees, InCall, Locked
<1>1. Moves(t, "idle", "none", NoBuffer)
  BY EndsMoves DEF RegisterDone
<1>2. m_mutex' = NoRdmaThread /\ UNCHANGED <<qps, mem, threw>>
  BY DEF RegisterDone
<1>3. Adds(a)
  BY DEF RegisterDone, Adds
<1> HIDE DEF a
<1>4. /\ RegionsTracked' /\ m_memoryRegions' \in [Addrs -> {"none", "own", "stale"}]
      /\ mrs' \in [Addrs -> Nat]
      /\ \A b \in Addrs : m_memoryRegions[b] # "none" => m_memoryRegions'[b] # "none"
  BY <1>0, <1>3, AddsFacts
<1>5. Types'
  BY <1>1, <1>2, <1>4 DEF RInv, Types, Moves
<1>6. ASSUME NEW u \in RdmaThreads
      PROVE  InCall(rdmaCall'[u]) /\ Sees(u, rdmaCall'[u], m_mutex', m_memoryRegions', mem', qps')
  <2>1. CASE u = t
    <3>1. InCall(rdmaCall'[t])
      BY <1>1 DEF Moves, InCall, Pcs
    <3>2. Sees(t, rdmaCall'[t], m_mutex', m_memoryRegions', mem', qps')
      BY <1>0, <1>1, <1>2, OwnFacts DEF Moves, Sees, Locked
    <3> QED
      BY <2>1, <3>1, <3>2
  <2>2. CASE u # t
    <3>1. rdmaCall'[u] = rdmaCall[u] /\ InCall(rdmaCall[u]) /\ Sees(u, rdmaCall[u], m_mutex, m_memoryRegions, mem, qps)
      BY <2>2, <1>1, OwnFacts DEF Moves
    <3>2. rdmaCall[u].pc \notin Locked /\ m_mutex' # u
      BY <2>2, <3>1, <1>0, <1>2, OwnFacts DEF Sees
    <3> QED
      BY <3>1, <3>2, <1>2 DEF Sees, Locked
  <2> QED
    BY <2>1, <2>2
<1>7. HostsOK'
  BY <1>0, <1>1, <1>2 DEF Moves, RInv, HostsOK
<1> QED
  BY <1>4, <1>5, <1>6, <1>7 DEF RInv, ThreadsOK

LEMMA GpuStep ==
  ASSUME RInv, NEW t \in RdmaThreads, NEW a \in Addrs, transferGpuBuffer(t, a)
  PROVE  RInv'
<1>0. rdmaCall[t].pc = "idle" /\ mem[a] = "free" /\ m_mutex # t /\ t \notin qps
  BY OwnFacts DEF transferGpuBuffer, InStep, Sees, Locked
<1> DEFINE c == [NoRdmaCall EXCEPT !.pc = "copy", !.op = "gpu", !.addr = a]
<1>1. Moves(t, "copy", "gpu", a)
  <2>1. DOMAIN NoRdmaCall = {"pc", "op", "addr", "gdr"}
    BY DEF NoRdmaCall
  <2>2. DOMAIN c = DOMAIN NoRdmaCall
    OBVIOUS
  <2>3. c.pc = "copy" /\ c.op = "gpu" /\ c.addr = a
    BY <2>1
  <2>4. rdmaCall' = [rdmaCall EXCEPT ![t] = c]
    BY DEF transferGpuBuffer
  <2> HIDE DEF c
  <2>5. Moves(t, c.pc, c.op, c.addr)
    BY <2>1, <2>2, <2>4, BeginMoves
  <2> QED
    BY <2>3, <2>5
<1>2. mem' = [mem EXCEPT ![a] = "host"] /\ UNCHANGED <<m_mutex, m_memoryRegions, mrs, qps, threw>>
  BY DEF transferGpuBuffer
<1>3. Types'
  BY <1>1, <1>2 DEF RInv, Types, Moves
<1>4. mem'[a] = "host" /\ \A b \in Addrs : b # a => mem'[b] = mem[b]
  BY <1>2 DEF RInv, Types
<1>5. ASSUME NEW u \in RdmaThreads
      PROVE  InCall(rdmaCall'[u]) /\ Sees(u, rdmaCall'[u], m_mutex', m_memoryRegions', mem', qps')
  <2>1. CASE u = t
    <3>1. InCall(rdmaCall'[t])
      BY <1>1 DEF Moves, InCall, Pcs
    <3>2. Sees(t, rdmaCall'[t], m_mutex', m_memoryRegions', mem', qps')
      BY <1>0, <1>1, <1>2, <1>4 DEF Moves, Sees, Locked
    <3> QED
      BY <2>1, <3>1, <3>2
  <2>2. CASE u # t
    <3>1. rdmaCall'[u] = rdmaCall[u] /\ InCall(rdmaCall[u]) /\ Sees(u, rdmaCall[u], m_mutex, m_memoryRegions, mem, qps)
      BY <2>2, <1>1, OwnFacts DEF Moves
    <3> QED
      BY <3>1, <1>0, <1>2, <1>4 DEF Sees, InCall
  <2> QED
    BY <2>1, <2>2
<1>6. \A u \in RdmaThreads : rdmaCall[u].op = "gpu" => rdmaCall[u].addr # a
  BY <1>0, OwnFacts DEF Sees
<1>7. HostsOK'
  <2>1. rdmaCall[t].op # "gpu"
    BY <1>0, OwnFacts DEF InCall
  <2>2. ASSUME NEW u \in RdmaThreads, NEW v \in RdmaThreads, u # v, rdmaCall'[u].op = "gpu", rdmaCall'[v].op = "gpu"
        PROVE  rdmaCall'[u].addr # rdmaCall'[v].addr
    BY <1>1, <1>6, <2>2 DEF Moves, RInv, HostsOK
  <2>3. ASSUME NEW b \in Addrs, mem'[b] = "host", b \notin threw'
        PROVE  \E u \in RdmaThreads : rdmaCall'[u].op = "gpu" /\ rdmaCall'[u].addr = b
    <3>1. CASE b = a
      BY <3>1, <1>1 DEF Moves
    <3>2. CASE b # a
      BY <3>2, <2>1, <2>3, <1>1, <1>2, <1>4 DEF Moves, RInv, HostsOK
    <3> QED
      BY <3>1, <3>2
  <2> QED
    BY <2>2, <2>3 DEF HostsOK
<1>8. RegionsTracked'
  BY <1>0, <1>2, <1>4 DEF RInv, RegionsTracked
<1> QED
  BY <1>3, <1>5, <1>7, <1>8 DEF RInv, ThreadsOK

(* A buffer that no call and no region of its own refers to any more *)
LEMMA FreedFacts ==
  ASSUME RInv, NEW a \in Addrs, Freed(a), mrs' = mrs
  PROVE  /\ mem' \in [Addrs -> {"free", "app", "host"}]
         /\ m_memoryRegions' \in [Addrs -> {"none", "own", "stale"}]
         /\ mem'[a] = "free" /\ \A b \in Addrs : b # a => mem'[b] = mem[b]
         /\ \A b \in Addrs : (m_memoryRegions'[b] = "none") <=> (m_memoryRegions[b] = "none")
         /\ threw' = threw \ {a}
         /\ RegionsTracked'
  BY DEF RInv, Types, RegionsTracked, Freed

LEMMA FreeStep ==
  ASSUME RInv, NEW t \in RdmaThreads, FreeHost(t)
  PROVE  RInv'
<1> DEFINE a == rdmaCall[t].addr
<1>0. /\ rdmaCall[t].pc = "free" /\ m_mutex # t /\ t \notin qps /\ a \in Addrs
      /\ rdmaCall[t].op = "gpu" /\ mem[a] = "host"
  BY OwnFacts DEF FreeHost, InStep, Sees, InCall, Locked
<1>1. Moves(t, "idle", "none", NoBuffer)
  BY EndsMoves DEF FreeHost
<1>2. Freed(a) /\ UNCHANGED <<m_mutex, mrs, qps>>
  BY DEF FreeHost
<1>3. \A u \in RdmaThreads \ {t} : rdmaCall[u].op = "gpu" => rdmaCall[u].addr # a
  BY <1>0 DEF RInv, HostsOK
<1> HIDE DEF a
<1>4. /\ mem' \in [Addrs -> {"free", "app", "host"}]
      /\ m_memoryRegions' \in [Addrs -> {"none", "own", "stale"}]
      /\ mem'[a] = "free" /\ \A b \in Addrs : b # a => mem'[b] = mem[b]
      /\ \A b \in Addrs : (m_memoryRegions'[b] = "none") <=> (m_memoryRegions[b] = "none")
      /\ threw' = threw \ {a}
      /\ RegionsTracked'
  BY <1>0, <1>2, FreedFacts
<1>5. Types'
  BY <1>1, <1>2, <1>4 DEF RInv, Types, Moves
<1>6. ASSUME NEW u \in RdmaThreads
      PROVE  InCall(rdmaCall'[u]) /\ Sees(u, rdmaCall'[u], m_mutex', m_memoryRegions', mem', qps')
  <2>1. CASE u = t
    <3>1. InCall(rdmaCall'[t])
      BY <1>1 DEF Moves, InCall, Pcs
    <3>2. Sees(t, rdmaCall'[t], m_mutex', m_memoryRegions', mem', qps')
      BY <1>0, <1>1, <1>2 DEF Moves, Sees, Locked
    <3> QED
      BY <2>1, <3>1, <3>2
  <2>2. CASE u # t
    <3>1. rdmaCall'[u] = rdmaCall[u] /\ InCall(rdmaCall[u]) /\ Sees(u, rdmaCall[u], m_mutex, m_memoryRegions, mem, qps)
      BY <2>2, <1>1, OwnFacts DEF Moves
    <3>2. rdmaCall[u].op = "gpu" => rdmaCall[u].addr \in Addrs /\ rdmaCall[u].addr # a
      BY <2>2, <3>1, <1>3 DEF InCall
    <3>3. rdmaCall[u].pc \in Pcs \ {"idle"} => rdmaCall[u].addr \in Addrs
      BY <3>1 DEF InCall
    <3> QED
      BY <3>1, <3>2, <3>3, <1>0, <1>2, <1>4 DEF Sees, Pcs
  <2> QED
    BY <2>1, <2>2
<1>7. HostsOK'
  <2>1. ASSUME NEW u \in RdmaThreads, NEW v \in RdmaThreads, u # v, rdmaCall'[u].op = "gpu", rdmaCall'[v].op = "gpu"
        PROVE  rdmaCall'[u].addr # rdmaCall'[v].addr
    BY <1>1, <2>1 DEF Moves, RInv, HostsOK
  <2>2. ASSUME NEW b \in Addrs, mem'[b] = "host", b \notin threw'
        PROVE  \E u \in RdmaThreads : rdmaCall'[u].op = "gpu" /\ rdmaCall'[u].addr = b
    <3>1. b # a /\ mem[b] = "host" /\ b \notin threw
      BY <2>2, <1>4
    <3>2. PICK u \in RdmaThreads : rdmaCall[u].op = "gpu" /\ rdmaCall[u].addr = b
      BY <3>1 DEF RInv, HostsOK
    <3>3. u # t
      BY <3>1, <3>2 DEF a
    <3> QED
      BY <3>2, <3>3, <1>1 DEF Moves
  <2> QED
    BY <2>1, <2>2 DEF HostsOK
<1> QED
  BY <1>4, <1>5, <1>6, <1>7 DEF RInv, ThreadsOK

(* Steps in which no thread moves *)
LEMMA AllocateStep ==
  ASSUME RInv, NEW a \in Addrs, AppAllocates(a)
  PROVE  RInv'
<1>1. /\ mem[a] = "free" /\ mem' = [mem EXCEPT ![a] = "app"]
      /\ UNCHANGED <<m_mutex, m_memoryRegions, mrs, qps, rdmaCall, threw>>
  BY DEF AppAllocates
<1>2. mem'[a] = "app" /\ \A b \in Addrs : b # a => mem'[b] = mem[b]
  BY <1>1 DEF RInv, Types
<1>3. Types'
  BY <1>1 DEF RInv, Types
<1>4. ASSUME NEW u \in RdmaThreads
      PROVE  InCall(rdmaCall'[u]) /\ Sees(u, rdmaCall'[u], m_mutex', m_memoryRegions', mem', qps')
  <2>1. InCall(rdmaCall[u]) /\ Sees(u, rdmaCall[u], m_mutex, m_memoryRegions, mem, qps)
    BY OwnFacts
  <2> QED
    BY <2>1, <1>1, <1>2 DEF InCall, Sees
<1>5. HostsOK'
  BY <1>1, <1>2 DEF RInv, HostsOK
<1>6. RegionsTracked'
  BY <1>1, <1>2 DEF RInv, RegionsTracked
<1> QED
  BY <1>3, <1>4, <1>5, <1>6 DEF RInv, ThreadsOK

LEMMA AppFreesStep ==
  ASSUME RInv, NEW a \in Addrs, AppFrees(a)
  PROVE  RInv'
<1>1. /\ Freed(a) /\ UNCHANGED <<m_mutex, mrs, qps, rdmaCall>>
      /\ \A t \in RdmaThreads : rdmaCall[t].addr # a
  BY DEF AppFrees
<1>2. /\ mem' \in [Addrs -> {"free", "app", "host"}]
      /\ m_memoryRegions' \in [Addrs -> {"none", "own", "stale"}]
      /\ mem'[a] = "free" /\ \A b \in Addrs : b # a => mem'[b] = mem[b]
      /\ \A b \in Addrs : (m_memoryRegions'[b] = "none") <=> (m_memoryRegions[b] = "none")
      /\ threw' = threw \ {a}
      /\ RegionsTracked'
  BY <1>1, FreedFacts
<1>3. Types'
  BY <1>1, <1>2 DEF RInv, Types
<1>4. ASSUME NEW u \in RdmaThreads
      PROVE  InCall(rdmaCall'[u]) /\ Sees(u, rdmaCall'[u], m_mutex', m_memoryRegions', mem', qps')
  <2>1. InCall(rdmaCall[u]) /\ Sees(u, rdmaCall[u], m_mutex, m_memoryRegions, mem, qps)
    BY OwnFacts
  <2>2. rdmaCall[u].pc # "idle" => rdmaCall[u].addr \in Addrs /\ rdmaCall[u].addr # a
    BY <2>1, <1>1 DEF InCall
  <2>3. rdmaCall[u].op = "gpu" => rdmaCall[u].pc # "idle"
    BY <2>1 DEF InCall
  <2> QED
    BY <2>1, <2>2, <2>3, <1>1, <1>2 DEF Sees
<1>5. HostsOK'
  BY <1>1, <1>2 DEF RInv, HostsOK
<1> QED
  BY <1>2, <1>3, <1>4, <1>5 DEF RInv, ThreadsOK

LEMMA CleanupStep ==
  ASSUME RInv, Cleanup
  PROVE  RInv'
<1>1. /\ \A t \in RdmaThreads : rdmaCall[t].pc = "idle"
      /\ mrs' = [a \in Addrs |-> IF m_memoryRegions[a] = "none" THEN mrs[a] ELSE mrs[a] - 1]
      /\ m_memoryRegions' = [a \in Addrs |-> "none"]
      /\ UNCHANGED <<m_mutex, qps, mem, rdmaCall, threw>>
  BY DEF Cleanup, InStep
<1>2. \A a \in Addrs : mrs'[a] = 0 /\ m_memoryRegions'[a] = "none"
  BY <1>1 DEF RInv, Types, RegionsTracked
<1>3. mrs' \in [Addrs -> Nat]
  BY <1>1, <1>2
<1>4. Types'
  BY <1>1, <1>3 DEF RInv, Types
<1>5. ASSUME NEW u \in RdmaThreads
      PROVE  InCall(rdmaCall'[u]) /\ Sees(u, rdmaCall'[u], m_mutex', m_memoryRegions', mem', qps')
  <2>1. InCall(rdmaCall[u]) /\ Sees(u, rdmaCall[u], m_mutex, m_memoryRegions, mem, qps)
    BY OwnFacts
  <2> QED
    BY <2>1, <1>1 DEF Sees
<1>6. HostsOK'
  BY <1>1 DEF RInv, HostsOK
<1>7. RegionsTracked'
  BY <1>2 DEF RegionsTracked
<1> QED
  BY <1>4, <1>5, <1>6, <1>7 DEF RInv, ThreadsOK

LEMMA RdmaInitial == RdmaInit => RInv
<1> SUFFICES ASSUME RdmaInit PROVE RInv
  OBVIOUS
<1>1. Types
  BY DEF RdmaInit, Types
<1>2. \A t \in RdmaThreads : rdmaCall[t] = NoRdmaCall
  BY DEF RdmaInit
<1>3. InCall(NoRdmaCall)
  BY DEF InCall, NoRdmaCall, Pcs
<1>4. \A t \in RdmaThreads : Sees(t, NoRdmaCall, m_mutex, m_memoryRegions, mem, qps)
  BY RdmaAssumption DEF RdmaInit, Sees, NoRdmaCall, Locked
<1>5. HostsOK
  BY <1>2 DEF RdmaInit, HostsOK, NoRdmaCall
<1>6. RegionsTracked
  BY DEF RdmaInit, RegionsTracked
<1> QED
  BY <1>1, <1>2, <1>3, <1>4, <1>5, <1>6 DEF RInv, ThreadsOK

LEMMA RdmaStep == RInv /\ [RdmaNext]_rdmaVars => RInv'
<1> SUFFICES ASSUME RInv, [RdmaNext]_rdmaVars PROVE RInv'
  OBVIOUS
<1>1. CASE Initialize \/ UNCHANGED rdmaVars
  BY <1>1 DEF Initialize, rdmaVars, RInv, Types, ThreadsOK, HostsOK, RegionsTracked
<1>2. CASE Cleanup
  BY <1>2, CleanupStep
<1>3. CASE \E a \in Addrs : AppAllocates(a) \/ AppFrees(a)
  BY <1>3, AllocateStep, AppFreesStep
<1>4. CASE \E t \in RdmaThreads : ThreadStep(t)
  BY <1>4, RegisterDoneStep, CopyStep, FreeStep, LockStep, InnerRegisterStep, QpStep, PostStep, PollStep DEF ThreadStep
<1>5. CASE \E t \in RdmaThreads, a \in Addrs : RegisterMemory(t, a) \/ RdmaTransfer(t, a) \/ transferGpuBuffer(t, a)
  BY <1>5, RegisterStep, TransferStep, GpuStep
<1> QED
  BY <1>1, <1>2, <1>3, <1>4, <1>5 DEF RdmaNext

(* The invariant of RdmaTransport and transferGpuBuffer. *)
THEOREM RdmaInvariant == RdmaSpec => []RInv
  BY RdmaInitial, RdmaStep, PTL DEF RdmaSpec

(* However calls of RegisterMemory, Transfer and transferGpuBuffer overlap, *)
(* m_memoryRegions has each region of the device, once.                    *)
THEOREM RegionsCorrect == RdmaSpec => []RegionsTracked
<1>1. RInv => RegionsTracked
  BY DEF RInv
<1> QED
  BY <1>1, RdmaInvariant, PTL

(* Queue pairs and host buffers are released on every path of Transfer and *)
(* transferGpuBuffer but the exception of the second lock.                 *)
THEOREM ReleaseCorrect == RdmaSpec => []ReleasedUnlessThrown
<1>1. RInv => ReleasedUnlessThrown
  <2> SUFFICES ASSUME RInv PROVE ReleasedUnlessThrown
    OBVIOUS
  <2>1. \A t \in qps : rdmaCall[t].pc \in {"post", "poll"}
    BY OwnFacts DEF RInv, Types, Sees
  <2> QED
    BY <2>1 DEF RInv, HostsOK, ReleasedUnlessThrown
<1> QED
  BY <1>1, RdmaInvariant, PTL

-----------------------------------------------------------------------------
(* rdmaMemcpy: it has taken the first m resources, or has still to release *)
(* the first m, last first.                                                *)

First(m) == { Order[i] : i \in 1..m }
Acquired(m) == [taken |-> m, held |-> First(m), undo |-> <<>>]
Releasing(m) == [taken |-> 0, held |-> First(m), undo |-> Undo(m)]

CopyInv == \E m \in 0..6 : copy = Acquired(m) \/ copy = Releasing(m)

LEMMA OrderFacts ==
  /\ Len(Order) = 6
  /\ \A i, j \in 1..6 : Order[i] = Order[j] => i = j
  BY DEF Order

LEMMA FirstFacts ==
  ASSUME NEW m \in 0..6
  PROVE  /\ m < 6 => First(m + 1) = First(m) \cup {Order[m + 1]}
         /\ m > 0 => First(m - 1) = First(m) \ {Order[m]}
<1>1. ASSUME m < 6 PROVE First(m + 1) = First(m) \cup {Order[m + 1]}
  <2>1. 1..(m + 1) = (1..m) \cup {m + 1}
    OBVIOUS
  <2> QED BY <2>1 DEF First
<1>2. ASSUME m > 0 PROVE First(m - 1) = First(m) \ {Order[m]}
  <2>1. 1..(m - 1) = (1..m) \ {m} /\ m \in 1..m
    BY <1>2
  <2>2. \A i \in 1..m : i # m => Order[i] # Order[m]
    BY OrderFacts
  <2> QED BY <2>1, <2>2 DEF First
<1> QED BY <1>1, <1>2

LEMMA UndoFacts ==
  ASSUME NEW m \in 0..6
  PROVE  /\ Undo(m) = <<>> <=> m = 0
         /\ m > 0 => Head(Undo(m)) = Order[m] /\ Tail(Undo(m)) = Undo(m - 1)
<1> DEFINE S == { Order[i] : i \in 1..6 }
<1>1. ASSUME NEW n \in 0..6
      PROVE  Undo(n) \in Seq(S) /\ Len(Undo(n)) = n /\ \A i \in 1..n : Undo(n)[i] = Order[n + 1 - i]
  <2>1. \A i \in 1..n : n + 1 - i \in 1..6
    OBVIOUS
  <2>2. \A i \in 1..n : Order[n + 1 - i] \in S
    BY <2>1
  <2> HIDE DEF S
  <2> QED BY <2>2 DEF Undo
<1> HIDE DEF S
<1> DEFINE u == Undo(m)
           v == Undo(m - 1)
<1>2. u \in Seq(S) /\ Len(u) = m /\ \A i \in 1..m : u[i] = Order[m + 1 - i]
  BY <1>1
<1>3. m > 0 => v \in Seq(S) /\ Len(v) = m - 1 /\ \A i \in 1..(m - 1) : v[i] = Order[(m - 1) + 1 - i]
  <2>1. m > 0 => m - 1 \in 0..6
    OBVIOUS
  <2> QED BY <1>1, <2>1
<1> HIDE DEF u, v
<1>4. u = <<>> <=> m = 0
  BY <1>2
<1>5. ASSUME m > 0 PROVE Head(u) = Order[m] /\ Tail(u) = v
  <2>1. Head(u) = u[1] /\ Tail(u) \in Seq(S) /\ Len(Tail(u)) = m - 1
        /\ \A i \in 1..(m - 1) : Tail(u)[i] = u[i + 1]
    BY <1>2, <1>4, <1>5
  <2>2. 1 \in 1..m /\ m + 1 - 1 = m
    BY <1>5
  <2>3. ASSUME NEW i \in 1..(m - 1) PROVE Tail(u)[i] = v[i]
    <3>1. i + 1 \in 1..m /\ m + 1 - (i + 1) = (m - 1) + 1 - i
      OBVIOUS
    <3>2. u[i + 1] = Order[m + 1 - (i + 1)]
      BY <1>2, <3>1
    <3> QED BY <1>3, <1>5, <2>1, <3>1, <3>2
  <2> QED BY <1>2, <1>3, <1>5, <2>1, <2>2, <2>3
<1> QED BY <1>4, <1>5 DEF u, v

LEMMA CopyInitial == CopyInit => CopyInv
<1>1. First(0) = {} /\ 0 \in 0..6
  BY DEF First
<1> QED BY <1>1 DEF CopyInit, CopyInv, Acquired

LEMMA MemcpyStep == ASSUME CopyInv, rdmaMemcpy PROVE CopyInv'
<1>1. PICK m \in 0..6 : copy = Acquired(m) \/ copy = Releasing(m)
  BY DEF CopyInv
<1>2. copy.undo = <<>>
  BY DEF rdmaMemcpy
<1>3. copy = Acquired(m)
  <2>1. CASE copy = Releasing(m)
    <3>1. Undo(m) = <<>>
      BY <1>2, <2>1 DEF Releasing
    <3>2. m = 0
      BY <3>1, UndoFacts
    <3> QED BY <2>1, <3>1, <3>2 DEF Releasing, Acquired
  <2> QED BY <1>1, <2>1
<1>4. copy.taken = m /\ copy.held = First(m)
  BY <1>3 DEF Acquired
<1>5. CASE m < 6 /\ copy' = [copy EXCEPT !.taken = m + 1, !.held = @ \cup {Order[m + 1]}]
  <2>1. copy' = [taken |-> m + 1, held |-> First(m) \cup {Order[m + 1]}, undo |-> <<>>]
    BY <1>3, <1>5 DEF Acquired
  <2>2. First(m + 1) = First(m) \cup {Order[m + 1]} /\ m + 1 \in 0..6
    BY <1>5, FirstFacts
  <2>3. copy' = Acquired(m + 1)
    BY <2>1, <2>2 DEF Acquired
  <2> QED BY <2>2, <2>3 DEF CopyInv
<1>6. CASE copy' = [copy EXCEPT !.taken = 0, !.undo = Undo(m)]
  <2>1. copy' = Releasing(m)
    BY <1>3, <1>6 DEF Acquired, Releasing
  <2> QED BY <2>1 DEF CopyInv
<1> QED BY <1>4, <1>5, <1>6, OrderFacts DEF rdmaMemcpy

LEMMA ReleaseStep == ASSUME CopyInv, Release PROVE CopyInv'
<1>1. PICK m \in 0..6 : copy = Acquired(m) \/ copy = Releasing(m)
  BY DEF CopyInv
<1>2. copy = Releasing(m) /\ copy.undo = Undo(m) /\ copy.undo # <<>>
  BY <1>1 DEF Release, Acquired, Releasing
<1>3. m > 0
  BY <1>2, UndoFacts
<1>4. Head(copy.undo) = Order[m] /\ Tail(copy.undo) = Undo(m - 1) /\ m - 1 \in 0..6
  <2>1. Head(Undo(m)) = Order[m] /\ Tail(Undo(m)) = Undo(m - 1)
    BY <1>3, UndoFacts
  <2>2. m - 1 \in 0..6
    BY <1>3
  <2> QED BY <1>2, <2>1, <2>2
<1>5. copy' = [copy EXCEPT !.undo = Undo(m - 1), !.held = @ \ {Order[m]}]
  BY <1>4 DEF Release
<1>6. copy' = [taken |-> 0, held |-> First(m) \ {Order[m]}, undo |-> Undo(m - 1)]
  BY <1>2, <1>5 DEF Releasing
<1>7. copy' = Releasing(m - 1)
  BY <1>3, <1>6, FirstFacts DEF Releasing
<1> QED BY <1>4, <1>7 DEF CopyInv

(* What a resource needs was taken before it. *)
LEMMA NeedsFacts == \A i \in 1..6 : Needs[Order[i]] \subseteq First(i - 1)
<1>1. Order[1] = "context" /\ Order[2] = "pd" /\ Order[3] = "mr_src" /\ Order[4] = "mr_dst"
      /\ Order[5] = "cq" /\ Order[6] = "qp"
  BY DEF Order
<1>2. /\ Needs["context"] = {} /\ Needs["pd"] = {"context"} /\ Needs["mr_src"] = {"pd"}
      /\ Needs["mr_dst"] = {"pd"} /\ Needs["cq"] = {"context"} /\ Needs["qp"] = {"pd", "cq"}
  BY DEF Needs
<1>3. \A n \in 1..6 : /\ n >= 1 => "context" \in First(n)
                      /\ n >= 2 => "pd" \in First(n)
                      /\ n >= 5 => "cq" \in First(n)
  <2>1. ASSUME NEW n \in 1..6, NEW k \in 1..6, n >= k PROVE Order[k] \in First(n)
    <3>1. k \in 1..n
      BY <2>1
    <3> QED BY <3>1 DEF First
  <2> QED BY <1>1, <2>1
<1>4. ASSUME NEW i \in 1..6 PROVE Needs[Order[i]] \subseteq First(i - 1)
  <2>1. i = 1 \/ i = 2 \/ i = 3 \/ i = 4 \/ i = 5 \/ i = 6
    OBVIOUS
  <2>2. CASE i = 1
    BY <1>1, <1>2, <2>2
  <2>3. CASE i \in {2, 5}
    BY <1>1, <1>2, <1>3, <2>3
  <2>4. CASE i \in {3, 4}
    BY <1>1, <1>2, <1>3, <2>4
  <2>5. CASE i = 6
    BY <1>1, <1>2, <1>3, <2>5
  <2> QED BY <2>1, <2>2, <2>3, <2>4, <2>5
<1> QED BY <1>4

(* Wherever rdmaMemcpy fails, what it holds still has the device, domain   *)
(* and queue it needs, and it returns with nothing held.                   *)
THEOREM ReleaseOrderCorrect == CopySpec => []ReleasedLastFirst
<1>1. CopyInv => ReleasedLastFirst
  <2> SUFFICES ASSUME CopyInv PROVE ReleasedLastFirst
    OBVIOUS
  <2>1. PICK m \in 0..6 : copy = Acquired(m) \/ copy = Releasing(m)
    BY DEF CopyInv
  <2>2. copy.held = First(m)
    BY <2>1 DEF Acquired, Releasing
  <2>3. ASSUME NEW r \in copy.held PROVE Needs[r] \subseteq copy.held
    <3>1. PICK i \in 1..m : r = Order[i]
      BY <2>2 DEF First
    <3>2. i \in 1..6 /\ 1..(i - 1) \subseteq 1..m
      OBVIOUS
    <3>3. First(i - 1) \subseteq First(m)
      BY <3>2 DEF First
    <3> QED BY <2>2, <3>1, <3>2, <3>3, NeedsFacts
  <2>4. ASSUME copy.taken = 0, copy.undo = <<>> PROVE copy.held = {}
    <3>1. CASE copy = Acquired(m)
      BY <2>2, <2>4, <3>1 DEF Acquired, First
    <3>2. CASE copy = Releasing(m)
      <4>0. Undo(m) = <<>>
        BY <2>4, <3>2 DEF Releasing
      <4>1. m = 0
        BY <4>0, UndoFacts
      <4> QED BY <2>2, <4>1 DEF First
    <3> QED BY <2>1, <3>1, <3>2
  <2> QED BY <2>3, <2>4 DEF ReleasedLastFirst
<1>2. CopyInv /\ [CopyNext]_copy => CopyInv'
  <2>1. CopyInv /\ UNCHANGED copy => CopyInv'
    BY DEF CopyInv
  <2> QED BY <2>1, MemcpyStep, ReleaseStep DEF CopyNext
<1> QED BY <1>1, <1>2, CopyInitial, PTL DEF CopySpec
=============================================================================
