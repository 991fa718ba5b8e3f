-------------------------------- MODULE Rdma --------------------------------
(***************************************************************************)
(* RdmaTransport (client/launcher/transport), PlankTransport on top of it, *)
(* and rdmaMemcpy of the protocol adapter.  Threads of the process register*)
(* and transfer buffers of their own, or move a GPU buffer through a host  *)
(* buffer that transferGpuBuffer allocates and frees.  All buffers come    *)
(* from the same addresses, and a region is kept per address.              *)
(*                                                                         *)
(* plank_transport.cpp calls RdmaTransport::send, which is not declared;   *)
(* it is taken to be Transfer.  The device (libibverbs) and CUDA are       *)
(* external: every call may fail.                                          *)
(***************************************************************************)
EXTENDS Naturals, Sequences

CONSTANTS RdmaThreads, Addrs,  \* callers; addresses of buffers
          NoRdmaThread, NoBuffer,
          MaxCqs,          \* completion queues the device has
          GdrCompiled,     \* ENABLE_GDR
          RelockOutcomes   \* what locking a std::mutex twice in one thread does:
                           \* "blocks", "enters" or "throws"

ASSUME RdmaAssumption ==
  /\ NoRdmaThread \notin RdmaThreads /\ NoBuffer \notin Addrs
  /\ MaxCqs \in Nat /\ GdrCompiled \in BOOLEAN
  /\ RelockOutcomes \subseteq {"blocks", "enters", "throws"} /\ RelockOutcomes # {}

VARIABLES device,          \* "new", "failed" (context without a domain), "ready"
          m_mutex,         \* its holder
          m_memoryRegions, \* address -> "none", or a region made for the buffer
                           \* now there ("own") or for one freed since ("stale")
          mrs, cqs, qps,   \* the device: regions of each address, number of
                           \* completion queues, threads with a queue pair
          mem,             \* address -> "free", "app" or "host"
          rdmaCall,        \* the call each thread is in
          threw,           \* addresses of buffers whose Transfer threw
          copy             \* rdmaMemcpy: resources held, and still to release

rdmaVars == <<device, m_mutex, m_memoryRegions, mrs, cqs, qps, mem, rdmaCall, threw>>

NoRdmaCall == [pc |-> "idle", op |-> "none", addr |-> NoBuffer, gdr |-> FALSE]

RdmaInit ==
  /\ device = "new" /\ m_mutex = NoRdmaThread
  /\ m_memoryRegions = [a \in Addrs |-> "none"]
  /\ mrs = [a \in Addrs |-> 0] /\ cqs = 0 /\ qps = {}
  /\ mem = [a \in Addrs |-> "free"]
  /\ rdmaCall = [t \in RdmaThreads |-> NoRdmaCall] /\ threw = {}

InStep(t, pc) == rdmaCall[t].pc = pc
GoesTo(t, pc) == rdmaCall' = [rdmaCall EXCEPT ![t].pc = pc]
Ends(t) == rdmaCall' = [rdmaCall EXCEPT ![t] = NoRdmaCall]

-----------------------------------------------------------------------------
(* Life of the object.  A failed Initialize changes nothing unless a device *)
(* was opened; nobody uses the transport after one.                        *)
Initialize ==
  /\ device = "new"
  /\ device' \in {"ready", "failed"}
  /\ UNCHANGED <<m_mutex, m_memoryRegions, mrs, cqs, qps, mem, rdmaCall, threw>>

(* The destructor; closing the device also frees the completion queues. *)
Cleanup ==
  /\ device # "new" /\ \A t \in RdmaThreads : InStep(t, "idle")
  /\ mrs' = [a \in Addrs |-> IF m_memoryRegions[a] = "none" THEN mrs[a] ELSE mrs[a] - 1]
  /\ m_memoryRegions' = [a \in Addrs |-> "none"]
  /\ device' = "new" /\ cqs' = 0
  /\ UNCHANGED <<m_mutex, qps, mem, rdmaCall, threw>>

(* Buffers.  Freeing one leaves its region in the map. *)
Freed(a) ==
  /\ mem' = [mem EXCEPT ![a] = "free"]
  /\ m_memoryRegions' = [m_memoryRegions EXCEPT ![a] = IF @ = "own" THEN "stale" ELSE @]
  /\ threw' = threw \ {a}

AppAllocates(a) ==
  /\ mem[a] = "free"
  /\ mem' = [mem EXCEPT ![a] = "app"]
  /\ UNCHANGED <<device, m_mutex, m_memoryRegions, mrs, cqs, qps, rdmaCall, threw>>

AppFrees(a) ==
  /\ mem[a] = "app" /\ \A t \in RdmaThreads : rdmaCall[t].addr # a
  /\ Freed(a)
  /\ UNCHANGED <<device, m_mutex, mrs, cqs, qps, rdmaCall>>

-----------------------------------------------------------------------------
(* RegisterMemory of a buffer that has no region; for an address that has   *)
(* one it returns true and changes nothing.  The faulty variant has lost   *)
(* its lock_guard.                                                         *)
RegisterMemory_NoLock(t, a) ==
  /\ InStep(t, "idle") /\ device = "ready" /\ mem[a] = "app"
  /\ m_memoryRegions[a] = "none"
  /\ rdmaCall' = [rdmaCall EXCEPT ![t] = [NoRdmaCall EXCEPT !.pc = "register", !.addr = a]]
  /\ UNCHANGED <<device, m_mutex, m_memoryRegions, mrs, cqs, qps, mem, threw>>

RegisterMemory(t, a) ==
  /\ InStep(t, "idle") /\ device = "ready" /\ mem[a] = "app"
  /\ m_mutex = NoRdmaThread /\ m_mutex' = t
  /\ m_memoryRegions[a] = "none"
  /\ rdmaCall' = [rdmaCall EXCEPT ![t] = [NoRdmaCall EXCEPT !.pc = "register", !.addr = a]]
  /\ UNCHANGED <<device, m_memoryRegions, mrs, cqs, qps, mem, threw>>

RegisterDone(t) ==
  /\ InStep(t, "register")
  /\ \/ /\ m_memoryRegions' = [m_memoryRegions EXCEPT ![rdmaCall[t].addr] = "own"]
        /\ mrs' = [mrs EXCEPT ![rdmaCall[t].addr] = @ + 1]
     \/ UNCHANGED <<m_memoryRegions, mrs>>
  /\ m_mutex' = NoRdmaThread /\ Ends(t)
  /\ UNCHANGED <<device, cqs, qps, mem, threw>>

-----------------------------------------------------------------------------
(* transferGpuBuffer: a host buffer, the copy from the GPU, Transfer, free. *)
transferGpuBuffer(t, a) ==
  /\ InStep(t, "idle") /\ device = "ready" /\ mem[a] = "free"
  /\ mem' = [mem EXCEPT ![a] = "host"]
  /\ rdmaCall' = [rdmaCall EXCEPT ![t] = [NoRdmaCall EXCEPT !.pc = "copy", !.op = "gpu", !.addr = a]]
  /\ UNCHANGED <<device, m_mutex, m_memoryRegions, mrs, cqs, qps, threw>>

CopyFromGpu(t) ==
  /\ InStep(t, "copy")
  /\ \E pc \in {"lock", "free"} : GoesTo(t, pc)
  /\ UNCHANGED <<device, m_mutex, m_memoryRegions, mrs, cqs, qps, mem, threw>>

FreeHost(t) ==
  /\ InStep(t, "free")
  /\ Freed(rdmaCall[t].addr) /\ Ends(t)
  /\ UNCHANGED <<device, m_mutex, mrs, cqs, qps>>

-----------------------------------------------------------------------------
(* Transfer of an application's buffer, STANDARD or GDR *)
RdmaTransfer(t, a) ==
  /\ InStep(t, "idle") /\ device = "ready" /\ mem[a] = "app"
  /\ \E g \in BOOLEAN :
       rdmaCall' = [rdmaCall EXCEPT ![t] = [pc |-> "lock", op |-> "app", addr |-> a, gdr |-> g]]
  /\ UNCHANGED <<device, m_mutex, m_memoryRegions, mrs, cqs, qps, mem, threw>>

Registered(t) == m_memoryRegions[rdmaCall[t].addr] # "none"

(* Transfer returns, true or false, to the application or to                *)
(* transferGpuBuffer, which frees its buffer either way.                   *)
Returns(t) ==
  /\ m_mutex' = NoRdmaThread
  /\ IF rdmaCall[t].op = "gpu" THEN GoesTo(t, "free") ELSE Ends(t)

(* A buffer without a region makes Transfer call RegisterMemory, which     *)
(* locks m_mutex again: it blocks for ever, throws out of Transfer and its *)
(* caller, or enters and registers the buffer, and then the lock is still  *)
(* Transfer's.                                                             *)
TransferLock(t) ==
  /\ InStep(t, "lock") /\ m_mutex = NoRdmaThread
  /\ \/ /\ Registered(t)
        /\ m_mutex' = t /\ GoesTo(t, "qp") /\ UNCHANGED <<m_memoryRegions, mrs, threw>>
     \/ /\ ~Registered(t) /\ "blocks" \in RelockOutcomes
        /\ m_mutex' = t /\ GoesTo(t, "relocked") /\ UNCHANGED <<m_memoryRegions, mrs, threw>>
     \/ /\ ~Registered(t) /\ "throws" \in RelockOutcomes
        /\ threw' = threw \cup {rdmaCall[t].addr}
        /\ Ends(t) /\ UNCHANGED <<m_mutex, m_memoryRegions, mrs>>
     \/ /\ ~Registered(t) /\ "enters" \in RelockOutcomes
        /\ m_mutex' = t /\ GoesTo(t, "reentered") /\ UNCHANGED <<m_memoryRegions, mrs, threw>>
  /\ UNCHANGED <<device, cqs, qps, mem>>

(* The inner RegisterMemory: Transfer goes on with the region, or returns. *)
TransferRegister(t) ==
  /\ InStep(t, "reentered")
  /\ \/ /\ m_memoryRegions' = [m_memoryRegions EXCEPT ![rdmaCall[t].addr] = "own"]
        /\ mrs' = [mrs EXCEPT ![rdmaCall[t].addr] = @ + 1]
        /\ GoesTo(t, "qp") /\ UNCHANGED m_mutex
     \/ Returns(t) /\ UNCHANGED <<m_memoryRegions, mrs>>
  /\ UNCHANGED <<device, cqs, qps, mem, threw>>

(* Two completion queues, which nothing destroys, and the queue pair *)
TransferQp(t) ==
  /\ InStep(t, "qp")
  /\ cqs' = IF cqs + 2 <= MaxCqs THEN cqs + 2 ELSE MaxCqs
  /\ \/ cqs + 2 <= MaxCqs /\ qps' = qps \cup {t} /\ GoesTo(t, "post") /\ UNCHANGED m_mutex
     \/ Returns(t) /\ UNCHANGED qps
  /\ UNCHANGED <<device, m_memoryRegions, mrs, mem, threw>>

(* EnableGdr always fails without ENABLE_GDR, and may fail with it, as     *)
(* ibv_post_send may; the faulty variant then forgets the queue pair.      *)
EnableGdr(t) == rdmaCall[t].gdr => GdrCompiled

TransferPost_KeepsQp(t) ==
  /\ InStep(t, "post")
  /\ \/ EnableGdr(t) /\ GoesTo(t, "poll") /\ UNCHANGED <<qps, m_mutex>>
     \/ Returns(t) /\ UNCHANGED qps
  /\ UNCHANGED <<device, m_memoryRegions, mrs, cqs, mem, threw>>

TransferPost(t) ==
  /\ InStep(t, "post")
  /\ \/ EnableGdr(t) /\ GoesTo(t, "poll") /\ UNCHANGED <<qps, m_mutex>>
     \/ Returns(t) /\ qps' = qps \ {t}
  /\ UNCHANGED <<device, m_memoryRegions, mrs, cqs, mem, threw>>

(* The poll ends with a completion or an error; the result, which is that  *)
(* of an uninitialised wc after an error, only goes to the caller.  The    *)
(* faulty variant polls on after an error.                                 *)
TransferPoll_RetriesErrors(t) ==
  /\ InStep(t, "poll")
  /\ \/ Returns(t) /\ qps' = qps \ {t}
     \/ GoesTo(t, "error") /\ UNCHANGED <<m_mutex, qps>>
  /\ UNCHANGED <<device, m_memoryRegions, mrs, cqs, mem, threw>>

TransferPoll(t) ==
  /\ InStep(t, "poll")
  /\ Returns(t) /\ qps' = qps \ {t}
  /\ UNCHANGED <<device, m_memoryRegions, mrs, cqs, mem, threw>>

ThreadStep(t) == \/ RegisterDone(t) \/ CopyFromGpu(t) \/ FreeHost(t) \/ TransferLock(t)
                 \/ TransferRegister(t) \/ TransferQp(t) \/ TransferPost(t) \/ TransferPoll(t)

RdmaNext ==
  \/ Initialize \/ Cleanup
  \/ \E a \in Addrs : AppAllocates(a) \/ AppFrees(a)
  \/ \E t \in RdmaThreads : \/ ThreadStep(t)
                        \/ \E a \in Addrs : \/ RegisterMemory(t, a) \/ RdmaTransfer(t, a)
                                            \/ transferGpuBuffer(t, a)

RdmaSpec == RdmaInit /\ [][RdmaNext]_rdmaVars

(* Threads run, and the device completes what was posted.  A std::mutex    *)
(* promises no order among its waiters.                                    *)
RdmaFair == \A t \in RdmaThreads : WF_rdmaVars(ThreadStep(t))

-----------------------------------------------------------------------------
(* rdmaMemcpy takes six resources of a device of its own one after the      *)
(* other and gives them back, last first, when one cannot be had and at    *)
(* the end.  The faulty variant frees the domain before its regions.       *)
Order == <<"context", "pd", "mr_src", "mr_dst", "cq", "qp">>

Undo_DomainFirst(n) == IF n < 2 THEN SubSeq(Order, 1, n) ELSE <<"pd">> \o
                         [i \in 1..(n - 2) |-> Order[n + 1 - i]] \o <<"context">>
Undo(n) == [i \in 1..n |-> Order[n + 1 - i]]

CopyInit == copy = [taken |-> 0, held |-> {}, undo |-> <<>>]

rdmaMemcpy ==
  LET n == copy.taken
      fails == [copy EXCEPT !.taken = 0, !.undo = Undo(n)]
  IN  /\ copy.undo = <<>>
      /\ \/ n < Len(Order) /\ copy' = [copy EXCEPT !.taken = n + 1, !.held = @ \cup {Order[n + 1]}]
         \/ copy' = fails

Release ==
  /\ copy.undo # <<>>
  /\ copy' = [copy EXCEPT !.undo = Tail(@), !.held = @ \ {Head(copy.undo)}]

CopyNext == rdmaMemcpy \/ Release

CopySpec == CopyInit /\ [][CopyNext]_copy

-----------------------------------------------------------------------------
(* Properties *)

Calls == [pc: {"idle", "register", "copy", "free", "lock", "relocked", "reentered",
               "qp", "post", "poll"},
          op: {"none", "app", "gpu"}, addr: Addrs \cup {NoBuffer}, gdr: BOOLEAN]

RdmaTypeOK ==
  /\ device \in {"new", "failed", "ready"} /\ m_mutex \in RdmaThreads \cup {NoRdmaThread}
  /\ m_memoryRegions \in [Addrs -> {"none", "own", "stale"}]
  /\ mrs \in [Addrs -> Nat] /\ cqs \in 0..MaxCqs /\ qps \subseteq RdmaThreads
  /\ mem \in [Addrs -> {"free", "app", "host"}]
  /\ rdmaCall \in [RdmaThreads -> Calls] /\ threw \subseteq Addrs

(* Every region of the device is in m_memoryRegions, once (lines 53-67),   *)
(* however calls overlap: Cleanup deregisters all of them before it frees  *)
(* the protection domain.                                                  *)
RegionsTracked == \A a \in Addrs : mrs[a] = (IF m_memoryRegions[a] = "none" THEN 0 ELSE 1)

(* A queue pair lives only while its Transfer runs, and the host buffer of *)
(* transferGpuBuffer only while that call runs, unless Transfer threw: each *)
(* error path releases both (rdma_transport.cpp 106, 132, 143;             *)
(* plank_transport.cpp 40, 47, 55).                                        *)
ReleasedUnlessThrown ==
  /\ \A t \in qps : rdmaCall[t].pc \in {"post", "poll"}
  /\ \A a \in Addrs : mem[a] = "host" /\ a \notin threw =>
       \E t \in RdmaThreads : rdmaCall[t].op = "gpu" /\ rdmaCall[t].addr = a

(* What Transfer sends by RDMA (plank_transport.cpp 44, "使用RDMA将数据发送到  *)
(* 目标节点") goes through a region made for the buffer it was given.        *)
SendsOwnRegion ==
  \A t \in RdmaThreads : rdmaCall[t].pc \in {"qp", "post", "poll"} =>
    m_memoryRegions[rdmaCall[t].addr] = "own"

(* rdmaMemcpy holds nothing whose device, domain or queue it has released, *)
(* and nothing at all once it has returned, wherever it failed             *)
(* (protocol_adapter.cpp 23-101).                                          *)
Needs == [context |-> {}, pd |-> {"context"}, cq |-> {"context"}, mr_src |-> {"pd"},
          mr_dst |-> {"pd"}, qp |-> {"pd", "cq"}]
ReleasedLastFirst ==
  /\ \A r \in copy.held : Needs[r] \subseteq copy.held
  /\ copy.taken = 0 /\ copy.undo = <<>> => copy.held = {}

(* m_mutex is released on every path of RegisterMemory and Transfer, but   *)
(* when Transfer found no region and the second lock blocks.               *)
ReleasedUnlessRelocked ==
  m_mutex # NoRdmaThread ~> (m_mutex = NoRdmaThread \/ \E t \in RdmaThreads : InStep(t, "relocked"))
=============================================================================
