------------------------------ MODULE Launcher ------------------------------
(***************************************************************************)
(* The launcher process (client/launcher): RootService, which serves the   *)
(* CUDA hooks of the clients on one event loop, and the Dispatcher with    *)
(* its node vector under a mutex and its map from fake pointers to remote  *)
(* allocations.  The event loop interleaves the continuations of requests  *)
(* that wait for a node; a watcher thread reloads the configuration.       *)
(*                                                                         *)
(* PickNode's choice among the nodes with enough memory is left open.      *)
(* Dispatcher::AddMapping, GetMapping and RemoveMapping are declared but   *)
(* not defined in the repository: they are taken to be the insertion,      *)
(* lookup and removal their names and their uses in main.cpp say.          *)
(***************************************************************************)
EXTENDS Naturals, Sequences

CONSTANTS Clients,         \* hooked processes, one request at a time each
          NodeIds,         \* ids of the nodes in scheduler_policy.yaml
          Configs,         \* the lists of nodes the file may hold
          Ptrs,            \* addresses operator new(1) may return
          Handles,         \* handles a node gives to its allocations
          MaxReloads,      \* bound: reloads of the configuration
          RelockOutcomes,  \* what locking a std::mutex twice in one thread does:
                           \* "blocks", "enters" or "throws" (undefined in C++)
          NoPtr, NoOne

ASSUME LauncherAssumption ==
  /\ MaxReloads \in Nat
  /\ Configs \subseteq Seq(NodeIds) /\ Configs # {}
  /\ RelockOutcomes \subseteq {"blocks", "enters", "throws"} /\ RelockOutcomes # {}
  /\ NoPtr \notin Ptrs
  /\ NoOne \notin {"rpc", "config"} \cup Clients \cup NodeIds \cup Handles

VARIABLES nodes,           \* Dispatcher::nodes: ids, in order; reloads append
          epoch,           \* times the vector moved to new storage
          reloads,         \* reloads so far
          mutex,           \* Dispatcher::mutex: "rpc", "config" or NoOne
          loop,            \* client whose handler occupies the event loop
          memory_map,      \* memory_map_: fake pointer -> [node, handle]
          heap,            \* cells operator new has given and not got back
          call,            \* the request of each client
          owns,            \* fake pointers each client has and has not freed
          retry,           \* those whose free failed: the client may free them again
          spent,           \* mapped pointers whose allocation the node has freed
          remote,          \* allocations alive on the nodes: <<node, handle>>
          lost,            \* those whose reply was lost or whose free failed
          dangled,         \* a request has read a node of a moved vector
          refreed,         \* a repeated free has hit a handle in use again
          doubleDelete     \* operator delete got a cell that was not allocated

vars == <<nodes, epoch, reloads, mutex, loop, memory_map, heap, call, owns,
          retry, spent, remote, lost, dangled, refreed, doubleDelete>>

confVars == <<nodes, epoch, reloads>>
mapVars  == <<memory_map, heap, doubleDelete>>
nodeVars == <<remote, lost, spent, refreed>>
ownVars  == <<owns, retry>>

Call(s, p, n, h, e) == [step |-> s, ptr |-> p, node |-> n, handle |-> h, epoch |-> e]
Idle == Call("idle", NoPtr, NoOne, NoOne, 0)
Steps == {"idle", "alloc", "pick", "relock", "sendAlloc", "allocAtNode", "allocReply",
          "free", "getNode", "sendFree", "freeAtNode", "freeReply",
          "plan", "planNode", "sendPlan", "crashed"}
Mapped == DOMAIN memory_map
Has(c) == owns[c] \cup retry[c]

(* What LoadConfig appends: the nodes of the file up to an error in it. *)
Loaded == UNION { { SubSeq(conf, 1, k) : k \in 0..Len(conf) } : conf \in Configs }
Allocation(p) == <<memory_map[p].node, memory_map[p].handle>>

Init ==
  /\ nodes \in Loaded
  /\ epoch = 0 /\ reloads = 0
  /\ mutex = NoOne /\ loop = NoOne
  /\ memory_map = [p \in {} |-> Idle]
  /\ heap = {}
  /\ call = [c \in Clients |-> Idle]
  /\ owns = [c \in Clients |-> {}] /\ retry = [c \in Clients |-> {}]
  /\ remote = {} /\ lost = {} /\ spent = {}
  /\ dangled = FALSE /\ refreed = FALSE /\ doubleDelete = FALSE

Answer(c) == call' = [call EXCEPT ![c] = Idle]
Goto(c, step) == call' = [call EXCEPT ![c].step = step]

(* A RemoteNode* is used without the mutex, and push_back may have moved   *)
(* the vector since it was taken.  Moved-from or freed storage may still   *)
(* hold any node, or it ends the process, which then serves nobody.        *)
Moved(c) == call[c].epoch # epoch
NodeRead(c) == IF Moved(c) THEN NodeIds ELSE {call[c].node}
Dangles(c) == dangled' = (dangled \/ Moved(c))
Crash(c) == Moved(c) /\ Goto(c, "crashed") /\ loop' = c

-----------------------------------------------------------------------------
(* The hook of a client, one call at a time (g_api_mutex): it allocates,   *)
(* frees pointers of its own, those too whose free ended in an error, and  *)
(* frees pointers the launcher never gave out.                             *)
ClientAllocates(c) ==
  /\ call[c].step = "idle"
  /\ Goto(c, "alloc")
  /\ UNCHANGED <<confVars, mutex, loop, mapVars, nodeVars, ownVars, dangled>>

ClientFrees(c) ==
  /\ call[c].step = "idle"
  /\ \E p \in Has(c) \cup {NoPtr} :
       /\ owns' = [owns EXCEPT ![c] = @ \ {p}]
       /\ retry' = [retry EXCEPT ![c] = @ \ {p}]
       /\ call' = [call EXCEPT ![c] = Call("free", p, NoOne, NoOne, 0)]
  /\ UNCHANGED <<confVars, mutex, loop, mapVars, nodeVars, dangled>>

ClientPlansCopy(c) ==
  /\ call[c].step = "idle"
  /\ \E p \in Has(c) \cup {NoPtr} :
       call' = [call EXCEPT ![c] = Call("plan", p, NoOne, NoOne, 0)]
  /\ UNCHANGED <<confVars, mutex, loop, mapVars, nodeVars, ownVars, dangled>>

-----------------------------------------------------------------------------
(* requestAllocation, up to the lock in PickNode, which blocks the loop *)
requestAllocation(c) ==
  /\ loop = NoOne /\ call[c].step = "alloc"
  /\ loop' = c
  /\ Goto(c, "pick")
  /\ UNCHANGED <<confVars, mutex, mapVars, nodeVars, ownVars, dangled>>

(* PickNode holds mutex, decides, and calls GetNodeById, which locks the   *)
(* same mutex again.  No node, or none with enough memory: null.           *)
PickNode(c) ==
  /\ call[c].step = "pick" /\ mutex = NoOne
  /\ \/ Answer(c) /\ loop' = NoOne /\ UNCHANGED mutex
     \/ /\ nodes # <<>> /\ "throws" \in RelockOutcomes
        /\ Answer(c) /\ loop' = NoOne /\ UNCHANGED mutex
     \/ /\ nodes # <<>> /\ "blocks" \in RelockOutcomes
        /\ Goto(c, "relock") /\ mutex' = "rpc" /\ UNCHANGED loop
     \/ /\ "enters" \in RelockOutcomes
        /\ \E i \in DOMAIN nodes :
             call' = [call EXCEPT ![c] = Call("sendAlloc", NoPtr, nodes[i], NoOne, epoch)]
        /\ UNCHANGED <<loop, mutex>>
  /\ UNCHANGED <<confVars, mapVars, nodeVars, ownVars, dangled>>

(* The request to the node, through the pointer PickNode returned *)
SendAllocation(c) ==
  /\ call[c].step = "sendAlloc"
  /\ Dangles(c)
  /\ \/ /\ loop' = NoOne
        /\ \E n \in NodeRead(c) :
             call' = [call EXCEPT ![c] = Call("allocAtNode", NoPtr, n, NoOne, @.epoch)]
     \/ Crash(c)
  /\ UNCHANGED <<confVars, mutex, mapVars, nodeVars, ownVars>>

(* Faulty variants: the node's error is ignored; AddMapping is forgotten. *)
AllocationDone_IgnoresError(c) ==
  /\ loop = NoOne /\ call[c].step = "allocReply"
  /\ Answer(c)
  /\ \E p \in Ptrs \ heap :
       /\ heap' = heap \cup {p}
       /\ memory_map' = [q \in Mapped \cup {p} |->
                           IF q = p THEN [node |-> call[c].node, handle |-> call[c].handle]
                                    ELSE memory_map[q]]
       /\ owns' = [owns EXCEPT ![c] = @ \cup {p}]
  /\ UNCHANGED <<confVars, mutex, loop, nodeVars, retry, dangled, doubleDelete>>

AllocationDone_NoMapping(c) ==
  /\ loop = NoOne /\ call[c].step = "allocReply"
  /\ Answer(c)
  /\ \E p \in Ptrs \ heap : heap' = heap \cup {p}
  /\ UNCHANGED <<confVars, mutex, loop, memory_map, ownVars, nodeVars, dangled, doubleDelete>>

(* The continuation of requestAllocation: an error is passed on; otherwise *)
(* a cell is allocated for its address (operator new throws when there is  *)
(* none) and mapped to node->id, read now through the same pointer.        *)
AllocationDone(c) ==
  /\ loop = NoOne /\ call[c].step = "allocReply"
  /\ \/ /\ call[c].handle = NoOne
        /\ Answer(c)
        /\ UNCHANGED <<loop, mapVars, owns, lost, dangled>>
     \/ /\ call[c].handle # NoOne /\ heap = Ptrs
        /\ Answer(c)
        /\ lost' = lost \cup ({<<call[c].node, call[c].handle>>} \cap remote)
        /\ UNCHANGED <<loop, mapVars, owns, dangled>>
     \/ /\ call[c].handle # NoOne
        /\ Answer(c)
        /\ \E p \in Ptrs \ heap, n \in NodeRead(c) :
             /\ heap' = heap \cup {p}
             /\ memory_map' = [q \in Mapped \cup {p} |->
                                 IF q = p THEN [node |-> n, handle |-> call[c].handle]
                                          ELSE memory_map[q]]
             /\ owns' = [owns EXCEPT ![c] = @ \cup {p}]
        /\ Dangles(c)
        /\ UNCHANGED <<loop, doubleDelete, lost>>
     \/ /\ call[c].handle # NoOne /\ heap # Ptrs
        /\ Dangles(c) /\ Crash(c)
        /\ UNCHANGED <<mapVars, owns, lost>>
  /\ UNCHANGED <<confVars, mutex, retry, remote, spent, refreed>>

(* requestFree: an unknown pointer is refused, else its node is looked up. *)
requestFree(c) ==
  /\ loop = NoOne /\ call[c].step = "free"
  /\ IF call[c].ptr \in Mapped
       THEN Goto(c, "getNode") /\ loop' = c
       ELSE Answer(c) /\ UNCHANGED loop
  /\ UNCHANGED <<confVars, mutex, mapVars, nodeVars, ownVars, dangled>>

(* Faulty variant: the first node is asked, whichever holds the memory. *)
GetNodeById_First(c) ==
  /\ call[c].step = "getNode" /\ mutex = NoOne
  /\ nodes # <<>>
  /\ call' = [call EXCEPT ![c] = Call("sendFree", @.ptr, nodes[1], memory_map[@.ptr].handle, epoch)]
  /\ UNCHANGED <<confVars, mutex, loop, mapVars, nodeVars, ownVars, dangled>>

(* GetNodeById, under the mutex, for requestFree or planMemcpyHtoD; an     *)
(* unknown node is an error, which leaves the mapping.                     *)
GetNodeById(c) ==
  /\ call[c].step \in {"getNode", "planNode"} /\ mutex = NoOne
  /\ LET info == memory_map[call[c].ptr]
         next == IF call[c].step = "getNode" THEN "sendFree" ELSE "sendPlan"
     IN  \/ /\ \E i \in DOMAIN nodes : nodes[i] = info.node
            /\ call' = [call EXCEPT ![c] = Call(next, @.ptr, info.node, info.handle, epoch)]
            /\ UNCHANGED <<loop, retry>>
         \/ /\ \A i \in DOMAIN nodes : nodes[i] # info.node
            /\ Answer(c) /\ loop' = NoOne
            /\ retry' = IF call[c].step = "getNode"
                          THEN [retry EXCEPT ![c] = @ \cup {call[c].ptr}] ELSE retry
  /\ UNCHANGED <<confVars, mutex, mapVars, nodeVars, owns, dangled>>

(* The request to the node, through the pointer GetNodeById returned *)
SendFree(c) ==
  /\ call[c].step = "sendFree"
  /\ Dangles(c)
  /\ \/ /\ loop' = NoOne
        /\ \E n \in NodeRead(c) :
             call' = [call EXCEPT ![c] = Call("freeAtNode", @.ptr, n, @.handle, 0)]
     \/ Crash(c)
  /\ UNCHANGED <<confVars, mutex, mapVars, nodeVars, ownVars>>

(* Faulty variant: the mapping stays. *)
FreeDone_KeepsMapping(c) ==
  /\ loop = NoOne /\ call[c].step = "freeReply"
  /\ heap' = heap \ {call[c].ptr}
  /\ doubleDelete' = (doubleDelete \/ call[c].ptr \notin heap)
  /\ Answer(c)
  /\ UNCHANGED <<confVars, mutex, loop, memory_map, ownVars, nodeVars, dangled>>

(* The continuation of requestFree removes the mapping and deletes the     *)
(* cell whatever the node answered.                                        *)
FreeDone(c) ==
  /\ loop = NoOne /\ call[c].step = "freeReply"
  /\ LET p == call[c].ptr
     IN  /\ memory_map' = [q \in Mapped \ {p} |-> memory_map[q]]
         /\ heap' = heap \ {p}
         /\ doubleDelete' = (doubleDelete \/ p \notin heap)
         /\ spent' = spent \ {p}
  /\ Answer(c)
  /\ UNCHANGED <<confVars, mutex, loop, ownVars, remote, lost, refreed, dangled>>

(* planMemcpyHtoD: an unknown pointer is refused, else its node is looked  *)
(* up and its address read through the pointer.                            *)
planMemcpyHtoD(c) ==
  /\ \/ /\ loop = NoOne /\ call[c].step = "plan"
        /\ IF call[c].ptr \in Mapped
             THEN Goto(c, "planNode") /\ loop' = c
             ELSE Answer(c) /\ UNCHANGED loop
        /\ UNCHANGED dangled
     \/ /\ call[c].step = "sendPlan"
        /\ Dangles(c)
        /\ (Answer(c) /\ loop' = NoOne) \/ Crash(c)
  /\ UNCHANGED <<confVars, mutex, mapVars, nodeVars, ownVars>>

-----------------------------------------------------------------------------
(* The nodes, and the connections to them *)

(* A node gives a handle, or refuses: handle stays NoOne. *)
NodeAllocates(c) ==
  /\ call[c].step = "allocAtNode"
  /\ \/ \E h \in Handles :
          /\ <<call[c].node, h>> \notin remote
          /\ remote' = remote \cup {<<call[c].node, h>>}
          /\ call' = [call EXCEPT ![c] = Call("allocReply", NoPtr, @.node, h, @.epoch)]
     \/ Goto(c, "allocReply") /\ UNCHANGED remote
  /\ UNCHANGED <<confVars, mutex, loop, mapVars, ownVars, lost, spent, refreed, dangled>>

(* A node frees what the handle stands for now, or reports an error and    *)
(* keeps it.                                                               *)
NodeFrees(c) ==
  /\ call[c].step = "freeAtNode"
  /\ Goto(c, "freeReply")
  /\ LET a == <<call[c].node, call[c].handle>>
         p == call[c].ptr
     IN  \/ /\ remote' = remote \ {a} /\ lost' = lost \ {a}
            /\ spent' = spent \cup {p}
            /\ refreed' = (refreed \/ (p \in spent /\ a \in remote))
         \/ /\ lost' = lost \cup ({a} \cap remote)
            /\ UNCHANGED <<remote, spent, refreed>>
  /\ UNCHANGED <<confVars, mutex, loop, mapVars, ownVars, dangled>>

(* The connection breaks before or after the node has acted: the promise   *)
(* is rejected, the continuation does not run, the client gets the error;  *)
(* the mapping of a pointer it was freeing stays.                          *)
ConnectionLost(c) ==
  /\ loop = NoOne
  /\ call[c].step \in {"allocAtNode", "allocReply", "freeAtNode", "freeReply"}
  /\ lost' = IF call[c].step = "freeReply" THEN lost      \* NodeFrees has told
             ELSE lost \cup ({<<call[c].node, call[c].handle>>} \cap remote)
  /\ retry' = IF call[c].step \in {"freeAtNode", "freeReply"}
                THEN [retry EXCEPT ![c] = @ \cup {call[c].ptr}] ELSE retry
  /\ Answer(c)
  /\ UNCHANGED <<confVars, mutex, loop, mapVars, owns, remote, spent, refreed, dangled>>

-----------------------------------------------------------------------------
(* ConfigWatcher: LoadConfig takes the mutex, reads the file, connects to  *)
(* its nodes and appends them one by one to those already there; push_back *)
(* may move the vector; an error in the file ends the reload.              *)
LoadConfig ==
  /\ reloads < MaxReloads
  /\ mutex = NoOne
  /\ mutex' = "config"
  /\ reloads' = reloads + 1
  /\ UNCHANGED <<nodes, epoch, loop, mapVars, call, ownVars, nodeVars, dangled>>

(* Faulty variant: a file that cannot be read leaves the mutex locked. *)
LoadConfigDone_NoUnlock ==
  /\ mutex = "config"
  /\ \E new \in Loaded :
        /\ nodes' = nodes \o new
        /\ epoch' \in IF new = <<>> THEN {epoch} ELSE {epoch, epoch + 1}
        /\ mutex' = IF new = <<>> THEN "rpc" ELSE NoOne
  /\ UNCHANGED <<reloads, loop, mapVars, call, ownVars, nodeVars, dangled>>

LoadConfigDone ==
  /\ mutex = "config"
  /\ mutex' = NoOne
  /\ \E new \in Loaded :
        /\ nodes' = nodes \o new
        /\ epoch' \in IF new = <<>> THEN {epoch} ELSE {epoch, epoch + 1}
  /\ UNCHANGED <<reloads, loop, mapVars, call, ownVars, nodeVars, dangled>>

-----------------------------------------------------------------------------
Serve(c) == requestAllocation(c) \/ PickNode(c) \/ SendAllocation(c) \/ AllocationDone(c)
            \/ requestFree(c) \/ GetNodeById(c) \/ SendFree(c) \/ FreeDone(c)
            \/ planMemcpyHtoD(c)
NodeStep(c) == NodeAllocates(c) \/ NodeFrees(c)

Next ==
  \/ \E c \in Clients : \/ ClientAllocates(c) \/ ClientFrees(c) \/ ClientPlansCopy(c)
                        \/ Serve(c) \/ NodeStep(c) \/ ConnectionLost(c)
  \/ LoadConfig \/ LoadConfigDone

Spec == Init /\ [][Next]_vars

(* The event loop serves its events in turn, a node answers or its         *)
(* connection breaks, LoadConfig ends.  Clients need not send anything.    *)
FairSpec ==
  /\ Spec
  /\ WF_vars(LoadConfigDone)
  /\ \A c \in Clients : SF_vars(Serve(c)) /\ WF_vars(NodeStep(c))

-----------------------------------------------------------------------------
(* Properties *)

CallType == [step: Steps, ptr: Ptrs \cup {NoPtr}, node: NodeIds \cup {NoOne},
             handle: Handles \cup {NoOne}, epoch: 0..MaxReloads]

TypeOK ==
  /\ nodes \in Seq(NodeIds)
  /\ epoch \in 0..MaxReloads /\ reloads \in 0..MaxReloads
  /\ mutex \in {"rpc", "config", NoOne}
  /\ loop \in Clients \cup {NoOne}
  /\ Mapped \subseteq Ptrs
  /\ memory_map \in [Mapped -> [node: NodeIds, handle: Handles]]
  /\ heap \subseteq Ptrs
  /\ call \in [Clients -> CallType]
  /\ owns \in [Clients -> SUBSET Ptrs] /\ retry \in [Clients -> SUBSET Ptrs]
  /\ remote \subseteq NodeIds \X Handles /\ lost \subseteq remote /\ spent \subseteq Mapped
  /\ dangled \in BOOLEAN /\ refreed \in BOOLEAN /\ doubleDelete \in BOOLEAN

Freeing(c) == call[c].step \in {"free", "getNode", "sendFree", "freeAtNode", "freeReply"}

(* The cells of operator new and the entries of memory_map_ are the same,  *)
(* no cell is deleted twice, and a pointer a client holds, is freeing or   *)
(* may free again is mapped and nobody else's (main.cpp 56-62, 88-89),     *)
(* whatever the nodes and connections do.                                  *)
PointersMapped ==
  /\ Mapped = heap /\ ~doubleDelete
  /\ \A c \in Clients :
       /\ Has(c) \subseteq Mapped
       /\ Freeing(c) /\ call[c].ptr # NoPtr =>
            /\ call[c].ptr \in Mapped
            /\ \A d \in Clients : /\ call[c].ptr \notin Has(d)
                                  /\ d # c /\ Freeing(d) => call[d].ptr # call[c].ptr
       /\ \A d \in Clients \ {c} : Has(c) \cap Has(d) = {}

(* What a client holds is alive on its node, and two pointers never stand  *)
(* for one allocation (dispatcher.h 52), although mappings of pointers     *)
(* whose free was lost stay behind and nodes reuse their handles.          *)
OwnedIsLive ==
  \A c, d \in Clients : \A p \in owns[c] :
    /\ Allocation(p) \in remote
    /\ \A q \in owns[d] : Allocation(p) = Allocation(q) => p = q

(* The same while no request has met a moved vector and no repeated free   *)
(* has hit a handle that its node had given out again.                     *)
OwnedStaysLive == ~dangled /\ ~refreed => OwnedIsLive

(* An allocation on a node is mapped, or its reply is on the way, or the   *)
(* launcher was told of a failure: no memory is forgotten silently, not by *)
(* repeated frees either, as long as no request has met a moved vector.    *)
RemoteAccounted ==
  ~dangled =>
    \A a \in remote \ lost :
       \/ \E p \in Mapped : Allocation(p) = a
       \/ \E c \in Clients : call[c].step = "allocReply" /\ <<call[c].node, call[c].handle>> = a

(* Every request the launcher receives is answered (main.cpp 34-92): the   *)
(* event loop, which all clients share, is not blocked for good.           *)
RequestsAnswered == \A c \in Clients : call[c].step # "idle" ~> call[c].step = "idle"

Stuck == \E c \in Clients : call[c].step \in {"relock", "crashed"}

(* With nodes that answer or whose connections break, only the second lock *)
(* of PickNode and GetNodeById, or the end of the process in a node of a   *)
(* moved vector, keeps a request unanswered: not a reload that holds the   *)
(* mutex, a file that cannot be read, or another client's request.         *)
AnsweredUnlessStuck ==
  \A c \in Clients : call[c].step # "idle" ~> (call[c].step = "idle" \/ Stuck)
=============================================================================
