----------------------------- MODULE Placement -----------------------------
(***************************************************************************)
(* Where the launcher puts memory: Dispatcher::makeAllocationDecision,     *)
(* which chooses a node by its score and then asks CoolingService about    *)
(* the data, one locked getter after the other, while accesses are         *)
(* recorded and the worker cools.                                          *)
(*                                                                         *)
(* Scores are in thousandths.  The fields rdma, nvlink, gdr and            *)
(* utilization of a node are read by the decision but not declared in      *)
(* dispatcher.h; they are attributes of the node here.                     *)
(***************************************************************************)
EXTENDS Cooling, Sequences

CONSTANTS NodeLists,       \* contents of Dispatcher::nodes
          Sizes,           \* sizes asked for
          NoAddr

ASSUME SizesAssumption == Sizes \subseteq Nat
ASSUME PlacementAssumption ==
  \A ns \in NodeLists : DOMAIN ns = 1..Len(ns) /\ Len(ns) \in Nat /\ \A i \in DOMAIN ns :
    /\ {ns[i].memory, ns[i].total, ns[i].latency, ns[i].load, ns[i].priority} \subseteq Nat
    /\ ns[i].load <= 200

VARIABLE decision          \* the call of makeAllocationDecision

vars == <<coolingVars, decision>>

-----------------------------------------------------------------------------
(* CalculateNodeScore; load is cpu_usage + gpu_utilization in percent. *)
CalculateNodeScore(node, required, numa) ==
  (IF node.total > 0 THEN (300 * (node.memory - required)) \div node.total ELSE 0)
  + 200 \div (1 + node.latency)
  + 200 - node.load
  + node.priority
  + (IF node.numa = numa THEN 200 ELSE 100)

(* Whether the loop takes node i instead of best, 0 for none yet; the      *)
(* faulty variant takes the last of equal ones.                            *)
Better_OrEqual(ns, i, size, numa, best) ==
  /\ ns[i].memory >= size
  /\ CalculateNodeScore(ns[i], size, numa) >=
       IF best = 0 THEN -1000 ELSE CalculateNodeScore(ns[best], size, numa)

Better(ns, i, size, numa, best) ==
  /\ ns[i].memory >= size
  /\ CalculateNodeScore(ns[i], size, numa) >
       IF best = 0 THEN -1000 ELSE CalculateNodeScore(ns[best], size, numa)

(* The plan for a node, from what the getters returned *)
Stable(stability) == stability > 800000
MemoryType(node, size, d, mobility) ==
  IF Stable(d.stability) /\ d.hot THEN "VRAM"
  ELSE IF mobility > 5 THEN "HOST"
  ELSE IF node.numa = d.numaId /\ node.memory > size * 2 THEN "VRAM" ELSE "HOST"
TransportType(node, d, mobility) ==
  IF d.hot /\ Stable(d.stability) THEN "LOCAL"
  ELSE IF d.hot /\ mobility < 3 THEN (IF node.rdma THEN "RDMA" ELSE "UDP")
  ELSE "RDMA_UDP"
AllocationPlan(node, d, mobility) ==
  LET known == node.numa # -1 /\ d.numaId # -1
  IN  [memoryType |-> MemoryType(node, d.size, d, mobility),
       transportType |-> TransportType(node, d, mobility),
       numaMatch |-> known /\ node.numa = d.numaId,
       prefetchHint |-> known /\ node.numa # d.numaId,
       gpuTopologyOptimal |-> node.nvlink,
       triggerMigration |-> node.utilization > 85,
       expandStableZone |-> node.utilization < 70,
       gdrTransfer |-> node.gdr /\ mobility > 0]

NoPlan == [memoryType |-> "none", transportType |-> "none"]
NoDecision == [step |-> "idle", ptr |-> NoAddr, nodes |-> <<>>, size |-> 0, next |-> 1,
               target |-> 0, hot |-> FALSE, stability |-> 0, numaId |-> -1, plan |-> NoPlan]

Init == CoolingInit /\ decision = NoDecision

-----------------------------------------------------------------------------
(* makeAllocationDecision, called by PickNode with current_numa = -1; the  *)
(* dispatcher's mutex keeps reloads and a second decision out.             *)
Decide(a) ==
  /\ decision.step \in {"idle", "done"}
  /\ \E ns \in NodeLists, size \in Sizes :
       decision' = [NoDecision EXCEPT !.step = "scan", !.ptr = a, !.nodes = ns, !.size = size]
  /\ UNCHANGED coolingVars

(* One round of the loop over the nodes *)
Considers ==
  /\ decision.step = "scan" /\ decision.next <= Len(decision.nodes)
  /\ decision' = [decision EXCEPT !.next = @ + 1,
                    !.target = IF Better(decision.nodes, decision.next, decision.size, -1, @)
                               THEN decision.next ELSE @]
  /\ UNCHANGED coolingVars

(* Without a best node the plan is CUDA_ERROR_OUT_OF_MEMORY: target 0. *)
Chooses ==
  /\ decision.step = "scan" /\ decision.next > Len(decision.nodes)
  /\ decision' = [decision EXCEPT !.step = IF decision.target = 0 THEN "done" ELSE "hot"]
  /\ UNCHANGED coolingVars

ReadsHot ==
  /\ decision.step = "hot"
  /\ decision' = [decision EXCEPT !.step = "stability", !.hot = isHotData(decision.ptr)]
  /\ UNCHANGED coolingVars

ReadsStability ==
  /\ decision.step = "stability"
  /\ decision' = [decision EXCEPT !.step = "numa", !.stability = getStability(decision.ptr)]
  /\ UNCHANGED coolingVars

(* getNumaId, and the plan *)
Plans ==
  /\ decision.step = "numa"
  /\ LET d == [decision EXCEPT !.numaId = getNumaId(decision.ptr)]
     IN  decision' = [d EXCEPT !.step = "done",
                        !.plan = AllocationPlan(d.nodes[d.target], d, getMobility(d.ptr))]
  /\ UNCHANGED coolingVars

makeAllocationDecision ==
  (\E a \in Addrs : Decide(a)) \/ Considers \/ Chooses \/ ReadsHot \/ ReadsStability \/ Plans

Next ==
  \/ makeAllocationDecision
  \/ CoolingNext /\ UNCHANGED decision

Spec == Init /\ [][Next]_vars
FairSpec == Spec /\ CoolingFair

-----------------------------------------------------------------------------
(* Properties *)

TypeOK ==
  /\ CoolingTypeOK
  /\ decision.step \in {"idle", "scan", "hot", "stability", "numa", "done"}
  /\ decision.nodes \in NodeLists \cup {<<>>}
  /\ decision.next \in 1..(Len(decision.nodes) + 1)
  /\ decision.target \in 0..(decision.next - 1)
  /\ decision.stability \in Int /\ decision.hot \in BOOLEAN

(* The node chosen has the memory, no node that has it scores higher, and  *)
(* no earlier one scores as high; the request is refused only when no node *)
(* has the memory (dispatcher.cpp 105-123).                                *)
FirstBestNode ==
  decision.step \notin {"idle", "scan"} =>
    LET ns == decision.nodes
        fits == { i \in DOMAIN ns : ns[i].memory >= decision.size }
        score(i) == CalculateNodeScore(ns[i], decision.size, -1)
    IN  IF fits = {} THEN decision.target = 0
        ELSE /\ decision.target \in fits
             /\ \A i \in fits : /\ score(i) <= score(decision.target)
                                /\ i < decision.target => score(i) < score(decision.target)
=============================================================================
