---------------------------- MODULE MCPlacement ----------------------------
(* Two lists of nodes: unequal ones with every attribute both ways, and     *)
(* equal ones, of which the first is to be chosen.                          *)
EXTENDS Placement

Node(m, t, p, n, yes, u) ==
  [memory |-> m, total |-> t, latency |-> 0, load |-> 0, priority |-> p, numa |-> n,
   rdma |-> yes, nvlink |-> yes, gdr |-> yes, utilization |-> u]

Lists == { <<Node(2, 4, 50, 0, TRUE, 90), Node(8, 8, 50, -1, FALSE, 60)>>,
           <<Node(1, 0, 100, 0, FALSE, 80), Node(4, 4, 50, 0, TRUE, 70), Node(4, 4, 50, 0, FALSE, 70)>> }

(* 1 - exp(-d/3600) grows from 0 to 1 and is negative for negative d. *)
Factor == [d \in (-1)..4 |-> CASE d < 0 -> -1 [] d = 0 -> 0 [] d \in 1..2 -> 50 [] d >= 3 -> 100]
=============================================================================
