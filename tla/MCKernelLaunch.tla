--------------------------- MODULE MCKernelLaunch ---------------------------
(* Small instances of KernelLaunch: pooled buffers of 2 bytes. *)
EXTENDS KernelLaunch

Req(h, n, l, t) == [handle |-> h, name |-> n, lens |-> l, total |-> t]

(* exact, too large for the pool, no parameters, ParamBytes too large, too *)
(* small and zero; two handles                                             *)
AllRequests == { Req(0, "f", <<1, 1>>, 2), Req(1, "g", <<3>>, 3), Req(0, "f", <<>>, 0),
                 Req(1, "g", <<1>>, 2), Req(0, "f", <<2, 1>>, 1), Req(1, "g", <<1>>, 0) }
(* calls that differ in nothing: only their interleaving matters *)
EqualRequests == { Req(0, "f", <<1>>, 1) }
(* what the clients of this repository send: no handle, so the default *)
ClientRequests == { Req(0, "f", <<1>>, 1), Req(0, "g", <<1>>, 1) }
=============================================================================
