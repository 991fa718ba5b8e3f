--------------------------- MODULE MCDataReceiver ---------------------------
(* Small instances of DataReceiver: headers of 2 bytes, buffers of 4. *)
EXTENDS DataReceiver, TLC

Msg(l, o, s) == [len |-> l, op |-> o, size |-> s]

(* an operation that is forwarded or refused: where only interleaving matters *)
ForwardedDatagrams == { Msg(2, "other", 0) }

(* one whose empty payload may panic, one that announces more than it has *)
BadDatagrams == { Msg(2, "memcpy", 0), Msg(4, "memset", 3) }

Perms == Permutations(Bufs) \cup Permutations(Workers)
=============================================================================
