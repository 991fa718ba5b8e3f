----------------------------- MODULE MCLauncher -----------------------------
(* A configuration file with two nodes; a reload may read it up to an error. *)
(* Clients and fake pointers are interchangeable in the safety runs.         *)
EXTENDS Launcher, TLC

TwoNodes == { <<"n1", "n2">> }
Sym == Permutations(Clients) \cup Permutations(Ptrs)
=============================================================================
