--------------------------- MODULE MCClientParts ---------------------------
(* Parts of the client's processes that share no state: in the launcher the *)
(* RDMA transport, rdmaMemcpy, the memory table, the watcher of the         *)
(* configuration and ZmqTransport, in the application the CUDA hook.  A     *)
(* behaviour takes steps of one of them; the others stay as they began.     *)
EXTENDS Rdma, GlobalMemory, ConfigWatcher, Hook

CONSTANT Transporters      \* threads that call ZmqTransport::Transfer

VARIABLE part

mcVars == <<rdmaVars, copy, tableVars, configVars, vars, part>>

Init ==
  /\ RdmaInit /\ CopyInit /\ TableInit /\ ConfigInit /\ HookInit /\ ZmqInit
  /\ part \in {"rdma", "copy", "table", "config", "transport", "hook"}

Next ==
  /\ \/ part = "rdma" /\ RdmaNext /\ UNCHANGED <<copy, tableVars, configVars, vars>>
     \/ part = "copy" /\ CopyNext /\ UNCHANGED <<rdmaVars, tableVars, configVars, vars>>
     \/ part = "table" /\ TableNext /\ UNCHANGED <<rdmaVars, copy, configVars, vars>>
     \/ part = "config" /\ ConfigNext /\ UNCHANGED <<rdmaVars, copy, tableVars, vars>>
     \/ /\ part = "transport" /\ TransportNext(Transporters)
        /\ UNCHANGED <<rdmaVars, copy, tableVars, configVars, hookVars>>
     \/ part = "hook" /\ HookNext /\ UNCHANGED <<rdmaVars, copy, tableVars, configVars>>
  /\ UNCHANGED part

(* Only the watcher has something to do at the start: its fairness is asked *)
(* for where it runs.                                                       *)
PartFair == WF_configVars(part = "config" /\ Watcher) /\ WF_configVars(part = "config" /\ WriteEnds)

Spec == Init /\ [][Next]_mcVars /\ RdmaFair /\ HookFair /\ PartFair
=============================================================================
