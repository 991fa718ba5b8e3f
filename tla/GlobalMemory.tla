---------------------------- MODULE GlobalMemory ----------------------------
(***************************************************************************)
(* GlobalMemoryService (client/launcher/memory): the table of remote       *)
(* allocations under the shared mutex table_mutex.  AddMapping and         *)
(* RemoveMapping hold it exclusively and are one step; GetMapping and      *)
(* SaveSnapshot share it.  GetMapping increments access_count with the     *)
(* mutex shared, so the increment is a read and a write between which      *)
(* those of other lookups may come.                                        *)
(***************************************************************************)
EXTENDS Naturals

CONSTANTS Callers, DPtrs, Infos,   \* callers; table keys; node, size and handle
          MaxLookups,              \* bound: lookups of one mapping
          NoKey

ASSUME GlobalMemoryAssumption == MaxLookups \in Nat /\ NoKey \notin DPtrs

VARIABLES ptr_table,       \* key -> [info, access_count]
          reader,          \* what each thread does with the mutex shared
          snapshot,        \* the content of the snapshot file
          lookups,         \* lookups begun of each mapping since AddMapping
          overlapped       \* mappings that two lookups were in at once

tableVars == <<ptr_table, reader, snapshot, lookups, overlapped>>

NoEntries == [p \in {} |-> 0]
Outside == [in |-> "out", dptr |-> NoKey, seen |-> 0, json |-> NoEntries]
Mappings == DOMAIN ptr_table
InLookup(p) == { t \in Callers : reader[t].in = "get" /\ reader[t].dptr = p }

TableInit ==
  /\ ptr_table = NoEntries /\ snapshot = NoEntries
  /\ reader = [t \in Callers |-> Outside]
  /\ lookups = [p \in DPtrs |-> 0] /\ overlapped = {}

-----------------------------------------------------------------------------
(* table_mutex taken exclusively: nobody shares it.  In the faulty variant *)
(* SaveSnapshot does not hold it.                                          *)
LockExclusive_PastSnapshot == \A t \in Callers : reader[t].in # "get"
LockExclusive == \A t \in Callers : reader[t].in = "out"

(* Faulty variant: a key that is added again keeps its count. *)
AddMapping_KeepsCount(p) ==
  /\ LockExclusive
  /\ \E i \in Infos :
       ptr_table' = [q \in Mappings \cup {p} |->
                       IF q # p THEN ptr_table[q]
                       ELSE [info |-> i, access_count |->
                               IF p \in Mappings THEN ptr_table[p].access_count ELSE 0]]
  /\ lookups' = [lookups EXCEPT ![p] = 0]
  /\ overlapped' = overlapped \ {p}
  /\ UNCHANGED <<reader, snapshot>>

AddMapping(p) ==
  /\ LockExclusive
  /\ \E i \in Infos :
       ptr_table' = [q \in Mappings \cup {p} |->
                       IF q # p THEN ptr_table[q] ELSE [info |-> i, access_count |-> 0]]
  /\ lookups' = [lookups EXCEPT ![p] = 0]
  /\ overlapped' = overlapped \ {p}
  /\ UNCHANGED <<reader, snapshot>>

RemoveMapping(p) ==
  /\ LockExclusive
  /\ ptr_table' = [q \in Mappings \ {p} |-> ptr_table[q]]
  /\ UNCHANGED <<reader, snapshot, lookups, overlapped>>

(* GetMapping: a key that is not there gives nullopt and changes nothing. *)
GetMapping(t) ==
  /\ reader[t].in = "out"
  /\ \E p \in Mappings :
       /\ lookups[p] < MaxLookups
       /\ reader' = [reader EXCEPT ![t] = [Outside EXCEPT !.in = "get", !.dptr = p,
                                              !.seen = ptr_table[p].access_count]]
       /\ lookups' = [lookups EXCEPT ![p] = @ + 1]
       /\ overlapped' = IF InLookup(p) = {} THEN overlapped ELSE overlapped \cup {p}
  /\ UNCHANGED <<ptr_table, snapshot>>

GetMappingReturns(t) ==
  /\ reader[t].in = "get"
  /\ ptr_table' = [ptr_table EXCEPT ![reader[t].dptr].access_count = reader[t].seen + 1]
  /\ reader' = [reader EXCEPT ![t] = Outside]
  /\ UNCHANGED <<snapshot, lookups, overlapped>>

(* SaveSnapshot: the entries one by one, then the file, which may not open. *)
SaveSnapshot(t) ==
  /\ reader[t].in = "out"
  /\ reader' = [reader EXCEPT ![t] = [Outside EXCEPT !.in = "save"]]
  /\ UNCHANGED <<ptr_table, snapshot, lookups, overlapped>>

SnapshotEntry(t) ==
  /\ reader[t].in = "save"
  /\ \E p \in Mappings \ DOMAIN reader[t].json :
       reader' = [reader EXCEPT ![t].json = [q \in DOMAIN @ \cup {p} |->
                                              IF q = p THEN ptr_table[p].info ELSE @[q]]]
  /\ UNCHANGED <<ptr_table, snapshot, lookups, overlapped>>

SnapshotFile(t) ==
  /\ reader[t].in = "save" /\ Mappings \subseteq DOMAIN reader[t].json
  /\ reader' = [reader EXCEPT ![t] = Outside]
  /\ snapshot' \in {reader[t].json, snapshot}
  /\ UNCHANGED <<ptr_table, lookups, overlapped>>

TableNext ==
  \/ \E p \in DPtrs : AddMapping(p) \/ RemoveMapping(p)
  \/ \E t \in Callers : \/ GetMapping(t) \/ GetMappingReturns(t)
                        \/ SaveSnapshot(t) \/ SnapshotEntry(t) \/ SnapshotFile(t)

TableSpec == TableInit /\ [][TableNext]_tableVars

-----------------------------------------------------------------------------
(* Properties *)

Readers == [in: {"out", "get", "save"}, dptr: DPtrs \cup {NoKey}, seen: Nat,
            json: UNION { [D -> Infos] : D \in SUBSET DPtrs }]

TableTypeOK ==
  /\ Mappings \subseteq DPtrs
  /\ ptr_table \in [Mappings -> [info: Infos, access_count: Nat]]
  /\ reader \in [Callers -> Readers]
  /\ lookups \in [DPtrs -> 0..MaxLookups] /\ overlapped \subseteq DPtrs

(* A mapping never counts more lookups than it had, and counts each one    *)
(* unless two were in it at once (global_memory.cpp 20): a count is lost   *)
(* to another lookup only, never to AddMapping, RemoveMapping or a reused  *)
(* key.                                                                    *)
LookupsCounted ==
  \A p \in Mappings :
    /\ ptr_table[p].access_count <= lookups[p]
    /\ p \notin overlapped /\ InLookup(p) = {} => ptr_table[p].access_count = lookups[p]

(* The file SaveSnapshot writes (lines 31-48) is the table as it is at     *)
(* that moment, though it was read entry by entry.                         *)
SnapshotIsTable ==
  [][snapshot' # snapshot => snapshot' = [p \in Mappings |-> ptr_table[p].info]]_tableVars
=============================================================================
