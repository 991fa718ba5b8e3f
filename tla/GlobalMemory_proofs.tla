------------------------ MODULE GlobalMemory_proofs ------------------------
(***************************************************************************)
(* What GlobalMemoryService keeps for any number of callers and mappings:  *)
(* counts are lost only to overlapping lookups, and a snapshot is the      *)
(* table.  The invariant says what a caller that shares table_mutex may    *)
(* rely on until it gives it back.                                         *)
(***************************************************************************)
EXTENDS GlobalMemory, TLAPS

Entry == [info: Infos, access_count: Nat]

Types ==
  /\ Mappings \subseteq DPtrs /\ ptr_table \in [Mappings -> Entry]
  /\ lookups \in [DPtrs -> Nat] /\ DOMAIN reader = Callers

(* A lookup has read a count that is its own increment behind the lookups, *)
(* and still current unless another lookup was in the mapping.             *)
LookupOK(r, table, looks, over) ==
  /\ r.dptr \in DOMAIN table /\ r.seen \in Nat /\ r.seen + 1 <= looks[r.dptr]
  /\ r.dptr \notin over => /\ r.seen = table[r.dptr].access_count
                           /\ r.seen + 1 = looks[r.dptr]

(* What a snapshot has read is still so. *)
SnapshotOK(r, table) ==
  /\ DOMAIN r.json \subseteq DOMAIN table
  /\ r.json = [q \in DOMAIN r.json |-> table[q].info]

ReaderOK(r, table, looks, over) ==
  /\ {"in", "dptr", "seen", "json"} \subseteq DOMAIN r
  /\ r.in \in {"out", "get", "save"}
  /\ r.in = "get" => LookupOK(r, table, looks, over)
  /\ r.in = "save" => SnapshotOK(r, table)

ReadersOK == \A t \in Callers : ReaderOK(reader[t], ptr_table, lookups, overlapped)

(* Two lookups are in one mapping only when it counts as overlapped. *)
AloneOK == \A t, u \in Callers :
  t # u /\ reader[t].in = "get" /\ reader[u].in = "get" /\ reader[t].dptr = reader[u].dptr
    => reader[t].dptr \in overlapped

GInv == Types /\ ReadersOK /\ AloneOK /\ LookupsCounted

(* How a step changes the reader of its thread *)
Moves(t) ==
  /\ DOMAIN reader' = Callers
  /\ \A u \in Callers \ {t} : reader'[u] = reader[u]

LEMMA BeginMoves ==
  ASSUME GInv, NEW t \in Callers, NEW r, reader' = [reader EXCEPT ![t] = r]
  PROVE  Moves(t) /\ reader'[t] = r
  BY DEF GInv, Types, Moves

LEMMA OutsideFacts ==
  /\ DOMAIN Outside = {"in", "dptr", "seen", "json"} /\ Outside.in = "out"
  /\ Outside.json = NoEntries
  BY DEF Outside

LEMMA OutsideOK ==
  ASSUME NEW table, NEW looks, NEW over
  PROVE  ReaderOK(Outside, table, looks, over)
  BY OutsideFacts DEF ReaderOK

LEMMA EntryFacts ==
  ASSUME GInv, NEW p \in Mappings
  PROVE  /\ p \in DPtrs /\ ptr_table[p] \in Entry /\ ptr_table[p].access_count \in Nat
         /\ lookups[p] \in Nat
  BY DEF GInv, Types, Entry

-----------------------------------------------------------------------------
(* table_mutex held exclusively: nobody is in the table. *)
LEMMA AddStep ==
  ASSUME GInv, NEW p \in DPtrs, AddMapping(p)
  PROVE  GInv'
<1>1. PICK i \in Infos :
        ptr_table' = [q \in Mappings \cup {p} |->
                        IF q # p THEN ptr_table[q] ELSE [info |-> i, access_count |-> 0]]
  BY DEF AddMapping
<1>2. /\ \A t \in Callers : reader[t].in = "out"
      /\ lookups' = [lookups EXCEPT ![p] = 0] /\ overlapped' = overlapped \ {p}
      /\ reader' = reader
  BY DEF AddMapping, LockExclusive
<1>3. Mappings' = Mappings \cup {p}
  BY <1>1 DEF Mappings
<1>4. /\ ptr_table'[p] = [info |-> i, access_count |-> 0]
      /\ \A q \in Mappings : q # p => ptr_table'[q] = ptr_table[q]
  BY <1>1
<1>5. lookups' \in [DPtrs -> Nat] /\ lookups'[p] = 0 /\ \A q \in DPtrs : q # p => lookups'[q] = lookups[q]
  BY <1>2 DEF GInv, Types
<1>6. Types'
  <2>1. \A q \in Mappings' : ptr_table'[q] \in Entry
    BY <1>3, <1>4, EntryFacts DEF Entry
  <2>2. ptr_table' = [q \in Mappings' |-> ptr_table'[q]]
    BY <1>1, <1>3
  <2>3. ptr_table' \in [Mappings' -> Entry]
    BY <2>1, <2>2
  <2> QED
    BY <1>2, <1>3, <1>5, <2>3 DEF GInv, Types
<1>7. ReadersOK' /\ AloneOK'
  BY <1>2 DEF GInv, ReadersOK, ReaderOK, AloneOK
<1>8. LookupsCounted'
  <2>1. ASSUME NEW q \in Mappings'
        PROVE  /\ ptr_table'[q].access_count <= lookups'[q]
               /\ q \notin overlapped' /\ InLookup(q)' = {} => ptr_table'[q].access_count = lookups'[q]
    <3>1. CASE q = p
      BY <3>1, <1>4, <1>5
    <3>2. CASE q # p
      <4>1. q \in Mappings /\ q \in DPtrs
        BY <3>2, <1>3 DEF GInv, Types
      <4>2. InLookup(q) = {}
        BY <1>2 DEF InLookup
      <4> QED
        BY <3>2, <4>1, <4>2, <1>2, <1>4, <1>5 DEF GInv, LookupsCounted
    <3> QED
      BY <3>1, <3>2
  <2> QED
    BY <2>1 DEF LookupsCounted
<1> QED
  BY <1>6, <1>7, <1>8 DEF GInv

LEMMA RemoveStep ==
  ASSUME GInv, NEW p \in DPtrs, RemoveMapping(p)
  PROVE  GInv'
<1>1. /\ ptr_table' = [q \in Mappings \ {p} |-> ptr_table[q]]
      /\ \A t \in Callers : reader[t].in = "out"
      /\ UNCHANGED <<reader, lookups, overlapped>>
  BY DEF RemoveMapping, LockExclusive
<1>2. Mappings' = Mappings \ {p}
  BY <1>1 DEF Mappings
<1>3. Types'
  BY <1>1, <1>2 DEF GInv, Types
<1>4. ReadersOK' /\ AloneOK'
  BY <1>1 DEF GInv, ReadersOK, ReaderOK, AloneOK
<1>5. LookupsCounted'
  BY <1>1, <1>2 DEF GInv, LookupsCounted, InLookup
<1> QED
  BY <1>3, <1>4, <1>5 DEF GInv

-----------------------------------------------------------------------------
(* A lookup *)
LEMMA GetStep ==
  ASSUME GInv, NEW t \in Callers, GetMapping(t)
  PROVE  GInv'
<1>1. PICK p \in Mappings :
        /\ reader' = [reader EXCEPT ![t] = [Outside EXCEPT !.in = "get", !.dptr = p,
                                              !.seen = ptr_table[p].access_count]]
        /\ lookups' = [lookups EXCEPT ![p] = @ + 1]
        /\ overlapped' = IF InLookup(p) = {} THEN overlapped ELSE overlapped \cup {p}
  BY DEF GetMapping
<1>2. reader[t].in = "out" /\ ptr_table' = ptr_table /\ Mappings' = Mappings
  BY DEF GetMapping, Mappings
<1> DEFINE r == [Outside EXCEPT !.in = "get", !.dptr = p, !.seen = ptr_table[p].access_count]
<1>3. Moves(t) /\ reader'[t] = r
  BY <1>1, BeginMoves
<1>4. /\ {"in", "dptr", "seen", "json"} \subseteq DOMAIN r
      /\ r.in = "get" /\ r.dptr = p /\ r.seen = ptr_table[p].access_count
  <2>1. DOMAIN r = DOMAIN Outside
    OBVIOUS
  <2>2. r.in = "get" /\ r.dptr = p /\ r.seen = ptr_table[p].access_count
    BY OutsideFacts
  <2> QED
    BY <2>1, <2>2, OutsideFacts
<1> HIDE DEF r
<1>5. p \in DPtrs /\ ptr_table[p].access_count \in Nat /\ lookups[p] \in Nat
  BY EntryFacts
<1>6. /\ lookups' \in [DPtrs -> Nat] /\ lookups'[p] = lookups[p] + 1
      /\ \A q \in DPtrs : q # p => lookups'[q] = lookups[q]
  BY <1>1, <1>5 DEF GInv, Types
<1>7. Types'
  BY <1>2, <1>3, <1>6 DEF GInv, Types, Moves
<1>8. overlapped \subseteq overlapped' /\ overlapped' \subseteq overlapped \cup {p}
      /\ (InLookup(p) # {} => p \in overlapped')
  BY <1>1
<1>9. ASSUME NEW u \in Callers PROVE ReaderOK(reader'[u], ptr_table', lookups', overlapped')
  <2>1. CASE u = t
    <3>1. p \notin overlapped' => InLookup(p) = {} /\ p \notin overlapped
      BY <1>8
    <3>2. ptr_table[p].access_count <= lookups[p]
      BY DEF GInv, LookupsCounted
    <3>3. p \notin overlapped' => ptr_table[p].access_count = lookups[p]
      BY <3>1 DEF GInv, LookupsCounted
    <3>4. ptr_table[p].access_count + 1 <= lookups'[p]
      BY <3>2, <1>5, <1>6
    <3>5. p \notin overlapped' => ptr_table[p].access_count + 1 = lookups'[p]
      BY <3>3, <1>5, <1>6
    <3>6. LookupOK(r, ptr_table', lookups', overlapped')
      BY <3>4, <3>5, <1>2, <1>4, <1>5 DEF LookupOK, Mappings
    <3> QED
      BY <2>1, <3>6, <1>3, <1>4 DEF ReaderOK
  <2>2. CASE u # t
    <3>1. reader'[u] = reader[u] /\ ReaderOK(reader[u], ptr_table, lookups, overlapped)
      BY <2>2, <1>3 DEF Moves, GInv, ReadersOK
    <3>2. ASSUME reader[u].in = "get" PROVE LookupOK(reader[u], ptr_table', lookups', overlapped')
      <4>1. LookupOK(reader[u], ptr_table, lookups, overlapped)
        BY <3>1, <3>2 DEF ReaderOK
      <4>2. reader[u].dptr \in DPtrs
        BY <4>1 DEF LookupOK, GInv, Types, Mappings
      <4>3. CASE reader[u].dptr = p
        <5>1. u \in InLookup(p)
          BY <3>2, <4>3 DEF InLookup
        <5>2. p \in overlapped'
          BY <5>1, <1>8
        <5> QED
          BY <4>1, <4>3, <5>2, <1>2, <1>5, <1>6 DEF LookupOK
      <4>4. CASE reader[u].dptr # p
        BY <4>1, <4>2, <4>4, <1>2, <1>6, <1>8 DEF LookupOK
      <4> QED
        BY <4>3, <4>4
    <3> QED
      BY <3>1, <3>2, <1>2 DEF ReaderOK
  <2> QED
    BY <2>1, <2>2
<1>10. AloneOK'
  <2>1. ASSUME NEW u \in Callers, NEW v \in Callers, u # v, reader'[u].in = "get",
               reader'[v].in = "get", reader'[u].dptr = reader'[v].dptr
        PROVE  reader'[u].dptr \in overlapped'
    <3>1. CASE u # t /\ v # t
      BY <2>1, <3>1, <1>3, <1>8 DEF Moves, GInv, AloneOK
    <3>2. CASE u = t
      <4>1. v \in InLookup(p)
        BY <2>1, <3>2, <1>3, <1>4 DEF Moves, InLookup
      <4> QED
        BY <4>1, <3>2, <1>3, <1>4, <1>8
    <3>3. CASE v = t
      <4>1. u \in InLookup(p)
        BY <2>1, <3>3, <1>3, <1>4 DEF Moves, InLookup
      <4> QED
        BY <2>1, <4>1, <3>3, <1>3, <1>4, <1>8
    <3> QED
      BY <3>1, <3>2, <3>3
  <2> QED
    BY <2>1 DEF AloneOK
<1>11. LookupsCounted'
  <2>1. ASSUME NEW q \in Mappings'
        PROVE  /\ ptr_table'[q].access_count <= lookups'[q]
               /\ q \notin overlapped' /\ InLookup(q)' = {} => ptr_table'[q].access_count = lookups'[q]
    <3>0. q \in Mappings /\ q \in DPtrs
      BY <1>2 DEF GInv, Types
    <3>1. CASE q = p
      <4>1. t \in InLookup(q)'
        BY <3>1, <1>3, <1>4 DEF InLookup
      <4>2. ptr_table[p].access_count <= lookups[p]
        BY DEF GInv, LookupsCounted
      <4> QED
        BY <3>1, <4>1, <4>2, <1>2, <1>5, <1>6
    <3>2. CASE q # p
      <4>1. InLookup(q) \subseteq InLookup(q)'
        BY <1>2, <1>3 DEF InLookup, Moves
      <4> QED
        BY <3>0, <3>2, <4>1, <1>2, <1>6, <1>8 DEF GInv, LookupsCounted
    <3> QED
      BY <3>1, <3>2
  <2> QED
    BY <2>1 DEF LookupsCounted
<1> QED
  BY <1>7, <1>9, <1>10, <1>11 DEF GInv, ReadersOK

LEMMA GetReturnsStep ==
  ASSUME GInv, NEW t \in Callers, GetMappingReturns(t)
  PROVE  GInv'
<1> DEFINE p == reader[t].dptr
           n == reader[t].seen + 1
<1>1. LookupOK(reader[t], ptr_table, lookups, overlapped) /\ reader[t].in = "get"
  BY DEF GetMappingReturns, GInv, ReadersOK, ReaderOK
<1>2. p \in Mappings /\ n \in Nat /\ n <= lookups[p] /\ (p \notin overlapped => n = lookups[p])
  BY <1>1 DEF LookupOK, Mappings
<1>3. /\ ptr_table' = [ptr_table EXCEPT ![p].access_count = n]
      /\ reader' = [reader EXCEPT ![t] = Outside]
      /\ UNCHANGED <<lookups, overlapped>>
  BY DEF GetMappingReturns
<1>4. Moves(t) /\ reader'[t] = Outside
  BY <1>3, BeginMoves
<1> HIDE DEF p, n
<1>5. Mappings' = Mappings
  BY <1>3 DEF Mappings
<1>6. /\ ptr_table[p] \in Entry
      /\ ptr_table'[p] = [ptr_table[p] EXCEPT !.access_count = n]
      /\ \A q \in Mappings : q # p => ptr_table'[q] = ptr_table[q]
  BY <1>2, <1>3, EntryFacts DEF Mappings
<1>7. ptr_table'[p] \in Entry /\ ptr_table'[p].access_count = n /\ ptr_table'[p].info = ptr_table[p].info
  BY <1>2, <1>6 DEF Entry
<1>8. ptr_table' \in [Mappings' -> Entry]
  <2>1. \A q \in Mappings : ptr_table'[q] \in Entry
    BY <1>6, <1>7, EntryFacts
  <2>2. ptr_table' = [q \in Mappings |-> ptr_table'[q]]
    BY <1>3 DEF Mappings
  <2> QED
    BY <2>1, <2>2, <1>5
<1>9. Types'
  BY <1>3, <1>4, <1>5, <1>8 DEF GInv, Types, Moves
<1>10. ASSUME NEW u \in Callers PROVE ReaderOK(reader'[u], ptr_table', lookups', overlapped')
  <2>1. CASE u = t
    BY <2>1, <1>4, OutsideOK
  <2>2. CASE u # t
    <3>1. reader'[u] = reader[u] /\ ReaderOK(reader[u], ptr_table, lookups, overlapped)
      BY <2>2, <1>4 DEF Moves, GInv, ReadersOK
    <3>2. ASSUME reader[u].in = "get" PROVE LookupOK(reader[u], ptr_table', lookups', overlapped')
      <4>1. LookupOK(reader[u], ptr_table, lookups, overlapped)
        BY <3>1, <3>2 DEF ReaderOK
      <4>2. reader[u].dptr = p => p \in overlapped
        BY <2>2, <3>2, <1>1 DEF GInv, AloneOK, p
      <4> QED
        BY <4>1, <4>2, <1>3, <1>5, <1>6 DEF LookupOK, Mappings
    <3>3. ASSUME reader[u].in = "save" PROVE SnapshotOK(reader[u], ptr_table')
      <4>1. SnapshotOK(reader[u], ptr_table)
        BY <3>1, <3>3 DEF ReaderOK
      <4>2. \A q \in Mappings : ptr_table'[q].info = ptr_table[q].info
        BY <1>6, <1>7
      <4> QED
        BY <4>1, <4>2, <1>5 DEF SnapshotOK, Mappings
    <3> QED
      BY <3>1, <3>2, <3>3 DEF ReaderOK
  <2> QED
    BY <2>1, <2>2
<1>11. AloneOK'
  <2>1. reader'[t].in # "get"
    BY <1>4, OutsideFacts
  <2> QED
    BY <2>1, <1>3, <1>4 DEF Moves, GInv, AloneOK
<1>12. LookupsCounted'
  <2>1. ASSUME NEW q \in Mappings
        PROVE  /\ ptr_table'[q].access_count <= lookups'[q]
               /\ q \notin overlapped' /\ InLookup(q)' = {} => ptr_table'[q].access_count = lookups'[q]
    <3>1. CASE q = p
      BY <3>1, <1>2, <1>3, <1>7
    <3>2. CASE q # p
      <4>1. InLookup(q) \subseteq InLookup(q)'
        BY <3>2, <1>4 DEF InLookup, Moves, p
      <4> QED
        BY <3>2, <4>1, <1>3, <1>6 DEF GInv, LookupsCounted
    <3> QED
      BY <3>1, <3>2
  <2> QED
    BY <2>1, <1>5 DEF LookupsCounted
<1> QED
  BY <1>9, <1>10, <1>11, <1>12 DEF GInv, ReadersOK

-----------------------------------------------------------------------------
(* A snapshot: the table is only read. *)
LEMMA SaveStep ==
  ASSUME GInv, NEW t \in Callers, Moves(t), reader[t].in # "get", reader'[t].in # "get",
         UNCHANGED <<ptr_table, lookups, overlapped>>,
         ReaderOK(reader'[t], ptr_table, lookups, overlapped)
  PROVE  GInv'
<1>1. Mappings' = Mappings
  BY DEF Mappings
<1>2. Types'
  BY <1>1 DEF GInv, Types, Moves
<1>3. \A u \in Callers : u # t => reader'[u] = reader[u]
  BY DEF Moves
<1>4. ReadersOK'
  BY <1>3 DEF GInv, ReadersOK
<1>5. AloneOK'
  BY <1>3 DEF GInv, AloneOK
<1>6. \A q : InLookup(q)' = InLookup(q)
  BY <1>3 DEF InLookup
<1>7. LookupsCounted'
  BY <1>1, <1>6 DEF GInv, LookupsCounted
<1> QED
  BY <1>2, <1>4, <1>5, <1>7 DEF GInv

LEMMA SaveSnapshotStep ==
  ASSUME GInv, NEW t \in Callers, SaveSnapshot(t)
  PROVE  GInv'
<1> DEFINE r == [Outside EXCEPT !.in = "save"]
<1>1. Moves(t) /\ reader'[t] = r
  BY BeginMoves DEF SaveSnapshot
<1>2. DOMAIN r = DOMAIN Outside /\ r.in = "save" /\ r.json = NoEntries
  BY OutsideFacts
<1>3. DOMAIN NoEntries = {} /\ NoEntries = [q \in {} |-> ptr_table[q].info]
  BY DEF NoEntries
<1> HIDE DEF r
<1>4. SnapshotOK(r, ptr_table)
  BY <1>2, <1>3 DEF SnapshotOK
<1>5. ReaderOK(r, ptr_table, lookups, overlapped)
  BY <1>2, <1>4, OutsideFacts DEF ReaderOK
<1> QED
  BY <1>1, <1>2, <1>5, SaveStep DEF SaveSnapshot

LEMMA EntryStep ==
  ASSUME GInv, NEW t \in Callers, SnapshotEntry(t)
  PROVE  GInv'
<1>1. PICK p \in Mappings \ DOMAIN reader[t].json :
        reader' = [reader EXCEPT ![t].json = [q \in DOMAIN @ \cup {p} |->
                                               IF q = p THEN ptr_table[p].info ELSE @[q]]]
  BY DEF SnapshotEntry
<1> DEFINE old == reader[t].json
           new == [q \in DOMAIN old \cup {p} |-> IF q = p THEN ptr_table[p].info ELSE old[q]]
           r == [reader[t] EXCEPT !.json = new]
<1>2. reader[t].in = "save" /\ ReaderOK(reader[t], ptr_table, lookups, overlapped)
      /\ UNCHANGED <<ptr_table, lookups, overlapped>>
  BY DEF SnapshotEntry, GInv, ReadersOK
<1>3. DOMAIN old \subseteq Mappings /\ \A q \in DOMAIN old : old[q] = ptr_table[q].info
  BY <1>2 DEF ReaderOK, SnapshotOK, Mappings
<1>4. DOMAIN new = DOMAIN old \cup {p} /\ new = [q \in DOMAIN new |-> ptr_table[q].info]
  BY <1>3
<1>5. reader' = [reader EXCEPT ![t] = r]
  BY <1>1
<1> HIDE DEF old, new
<1>6. DOMAIN r = DOMAIN reader[t] /\ r.in = "save" /\ r.json = new
  BY <1>2 DEF ReaderOK
<1> HIDE DEF r
<1>7. Moves(t) /\ reader'[t] = r
  BY <1>5, BeginMoves
<1>8. SnapshotOK(r, ptr_table)
  BY <1>3, <1>4, <1>6 DEF SnapshotOK, Mappings
<1>9. ReaderOK(r, ptr_table, lookups, overlapped)
  BY <1>2, <1>6, <1>8 DEF ReaderOK
<1> QED
  BY <1>2, <1>6, <1>7, <1>9, SaveStep

LEMMA FileStep ==
  ASSUME GInv, NEW t \in Callers, SnapshotFile(t)
  PROVE  GInv' /\ snapshot' \in {[p \in Mappings |-> ptr_table[p].info], snapshot}
<1>1. /\ reader[t].in = "save" /\ Mappings \subseteq DOMAIN reader[t].json
      /\ reader' = [reader EXCEPT ![t] = Outside] /\ snapshot' \in {reader[t].json, snapshot}
      /\ UNCHANGED <<ptr_table, lookups, overlapped>>
  BY DEF SnapshotFile
<1>2. Moves(t) /\ reader'[t] = Outside
  BY <1>1, BeginMoves
<1>3. GInv'
  BY <1>1, <1>2, OutsideOK, OutsideFacts, SaveStep
<1>4. SnapshotOK(reader[t], ptr_table)
  BY <1>1 DEF GInv, ReadersOK, ReaderOK
<1>5. reader[t].json = [p \in Mappings |-> ptr_table[p].info]
  BY <1>1, <1>4 DEF SnapshotOK, Mappings
<1> QED
  BY <1>1, <1>3, <1>5

-----------------------------------------------------------------------------
LEMMA TableInitial == TableInit => GInv
<1> SUFFICES ASSUME TableInit PROVE GInv
  OBVIOUS
<1>1. Mappings = {} /\ ptr_table \in [Mappings -> Entry]
  BY DEF TableInit, Mappings, NoEntries
<1>2. Types
  BY <1>1 DEF TableInit, Types
<1>3. \A t \in Callers : reader[t] = Outside
  BY DEF TableInit
<1>4. ReadersOK
  BY <1>3, OutsideOK DEF ReadersOK
<1>5. AloneOK
  BY <1>3, OutsideFacts DEF AloneOK
<1>6. LookupsCounted
  BY <1>1 DEF LookupsCounted
<1> QED
  BY <1>2, <1>4, <1>5, <1>6 DEF GInv

LEMMA TableStep == GInv /\ [TableNext]_tableVars => GInv'
<1> SUFFICES ASSUME GInv, [TableNext]_tableVars PROVE GInv'
  OBVIOUS
<1>1. CASE \E p \in DPtrs : AddMapping(p) \/ RemoveMapping(p)
  BY <1>1, AddStep, RemoveStep
<1>2. CASE \E t \in Callers : GetMapping(t) \/ GetMappingReturns(t)
  BY <1>2, GetStep, GetReturnsStep
<1>3. CASE \E t \in Callers : SaveSnapshot(t) \/ SnapshotEntry(t) \/ SnapshotFile(t)
  BY <1>3, SaveSnapshotStep, EntryStep, FileStep
<1>4. CASE UNCHANGED tableVars
  BY <1>4 DEF tableVars, GInv, Types, Mappings, ReadersOK, AloneOK, LookupsCounted, InLookup
<1> QED
  BY <1>1, <1>2, <1>3, <1>4 DEF TableNext

(* The invariant of the table and of those who share its mutex. *)
THEOREM TableInvariant == TableSpec => []GInv
  BY TableInitial, TableStep, PTL DEF TableSpec

(* GetMapping loses a count only to another GetMapping of the same mapping, *)
(* for any number of callers.                                              *)
THEOREM LookupsCorrect == TableSpec => []LookupsCounted
<1>1. GInv => LookupsCounted
  BY DEF GInv
<1> QED
  BY <1>1, TableInvariant, PTL

(* What SaveSnapshot writes is the table at that moment, though it was     *)
(* read entry by entry with the mutex shared.                              *)
THEOREM SnapshotCorrect == TableSpec => SnapshotIsTable
<1> DEFINE Written == snapshot' # snapshot => snapshot' = [p \in Mappings |-> ptr_table[p].info]
<1>1. GInv /\ [TableNext]_tableVars => [Written]_tableVars
  <2> SUFFICES ASSUME GInv, TableNext PROVE Written
    OBVIOUS
  <2>1. CASE \E t \in Callers : SnapshotFile(t)
    BY <2>1, FileStep
  <2>2. CASE ~\E t \in Callers : SnapshotFile(t)
    <3>1. snapshot' = snapshot
      BY <2>2 DEF TableNext, AddMapping, RemoveMapping, GetMapping, GetMappingReturns,
                  SaveSnapshot, SnapshotEntry
    <3> QED
      BY <3>1
  <2> QED
    BY <2>1, <2>2
<1> QED
  BY <1>1, TableInvariant, PTL DEF TableSpec, SnapshotIsTable
=============================================================================
