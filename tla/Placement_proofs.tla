-------------------------- MODULE Placement_proofs --------------------------
(***************************************************************************)
(* What CoolingService and the allocation decision keep for every window,  *)
(* interval, number of addresses and list of nodes.  The invariant has two *)
(* parts.  Of the records: their types, and that what is hot was accessed  *)
(* at most a second boundary before the last pass read its clock.  Of the  *)
(* decision: its types, and that its target is the first best of the nodes *)
(* the loop has seen.                                                      *)
(***************************************************************************)
EXTENDS Placement, TLAPS

CoolingInv == CoolingTypeOK /\ HotIsRecent

(* A frequency factor is a percentage. *)
LEMMA PercentLemma ==
  ASSUME NEW n \in Nat, NEW k \in Nat \ {0}, n < 100 * k
  PROVE  n \div k \in 0..100
  BY Z3

(* The score of a record is a number, whatever its count and age. *)
LEMMA StabilityLemma ==
  ASSUME NEW c \in Nat, NEW d \in (-MaxLag)..MaxAge
  PROVE  StabilityScore(c, d) \in Int
<1> DEFINE f == IF 100 * c >= 100 * FullCount THEN 100 ELSE (100 * c) \div FullCount
<1>1. FullCount \in Nat \ {0} /\ TimeFactor[d] \in Int
  BY CoolingAssumption
<1>2. 100 * c \in Nat /\ 100 * FullCount \in Nat
  BY <1>1
<1>3. f \in 0..100
  <2>1. CASE 100 * c >= 100 * FullCount
    BY <2>1
  <2>2. CASE ~(100 * c >= 100 * FullCount)
    <3>1. 100 * c < 100 * FullCount
      BY <2>2, <1>2
    <3>2. (100 * c) \div FullCount \in 0..100
      BY <3>1, <1>1, <1>2, PercentLemma
    <3> QED
      BY <3>2, <2>2
  <2> QED
    BY <2>1, <2>2
<1> HIDE DEF f
<1>4. f * 50 * TimeFactor[d] \in Int
  BY <1>1, <1>3
<1> QED
  BY <1>4 DEF f, StabilityScore

(* The whole seconds a pass may find are a record's ticks or one nearer to *)
(* zero.                                                                   *)
LEMMA DurationsLemma ==
  ASSUME NEW r \in Records, lag \in 0..MaxLag, NEW d \in Durations(r)
  PROVE  /\ d \in (-MaxLag)..MaxAge /\ Ticks(r) \in (-MaxLag)..MaxAge /\ Ticks(r) = r.age - lag
         /\ d = 0 => Ticks(r) <= 1
<1>1. r.age \in 0..MaxAge /\ MaxAge \in Nat /\ MaxLag \in Nat
  BY CoolingAssumption DEF Records
<1>2. Ticks(r) \in (-MaxLag)..MaxAge /\ Ticks(r) = r.age - lag
  BY <1>1 DEF Ticks
<1> QED
  BY <1>1, <1>2 DEF Durations

(* What a pass makes of a record it keeps: a record, hot only if it was    *)
(* accessed at most a second boundary before the pass read its clock.      *)
LEMMA CooledLemma ==
  ASSUME NEW r \in Records, lag \in 0..MaxLag, NEW d \in Durations(r), Kept(r, d), NEW q \in Cooled(r, d)
  PROVE  q \in Records /\ (q.hot => q.age <= lag + 1)
<1> DEFINE c == IF Expired(d) THEN r.count - 1 ELSE r.count
<1>1. /\ r.count \in 1..MaxCount /\ r.age \in 0..MaxAge /\ r.numa \in NumaIds
      /\ r.hot \in BOOLEAN /\ MaxCount \in Nat /\ MaxAge \in Nat /\ MaxLag \in Nat
  BY CoolingAssumption DEF Records
<1>2. c \in 1..MaxCount
  BY <1>1 DEF Kept
<1>3. /\ d \in (-MaxLag)..MaxAge /\ Ticks(r) \in Int /\ Ticks(r) = r.age - lag
      /\ d = 0 => Ticks(r) <= 1
  BY DurationsLemma, <1>1
<1> HIDE DEF c
<1>4. StabilityScore(c, d) \in Int
  BY <1>2, <1>3, StabilityLemma, c \in Nat
<1>5. PICK h \in BOOLEAN :
        /\ IF Ticks(r) < 0 THEN h = r.hot ELSE h => r.hot /\ d = 0
        /\ q = [r EXCEPT !.count = c, !.stability = StabilityScore(c, d), !.hot = h]
  BY DEF Cooled, c
<1>6. h => Ticks(r) <= 1
  <2>1. CASE Ticks(r) < 0
    BY <2>1, <1>3
  <2>2. CASE ~(Ticks(r) < 0)
    <3>1. h => d = 0
      BY <2>2, <1>5, Zenon
    <3> QED
      BY <3>1, <1>3, Zenon
  <2> QED
    BY <2>1, <2>2
<1>7. q.hot = h /\ q.age = r.age
  BY <1>5 DEF Records
<1>8. q \in Records
  BY <1>1, <1>2, <1>4, <1>5 DEF Records
<1>9. Ticks(r) <= 1 => q.age <= lag + 1
  BY <1>1, <1>3, <1>7
<1> QED
  BY <1>6, <1>7, <1>8, <1>9, Zenon

-----------------------------------------------------------------------------
(* One step per action of CoolingService *)

LEMMA CoolingInitial == CoolingInit => CoolingInv
<1> SUFFICES ASSUME CoolingInit PROVE CoolingInv
  OBVIOUS
<1>1. Recorded = {} /\ access_records \in [Recorded -> Records]
  BY DEF CoolingInit, Recorded
<1>2. CoolingTypeOK
  <2>1. 0 \in 0..CoolingInterval /\ 0 \in 0..MaxLag /\ MaxAge \in 0..MaxAge
    BY CoolingAssumption
  <2> QED
    BY <1>1, <2>1 DEF CoolingInit, CoolingTypeOK
<1>3. HotIsRecent
  BY <1>1 DEF HotIsRecent
<1> QED
  BY <1>2, <1>3 DEF CoolingInv

(* A step that leaves the records and the clock of the last pass alone *)
LEMMA RecordsKept ==
  ASSUME CoolingInv, access_records' = access_records, sincePass' = sincePass,
         running' \in BOOLEAN, owner' \in {"idle", "joining"},
         worker' \in {"none", "sleep", "now", "check", "ended"},
         sleep' \in 0..CoolingInterval, lag' \in 0..MaxLag
  PROVE  CoolingInv'
  BY DEF CoolingInv, CoolingTypeOK, HotIsRecent, Recorded

LEMMA AccessStep ==
  ASSUME CoolingInv, NEW a \in Addrs, RecordAccess(a)
  PROVE  CoolingInv'
<1>1. PICK n \in NumaIds :
        access_records' =
         [b \in Recorded \cup {a} |->
            IF b # a THEN access_records[b]
            ELSE [count |-> IF a \in Recorded THEN access_records[a].count + 1 ELSE 1,
                  age |-> 0,
                  stability |-> IF a \in Recorded THEN access_records[a].stability ELSE 0,
                  numa |-> n, hot |-> TRUE]]
  BY DEF RecordAccess
<1>2. Recorded' = Recorded \cup {a}
  BY <1>1 DEF Recorded
<1>3. \A b \in Recorded : access_records[b] \in Records
  BY DEF CoolingInv, CoolingTypeOK
<1>4. sincePass \in 0..MaxAge /\ sincePass' = sincePass
  BY DEF CoolingInv, CoolingTypeOK, RecordAccess
<1>5. ASSUME NEW b \in Recorded'
      PROVE  /\ access_records'[b] \in Records
             /\ access_records'[b].hot => access_records'[b].age <= sincePass' + 1
  <2>1. CASE b # a
    <3>1. b \in Recorded /\ access_records'[b] = access_records[b]
      BY <2>1, <1>1, <1>2
    <3> QED
      BY <3>1, <1>3, <1>4 DEF CoolingInv, HotIsRecent
  <2>2. CASE b = a
    <3> DEFINE cnt == IF a \in Recorded THEN access_records[a].count + 1 ELSE 1
               stb == IF a \in Recorded THEN access_records[a].stability ELSE 0
    <3>1. access_records'[b] = [count |-> cnt, age |-> 0, stability |-> stb, numa |-> n, hot |-> TRUE]
      BY <2>2, <1>1
    <3>2. cnt \in 1..MaxCount
      <4>1. CASE a \in Recorded
        <5>1. access_records[a].count \in 1..MaxCount
          BY <4>1, <1>3 DEF Records
        <5>2. access_records[a].count < MaxCount
          BY <4>1 DEF RecordAccess
        <5>3. access_records[a].count + 1 \in 1..MaxCount
          BY <5>1, <5>2, CoolingAssumption
        <5> QED
          BY <4>1, <5>3
      <4>2. CASE a \notin Recorded
        BY <4>2, CoolingAssumption
      <4> QED
        BY <4>1, <4>2
    <3>3. stb \in Int
      BY <1>3 DEF Records, CoolingInv
    <3> HIDE DEF cnt, stb
    <3>4. 0 \in 0..MaxAge
      BY CoolingAssumption
    <3> QED
      BY <3>1, <3>2, <3>3, <3>4, <1>4 DEF Records
  <2> QED
    BY <2>1, <2>2
<1>6. access_records' \in [Recorded' -> Records]
  <2>1. access_records' = [b \in Recorded' |-> access_records'[b]]
    BY <1>1, <1>2
  <2> QED
    BY <2>1, <1>5
<1>7. Recorded' \subseteq Addrs
  BY <1>2 DEF CoolingInv, CoolingTypeOK
<1> QED
  BY <1>5, <1>6, <1>7 DEF CoolingInv, CoolingTypeOK, HotIsRecent, RecordAccess

LEMMA PassStep ==
  ASSUME CoolingInv, RunPass
  PROVE  CoolingInv'
<1>0. PICK dur \in [Recorded -> (-MaxLag)..MaxAge] :
        /\ \A a \in Recorded : dur[a] \in Durations(access_records[a])
        /\ \E f \in [{ a \in Recorded : Kept(access_records[a], dur[a]) } ->
                     UNION { Cooled(access_records[a], dur[a]) :
                               a \in { b \in Recorded : Kept(access_records[b], dur[b]) } }] :
             /\ \A a \in { b \in Recorded : Kept(access_records[b], dur[b]) } :
                  f[a] \in Cooled(access_records[a], dur[a])
             /\ access_records' = f
  BY DEF RunPass
<1> DEFINE kept == { a \in Recorded : Kept(access_records[a], dur[a]) }
<1>1. PICK f \in [kept -> UNION { Cooled(access_records[a], dur[a]) : a \in kept }] :
        (\A a \in kept : f[a] \in Cooled(access_records[a], dur[a])) /\ access_records' = f
  BY <1>0
<1>2. Recorded' = kept
  BY <1>1 DEF Recorded
<1>3. lag \in 0..MaxLag /\ sincePass' = lag
  BY DEF CoolingInv, CoolingTypeOK, RunPass
<1>4. ASSUME NEW a \in kept
      PROVE  /\ access_records'[a] \in Records
             /\ access_records'[a].hot => access_records'[a].age <= sincePass' + 1
  <2>1. access_records[a] \in Records /\ Kept(access_records[a], dur[a])
        /\ dur[a] \in Durations(access_records[a])
    BY <1>0 DEF CoolingInv, CoolingTypeOK
  <2>2. access_records'[a] \in Cooled(access_records[a], dur[a])
    BY <1>1
  <2> QED
    BY <2>1, <2>2, <1>3, CooledLemma
<1>5. access_records' \in [kept -> Records]
  BY <1>1, <1>4
<1>6. kept \subseteq Addrs
  BY DEF CoolingInv, CoolingTypeOK
<1>7. lag \in 0..MaxAge
  BY <1>3, CoolingAssumption
<1> HIDE DEF kept
<1> QED
  BY <1>2, <1>3, <1>4, <1>5, <1>6, <1>7
     DEF CoolingInv, CoolingTypeOK, HotIsRecent, RunPass

LEMMA TickStep ==
  ASSUME CoolingInv, Tick
  PROVE  CoolingInv'
<1>1. access_records' = [a \in Recorded |-> [access_records[a] EXCEPT !.age = Older(@)]]
  BY DEF Tick
<1>2. Recorded' = Recorded
  BY <1>1 DEF Recorded
<1>3. \A n \in 0..MaxAge : Older(n) \in 0..MaxAge
  BY CoolingAssumption DEF Older
<1>4. \A m, n \in 0..MaxAge : m <= n + 1 => Older(m) <= Older(n) + 1
  BY CoolingAssumption DEF Older
<1>5. sincePass \in 0..MaxAge /\ sincePass' = Older(sincePass)
  BY DEF CoolingInv, CoolingTypeOK, Tick
<1>6. ASSUME NEW a \in Recorded
      PROVE  /\ access_records'[a] \in Records
             /\ access_records'[a].hot => access_records'[a].age <= sincePass' + 1
  <2>1. access_records[a] \in Records
    BY DEF CoolingInv, CoolingTypeOK
  <2>2. access_records'[a] = [access_records[a] EXCEPT !.age = Older(access_records[a].age)]
    BY <1>1
  <2>3. access_records[a].age \in 0..MaxAge
    BY <2>1 DEF Records
  <2>4. /\ access_records'[a].age = Older(access_records[a].age)
        /\ access_records'[a].hot = access_records[a].hot
        /\ access_records'[a].stability = access_records[a].stability
    BY <2>1, <2>2 DEF Records
  <2>5. access_records'[a] \in Records
    BY <2>1, <2>2, <2>3, <1>3 DEF Records
  <2> QED
    BY <2>3, <2>4, <2>5, <1>4, <1>5 DEF CoolingInv, HotIsRecent
<1>7. access_records' \in [Recorded' -> Records]
  BY <1>1, <1>2, <1>6
<1>8. sleep' \in 0..CoolingInterval /\ lag' \in 0..MaxLag /\ sincePass' \in 0..MaxAge
  BY <1>3, <1>5, CoolingAssumption DEF CoolingInv, CoolingTypeOK, Tick
<1> QED
  BY <1>2, <1>6, <1>7, <1>8 DEF CoolingInv, CoolingTypeOK, HotIsRecent, Tick

LEMMA CoolingStep == CoolingInv /\ [CoolingNext]_coolingVars => CoolingInv'
<1> SUFFICES ASSUME CoolingInv, [CoolingNext]_coolingVars PROVE CoolingInv'
  OBVIOUS
<1>0. /\ running \in BOOLEAN /\ owner \in {"idle", "joining"}
      /\ worker \in {"none", "sleep", "now", "check", "ended"}
      /\ sleep \in 0..CoolingInterval /\ lag \in 0..MaxLag
      /\ CoolingInterval \in 0..CoolingInterval /\ 0 \in 0..MaxLag
  BY CoolingAssumption DEF CoolingInv, CoolingTypeOK
<1>1. CASE Start
  BY <1>0, <1>1, RecordsKept DEF Start
<1>2. CASE Stop
  BY <1>0, <1>2, RecordsKept DEF Stop
<1>3. CASE StopReturns
  BY <1>0, <1>3, RecordsKept DEF StopReturns
<1>4. CASE RunWakes
  BY <1>0, <1>4, RecordsKept DEF RunWakes
<1>5. CASE RunPass
  BY <1>5, PassStep
<1>6. CASE RunChecks
  BY <1>0, <1>6, RecordsKept DEF RunChecks
<1>7. CASE Tick
  BY <1>7, TickStep
<1>8. CASE \E a \in Addrs : RecordAccess(a)
  BY <1>8, AccessStep
<1>9. CASE UNCHANGED coolingVars
  BY <1>0, <1>9, RecordsKept DEF coolingVars
<1> QED
  BY <1>1, <1>2, <1>3, <1>4, <1>5, <1>6, <1>7, <1>8, <1>9 DEF CoolingNext, Run

-----------------------------------------------------------------------------
(* The decision: its types, and that its target is the best of the nodes   *)
(* considered.                                                             *)

Fields == {"step", "ptr", "nodes", "size", "next", "target", "hot", "stability", "numaId", "plan"}

DecisionTypes ==
  /\ DOMAIN decision = Fields
  /\ decision.step \in {"idle", "scan", "hot", "stability", "numa", "done"}
  /\ decision.nodes \in NodeLists \cup {<<>>}
  /\ decision.size \in Nat
  /\ decision.next \in 1..(Len(decision.nodes) + 1)
  /\ decision.target \in 0..(decision.next - 1)
  /\ decision.stability \in Int /\ decision.hot \in BOOLEAN

Fits(i) == decision.nodes[i].memory >= decision.size
Score(i) == CalculateNodeScore(decision.nodes[i], decision.size, -1)

(* The target is the first best of the nodes the loop has seen, and there  *)
(* is none only while none had the memory; past the loop all are seen.     *)
BestSoFar ==
  /\ decision.step \notin {"idle", "scan"} => decision.next = Len(decision.nodes) + 1
  /\ decision.target = 0 => \A i \in 1..(decision.next - 1) : ~Fits(i)
  /\ decision.target # 0 =>
       /\ Fits(decision.target)
       /\ \A i \in 1..(decision.next - 1) : Fits(i) =>
            /\ Score(i) <= Score(decision.target)
            /\ i < decision.target => Score(i) < Score(decision.target)

DecisionInv == DecisionTypes /\ BestSoFar

Inv == CoolingInv /\ DecisionInv

(* A share of the memory is a natural number. *)
LEMMA QuotientLemma ==
  ASSUME NEW n \in Nat, NEW k \in Nat \ {0}
  PROVE  n \div k \in Nat
  BY Z3

(* The score of a node that has the memory is above the -1 (-1000          *)
(* thousandths) the loop starts with: such a node is always taken first.   *)
LEMMA NodeScore ==
  ASSUME NEW ns \in NodeLists, NEW i \in DOMAIN ns, NEW size \in Nat, NEW numa,
         ns[i].memory >= size
  PROVE  /\ CalculateNodeScore(ns[i], size, numa) \in Int
         /\ CalculateNodeScore(ns[i], size, numa) > -1000
<1> DEFINE m == ns[i].memory
           t == ns[i].total
           l == ns[i].latency
           d == ns[i].load
           p == ns[i].priority
           share == IF t > 0 THEN (300 * (m - size)) \div t ELSE 0
           speed == 200 \div (1 + l)
           near == IF ns[i].numa = numa THEN 200 ELSE 100
<1>1. m \in Nat /\ t \in Nat /\ l \in Nat /\ d \in Nat /\ p \in Nat /\ d <= 200 /\ m >= size
  BY PlacementAssumption
<1>2. CalculateNodeScore(ns[i], size, numa) = share + speed + 200 - d + p + near
  BY DEF CalculateNodeScore
<1>3. near \in Nat
  OBVIOUS
<1> HIDE DEF m, t, l, d, p, near
<1>4. share \in Nat
  <2>1. 300 * (m - size) \in Nat
    BY <1>1
  <2>2. CASE t > 0
    BY <2>1, <2>2, <1>1, QuotientLemma
  <2>3. CASE ~(t > 0)
    BY <2>3
  <2> QED
    BY <2>2, <2>3
<1>5. speed \in Nat
  BY <1>1, QuotientLemma
<1> HIDE DEF share, speed
<1> QED
  BY <1>1, <1>2, <1>3, <1>4, <1>5

(* The score a decision reads is that of a record, or 0: a number. *)
LEMMA ScoreRead ==
  ASSUME CoolingInv, NEW a
  PROVE  getStability(a) \in Int
<1>1. CASE a \in Recorded
  <2>1. access_records[a] \in Records
    BY <1>1 DEF CoolingInv, CoolingTypeOK
  <2>2. access_records[a].stability \in Int
    BY <2>1 DEF Records
  <2> QED
    BY <1>1, <2>2 DEF CoolingInv, getStability
<1>2. CASE a \notin Recorded
  BY <1>2 DEF getStability
<1> QED
  BY <1>1, <1>2

LEMMA NoDecisionLemma ==
  /\ DOMAIN NoDecision = Fields
  /\ NoDecision.step = "idle" /\ NoDecision.nodes = <<>> /\ NoDecision.size = 0
  /\ NoDecision.next = 1 /\ NoDecision.target = 0 /\ NoDecision.hot = FALSE
  /\ NoDecision.stability = 0 /\ NoDecision.plan.transportType = "none"
  BY DEF NoDecision, NoPlan, Fields

LEMMA DecisionInitial == decision = NoDecision => DecisionInv
<1> SUFFICES ASSUME decision = NoDecision PROVE DecisionInv
  OBVIOUS
<1>1. Len(decision.nodes) = 0
  BY NoDecisionLemma
<1>2. DecisionTypes
  <2>1. /\ decision.next \in 1..(Len(decision.nodes) + 1)
        /\ decision.target \in 0..(decision.next - 1)
        /\ decision.size \in Nat /\ decision.stability \in Int
    BY <1>1, NoDecisionLemma
  <2>2. decision.nodes \in NodeLists \cup {<<>>} /\ decision.hot \in BOOLEAN
    BY NoDecisionLemma, Zenon
  <2> QED
    BY <2>1, <2>2, NoDecisionLemma, Zenon DEF DecisionTypes
<1>4. BestSoFar
  BY NoDecisionLemma DEF BestSoFar
<1> QED
  BY <1>2, <1>4 DEF DecisionInv

(* The nodes of a decision are numbered from 1. *)
LEMMA NodesLemma ==
  ASSUME DecisionTypes
  PROVE  DOMAIN decision.nodes = 1..Len(decision.nodes) /\ Len(decision.nodes) \in Nat
<1>1. CASE decision.nodes \in NodeLists
  BY <1>1, PlacementAssumption
<1>2. CASE decision.nodes = <<>>
  BY <1>2
<1> QED
  BY <1>1, <1>2 DEF DecisionTypes

LEMMA DecideStep ==
  ASSUME NEW a, Decide(a)
  PROVE  DecisionInv'
<1>1. PICK ns \in NodeLists, size \in Sizes :
        decision' = [NoDecision EXCEPT !.step = "scan", !.ptr = a, !.nodes = ns, !.size = size]
  BY Zenon DEF Decide
<1>2. size \in Nat /\ Len(ns) \in Nat
  BY SizesAssumption, PlacementAssumption
<1>3. /\ DOMAIN decision' = Fields /\ decision'.step = "scan" /\ decision'.nodes = ns
      /\ decision'.size = size /\ decision'.next = NoDecision.next
      /\ decision'.target = NoDecision.target /\ decision'.hot = NoDecision.hot
      /\ decision'.stability = NoDecision.stability /\ decision'.plan = NoDecision.plan
  BY <1>1, NoDecisionLemma DEF Fields
<1>4. DecisionTypes'
  <2>1. /\ decision'.next \in 1..(Len(decision'.nodes) + 1)
        /\ decision'.target \in 0..(decision'.next - 1)
        /\ decision'.size \in Nat /\ decision'.stability \in Int
    BY <1>2, <1>3, NoDecisionLemma
  <2>2. decision'.nodes \in NodeLists \cup {<<>>} /\ decision'.hot \in BOOLEAN
    BY <1>3, NoDecisionLemma, Zenon
  <2> QED
    BY <1>3, <2>1, <2>2, Zenon DEF DecisionTypes
<1>6. BestSoFar'
  BY <1>3, NoDecisionLemma DEF BestSoFar
<1> QED
  BY <1>4, <1>6 DEF DecisionInv

(* One round of the loop keeps the first best node of those it has seen. *)
LEMMA ConsidersStep ==
  ASSUME DecisionInv, Considers
  PROVE  DecisionInv'
<1> DEFINE n == decision.next
           t == decision.target
           better == Better(decision.nodes, n, decision.size, -1, t)
<1>1. /\ DOMAIN decision = Fields /\ decision.nodes \in NodeLists \cup {<<>>}
      /\ decision.size \in Nat /\ decision.next \in 1..(Len(decision.nodes) + 1)
      /\ decision.target \in 0..(decision.next - 1)
      /\ decision.step = "scan" /\ n <= Len(decision.nodes)
  BY DEF DecisionInv, DecisionTypes, Considers
<1>2. DOMAIN decision.nodes = 1..Len(decision.nodes) /\ Len(decision.nodes) \in Nat
  BY NodesLemma DEF DecisionInv
<1>3. decision.nodes \in NodeLists
  <2>1. Len(decision.nodes) # 0
    BY <1>1, <1>2
  <2>2. decision.nodes # <<>>
    BY <2>1
  <2> QED
    BY <1>1, <2>2
<1>4. n \in DOMAIN decision.nodes /\ n \in Nat /\ t \in Nat /\ t < n
  BY <1>1, <1>2
<1>5. decision' = [decision EXCEPT !.next = n + 1, !.target = IF better THEN n ELSE t]
  BY Zenon DEF Considers
<1>6. /\ DOMAIN decision' = Fields /\ decision'.step = decision.step
      /\ decision'.nodes = decision.nodes /\ decision'.size = decision.size
      /\ decision'.next = n + 1 /\ decision'.target = IF better THEN n ELSE t
      /\ decision'.hot = decision.hot /\ decision'.stability = decision.stability
      /\ decision'.plan = decision.plan
  BY <1>1, <1>5 DEF Fields
<1>7. better <=> /\ Fits(n)
                 /\ Score(n) > IF t = 0 THEN -1000 ELSE Score(t)
  BY DEF Better, Fits, Score
<1>8. \A i : Fits(i)' = Fits(i) /\ Score(i)' = Score(i)
  BY <1>6 DEF Fits, Score
<1>9. \A i \in 1..n : Fits(i) => Score(i) \in Int /\ Score(i) > -1000
  <2> SUFFICES ASSUME NEW i \in 1..n, Fits(i) PROVE Score(i) \in Int /\ Score(i) > -1000
    OBVIOUS
  <2>1. i \in DOMAIN decision.nodes
    BY <1>1, <1>2, <1>4
  <2> QED
    BY <2>1, <1>1, <1>3, NodeScore DEF Fits, Score
<1>10. DecisionTypes'
  <2>1. decision'.next \in 1..(Len(decision'.nodes) + 1)
    BY <1>1, <1>2, <1>4, <1>6
  <2>2. decision'.target \in 0..(decision'.next - 1)
    BY <1>4, <1>6
  <2> QED
    BY <1>1, <1>6, <2>1, <2>2, Zenon DEF DecisionInv, DecisionTypes
<1>12. /\ t = 0 => \A i \in 1..(n - 1) : ~Fits(i)
       /\ t # 0 => /\ Fits(t)
                   /\ \A i \in 1..(n - 1) : Fits(i) =>
                        Score(i) <= Score(t) /\ (i < t => Score(i) < Score(t))
  BY DEF DecisionInv, BestSoFar
<1> HIDE DEF n, t, better
<1> DEFINE u == IF better THEN n ELSE t
<1>13. u = 0 => \A i \in 1..n : ~Fits(i)
  <2> SUFFICES ASSUME u = 0, NEW i \in 1..n PROVE ~Fits(i)
    OBVIOUS
  <2>1. ~better /\ t = 0
    BY <1>4
  <2>2. CASE i = n
    BY <2>1, <2>2, <1>4, <1>7, <1>9
  <2>3. CASE i # n
    <3>1. i \in 1..(n - 1)
      BY <2>3, <1>4
    <3> QED
      BY <2>1, <3>1, <1>12
  <2> QED
    BY <2>2, <2>3
<1>14. u # 0 => /\ Fits(u)
                /\ \A i \in 1..n : Fits(i) =>
                     Score(i) <= Score(u) /\ (i < u => Score(i) < Score(u))
  <2> SUFFICES ASSUME u # 0
               PROVE  /\ Fits(u)
                      /\ \A i \in 1..n : Fits(i) =>
                           Score(i) <= Score(u) /\ (i < u => Score(i) < Score(u))
    OBVIOUS
  <2>1. CASE better
    <3>1. u = n /\ Fits(n) /\ n \in 1..n
      BY <2>1, <1>4, <1>7
    <3>2. ASSUME NEW i \in 1..n, Fits(i), i # n PROVE Score(i) < Score(n)
      <4>1. i \in 1..(n - 1)
        BY <3>2, <1>4
      <4>2. t # 0
        BY <4>1, <3>2, <1>12
      <4>3. Score(i) <= Score(t) /\ Fits(t) /\ Score(n) > Score(t) /\ t \in 1..n
        BY <4>1, <4>2, <3>2, <2>1, <1>4, <1>7, <1>12
      <4> QED
        BY <4>3, <3>1, <3>2, <1>9
    <3>3. Score(n) \in Int /\ \A i \in 1..n : Fits(i) => Score(i) \in Int
      BY <3>1, <1>9
    <3> HIDE DEF u
    <3> QED
      BY <3>1, <3>2, <3>3, <1>4
  <2>2. CASE ~better
    <3>1. u = t /\ t # 0 /\ Fits(t) /\ t \in 1..n
      BY <2>2, <1>4, <1>12
    <3>2. Score(t) \in Int /\ \A i \in 1..n : Fits(i) => Score(i) \in Int
      BY <3>1, <1>9
    <3>3. ASSUME NEW i \in 1..n, Fits(i)
          PROVE  Score(i) <= Score(t) /\ (i < t => Score(i) < Score(t))
      <4>1. CASE i = n
        <5>1. ~(Score(n) > Score(t))
          BY <4>1, <2>2, <3>1, <3>3, <1>7
        <5> QED
          BY <4>1, <5>1, <3>2, <3>3, <1>4
      <4>2. CASE i # n
        <5>1. i \in 1..(n - 1)
          BY <4>2, <1>4
        <5> QED
          BY <5>1, <3>1, <3>3, <1>12
      <4> QED
        BY <4>1, <4>2
    <3> QED
      BY <3>1, <3>3
  <2> QED
    BY <2>1, <2>2
<1>15. decision'.next - 1 = n /\ decision'.target = u /\ decision'.step = "scan"
  BY <1>1, <1>4, <1>6
<1> HIDE DEF u
<1>16. BestSoFar'
  BY <1>8, <1>13, <1>14, <1>15 DEF BestSoFar
<1> QED
  BY <1>10, <1>16 DEF DecisionInv

(* What a step after the loop, or its end, keeps of the choice *)
LEMMA ChoiceKept ==
  ASSUME DecisionInv, DOMAIN decision' = Fields,
         decision'.step \in {"hot", "stability", "numa", "done"},
         decision.next = Len(decision.nodes) + 1,
         decision'.nodes = decision.nodes, decision'.size = decision.size,
         decision'.next = decision.next, decision'.target = decision.target,
         decision'.stability \in Int, decision'.hot \in BOOLEAN
  PROVE  DecisionInv'
<1>1. \A i : Fits(i)' = Fits(i) /\ Score(i)' = Score(i)
  BY DEF Fits, Score
<1>2. DecisionTypes'
  BY DEF DecisionInv, DecisionTypes
<1>3. BestSoFar'
  BY <1>1 DEF DecisionInv, BestSoFar
<1> QED
  BY <1>2, <1>3 DEF DecisionInv

(* What isHotData returns is a truth value. *)
LEMMA HotRead ==
  ASSUME NEW a
  PROVE  isHotData(a) \in BOOLEAN
  BY DEF isHotData

LEMMA DecisionStep ==
  ASSUME Inv, makeAllocationDecision
  PROVE  DecisionInv'
<1>0. /\ DecisionInv /\ CoolingInv /\ DOMAIN decision = Fields
      /\ decision.stability \in Int /\ decision.hot \in BOOLEAN
  BY Zenon DEF Inv, DecisionInv, DecisionTypes
<1>1. CASE \E a \in Addrs : Decide(a)
  BY <1>1, DecideStep, Zenon
<1>2. CASE Considers
  BY <1>0, <1>2, ConsidersStep, Zenon
<1>3. CASE Chooses
  <2>1. decision.next = Len(decision.nodes) + 1
    BY <1>0, <1>3, NodesLemma DEF Chooses, DecisionInv, DecisionTypes
  <2>2. decision' = [decision EXCEPT !.step = IF decision.target = 0 THEN "done" ELSE "hot"]
    BY <1>3 DEF Chooses
  <2>3. /\ DOMAIN decision' = Fields /\ decision'.step \in {"hot", "done"}
        /\ decision'.nodes = decision.nodes /\ decision'.size = decision.size
        /\ decision'.next = decision.next /\ decision'.target = decision.target
        /\ decision'.hot = decision.hot /\ decision'.stability = decision.stability
        /\ decision'.plan = decision.plan
    BY <1>0, <2>2 DEF Fields
  <2> QED
    BY <1>0, <2>1, <2>3, ChoiceKept, Zenon
<1>4. ASSUME decision.step \in {"hot", "stability", "numa"}
      PROVE  decision.next = Len(decision.nodes) + 1
  BY <1>0, <1>4 DEF DecisionInv, BestSoFar
<1>5. CASE ReadsHot
  <2>1. /\ decision.step = "hot"
        /\ decision' = [decision EXCEPT !.step = "stability", !.hot = isHotData(decision.ptr)]
    BY <1>5 DEF ReadsHot
  <2>2. isHotData(decision.ptr) \in BOOLEAN
    BY HotRead, Zenon
  <2>3. /\ DOMAIN decision' = Fields /\ decision'.step = "stability"
        /\ decision'.nodes = decision.nodes /\ decision'.size = decision.size
        /\ decision'.next = decision.next /\ decision'.target = decision.target
        /\ decision'.hot = isHotData(decision.ptr) /\ decision'.stability = decision.stability
        /\ decision'.plan = decision.plan
    BY <1>0, <2>1 DEF Fields
  <2> QED
    BY <1>0, <1>4, <2>1, <2>2, <2>3, ChoiceKept, Zenon
<1>6. CASE ReadsStability
  <2>1. /\ decision.step = "stability"
        /\ decision' = [decision EXCEPT !.step = "numa", !.stability = getStability(decision.ptr)]
    BY <1>6 DEF ReadsStability
  <2>2. getStability(decision.ptr) \in Int
    BY <1>0, ScoreRead, Zenon
  <2>3. /\ DOMAIN decision' = Fields /\ decision'.step = "numa"
        /\ decision'.nodes = decision.nodes /\ decision'.size = decision.size
        /\ decision'.next = decision.next /\ decision'.target = decision.target
        /\ decision'.hot = decision.hot /\ decision'.stability = getStability(decision.ptr)
        /\ decision'.plan = decision.plan
    BY <1>0, <2>1 DEF Fields
  <2> QED
    BY <1>0, <1>4, <2>1, <2>2, <2>3, ChoiceKept, Zenon
<1>7. CASE Plans
  <2> DEFINE d == [decision EXCEPT !.numaId = getNumaId(decision.ptr)]
             plan == AllocationPlan(d.nodes[d.target], d, getMobility(d.ptr))
  <2>1. /\ DOMAIN d = Fields /\ d.nodes = decision.nodes /\ d.size = decision.size
        /\ d.next = decision.next /\ d.target = decision.target
        /\ d.hot = decision.hot /\ d.stability = decision.stability
    BY <1>0 DEF Fields
  <2>2. decision' = [d EXCEPT !.step = "done", !.plan = plan] /\ decision.step = "numa"
    BY <1>7, Zenon DEF Plans
  <2> HIDE DEF d, plan
  <2>4. /\ DOMAIN decision' = Fields /\ decision'.step = "done" /\ decision'.plan = plan
        /\ decision'.nodes = d.nodes /\ decision'.size = d.size
        /\ decision'.next = d.next /\ decision'.target = d.target
        /\ decision'.hot = d.hot /\ decision'.stability = d.stability
    BY <2>1, <2>2 DEF Fields
  <2> QED
    BY <1>0, <1>4, <2>1, <2>2, <2>4, ChoiceKept, Zenon
<1> QED
  BY <1>1, <1>2, <1>3, <1>5, <1>6, <1>7, Zenon DEF makeAllocationDecision

LEMMA DecisionKept ==
  ASSUME DecisionInv, UNCHANGED decision
  PROVE  DecisionInv'
<1>1. DecisionTypes'
  BY Zenon DEF DecisionInv, DecisionTypes
<1>2. BestSoFar'
  <2>1. \A i : Fits(i)' = Fits(i) /\ Score(i)' = Score(i)
    BY DEF Fits, Score
  <2> QED
    BY <2>1 DEF DecisionInv, BestSoFar
<1> QED
  BY <1>1, <1>2 DEF DecisionInv

LEMMA InvStep == Inv /\ [Next]_vars => Inv'
<1> SUFFICES ASSUME Inv, [Next]_vars PROVE Inv'
  OBVIOUS
<1>1. CASE makeAllocationDecision
  <2>1. UNCHANGED coolingVars
    BY <1>1, Zenon DEF makeAllocationDecision, Decide, Considers, Chooses, ReadsHot, ReadsStability, Plans
  <2> QED
    BY <1>1, <2>1, DecisionStep, CoolingStep DEF Inv
<1>2. CASE CoolingNext /\ UNCHANGED decision
  BY <1>2, CoolingStep, DecisionKept, Zenon DEF Inv
<1>3. CASE UNCHANGED vars
  BY <1>3, CoolingStep, DecisionKept, Zenon DEF vars, Inv
<1> QED
  BY <1>1, <1>2, <1>3 DEF Next

(* The invariant of CoolingService and of the decision that reads it. *)
THEOREM PlacementInv == Spec => []Inv
<1>1. Init => Inv
  BY CoolingInitial, DecisionInitial DEF Init, Inv
<1> QED
  BY <1>1, InvStep, PTL DEF Spec

(* Data is hot only when it was accessed at most one second boundary       *)
(* before the last pass of CoolingService::Run read its clock, for every   *)
(* window, interval and delay of the worker.                               *)
THEOREM HotCorrect == Spec => []HotIsRecent
<1>1. Inv => HotIsRecent
  BY DEF Inv, CoolingInv
<1> QED
  BY <1>1, PlacementInv, PTL

(* CoolingService's records and the decision keep their types: a target is *)
(* 0 or the number of a node the loop has seen.                            *)
THEOREM PlacementTypeCorrect == Spec => []TypeOK
<1>1. Inv => TypeOK
  <2> SUFFICES ASSUME Inv PROVE TypeOK
    OBVIOUS
  <2>1. CoolingTypeOK
    BY DEF Inv, CoolingInv
  <2> QED
    BY <2>1, Zenon DEF Inv, DecisionInv, DecisionTypes, TypeOK
<1> QED
  BY <1>1, PlacementInv, PTL

(* For every list of nodes and size, makeAllocationDecision chooses the    *)
(* first of the best nodes among those with the memory, and refuses only   *)
(* when no node has it.                                                    *)
THEOREM FirstBestCorrect == Spec => []FirstBestNode
<1>1. Inv => FirstBestNode
  <2> SUFFICES ASSUME Inv, decision.step \notin {"idle", "scan"}
               PROVE  FirstBestNode
    BY Zenon DEF FirstBestNode
  <2> DEFINE ns == decision.nodes
             fits == { i \in DOMAIN ns : ns[i].memory >= decision.size }
  <2>1. decision.next - 1 = Len(ns) /\ DOMAIN ns = 1..(decision.next - 1)
    BY NodesLemma DEF Inv, DecisionInv, BestSoFar
  <2>2. fits = { i \in 1..(decision.next - 1) : Fits(i) }
    BY <2>1, Zenon DEF Fits
  <2>3. CASE decision.target = 0
    <3>1. fits = {}
      BY <2>2, <2>3 DEF Inv, DecisionInv, BestSoFar
    <3> QED
      BY <3>1, <2>3, Zenon DEF FirstBestNode
  <2>4. CASE decision.target # 0
    <3>1. decision.target \in 1..(decision.next - 1)
      BY <2>4 DEF Inv, DecisionInv, DecisionTypes
    <3>2. decision.target \in fits
      BY <3>1, <2>2, <2>4 DEF Inv, DecisionInv, BestSoFar
    <3>3. \A i \in fits : /\ Score(i) <= Score(decision.target)
                          /\ i < decision.target => Score(i) < Score(decision.target)
      BY <2>2, <2>4 DEF Inv, DecisionInv, BestSoFar
    <3> QED
      BY <3>2, <3>3, Zenon DEF FirstBestNode, Score
  <2> QED
    BY <2>3, <2>4
<1> QED
  BY <1>1, PlacementInv, PTL
=============================================================================
