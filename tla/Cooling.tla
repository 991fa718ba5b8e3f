------------------------------ MODULE Cooling ------------------------------
(***************************************************************************)
(* CoolingService (client/launcher/services): a record per address of how  *)
(* often and how lately it was accessed, kept by RecordAccess under        *)
(* data_mutex_ and cooled every cooling_interval_ by a worker thread.      *)
(*                                                                         *)
(* Time is kept as ages in whole seconds: since the last access of each    *)
(* record and since the worker read its clock.  Ages stop at MaxAge.  The  *)
(* temperature is kept as whether it is above 0.8, the stability score in  *)
(* millionths.                                                             *)
(***************************************************************************)
EXTENDS Integers

CONSTANTS Addrs,           \* addresses given to RecordAccess
          NumaIds,         \* what GlobalMemory::GetNumaNodeForPtr may return
          AccessWindow,    \* access_window_, in seconds
          CoolingInterval, \* cooling_interval_, in seconds
          FullCount,       \* accesses that make frequency_factor 1.0
          TimeFactor,      \* 1 - exp(-duration/3600), in percent
          MaxAge,          \* bound: ages are not told apart beyond it
          MaxLag,          \* bound: seconds the worker waits for data_mutex_
          MaxCount         \* bound: access_count

ASSUME CoolingAssumption ==
  /\ AccessWindow \in Nat /\ CoolingInterval \in Nat
  /\ FullCount \in Nat \ {0}
  /\ MaxAge \in Nat /\ MaxLag \in Nat /\ MaxCount \in Nat \ {0}
  /\ AccessWindow + MaxLag + 1 < MaxAge  \* what is not told apart has expired
  /\ TimeFactor \in [(-MaxLag)..MaxAge -> Int]
  /\ \A d \in (-MaxLag)..MaxAge : TimeFactor[d] <= 100 /\ (d >= 0 => TimeFactor[d] >= 0)

VARIABLES access_records,  \* address -> record, for the addresses recorded
          running,         \* running_
          owner,           \* the caller of Start and Stop: "idle" or "joining"
          worker,          \* "none", "sleep", "now", "check" or "ended"
          sleep,           \* seconds of the worker's sleep left
          lag,             \* seconds since the worker's now, while it waits
          sincePass        \* seconds since the now of the last finished pass

coolingVars == <<access_records, running, owner, worker, sleep, lag, sincePass>>

Recorded == DOMAIN access_records
Records == [count: 1..MaxCount, age: 0..MaxAge, stability: Int, numa: NumaIds, hot: BOOLEAN]

CoolingInit ==
  /\ access_records = [a \in {} |-> 0]
  /\ running = FALSE /\ owner = "idle" /\ worker = "none"
  /\ sleep = 0 /\ lag = 0 /\ sincePass = MaxAge

-----------------------------------------------------------------------------
(* Start does nothing when running_ is set; Stop waits for the worker. *)
Start ==
  /\ owner = "idle" /\ ~running
  /\ running' = TRUE
  /\ worker' = "check"
  /\ UNCHANGED <<access_records, owner, sleep, lag, sincePass>>

Stop ==
  /\ owner = "idle" /\ running
  /\ running' = FALSE
  /\ owner' = "joining"
  /\ UNCHANGED <<access_records, worker, sleep, lag, sincePass>>

StopReturns ==
  /\ owner = "joining" /\ worker = "ended"
  /\ owner' = "idle" /\ worker' = "none"
  /\ UNCHANGED <<access_records, running, sleep, lag, sincePass>>

(* RecordAccess: last_access is set to now before the time since the last  *)
(* access is taken, so the temperature is always its maximum.              *)
RecordAccess(a) ==
  /\ a \in Recorded => access_records[a].count < MaxCount
  /\ \E n \in NumaIds :
       access_records' =
         [b \in Recorded \cup {a} |->
            IF b # a THEN access_records[b]
            ELSE [count |-> IF a \in Recorded THEN access_records[a].count + 1 ELSE 1,
                  age |-> 0,
                  stability |-> IF a \in Recorded THEN access_records[a].stability ELSE 0,
                  numa |-> n, hot |-> TRUE]]
  /\ UNCHANGED <<running, owner, worker, sleep, lag, sincePass>>

(* The getters; mobility_count is never written. *)
isHotData(a) == a \in Recorded /\ access_records[a].hot
getMobility(a) == 0
getStability(a) == IF a \in Recorded THEN access_records[a].stability ELSE 0
getNumaId(a) == IF a \in Recorded THEN access_records[a].numa ELSE -1

-----------------------------------------------------------------------------
(* Run: look at running_, sleep, read the clock, lock, cool every record. *)

(* frequency_factor (in percent) times pattern_factor times time_factor *)
StabilityScore(count, duration) ==
  LET full == 100 * count
  IN  (IF full >= 100 * FullCount THEN 100 ELSE full \div FullCount) * 50 * TimeFactor[duration]

(* The whole seconds from the last access to the worker's now, which the   *)
(* code truncates towards 0; they are negative for an access that came     *)
(* between that now and the lock.  Ticks between two instants tell the     *)
(* seconds up to one.                                                      *)
Ticks(r) == r.age - lag
Durations(r) ==
  IF Ticks(r) = 0 THEN {0}
  ELSE IF Ticks(r) > 0 THEN {Ticks(r) - 1, Ticks(r)} ELSE {Ticks(r), Ticks(r) + 1}

(* Faulty variants: the window is counted from the worker's clock; a       *)
(* record is kept until its count is 0.                                    *)
Expired_FromClock(duration) == lag > AccessWindow
Expired(duration) == duration > AccessWindow
Kept_AtZero(r, duration) == ~Expired(duration) \/ r.count > 0
Kept(r, duration) == ~Expired(duration) \/ r.count > 1

(* Faulty variant: only what is outside the access window cools. *)
Cooled_WindowStaysHot(r, duration) ==
  LET count == IF Expired(duration) THEN r.count - 1 ELSE r.count
  IN  { [r EXCEPT !.count = count, !.stability = StabilityScore(count, duration), !.hot = h] :
          h \in IF Expired(duration) THEN {FALSE} ELSE {r.hot} }

(* What a pass makes of a record.  An access after the worker's now does   *)
(* not cool; within a second the clock may (223 ms) or may not have taken  *)
(* the temperature below 0.8; from a second on it has.                     *)
Cooled(r, duration) ==
  LET count == IF Expired(duration) THEN r.count - 1 ELSE r.count
  IN  { [r EXCEPT !.count = count, !.stability = StabilityScore(count, duration), !.hot = h] :
          h \in { b \in BOOLEAN : IF Ticks(r) < 0 THEN b = r.hot
                                 ELSE b => r.hot /\ duration = 0 } }

RunWakes ==
  /\ worker = "sleep" /\ sleep = 0
  /\ worker' = "now" /\ lag' = 0
  /\ UNCHANGED <<access_records, running, owner, sleep, sincePass>>

RunPass ==
  /\ worker = "now"
  /\ \E dur \in [Recorded -> (-MaxLag)..MaxAge] :
       /\ \A a \in Recorded : dur[a] \in Durations(access_records[a])
       /\ LET kept == { a \in Recorded : Kept(access_records[a], dur[a]) }
          IN  \E f \in [kept -> UNION { Cooled(access_records[a], dur[a]) : a \in kept }] :
                /\ \A a \in kept : f[a] \in Cooled(access_records[a], dur[a])
                /\ access_records' = f
  /\ worker' = "check" /\ sincePass' = lag
  /\ UNCHANGED <<running, owner, sleep, lag>>

(* Faulty variant: the loop does not look at running_. *)
RunChecks_Ignores ==
  /\ worker = "check"
  /\ worker' = "sleep" /\ sleep' = CoolingInterval
  /\ UNCHANGED <<access_records, running, owner, lag, sincePass>>

RunChecks ==
  /\ worker = "check"
  /\ \/ running /\ worker' = "sleep" /\ sleep' = CoolingInterval
     \/ ~running /\ worker' = "ended" /\ UNCHANGED sleep
  /\ UNCHANGED <<access_records, running, owner, lag, sincePass>>

Run == RunWakes \/ RunPass \/ RunChecks

(* A second passes. *)
Older(n) == IF n < MaxAge THEN n + 1 ELSE MaxAge
Tick ==
  /\ worker = "now" => lag < MaxLag
  /\ access_records' = [a \in Recorded |->
                          [access_records[a] EXCEPT !.age = Older(@)]]
  /\ sleep' = IF sleep > 0 THEN sleep - 1 ELSE 0
  /\ lag' = IF worker = "now" THEN lag + 1 ELSE lag
  /\ sincePass' = Older(sincePass)
  /\ UNCHANGED <<running, owner, worker>>

-----------------------------------------------------------------------------
CoolingNext == \/ Start \/ Stop \/ StopReturns \/ Run \/ Tick
               \/ \E a \in Addrs : RecordAccess(a)

(* The worker is scheduled and time passes; nobody need call anything. *)
CoolingFair == WF_coolingVars(Run) /\ WF_coolingVars(Tick) /\ WF_coolingVars(StopReturns)

-----------------------------------------------------------------------------
(* Properties *)

CoolingTypeOK ==
  /\ Recorded \subseteq Addrs
  /\ access_records \in [Recorded -> Records]
  /\ running \in BOOLEAN /\ owner \in {"idle", "joining"}
  /\ worker \in {"none", "sleep", "now", "check", "ended"}
  /\ sleep \in 0..CoolingInterval /\ lag \in 0..MaxLag /\ sincePass \in 0..MaxAge

(* Data is hot (cooling_service.cpp 62) only when it was accessed at most  *)
(* one second boundary before the last cooling pass read its clock: one    *)
(* pass is enough to cool what was not used for a second, whatever         *)
(* accesses came between that clock and the pass's lock.                   *)
HotIsRecent == \A a \in Recorded : access_records[a].hot => access_records[a].age <= sincePass + 1

(* A record that is accessed often enough for a frequency factor of 1, and *)
(* whose time factor is 1 too, has a score above 0.8 after a pass: scores  *)
(* go from 0.0 to 1.0 (cooling_service.h 41), and data of high stability   *)
(* has its own zone.  The code does not keep this: no score exceeds 0.5.   *)
StableZoneFills ==
  [][RunPass =>
       \A a \in DOMAIN access_records' :
         /\ access_records'[a].count >= FullCount
         /\ \A d \in Durations(access_records[a]) : TimeFactor[d] = 100
         => access_records'[a].stability > 800000]_coolingVars

(* Stop (lines 24-31) returns: the worker ends within a sleep and a pass. *)
StopEnds == owner = "joining" ~> owner = "idle"

(* While the service runs, an address that is not accessed any more loses  *)
(* its record (lines 114-121): the table does not grow for ever.           *)
IdleForgotten ==
  \A a \in Addrs : \/ []<>(a \notin Recorded) \/ []<>(~running)
                   \/ []<><<RecordAccess(a)>>_coolingVars
=============================================================================
