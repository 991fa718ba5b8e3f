--------------------------- MODULE ConfigWatcher ---------------------------
(***************************************************************************)
(* main and ConfigWatcher of the launcher: the configuration is loaded at  *)
(* start, and again whenever the watcher thread sees that the time of the  *)
(* file's last write has changed.  Launcher has the reload itself and lets *)
(* it begin at any time; here is when it begins.                           *)
(*                                                                         *)
(* A write of the file is not atomic: its time changes when it begins and  *)
(* when it is whole again.  Between the two the file may be missing or cut *)
(* short.                                                                  *)
(***************************************************************************)
EXTENDS Naturals

CONSTANT MaxTime           \* bound: writes of the file
ASSUME ConfigAssumption == MaxTime \in Nat

VARIABLES file,            \* its last write time, and whether it is whole
          pc,              \* "main", "start", "sleep", "load", "loaded" or "aborted"
          lastWriteTime, currentWriteTime,
          firstSeen,       \* what lastWriteTime was at first
          loaded,          \* write time of the last whole file LoadConfig read
          relocked         \* the dispatcher's mutex will never be released

configVars == <<file, pc, lastWriteTime, currentWriteTime, firstSeen, loaded, relocked>>

ConfigInit ==
  /\ file = [time |-> 0, whole |-> TRUE] /\ pc = "main"
  /\ lastWriteTime = 0 /\ currentWriteTime = 0 /\ firstSeen = 0 /\ loaded = 0
  /\ relocked = FALSE

-----------------------------------------------------------------------------
(* LoadConfig reads the file as it is now, with the mutex; the error of a  *)
(* file that is not whole is reported and forgotten.                       *)
LoadFile == loaded' = IF file.whole THEN file.time ELSE loaded

Main ==
  /\ pc = "main" /\ LoadFile /\ pc' = "start"
  /\ UNCHANGED <<file, lastWriteTime, currentWriteTime, firstSeen, relocked>>

(* The first look is outside the try: without a file the process ends. *)
WatcherStarts ==
  /\ pc = "start"
  /\ \/ /\ pc' = "sleep"
        /\ lastWriteTime' = file.time /\ firstSeen' = file.time
     \/ ~file.whole /\ pc' = "aborted" /\ UNCHANGED <<lastWriteTime, firstSeen>>
  /\ UNCHANGED <<file, currentWriteTime, loaded, relocked>>

WatcherLooks ==
  /\ pc = "sleep" /\ file.time # lastWriteTime
  /\ currentWriteTime' = file.time /\ pc' = "load"
  /\ UNCHANGED <<file, lastWriteTime, firstSeen, loaded, relocked>>

LoadConfig ==
  /\ pc = "load" /\ ~relocked /\ LoadFile /\ pc' = "loaded"
  /\ UNCHANGED <<file, lastWriteTime, currentWriteTime, firstSeen, relocked>>

(* The faulty variant asks for the time again. *)
WatcherRemembers_AsksAgain ==
  /\ pc = "loaded" /\ lastWriteTime' = file.time /\ pc' = "sleep"
  /\ UNCHANGED <<file, currentWriteTime, firstSeen, loaded, relocked>>

WatcherRemembers ==
  /\ pc = "loaded" /\ lastWriteTime' = currentWriteTime /\ pc' = "sleep"
  /\ UNCHANGED <<file, currentWriteTime, firstSeen, loaded, relocked>>

Watcher == Main \/ WatcherStarts \/ WatcherLooks \/ LoadConfig \/ WatcherRemembers

(* Somebody writes the file; an allocation locks the mutex twice. *)
WriteEnds ==
  /\ ~file.whole /\ file' = [time |-> file.time + 1, whole |-> TRUE]
  /\ UNCHANGED <<pc, lastWriteTime, currentWriteTime, firstSeen, loaded, relocked>>
WriteBegins ==
  /\ file.whole /\ file.time + 2 <= MaxTime
  /\ file' = [time |-> file.time + 1, whole |-> FALSE]
  /\ UNCHANGED <<pc, lastWriteTime, currentWriteTime, firstSeen, loaded, relocked>>
Relock ==
  /\ ~relocked /\ relocked' = TRUE
  /\ UNCHANGED <<file, pc, lastWriteTime, currentWriteTime, firstSeen, loaded>>

ConfigNext == Watcher \/ WriteEnds \/ WriteBegins \/ Relock

(* The threads run, and a write that began ends. *)
ConfigFair == WF_configVars(Watcher) /\ WF_configVars(WriteEnds)

-----------------------------------------------------------------------------
(* Property *)

(* A file written after the watcher's first look (main.cpp 146) is loaded, *)
(* it or a later one, however the write overlaps a look, a load or another *)
(* write, unless the dispatcher's mutex is gone.  One written between      *)
(* main's load (line 167) and that first look is not: firstSeen.           *)
ChangesLoaded ==
  \A v \in 1..MaxTime :
    file = [time |-> v, whole |-> TRUE] /\ pc \in {"sleep", "load", "loaded"} /\ v # firstSeen
      ~> (loaded >= v \/ relocked)
=============================================================================
