------------------------- MODULE KernelLaunch_proofs -------------------------
(* Proofs about the caches of KernelLaunch, for any number of calls, any    *)
(* requests and any handles.                                                *)
EXTENDS KernelLaunch, FiniteSetTheorems, TLAPS

CacheTypes ==
  /\ pc \in [Calls -> Steps]
  /\ req \in [Calls -> Requests \cup {NoRequest}]
  /\ DOMAIN fn = Calls /\ fn = [c \in Calls |-> fn[c]]
  /\ DOMAIN funcName = Calls /\ funcName = [c \in Calls |-> funcName[c]]
  /\ seenMod \in [Calls -> Nat]
  /\ loads \in Nat

(* Who is between Lock and Unlock, and what it knows there: the handle is  *)
(* still not cached, so nothing that was cached is ever replaced.          *)
CacheLocked ==
  /\ \A c \in Calls : pc[c] \in {"recheck", "load", "getfunc"} <=> cacheLock = c
  /\ \A c \in Calls : pc[c] \in {"load", "getfunc"} => req[c].handle \notin DOMAIN funcCache
  /\ \A c \in Calls : pc[c] = "getfunc" => seenMod[c] # 0
  /\ \A c \in Calls : seenMod[c] <= loads

(* A call's function is the one cached for its handle. *)
FnIsCached ==
  \A c \in Calls : /\ pc[c] = "start" => fn[c] = NoFn
                   /\ fn[c] # NoFn => /\ req[c].handle \in DOMAIN funcCache
                                      /\ fn[c] = funcCache[req[c].handle]

CInv == CacheTypes /\ CacheLocked /\ FnIsCached /\ CacheConsistent

LEMMA InitCInv == Init => CInv
<1> SUFFICES ASSUME Init PROVE CInv
  OBVIOUS
<1>1. CacheTypes
  BY DEF Init, CacheTypes, Steps
<1>2. CacheLocked
  BY CallsAssumption DEF Init, CacheLocked
<1>3. FnIsCached
  BY DEF Init, FnIsCached
<1>4. CacheConsistent
  BY DEF Init, CacheConsistent
<1> QED BY <1>1, <1>2, <1>3, <1>4 DEF CInv

(* Every step preserves the invariant: one step per action of the model. *)
LEMMA StepCInv == CInv /\ [Next]_vars => CInv'
<1> SUFFICES ASSUME CInv, [Next]_vars PROVE CInv'
  OBVIOUS
<1> USE CallsAssumption DEF CInv, Goto, paramVars, devVars, cacheVars, localVars
<1>1. ASSUME NEW c \in Calls, cudaKernelLaunch(c) PROVE CInv'
  <2>1. CacheTypes'
    BY <1>1 DEF cudaKernelLaunch, CacheTypes, Steps
  <2>2. CacheLocked'
    BY <1>1 DEF cudaKernelLaunch, CacheTypes, CacheLocked, CacheConsistent
  <2>3. FnIsCached'
    BY <1>1 DEF cudaKernelLaunch, CacheTypes, CacheLocked, FnIsCached
  <2>4. CacheConsistent'
    BY <1>1 DEF cudaKernelLaunch, CacheTypes, CacheLocked, CacheConsistent
  <2> QED BY <2>1, <2>2, <2>3, <2>4
<1>2. ASSUME NEW c \in Calls, ParamGet(c) PROVE CInv'
  <2>1. CacheTypes'
    BY <1>2 DEF ParamGet, CacheTypes, Steps
  <2>2. CacheLocked'
    BY <1>2 DEF ParamGet, CacheTypes, CacheLocked, CacheConsistent
  <2>3. FnIsCached'
    BY <1>2 DEF ParamGet, CacheTypes, CacheLocked, FnIsCached
  <2>4. CacheConsistent'
    BY <1>2 DEF ParamGet, CacheTypes, CacheLocked, CacheConsistent
  <2> QED BY <2>1, <2>2, <2>3, <2>4
<1>3. ASSUME NEW c \in Calls, ParamFill(c) PROVE CInv'
  <2>1. CacheTypes'
    BY <1>3 DEF ParamFill, CacheTypes, Steps
  <2>2. CacheLocked'
    BY <1>3 DEF ParamFill, CacheTypes, CacheLocked, CacheConsistent
  <2>3. FnIsCached'
    BY <1>3 DEF ParamFill, CacheTypes, CacheLocked, FnIsCached
  <2>4. CacheConsistent'
    BY <1>3 DEF ParamFill, CacheTypes, CacheLocked, CacheConsistent
  <2> QED BY <2>1, <2>2, <2>3, <2>4
<1>4. ASSUME NEW c \in Calls, ParamMalloc(c) PROVE CInv'
  <2>1. CacheTypes'
    BY <1>4 DEF ParamMalloc, CacheTypes, Steps, ParamPut
  <2>2. CacheLocked'
    BY <1>4 DEF ParamMalloc, CacheTypes, CacheLocked, CacheConsistent, ParamPut
  <2>3. FnIsCached'
    BY <1>4 DEF ParamMalloc, CacheTypes, CacheLocked, FnIsCached, ParamPut
  <2>4. CacheConsistent'
    BY <1>4 DEF ParamMalloc, CacheTypes, CacheLocked, CacheConsistent, ParamPut
  <2> QED BY <2>1, <2>2, <2>3, <2>4
<1>5. ASSUME NEW c \in Calls, ParamCopy(c) PROVE CInv'
  <2>1. CacheTypes'
    BY <1>5 DEF ParamCopy, CacheTypes, Steps, ParamPut, Free
  <2>2. CacheLocked'
    BY <1>5 DEF ParamCopy, CacheTypes, CacheLocked, CacheConsistent, ParamPut, Free
  <2>3. FnIsCached'
    BY <1>5 DEF ParamCopy, CacheTypes, CacheLocked, FnIsCached, ParamPut, Free
  <2>4. CacheConsistent'
    BY <1>5 DEF ParamCopy, CacheTypes, CacheLocked, CacheConsistent, ParamPut, Free
  <2> QED BY <2>1, <2>2, <2>3, <2>4
<1>6. ASSUME NEW c \in Calls, LookupFunc(c) PROVE CInv'
  <2>1. CacheTypes'
    BY <1>6 DEF LookupFunc, CacheTypes, CacheConsistent, Steps, Cached
  <2>2. CacheLocked'
    BY <1>6 DEF LookupFunc, CacheTypes, CacheLocked, CacheConsistent, Cached
  <2>3. FnIsCached'
    BY <1>6 DEF LookupFunc, CacheTypes, CacheLocked, FnIsCached, Cached
  <2>4. CacheConsistent'
    BY <1>6 DEF LookupFunc, CacheTypes, CacheLocked, CacheConsistent, Cached
  <2> QED BY <2>1, <2>2, <2>3, <2>4
<1>7. ASSUME NEW c \in Calls, LookupMeta(c) PROVE CInv'
  <2>1. CacheTypes'
    BY <1>7 DEF LookupMeta, CacheTypes, Steps
  <2>2. CacheLocked'
    BY <1>7 DEF LookupMeta, CacheTypes, CacheLocked, CacheConsistent
  <2>3. FnIsCached'
    BY <1>7 DEF LookupMeta, CacheTypes, CacheLocked, FnIsCached
  <2>4. CacheConsistent'
    BY <1>7 DEF LookupMeta, CacheTypes, CacheLocked, CacheConsistent
  <2> QED BY <2>1, <2>2, <2>3, <2>4
<1>8. ASSUME NEW c \in Calls, LockCache(c) PROVE CInv'
  <2>1. CacheTypes'
    BY <1>8 DEF LockCache, CacheTypes, Steps
  <2>2. CacheLocked'
    BY <1>8 DEF LockCache, CacheTypes, CacheLocked, CacheConsistent
  <2>3. FnIsCached'
    BY <1>8 DEF LockCache, CacheTypes, CacheLocked, FnIsCached
  <2>4. CacheConsistent'
    BY <1>8 DEF LockCache, CacheTypes, CacheLocked, CacheConsistent
  <2> QED BY <2>1, <2>2, <2>3, <2>4
<1>9. ASSUME NEW c \in Calls, Recheck(c) PROVE CInv'
  <2>1. CacheTypes'
    BY <1>9 DEF Recheck, CacheTypes, Steps, Cached
  <2>2. CacheLocked'
    BY <1>9 DEF Recheck, CacheTypes, CacheLocked, CacheConsistent, Cached
  <2>3. FnIsCached'
    BY <1>9 DEF Recheck, CacheTypes, CacheLocked, FnIsCached, Cached
  <2>4. CacheConsistent'
    BY <1>9 DEF Recheck, CacheTypes, CacheLocked, CacheConsistent, Cached
  <2> QED BY <2>1, <2>2, <2>3, <2>4
<1>10. ASSUME NEW c \in Calls, LoadModule(c) PROVE CInv'
  <2>1. CacheTypes'
    BY <1>10 DEF LoadModule, CacheTypes, Steps
  <2>2. CacheLocked'
    BY <1>10 DEF LoadModule, CacheTypes, CacheLocked, CacheConsistent
  <2>3. FnIsCached'
    BY <1>10 DEF LoadModule, CacheTypes, CacheLocked, FnIsCached
  <2>4. CacheConsistent'
    BY <1>10 DEF LoadModule, CacheTypes, CacheLocked, CacheConsistent
  <2> QED BY <2>1, <2>2, <2>3, <2>4
<1>11. ASSUME NEW c \in Calls, GetFunction(c) PROVE CInv'
  <2>1. CacheTypes'
    BY <1>11 DEF GetFunction, CacheTypes, Steps
  <2>2. CacheLocked'
    BY <1>11 DEF GetFunction, CacheTypes, CacheLocked, CacheConsistent
  <2>3. FnIsCached'
    BY <1>11 DEF GetFunction, CacheTypes, CacheLocked, FnIsCached
  <2>4. CacheConsistent'
    BY <1>11 DEF GetFunction, CacheTypes, CacheLocked, CacheConsistent
  <2> QED BY <2>1, <2>2, <2>3, <2>4
<1>12. ASSUME NEW c \in Calls, Launch(c) PROVE CInv'
  <2>1. CacheTypes'
    BY <1>12 DEF Launch, CacheTypes, Steps
  <2>2. CacheLocked'
    BY <1>12 DEF Launch, CacheTypes, CacheLocked, CacheConsistent
  <2>3. FnIsCached'
    BY <1>12 DEF Launch, CacheTypes, CacheLocked, FnIsCached
  <2>4. CacheConsistent'
    BY <1>12 DEF Launch, CacheTypes, CacheLocked, CacheConsistent
  <2> QED BY <2>1, <2>2, <2>3, <2>4
<1>13. ASSUME NEW c \in Calls, FreeParams(c) PROVE CInv'
  <2>1. CacheTypes'
    BY <1>13 DEF FreeParams, CacheTypes, Steps, Free
  <2>2. CacheLocked'
    BY <1>13 DEF FreeParams, CacheTypes, CacheLocked, CacheConsistent, Free
  <2>3. FnIsCached'
    BY <1>13 DEF FreeParams, CacheTypes, CacheLocked, FnIsCached, Free
  <2>4. CacheConsistent'
    BY <1>13 DEF FreeParams, CacheTypes, CacheLocked, CacheConsistent, Free
  <2> QED BY <2>1, <2>2, <2>3, <2>4
<1>14. CASE UNCHANGED vars
  BY <1>14 DEF vars, CacheTypes, CacheLocked, FnIsCached, CacheConsistent
<1> QED
  BY <1>1, <1>2, <1>3, <1>4, <1>5, <1>6, <1>7, <1>8, <1>9, <1>10, <1>11, <1>12, <1>13, <1>14 DEF Next, Step, Proceed

LEMMA InductiveCInv == Spec => []CInv
  BY InitCInv, StepCInv, PTL DEF Spec

(* However calls race through the double-checked lookup of getCudaFunction, *)
(* calls with one handle launch one function.                               *)
THEOREM SameFunctionCorrect == Spec => []SameFunction
<1>1. CInv => SameFunction
  BY DEF CInv, FnIsCached, SameFunction
<1> QED BY <1>1, InductiveCInv, PTL

(* funcCache, funcMeta and modCache agree at all times. *)
THEOREM CacheCorrect == Spec => []CacheConsistent
<1>1. CInv => CacheConsistent
  BY DEF CInv
<1> QED BY <1>1, InductiveCInv, PTL
-----------------------------------------------------------------------------
(* Types.  The bound of TypeOK on the modules is not a matter of guards: a *)
(* call loads at most one module, and loads counts no more than the calls  *)
(* that are past the load.                                                 *)

ParamTypes ==
  /\ paramPool \subseteq HostBufs
  /\ hold \in [Calls -> HostBufs \cup {Nobody}]
  /\ buf \in [Calls -> HostBufs \cup Calls \cup {Nobody}]
  /\ mem \in [HostBufs \cup Calls -> [Bytes -> Calls \cup {Nobody}]]
  /\ \A c \in Calls : pc[c] \in {"fill", "malloc", "copy"}
                       => hold[c] # Nobody /\ buf[c] # Nobody

DevTypes ==
  /\ DOMAIN dev \subseteq DevBufs
  /\ dev \in [DOMAIN dev -> [Bytes -> Calls \cup {Nobody}]]
  /\ dptr \in [Calls -> DevBufs \cup {Nobody}]
  /\ crashed \in BOOLEAN

Loaders == { c \in Calls : pc[c] \in {"getfunc", "launch", "free", "done"} }

FnTypes ==
  /\ DOMAIN funcCache \subseteq Handles /\ funcCache \in [DOMAIN funcCache -> Functions]
  /\ DOMAIN funcMeta \subseteq Handles /\ funcMeta \in [DOMAIN funcMeta -> Names]
  /\ funcName \in [Calls -> Names \cup {None}]
  /\ fn \in [Calls -> Functions \cup {NoFn}]
  /\ cacheLock \in Calls \cup {Nobody}

(* What a call knows once it has been served and once it has a name. *)
CallTypes ==
  \A c \in Calls : /\ pc[c] # "start" => req[c] \in Requests
                   /\ pc[c] \in {"lock", "recheck", "load", "getfunc"} => funcName[c] \in Names

LoadsCounted == loads <= Cardinality(Loaders)

TInv == ParamTypes /\ DevTypes /\ FnTypes /\ CallTypes /\ LoadsCounted

LEMMA LoadsBounded == ASSUME CInv, LoadsCounted
                      PROVE  /\ loads \in Modules /\ modCache \in Modules
                             /\ seenMod \in [Calls -> Modules]
<1>1. Loaders \subseteq Calls
  BY DEF Loaders
<1>2. Cardinality(Loaders) \in Nat /\ Cardinality(Calls) \in Nat
      /\ Cardinality(Loaders) <= Cardinality(Calls)
  BY <1>1, CallsAssumption, FS_Subset, FS_CardinalityType
<1> QED
  BY <1>2 DEF CInv, CacheTypes, CacheLocked, CacheConsistent, LoadsCounted, Modules

(* Calls never leave Loaders, and nothing but a load changes loads. *)
LEMMA LoadersGrow == ASSUME loads \in Nat, LoadsCounted, Loaders \subseteq Loaders', loads' = loads
                     PROVE  LoadsCounted'
<1>1. IsFiniteSet(Loaders')
  BY CallsAssumption, FS_Subset DEF Loaders
<1>2. Cardinality(Loaders) <= Cardinality(Loaders')
      /\ Cardinality(Loaders) \in Nat /\ Cardinality(Loaders') \in Nat
  BY <1>1, FS_Subset, FS_CardinalityType
<1> QED
  BY <1>2 DEF LoadsCounted

LEMMA InitTInv == Init => TInv
<1> SUFFICES ASSUME Init PROVE TInv
  OBVIOUS
<1>1. ParamTypes
  BY BuffersAssumption, CallsAssumption DEF Init, ParamTypes, Blank
<1>2. DevTypes
  BY DEF Init, DevTypes, Blank
<1>3. FnTypes
  BY DEF Init, FnTypes
<1>4. CallTypes
  BY DEF Init, CallTypes
<1>5. LoadsCounted
  <2>1. Loaders = {}
    BY DEF Init, Loaders
  <2> QED BY <2>1, FS_EmptySet DEF Init, LoadsCounted
<1> QED BY <1>1, <1>2, <1>3, <1>4, <1>5 DEF TInv

LEMMA StepTInv == CInv /\ TInv /\ [Next]_vars => TInv'
<1> SUFFICES ASSUME CInv, TInv, [Next]_vars PROVE TInv'
  OBVIOUS
<1> USE CallsAssumption, BuffersAssumption, RequestsAssumption DEF TInv, Goto, paramVars, devVars, cacheVars, localVars
<1>1. ASSUME NEW c \in Calls, cudaKernelLaunch(c) PROVE TInv'
  <2>1. ParamTypes'
    BY <1>1 DEF cudaKernelLaunch, ParamTypes, CInv, CacheTypes
  <2>2. DevTypes'
    BY <1>1 DEF cudaKernelLaunch, ParamTypes, DevTypes, Blank, CInv, CacheTypes
  <2>3. FnTypes'
    BY <1>1, LoadsBounded DEF cudaKernelLaunch, FnTypes, CallTypes, CInv, CacheTypes, CacheLocked, Functions
  <2>4. CallTypes'
    BY <1>1 DEF cudaKernelLaunch, FnTypes, CallTypes, CInv, CacheTypes
  <2>5. LoadsCounted'
    <3>1. Loaders \subseteq Loaders' /\ loads' = loads
      BY <1>1 DEF cudaKernelLaunch, Loaders, CInv, CacheTypes
    <3> QED BY <3>1, LoadersGrow DEF CInv, CacheTypes
  <2> QED BY <2>1, <2>2, <2>3, <2>4, <2>5
<1>2. ASSUME NEW c \in Calls, ParamGet(c) PROVE TInv'
  <2>1. ParamTypes'
    BY <1>2 DEF ParamGet, ParamTypes, CInv, CacheTypes
  <2>2. DevTypes'
    BY <1>2 DEF ParamGet, ParamTypes, DevTypes, Blank, CInv, CacheTypes
  <2>3. FnTypes'
    BY <1>2, LoadsBounded DEF ParamGet, FnTypes, CallTypes, CInv, CacheTypes, CacheLocked, Functions
  <2>4. CallTypes'
    BY <1>2 DEF ParamGet, FnTypes, CallTypes, CInv, CacheTypes
  <2>5. LoadsCounted'
    <3>1. Loaders \subseteq Loaders' /\ loads' = loads
      BY <1>2 DEF ParamGet, Loaders, CInv, CacheTypes
    <3> QED BY <3>1, LoadersGrow DEF CInv, CacheTypes
  <2> QED BY <2>1, <2>2, <2>3, <2>4, <2>5
<1>3. ASSUME NEW c \in Calls, ParamFill(c) PROVE TInv'
  <2>1. ParamTypes'
    <3>1. CASE UNCHANGED <<mem, pc>>
      BY <1>3, <3>1 DEF ParamFill, ParamTypes
    <3>2. CASE pc' = [pc EXCEPT ![c] = "malloc"]
      <4>1. buf[c] \in HostBufs \cup Calls
        BY <1>3 DEF ParamFill, ParamTypes
      <4>2. mem' \in [HostBufs \cup Calls -> [Bytes -> Calls \cup {Nobody}]]
        BY <1>3, <4>1 DEF ParamFill, ParamTypes
      <4> QED
        BY <1>3, <3>2, <4>2 DEF ParamFill, ParamTypes, CInv, CacheTypes
    <3> QED BY <1>3, <3>1, <3>2 DEF ParamFill
  <2>2. DevTypes'
    BY <1>3 DEF ParamFill, ParamTypes, DevTypes, Blank, CInv, CacheTypes
  <2>3. FnTypes'
    BY <1>3, LoadsBounded DEF ParamFill, FnTypes, CallTypes, CInv, CacheTypes, CacheLocked, Functions
  <2>4. CallTypes'
    BY <1>3 DEF ParamFill, FnTypes, CallTypes, CInv, CacheTypes
  <2>5. LoadsCounted'
    <3>1. Loaders \subseteq Loaders' /\ loads' = loads
      BY <1>3 DEF ParamFill, Loaders, CInv, CacheTypes
    <3> QED BY <3>1, LoadersGrow DEF CInv, CacheTypes
  <2> QED BY <2>1, <2>2, <2>3, <2>4, <2>5
<1>4. ASSUME NEW c \in Calls, ParamMalloc(c) PROVE TInv'
  <2>1. ParamTypes'
    <3>1. hold[c] \in HostBufs
      BY <1>4 DEF ParamMalloc, ParamTypes
    <3>2. CASE UNCHANGED <<paramPool, hold>>
      BY <1>4, <3>2 DEF ParamMalloc, ParamTypes, CInv, CacheTypes
    <3>3. CASE ParamPut(c) /\ pc' = [pc EXCEPT ![c] = "done"]
      BY <1>4, <3>1, <3>3 DEF ParamMalloc, ParamPut, ParamTypes, CInv, CacheTypes
    <3> QED BY <1>4, <3>2, <3>3 DEF ParamMalloc
  <2>2. DevTypes'
    <3>1. Blank \in [Bytes -> Calls \cup {Nobody}]
      BY DEF Blank
    <3>2. CASE UNCHANGED <<dev, dptr>>
      BY <1>4, <3>2 DEF ParamMalloc, DevTypes
    <3>3. ASSUME NEW d \in DevBufs \ DOMAIN dev,
                 dev' = [e \in DOMAIN dev \cup {d} |-> IF e = d THEN Blank ELSE dev[e]],
                 dptr' = [dptr EXCEPT ![c] = d]
          PROVE  DevTypes'
      BY <1>4, <3>1, <3>3 DEF ParamMalloc, DevTypes
    <3> QED BY <1>4, <3>2, <3>3 DEF ParamMalloc
  <2>3. FnTypes'
    BY <1>4, LoadsBounded DEF ParamMalloc, ParamPut, FnTypes, CallTypes, CInv, CacheTypes, CacheLocked, Functions
  <2>4. CallTypes'
    BY <1>4 DEF ParamMalloc, ParamPut, FnTypes, CallTypes, CInv, CacheTypes
  <2>5. LoadsCounted'
    <3>1. Loaders \subseteq Loaders' /\ loads' = loads
      BY <1>4 DEF ParamMalloc, ParamPut, Loaders, CInv, CacheTypes
    <3> QED BY <3>1, LoadersGrow DEF CInv, CacheTypes
  <2> QED BY <2>1, <2>2, <2>3, <2>4, <2>5
<1>5. ASSUME NEW c \in Calls, ParamCopy(c) PROVE TInv'
  <2>1. ParamTypes'
    <3>1. hold[c] \in HostBufs
      BY <1>5 DEF ParamCopy, ParamTypes
    <3>2. CASE UNCHANGED <<pc, paramPool, hold>>
      BY <1>5, <3>2 DEF ParamCopy, ParamTypes
    <3>3. CASE ParamPut(c) /\ pc' \in {[pc EXCEPT ![c] = "lookup"], [pc EXCEPT ![c] = "done"]}
      BY <1>5, <3>1, <3>3 DEF ParamCopy, ParamPut, ParamTypes, CInv, CacheTypes
    <3> QED BY <1>5, <3>2, <3>3 DEF ParamCopy
  <2>2. DevTypes'
    <3>0. crashed' \in BOOLEAN
      BY <1>5, Zenon DEF ParamCopy, DevTypes
    <3>1. CASE UNCHANGED <<dev, dptr>>
      BY <3>0, <3>1 DEF DevTypes
    <3>2. CASE Free(c)
      BY <1>5, <3>0, <3>2 DEF ParamCopy, DevTypes, Free
    <3>3. CASE /\ UNCHANGED dptr
               /\ dev' = [dev EXCEPT ![dptr[c]] = [i \in Bytes |-> IF i <= req[c].total
                                                     THEN mem[buf[c]][i] ELSE @[i]]]
      <4>1. mem[buf[c]] \in [Bytes -> Calls \cup {Nobody}]
        BY <1>5 DEF ParamCopy, ParamTypes
      <4> QED BY <1>5, <3>0, <3>3, <4>1 DEF ParamCopy, DevTypes
    <3> QED BY <1>5, <3>1, <3>2, <3>3 DEF ParamCopy
  <2>3. FnTypes'
    BY <1>5, LoadsBounded DEF ParamCopy, ParamPut, Free, FnTypes, CallTypes, CInv, CacheTypes, CacheLocked, Functions
  <2>4. CallTypes'
    BY <1>5 DEF ParamCopy, ParamPut, Free, FnTypes, CallTypes, CInv, CacheTypes
  <2>5. LoadsCounted'
    <3>1. Loaders \subseteq Loaders' /\ loads' = loads
      BY <1>5 DEF ParamCopy, ParamPut, Free, Loaders, CInv, CacheTypes
    <3> QED BY <3>1, LoadersGrow DEF CInv, CacheTypes
  <2> QED BY <2>1, <2>2, <2>3, <2>4, <2>5
<1>6. ASSUME NEW c \in Calls, LookupFunc(c) PROVE TInv'
  <2>1. ParamTypes'
    BY <1>6 DEF LookupFunc, Cached, ParamTypes, CInv, CacheTypes
  <2>2. DevTypes'
    BY <1>6 DEF LookupFunc, Cached, ParamTypes, DevTypes, Blank, CInv, CacheTypes
  <2>3. FnTypes'
    BY <1>6 DEF LookupFunc, Cached, FnTypes
  <2>4. CallTypes'
    BY <1>6 DEF LookupFunc, Cached, FnTypes, CallTypes, CInv, CacheTypes
  <2>5. LoadsCounted'
    <3>1. Loaders \subseteq Loaders' /\ loads' = loads
      BY <1>6 DEF LookupFunc, Cached, Loaders, CInv, CacheTypes
    <3> QED BY <3>1, LoadersGrow DEF CInv, CacheTypes
  <2> QED BY <2>1, <2>2, <2>3, <2>4, <2>5
<1>7. ASSUME NEW c \in Calls, LookupMeta(c) PROVE TInv'
  <2>1. ParamTypes'
    BY <1>7 DEF LookupMeta, ParamTypes, CInv, CacheTypes
  <2>2. DevTypes'
    BY <1>7 DEF LookupMeta, ParamTypes, DevTypes, Blank, CInv, CacheTypes
  <2>3. FnTypes'
    BY <1>7, LoadsBounded DEF LookupMeta, FnTypes, CallTypes, CInv, CacheTypes, CacheLocked, Functions
  <2>4. CallTypes'
    BY <1>7 DEF LookupMeta, FnTypes, CallTypes, CInv, CacheTypes
  <2>5. LoadsCounted'
    <3>1. Loaders \subseteq Loaders' /\ loads' = loads
      BY <1>7 DEF LookupMeta, Loaders, CInv, CacheTypes
    <3> QED BY <3>1, LoadersGrow DEF CInv, CacheTypes
  <2> QED BY <2>1, <2>2, <2>3, <2>4, <2>5
<1>8. ASSUME NEW c \in Calls, LockCache(c) PROVE TInv'
  <2>1. ParamTypes'
    BY <1>8 DEF LockCache, ParamTypes, CInv, CacheTypes
  <2>2. DevTypes'
    BY <1>8 DEF LockCache, ParamTypes, DevTypes, Blank, CInv, CacheTypes
  <2>3. FnTypes'
    BY <1>8, LoadsBounded DEF LockCache, FnTypes, CallTypes, CInv, CacheTypes, CacheLocked, Functions
  <2>4. CallTypes'
    BY <1>8 DEF LockCache, FnTypes, CallTypes, CInv, CacheTypes
  <2>5. LoadsCounted'
    <3>1. Loaders \subseteq Loaders' /\ loads' = loads
      BY <1>8 DEF LockCache, Loaders, CInv, CacheTypes
    <3> QED BY <3>1, LoadersGrow DEF CInv, CacheTypes
  <2> QED BY <2>1, <2>2, <2>3, <2>4, <2>5
<1>9. ASSUME NEW c \in Calls, Recheck(c) PROVE TInv'
  <2>1. ParamTypes'
    BY <1>9 DEF Recheck, Cached, ParamTypes, CInv, CacheTypes
  <2>2. DevTypes'
    BY <1>9 DEF Recheck, Cached, ParamTypes, DevTypes, Blank, CInv, CacheTypes
  <2>3. FnTypes'
    BY <1>9 DEF Recheck, Cached, FnTypes
  <2>4. CallTypes'
    BY <1>9 DEF Recheck, Cached, FnTypes, CallTypes, CInv, CacheTypes
  <2>5. LoadsCounted'
    <3>1. Loaders \subseteq Loaders' /\ loads' = loads
      BY <1>9 DEF Recheck, Cached, Loaders, CInv, CacheTypes
    <3> QED BY <3>1, LoadersGrow DEF CInv, CacheTypes
  <2> QED BY <2>1, <2>2, <2>3, <2>4, <2>5
<1>10. ASSUME NEW c \in Calls, LoadModule(c) PROVE TInv'
  <2>1. ParamTypes'
    BY <1>10 DEF LoadModule, ParamTypes, CInv, CacheTypes
  <2>2. DevTypes'
    BY <1>10 DEF LoadModule, ParamTypes, DevTypes, Blank, CInv, CacheTypes
  <2>3. FnTypes'
    BY <1>10, LoadsBounded DEF LoadModule, FnTypes, CallTypes, CInv, CacheTypes, CacheLocked, Functions
  <2>4. CallTypes'
    BY <1>10 DEF LoadModule, FnTypes, CallTypes, CInv, CacheTypes
  <2>5. LoadsCounted'
    <3>1. CASE loads' = loads
      <4>1. Loaders \subseteq Loaders'
        BY <1>10 DEF LoadModule, Loaders, CInv, CacheTypes
      <4> QED BY <3>1, <4>1, LoadersGrow DEF CInv, CacheTypes
    <3>2. CASE loads' # loads
      <4>1. Loaders' = Loaders \cup {c} /\ c \notin Loaders
        BY <1>10, <3>2 DEF LoadModule, Loaders, CInv, CacheTypes
      <4>2. IsFiniteSet(Loaders)
        BY FS_Subset DEF Loaders
      <4>3. Cardinality(Loaders') = Cardinality(Loaders) + 1 /\ Cardinality(Loaders) \in Nat
        BY <4>1, <4>2, FS_AddElement, FS_CardinalityType
      <4>4. loads' = loads + 1
        BY <1>10, <3>2 DEF LoadModule
      <4> QED BY <4>3, <4>4 DEF LoadsCounted, CInv, CacheTypes
    <3> QED BY <3>1, <3>2
  <2> QED BY <2>1, <2>2, <2>3, <2>4, <2>5
<1>11. ASSUME NEW c \in Calls, GetFunction(c) PROVE TInv'
  <2>1. ParamTypes'
    BY <1>11 DEF GetFunction, ParamTypes, CInv, CacheTypes
  <2>2. DevTypes'
    BY <1>11 DEF GetFunction, ParamTypes, DevTypes, Blank, CInv, CacheTypes
  <2>3. FnTypes'
    <3> DEFINE f == [mod |-> seenMod[c], name |-> funcName[c]]
    <3>1. f \in Functions
      BY <1>11, LoadsBounded DEF GetFunction, CallTypes, CInv, CacheTypes, CacheLocked, Functions
    <3>2. req[c].handle \in Handles /\ funcName[c] \in Names
      BY <1>11 DEF GetFunction, CallTypes
    <3>3. CASE UNCHANGED <<fn, funcCache, funcMeta>>
      BY <1>11, <3>3 DEF GetFunction, FnTypes
    <3>4. CASE /\ fn' = [fn EXCEPT ![c] = f]
               /\ funcCache' = [g \in DOMAIN funcCache \cup {req[c].handle} |->
                                  IF g = req[c].handle THEN f ELSE funcCache[g]]
               /\ funcMeta' = [g \in DOMAIN funcMeta \cup {req[c].handle} |->
                                 IF g = req[c].handle THEN funcName[c] ELSE funcMeta[g]]
      <4> HIDE DEF f
      <4> QED BY <1>11, <3>1, <3>2, <3>4 DEF GetFunction, FnTypes
    <3> QED BY <1>11, <3>3, <3>4 DEF GetFunction
  <2>4. CallTypes'
    BY <1>11 DEF GetFunction, FnTypes, CallTypes, CInv, CacheTypes
  <2>5. LoadsCounted'
    <3>1. Loaders \subseteq Loaders' /\ loads' = loads
      BY <1>11 DEF GetFunction, Loaders, CInv, CacheTypes
    <3> QED BY <3>1, LoadersGrow DEF CInv, CacheTypes
  <2> QED BY <2>1, <2>2, <2>3, <2>4, <2>5
<1>12. ASSUME NEW c \in Calls, Launch(c) PROVE TInv'
  <2>1. ParamTypes'
    BY <1>12 DEF Launch, ParamTypes, CInv, CacheTypes
  <2>2. DevTypes'
    BY <1>12 DEF Launch, ParamTypes, DevTypes, Blank, CInv, CacheTypes
  <2>3. FnTypes'
    BY <1>12, LoadsBounded DEF Launch, FnTypes, CallTypes, CInv, CacheTypes, CacheLocked, Functions
  <2>4. CallTypes'
    BY <1>12 DEF Launch, FnTypes, CallTypes, CInv, CacheTypes
  <2>5. LoadsCounted'
    <3>1. Loaders \subseteq Loaders' /\ loads' = loads
      BY <1>12 DEF Launch, Loaders, CInv, CacheTypes
    <3> QED BY <3>1, LoadersGrow DEF CInv, CacheTypes
  <2> QED BY <2>1, <2>2, <2>3, <2>4, <2>5
<1>13. ASSUME NEW c \in Calls, FreeParams(c) PROVE TInv'
  <2>1. ParamTypes'
    BY <1>13 DEF FreeParams, Free, ParamTypes, CInv, CacheTypes
  <2>2. DevTypes'
    BY <1>13 DEF FreeParams, Free, ParamTypes, DevTypes, Blank, CInv, CacheTypes
  <2>3. FnTypes'
    BY <1>13, LoadsBounded DEF FreeParams, Free, FnTypes, CallTypes, CInv, CacheTypes, CacheLocked, Functions
  <2>4. CallTypes'
    BY <1>13 DEF FreeParams, Free, FnTypes, CallTypes, CInv, CacheTypes
  <2>5. LoadsCounted'
    <3>1. Loaders \subseteq Loaders' /\ loads' = loads
      BY <1>13 DEF FreeParams, Free, Loaders, CInv, CacheTypes
    <3> QED BY <3>1, LoadersGrow DEF CInv, CacheTypes
  <2> QED BY <2>1, <2>2, <2>3, <2>4, <2>5
<1>14. CASE UNCHANGED vars
  BY <1>14 DEF vars, ParamTypes, DevTypes, FnTypes, CallTypes, LoadsCounted, Loaders
<1> QED
  BY <1>1, <1>2, <1>3, <1>4, <1>5, <1>6, <1>7, <1>8, <1>9, <1>10, <1>11, <1>12, <1>13, <1>14 DEF Next, Step, Proceed

LEMMA InductiveTInv == Spec => [](CInv /\ TInv)
  BY InitCInv, StepCInv, InitTInv, StepTInv, PTL DEF Spec

(* Every variable keeps its type; in particular no more modules are loaded *)
(* than there are calls, although several calls may load one.              *)
THEOREM LaunchTypeCorrect == Spec => []TypeOK
<1>1. CInv /\ TInv => TypeOK
  BY LoadsBounded DEF CInv, TInv, TypeOK, CacheTypes, ParamTypes, DevTypes, FnTypes
<1> QED BY <1>1, InductiveTInv, PTL
-----------------------------------------------------------------------------
(* Buffers.  A pooled buffer is out of the pool while a call holds it, two *)
(* calls never hold one, and a call writes to the buffer it holds or to    *)
(* one of its own: so what ParamFill wrote is still there for ParamCopy.   *)

HostOwned ==
  \A c \in Calls :
    /\ hold[c] # Nobody <=> pc[c] \in {"fill", "malloc", "copy"}
    /\ hold[c] # Nobody => hold[c] \notin paramPool /\ buf[c] \in {hold[c], c}
    /\ \A d \in Calls : hold[c] # Nobody /\ hold[c] = hold[d] => c = d

Filled == \A c \in Calls : pc[c] \in {"malloc", "copy"} 
                           => \A i \in Covered(req[c]) : mem[buf[c]][i] = c

BInv == HostOwned /\ Filled /\ NoDeviceLeak /\ DeviceParamsOwn

LEMMA InitBInv == Init => BInv
<1> SUFFICES ASSUME Init PROVE BInv
  OBVIOUS
<1>1. HostOwned
  BY DEF Init, HostOwned
<1>2. Filled
  BY DEF Init, Filled
<1>3. NoDeviceLeak
  BY DEF Init, NoDeviceLeak, HasDevice
<1>4. DeviceParamsOwn
  BY DEF Init, DeviceParamsOwn, HasDevice
<1> QED BY <1>1, <1>2, <1>3, <1>4 DEF BInv

(* cuda.Free of a call's buffer leaves every other call's alone. *)
LEMMA FreeKeepsOthers ==
  ASSUME NEW c \in HasDevice, DevTypes, NoDeviceLeak, DeviceParamsOwn, Free(c), req' = req,
         HasDevice' = HasDevice \ {c}, \A d \in HasDevice' : pc'[d] = pc[d]
  PROVE  NoDeviceLeak' /\ DeviceParamsOwn'
<1>1. HasDevice \subseteq Calls /\ c \in Calls
  BY DEF HasDevice
<1>2. dptr'[c] = Nobody /\ \A d \in Calls : d # c => dptr'[d] = dptr[d]
  BY <1>1 DEF Free, DevTypes
<1>3. DOMAIN dev' = DOMAIN dev \ {dptr[c]}
      /\ \A e \in DOMAIN dev : e # dptr[c] => dev'[e] = dev[e]
  BY DEF Free
<1>4. \A d \in HasDevice : dptr[d] \in DOMAIN dev /\ (d # c => dptr[d] # dptr[c])
  BY <1>1 DEF NoDeviceLeak
<1>5. DOMAIN dev' = { dptr'[d] : d \in HasDevice' }
  BY <1>1, <1>2, <1>3, <1>4 DEF NoDeviceLeak
<1>6. NoDeviceLeak'
  BY <1>1, <1>2, <1>5 DEF NoDeviceLeak
<1>7. \A d \in HasDevice' : dev'[dptr'[d]] = dev[dptr[d]]
  BY <1>1, <1>2, <1>3, <1>4
<1>8. DeviceParamsOwn'
  BY <1>7 DEF DeviceParamsOwn
<1> QED BY <1>6, <1>8

LEMMA StepBInv == CInv /\ TInv /\ BInv /\ [Next]_vars => BInv'
<1> SUFFICES ASSUME CInv, TInv, BInv, [Next]_vars PROVE BInv'
  OBVIOUS
<1> USE CallsAssumption, BuffersAssumption DEF BInv, TInv, CInv, Goto, paramVars, devVars, cacheVars, localVars
<1>1. ASSUME NEW c \in Calls, cudaKernelLaunch(c) PROVE BInv'
  <2>1. HostOwned'
    BY <1>1 DEF cudaKernelLaunch, HostOwned, CacheTypes, ParamTypes
  <2>2. Filled'
    BY <1>1 DEF cudaKernelLaunch, Filled, CacheTypes, ParamTypes
  <2>3. NoDeviceLeak'
    BY <1>1 DEF cudaKernelLaunch, NoDeviceLeak, HasDevice, CacheTypes, DevTypes
  <2>4. DeviceParamsOwn'
    BY <1>1 DEF cudaKernelLaunch, DeviceParamsOwn, HasDevice, CacheTypes, DevTypes
  <2> QED BY <2>1, <2>2, <2>3, <2>4
<1>2. ASSUME NEW c \in Calls, ParamGet(c) PROVE BInv'
  <2>1. HostOwned'
    BY <1>2 DEF ParamGet, HostOwned, CacheTypes, ParamTypes
  <2>2. Filled'
    BY <1>2 DEF ParamGet, Filled, CacheTypes, ParamTypes
  <2>3. NoDeviceLeak'
    BY <1>2 DEF ParamGet, NoDeviceLeak, HasDevice, CacheTypes, DevTypes
  <2>4. DeviceParamsOwn'
    BY <1>2 DEF ParamGet, DeviceParamsOwn, HasDevice, CacheTypes, DevTypes
  <2> QED BY <2>1, <2>2, <2>3, <2>4
<1>3. ASSUME NEW c \in Calls, ParamFill(c) PROVE BInv'
  <2>1. HostOwned'
    BY <1>3 DEF ParamFill, HostOwned, CacheTypes, ParamTypes
  <2>2. Filled'
    <3>1. CASE UNCHANGED <<mem, pc>>
      BY <1>3, <3>1 DEF ParamFill, Filled
    <3>2. CASE pc' = [pc EXCEPT ![c] = "malloc"] /\ pc[c] = "fill"
      <4> DEFINE own(i) == i <= req[c].total /\ i <= offset(req[c].lens, Len(req[c].lens))
      <4>1. buf[c] \in HostBufs \cup Calls /\ buf[c] \in {hold[c], c} /\ hold[c] # Nobody
        BY <3>2 DEF HostOwned, ParamTypes
      <4>2. mem' = [mem EXCEPT ![buf[c]] = [i \in Bytes |-> IF own(i) THEN c ELSE @[i]]]
            /\ UNCHANGED <<req, hold, buf>>
        BY <1>3, <3>2 DEF ParamFill, CacheTypes
      <4>3. mem'[buf[c]] = [i \in Bytes |-> IF own(i) THEN c ELSE mem[buf[c]][i]]
        BY <4>1, <4>2 DEF ParamTypes
      <4>4. ASSUME NEW i \in Covered(req[c]) PROVE mem'[buf[c]][i] = c
        <5>1. req[c].total \in 0..MaxBytes /\ MaxBytes \in Nat
          BY <3>2, RequestsAssumption DEF CallTypes
        <5>2. i \in Bytes /\ own(i)
          BY <5>1, <4>4 DEF Bytes, Covered
        <5> HIDE DEF own
        <5> QED BY <5>2, <4>3
      <4>5. ASSUME NEW d \in Calls, d # c, pc[d] \in {"malloc", "copy"}
            PROVE  mem'[buf[d]] = mem[buf[d]]
        <5>1. buf[d] \in {hold[d], d} /\ hold[d] # Nobody /\ hold[d] # hold[c]
          BY <4>1, <4>5 DEF HostOwned
        <5>2. buf[d] # buf[c] /\ buf[d] \in HostBufs \cup Calls
          BY <4>1, <5>1 DEF ParamTypes
        <5> HIDE DEF own
        <5> QED BY <4>2, <5>2 DEF ParamTypes
      <4>6. ASSUME NEW d \in Calls, pc'[d] \in {"malloc", "copy"}, NEW i \in Covered(req'[d])
            PROVE  mem'[buf'[d]][i] = d
        <5>1. i \in Covered(req[d]) /\ buf'[d] = buf[d]
          BY <4>2, <4>6
        <5>2. CASE d = c
          BY <5>1, <5>2, <4>4
        <5>3. CASE d # c
          <6>1. pc[d] \in {"malloc", "copy"}
            BY <3>2, <4>6, <5>3 DEF CacheTypes
          <6> QED BY <5>1, <5>3, <6>1, <4>5 DEF Filled
        <5> QED BY <5>2, <5>3
      <4> QED BY <4>6 DEF Filled
    <3> QED BY <1>3, <3>1, <3>2 DEF ParamFill
  <2>3. NoDeviceLeak'
    BY <1>3 DEF ParamFill, NoDeviceLeak, HasDevice, CacheTypes, DevTypes
  <2>4. DeviceParamsOwn'
    BY <1>3 DEF ParamFill, DeviceParamsOwn, HasDevice, CacheTypes, DevTypes
  <2> QED BY <2>1, <2>2, <2>3, <2>4
<1>4. ASSUME NEW c \in Calls, ParamMalloc(c) PROVE BInv'
  <2>1. HostOwned'
    BY <1>4 DEF ParamMalloc, ParamPut, HostOwned, CacheTypes, ParamTypes
  <2>2. Filled'
    BY <1>4 DEF ParamMalloc, ParamPut, Filled, CacheTypes, ParamTypes
  <2>3. NoDeviceLeak'
    <3>1. c \notin HasDevice
      BY <1>4 DEF ParamMalloc, HasDevice
    <3>2. CASE pc' = [pc EXCEPT ![c] = "done"] /\ UNCHANGED <<dev, dptr>>
      <4>1. HasDevice' = HasDevice
        BY <3>1, <3>2 DEF HasDevice, CacheTypes
      <4> QED BY <3>2, <4>1 DEF NoDeviceLeak
    <3>3. ASSUME NEW d \in DevBufs \ DOMAIN dev, pc' = [pc EXCEPT ![c] = "copy"],
                 dev' = [e \in DOMAIN dev \cup {d} |-> IF e = d THEN Blank ELSE dev[e]],
                 dptr' = [dptr EXCEPT ![c] = d]
          PROVE  NoDeviceLeak'
      <4>1. HasDevice' = HasDevice \cup {c}
        BY <3>3 DEF HasDevice, CacheTypes
      <4>2. dptr'[c] = d /\ \A e \in Calls : e # c => dptr'[e] = dptr[e]
        BY <3>3 DEF DevTypes
      <4>3. DOMAIN dev' = DOMAIN dev \cup {d} /\ HasDevice \subseteq Calls
        BY <3>3 DEF HasDevice
      <4>4. \A e \in HasDevice : dptr[e] \in DOMAIN dev /\ dptr'[e] = dptr[e]
        BY <3>1, <4>2, <4>3 DEF NoDeviceLeak
      <4>5. DOMAIN dev' = { dptr'[e] : e \in HasDevice' }
        BY <3>1, <4>1, <4>2, <4>3, <4>4 DEF NoDeviceLeak
      <4>6. \A e, g \in HasDevice' : dptr'[e] = dptr'[g] => e = g
        BY <3>3, <4>1, <4>2, <4>4 DEF NoDeviceLeak
      <4>7. \A e \in Calls \ HasDevice' : dptr'[e] = Nobody
        BY <4>1, <4>2 DEF NoDeviceLeak
      <4> QED BY <4>5, <4>6, <4>7 DEF NoDeviceLeak
    <3> QED BY <1>4, <3>2, <3>3 DEF ParamMalloc
  <2>4. DeviceParamsOwn'
    <3>1. ASSUME NEW e \in HasDevice', pc'[e] # "copy"
          PROVE  e \in HasDevice /\ pc[e] # "copy" /\ dev'[dptr'[e]] = dev[dptr[e]]
      <4>1. e # c /\ e \in HasDevice /\ pc[e] # "copy"
        BY <1>4, <3>1 DEF ParamMalloc, HasDevice, CacheTypes
      <4>2. dptr[e] \in DOMAIN dev /\ e \in Calls
        BY <4>1 DEF NoDeviceLeak, HasDevice
      <4> QED BY <1>4, <4>1, <4>2 DEF ParamMalloc, DevTypes
    <3>2. req' = req
      BY <1>4 DEF ParamMalloc
    <3> QED BY <3>1, <3>2 DEF DeviceParamsOwn
  <2> QED BY <2>1, <2>2, <2>3, <2>4
<1>5. ASSUME NEW c \in Calls, ParamCopy(c) PROVE BInv'
  <2>1. HostOwned'
    BY <1>5 DEF ParamCopy, ParamPut, Free, HostOwned, CacheTypes, ParamTypes
  <2>2. Filled'
    BY <1>5 DEF ParamCopy, ParamPut, Free, Filled, CacheTypes, ParamTypes
  <2>3. NoDeviceLeak'
    <3>1. c \in HasDevice
      BY <1>5 DEF ParamCopy, HasDevice
    <3>2. CASE UNCHANGED <<pc, dev, dptr>>
      BY <1>5, <3>2 DEF ParamCopy, NoDeviceLeak, DeviceParamsOwn, HasDevice
    <3>3. CASE Free(c) /\ pc' = [pc EXCEPT ![c] = "done"]
      <4>1. HasDevice' = HasDevice \ {c} /\ \A d \in HasDevice' : pc'[d] = pc[d]
        BY <3>3 DEF HasDevice, CacheTypes
      <4>2. req' = req
        BY <1>5 DEF ParamCopy
      <4> QED BY <3>1, <3>3, <4>1, <4>2, FreeKeepsOthers DEF DevTypes
    <3>4. CASE /\ UNCHANGED dptr
               /\ pc' = [pc EXCEPT ![c] = "lookup"]
               /\ dev' = [dev EXCEPT ![dptr[c]] = [i \in Bytes |-> IF i <= req[c].total
                                                     THEN mem[buf[c]][i] ELSE @[i]]]
      <4>1. HasDevice' = HasDevice /\ HasDevice \subseteq Calls /\ UNCHANGED <<req, mem, buf>>
        BY <1>5, <3>1, <3>4 DEF ParamCopy, HasDevice, CacheTypes
      <4> QED BY <3>4, <4>1 DEF NoDeviceLeak, DevTypes
    <3> QED BY <1>5, <3>2, <3>3, <3>4 DEF ParamCopy
  <2>4. DeviceParamsOwn'
    <3>1. c \in HasDevice
      BY <1>5 DEF ParamCopy, HasDevice
    <3>2. CASE UNCHANGED <<pc, dev, dptr>>
      BY <1>5, <3>2 DEF ParamCopy, NoDeviceLeak, DeviceParamsOwn, HasDevice
    <3>3. CASE Free(c) /\ pc' = [pc EXCEPT ![c] = "done"]
      <4>1. HasDevice' = HasDevice \ {c} /\ \A d \in HasDevice' : pc'[d] = pc[d]
        BY <3>3 DEF HasDevice, CacheTypes
      <4>2. req' = req
        BY <1>5 DEF ParamCopy
      <4> QED BY <3>1, <3>3, <4>1, <4>2, FreeKeepsOthers DEF DevTypes
    <3>4. CASE /\ UNCHANGED dptr
               /\ pc' = [pc EXCEPT ![c] = "lookup"]
               /\ dev' = [dev EXCEPT ![dptr[c]] = [i \in Bytes |-> IF i <= req[c].total
                                                     THEN mem[buf[c]][i] ELSE @[i]]]
      <4>1. HasDevice' = HasDevice /\ HasDevice \subseteq Calls /\ UNCHANGED <<req, mem, buf>>
        BY <1>5, <3>1, <3>4 DEF ParamCopy, HasDevice, CacheTypes
      <4>2. dptr[c] \in DOMAIN dev /\ \A d \in HasDevice : d # c => dptr[d] # dptr[c]
        BY <3>1, <4>1 DEF NoDeviceLeak
      <4>3. ASSUME NEW i \in Covered(req[c]) PROVE dev'[dptr[c]][i] = c
        <5>1. i \in Bytes /\ i <= req[c].total
          BY <1>5, <4>3, RequestsAssumption DEF ParamCopy, CallTypes, Bytes, Covered
        <5>2. mem[buf[c]][i] = c
          BY <1>5, <4>3 DEF ParamCopy, Filled
        <5>3. dev'[dptr[c]] = [j \in Bytes |-> IF j <= req[c].total
                                                 THEN mem[buf[c]][j] ELSE dev[dptr[c]][j]]
          BY <3>4, <4>2 DEF DevTypes
        <5> QED BY <5>1, <5>2, <5>3
      <4>4. ASSUME NEW d \in HasDevice, d # c, pc'[d] # "copy"
            PROVE  dev'[dptr[d]] = dev[dptr[d]] /\ pc[d] # "copy"
        <5>1. dptr[d] \in DOMAIN dev
          BY DEF NoDeviceLeak
        <5> QED BY <3>4, <4>1, <4>2, <4>4, <5>1 DEF DevTypes, CacheTypes
      <4>5. ASSUME NEW d \in HasDevice', pc'[d] # "copy", NEW i \in Covered(req'[d])
            PROVE  dev'[dptr'[d]][i] = d
        <5>1. d \in HasDevice /\ i \in Covered(req[d]) /\ dptr'[d] = dptr[d]
          BY <3>4, <4>1, <4>5
        <5>2. CASE d = c
          BY <5>1, <5>2, <4>3
        <5>3. CASE d # c
          BY <5>1, <5>3, <4>4, <4>5 DEF DeviceParamsOwn
        <5> QED BY <5>2, <5>3
      <4> QED BY <4>5 DEF DeviceParamsOwn
    <3> QED BY <1>5, <3>2, <3>3, <3>4 DEF ParamCopy
  <2> QED BY <2>1, <2>2, <2>3, <2>4
<1>6. ASSUME NEW c \in Calls, LookupFunc(c) PROVE BInv'
  <2>1. HostOwned'
    <3>1. \A d \in Calls : pc'[d] \in {"fill", "malloc", "copy"} <=> pc[d] \in {"fill", "malloc", "copy"}
      BY <1>6 DEF LookupFunc, CacheTypes
    <3>2. UNCHANGED <<paramPool, hold, buf>>
      BY <1>6 DEF LookupFunc
    <3> QED BY <3>1, <3>2 DEF HostOwned
  <2>2. Filled'
    BY <1>6 DEF LookupFunc, Cached, Filled, CacheTypes, ParamTypes
  <2>3. NoDeviceLeak'
    BY <1>6 DEF LookupFunc, Cached, NoDeviceLeak, HasDevice, CacheTypes, DevTypes
  <2>4. DeviceParamsOwn'
    BY <1>6 DEF LookupFunc, Cached, DeviceParamsOwn, HasDevice, CacheTypes, DevTypes
  <2> QED BY <2>1, <2>2, <2>3, <2>4
<1>7. ASSUME NEW c \in Calls, LookupMeta(c) PROVE BInv'
  <2>1. HostOwned'
    BY <1>7 DEF LookupMeta, HostOwned, CacheTypes, ParamTypes
  <2>2. Filled'
    BY <1>7 DEF LookupMeta, Filled, CacheTypes, ParamTypes
  <2>3. NoDeviceLeak'
    BY <1>7 DEF LookupMeta, NoDeviceLeak, HasDevice, CacheTypes, DevTypes
  <2>4. DeviceParamsOwn'
    BY <1>7 DEF LookupMeta, DeviceParamsOwn, HasDevice, CacheTypes, DevTypes
  <2> QED BY <2>1, <2>2, <2>3, <2>4
<1>8. ASSUME NEW c \in Calls, LockCache(c) PROVE BInv'
  <2>1. HostOwned'
    BY <1>8 DEF LockCache, HostOwned, CacheTypes, ParamTypes
  <2>2. Filled'
    BY <1>8 DEF LockCache, Filled, CacheTypes, ParamTypes
  <2>3. NoDeviceLeak'
    BY <1>8 DEF LockCache, NoDeviceLeak, HasDevice, CacheTypes, DevTypes
  <2>4. DeviceParamsOwn'
    BY <1>8 DEF LockCache, DeviceParamsOwn, HasDevice, CacheTypes, DevTypes
  <2> QED BY <2>1, <2>2, <2>3, <2>4
<1>9. ASSUME NEW c \in Calls, Recheck(c) PROVE BInv'
  <2>1. HostOwned'
    <3>1. \A d \in Calls : pc'[d] \in {"fill", "malloc", "copy"} <=> pc[d] \in {"fill", "malloc", "copy"}
      BY <1>9 DEF Recheck, CacheTypes
    <3>2. UNCHANGED <<paramPool, hold, buf>>
      BY <1>9 DEF Recheck
    <3> QED BY <3>1, <3>2 DEF HostOwned
  <2>2. Filled'
    BY <1>9 DEF Recheck, Cached, Filled, CacheTypes, ParamTypes
  <2>3. NoDeviceLeak'
    BY <1>9 DEF Recheck, Cached, NoDeviceLeak, HasDevice, CacheTypes, DevTypes
  <2>4. DeviceParamsOwn'
    BY <1>9 DEF Recheck, Cached, DeviceParamsOwn, HasDevice, CacheTypes, DevTypes
  <2> QED BY <2>1, <2>2, <2>3, <2>4
<1>10. ASSUME NEW c \in Calls, LoadModule(c) PROVE BInv'
  <2>1. HostOwned'
    BY <1>10 DEF LoadModule, HostOwned, CacheTypes, ParamTypes
  <2>2. Filled'
    BY <1>10 DEF LoadModule, Filled, CacheTypes, ParamTypes
  <2>3. NoDeviceLeak'
    BY <1>10 DEF LoadModule, NoDeviceLeak, HasDevice, CacheTypes, DevTypes
  <2>4. DeviceParamsOwn'
    BY <1>10 DEF LoadModule, DeviceParamsOwn, HasDevice, CacheTypes, DevTypes
  <2> QED BY <2>1, <2>2, <2>3, <2>4
<1>11. ASSUME NEW c \in Calls, GetFunction(c) PROVE BInv'
  <2>1. HostOwned'
    BY <1>11 DEF GetFunction, HostOwned, CacheTypes, ParamTypes
  <2>2. Filled'
    BY <1>11 DEF GetFunction, Filled, CacheTypes, ParamTypes
  <2>3. NoDeviceLeak'
    BY <1>11 DEF GetFunction, NoDeviceLeak, HasDevice, CacheTypes, DevTypes
  <2>4. DeviceParamsOwn'
    BY <1>11 DEF GetFunction, DeviceParamsOwn, HasDevice, CacheTypes, DevTypes
  <2> QED BY <2>1, <2>2, <2>3, <2>4
<1>12. ASSUME NEW c \in Calls, Launch(c) PROVE BInv'
  <2>1. HostOwned'
    BY <1>12 DEF Launch, HostOwned, CacheTypes, ParamTypes
  <2>2. Filled'
    BY <1>12 DEF Launch, Filled, CacheTypes, ParamTypes
  <2>3. NoDeviceLeak'
    BY <1>12 DEF Launch, NoDeviceLeak, HasDevice, CacheTypes, DevTypes
  <2>4. DeviceParamsOwn'
    BY <1>12 DEF Launch, DeviceParamsOwn, HasDevice, CacheTypes, DevTypes
  <2> QED BY <2>1, <2>2, <2>3, <2>4
<1>13. ASSUME NEW c \in Calls, FreeParams(c) PROVE BInv'
  <2>1. HostOwned'
    BY <1>13 DEF FreeParams, Free, HostOwned, CacheTypes, ParamTypes
  <2>2. Filled'
    BY <1>13 DEF FreeParams, Free, Filled, CacheTypes, ParamTypes
  <2>3. NoDeviceLeak'
    <3>1. c \in HasDevice
      BY <1>13 DEF FreeParams, HasDevice
    <3>2. HasDevice' = HasDevice \ {c} /\ \A d \in HasDevice' : pc'[d] = pc[d]
      BY <1>13 DEF FreeParams, HasDevice, CacheTypes
    <3> QED
      BY <1>13, <3>1, <3>2, FreeKeepsOthers DEF FreeParams, DevTypes
  <2>4. DeviceParamsOwn'
    <3>1. c \in HasDevice
      BY <1>13 DEF FreeParams, HasDevice
    <3>2. HasDevice' = HasDevice \ {c} /\ \A d \in HasDevice' : pc'[d] = pc[d]
      BY <1>13 DEF FreeParams, HasDevice, CacheTypes
    <3> QED
      BY <1>13, <3>1, <3>2, FreeKeepsOthers DEF FreeParams, DevTypes
  <2> QED BY <2>1, <2>2, <2>3, <2>4
<1>14. CASE UNCHANGED vars
  BY <1>14 DEF vars, HostOwned, Filled, NoDeviceLeak, DeviceParamsOwn, HasDevice
<1> QED
  BY <1>1, <1>2, <1>3, <1>4, <1>5, <1>6, <1>7, <1>8, <1>9, <1>10, <1>11, <1>12, <1>13, <1>14 DEF Next, Step, Proceed

LEMMA InductiveBInv == Spec => [](CInv /\ TInv /\ BInv)
  BY InitCInv, StepCInv, InitTInv, StepTInv, InitBInv, StepBInv, PTL DEF Spec

(* Whatever fails, every way out of cudaKernelLaunch frees the device      *)
(* memory of the call, once.                                               *)
THEOREM NoDeviceLeakCorrect == Spec => []NoDeviceLeak
<1>1. BInv => NoDeviceLeak
  BY DEF BInv
<1> QED BY <1>1, InductiveBInv, PTL

(* However the pooled buffers travel between calls, and whatever ParamBytes *)
(* says, a byte that a parameter covers is that of the call's own request.  *)
THEOREM DeviceParamsCorrect == Spec => []DeviceParamsOwn
<1>1. BInv => DeviceParamsOwn
  BY DEF BInv
<1> QED BY <1>1, InductiveBInv, PTL
=============================================================================
