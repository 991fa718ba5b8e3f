---------------------------- MODULE KernelLaunch ----------------------------
(***************************************************************************)
(* Kernel launches on the Go server: CapnpServer.cudaKernelLaunch,         *)
(* prepareParamBuffer and getCudaFunction (cmd/capnpserver/main.go), run   *)
(* by concurrent RPC calls that share the pool of parameter buffers, the   *)
(* device memory and the function, module and metadata caches under        *)
(* cacheLock.  A byte of a buffer is the call that wrote it.  A function   *)
(* of the driver is the module and the name it was got from.               *)
(***************************************************************************)
EXTENDS Naturals, FiniteSets, Sequences

CONSTANTS Calls,        \* RPC calls of cudaKernelLaunch, each served once
          Requests,     \* [handle, name, lens, total]: FuncHandle, Name, the
                        \* lengths of Params and ParamBytes
          Handles, Names,
          HostBufs,     \* buffers of paramPool
          DevBufs,      \* device allocations
          PoolCap,      \* bytes of a pooled buffer (1024 in the code)
          MaxBytes,     \* bound: largest ParamBytes
          Nobody        \* no call; an unwritten byte

ASSUME CallsAssumption == IsFiniteSet(Calls) /\ Nobody \notin Calls
(* a buffer of a call's own is not one of the pool *)
ASSUME BuffersAssumption == Nobody \notin HostBufs \cup DevBufs /\ HostBufs \cap Calls = {}
ASSUME RequestsAssumption ==
  /\ MaxBytes \in Nat
  /\ Requests \subseteq [handle: Handles, name: Names, lens: Seq(Nat), total: 0..MaxBytes]

None == "none"

VARIABLES pc, req,      \* next step and request of each call
          paramPool,    \* pooled parameter buffers
          hold,         \* pooled buffer each call has taken out
          buf,          \* buffer each call fills: the pooled one or its own
          mem,          \* bytes of host buffers
          dev,          \* bytes of allocated device buffers
          dptr,         \* device buffer of each call
          funcCache, funcMeta, modCache,
          seenMod,      \* module, moduleFound: the module cache as first read
          funcName,     \* funcName of each call
          fn,           \* function each call launches
          cacheLock,    \* the call that holds the write lock
          loads,        \* modules loaded so far
          crashed

vars == <<pc, req, paramPool, hold, buf, mem, dev, dptr, funcCache, funcMeta,
          modCache, seenMod, funcName, fn, cacheLock, loads, crashed>>

paramVars == <<paramPool, hold, buf, mem>>
devVars   == <<dev, dptr>>
cacheVars == <<funcCache, funcMeta, modCache, cacheLock, loads>>
localVars == <<seenMod, funcName, fn>>

Bytes   == 1..MaxBytes
Blank   == [i \in Bytes |-> Nobody]
Modules == 0..Cardinality(Calls)          \* 0: no module
Functions == [mod: Modules \ {0}, name: Names]
NoFn == [mod |-> 0, name |-> None]
NoRequest == [handle |-> 0, name |-> None, lens |-> <<>>, total |-> 0]
Steps == {"start", "get", "fill", "malloc", "copy", "lookup", "meta", "lock",
          "recheck", "load", "getfunc", "launch", "free", "done"}

Init ==
  /\ pc = [c \in Calls |-> "start"]
  /\ req = [c \in Calls |-> NoRequest]
  /\ paramPool = {}
  /\ hold = [c \in Calls |-> Nobody]
  /\ buf = [c \in Calls |-> Nobody]
  /\ mem = [b \in HostBufs \cup Calls |-> Blank]
  /\ dev = [d \in {} |-> Blank]
  /\ dptr = [c \in Calls |-> Nobody]
  /\ funcCache = [h \in {} |-> None]
  /\ funcMeta = [h \in {} |-> None]
  /\ modCache = 0
  /\ seenMod = [c \in Calls |-> 0]
  /\ funcName = [c \in Calls |-> None]
  /\ fn = [c \in Calls |-> NoFn]
  /\ cacheLock = Nobody
  /\ loads = 0
  /\ crashed = FALSE

Goto(c, step) == pc' = [pc EXCEPT ![c] = step]

-----------------------------------------------------------------------------
(* cudaKernelLaunch: a request without parameters is refused. *)
cudaKernelLaunch(c) ==
  /\ pc[c] = "start"
  /\ \E r \in Requests :
        /\ req' = [req EXCEPT ![c] = r]
        /\ Goto(c, IF r.lens = <<>> THEN "done" ELSE "get")
  /\ UNCHANGED <<paramVars, devVars, cacheVars, localVars, crashed>>

(* Faulty variant: the buffer stays in the pool while it is used. *)
ParamGet_Shared(c) ==
  /\ pc[c] = "get"
  /\ \E b \in paramPool \cup (HostBufs \ { hold[d] : d \in Calls }) :
        /\ hold' = [hold EXCEPT ![c] = b]
        /\ paramPool' = paramPool \cup {b}
        /\ buf' = [buf EXCEPT ![c] = IF PoolCap < req[c].total THEN c ELSE b]
  /\ Goto(c, "fill")
  /\ UNCHANGED <<req, mem, devVars, cacheVars, localVars, crashed>>

(* paramPool.Get, and a buffer of its own when the pooled one is too small *)
ParamGet(c) ==
  /\ pc[c] = "get"
  /\ \E b \in paramPool \cup (HostBufs \ { hold[d] : d \in Calls }) :
        /\ hold' = [hold EXCEPT ![c] = b]
        /\ paramPool' = paramPool \ {b}
        /\ buf' = [buf EXCEPT ![c] = IF PoolCap < req[c].total THEN c ELSE b]
  /\ Goto(c, "fill")
  /\ UNCHANGED <<req, mem, devVars, cacheVars, localVars, crashed>>

(* offset after the first k parameters: their lengths, no alignment *)
offset(lens, k) == LET sum[i \in 0..k] == IF i = 0 THEN 0 ELSE sum[i - 1] + lens[i]
                   IN  sum[k]

(* copy(buf[offset:], param.Value()) for every parameter.  An offset past  *)
(* ParamBytes panics; bytes past it are cut off; bytes no parameter covers *)
(* keep what the buffer held before.                                       *)
ParamFill(c) ==
  /\ pc[c] = "fill"
  /\ LET r == req[c]
     IN  IF \E k \in DOMAIN r.lens : offset(r.lens, k - 1) > r.total
           THEN crashed' = TRUE /\ UNCHANGED <<mem, pc>>
           ELSE /\ mem' = [mem EXCEPT ![buf[c]] =
                             [i \in Bytes |-> IF i <= r.total /\ i <= offset(r.lens, Len(r.lens))
                                                THEN c ELSE @[i]]]
                /\ Goto(c, "malloc")
                /\ UNCHANGED crashed
  /\ UNCHANGED <<req, paramPool, hold, buf, devVars, cacheVars, localVars>>

(* The deferred paramPool.Put(buf[:0]), at every return of prepareParamBuffer *)
ParamPut(c) ==
  /\ paramPool' = paramPool \cup {hold[c]}
  /\ hold' = [hold EXCEPT ![c] = Nobody]

(* cuda.Malloc(totalSize) *)
ParamMalloc(c) ==
  /\ pc[c] = "malloc"
  /\ \/ /\ \E d \in DevBufs \ DOMAIN dev :
             /\ dev' = [e \in DOMAIN dev \cup {d} |-> IF e = d THEN Blank ELSE dev[e]]
             /\ dptr' = [dptr EXCEPT ![c] = d]
        /\ Goto(c, "copy")
        /\ UNCHANGED <<paramPool, hold>>
     \/ /\ ParamPut(c)
        /\ Goto(c, "done")
        /\ UNCHANGED devVars
  /\ UNCHANGED <<req, buf, mem, cacheVars, localVars, crashed>>

Free(c) == /\ dev' = [d \in DOMAIN dev \ {dptr[c]} |-> dev[d]]
           /\ dptr' = [dptr EXCEPT ![c] = Nobody]

(* Faulty variant: a failed copy does not free the device buffer. *)
ParamCopy_NoFree(c) ==
  /\ pc[c] = "copy"
  /\ \/ /\ dev' = [dev EXCEPT ![dptr[c]] = [i \in Bytes |-> IF i <= req[c].total
                                                              THEN mem[buf[c]][i] ELSE @[i]]]
        /\ Goto(c, "lookup")
        /\ UNCHANGED dptr
     \/ Goto(c, "done") /\ UNCHANGED devVars
  /\ ParamPut(c)
  /\ UNCHANGED <<req, buf, mem, cacheVars, localVars, crashed>>

(* cuda.Memcpy of the whole buffer; &buf[0] of an empty one panics.        *)
ParamCopy(c) ==
  /\ pc[c] = "copy"
  /\ \/ /\ req[c].total = 0
        /\ crashed' = TRUE
        /\ UNCHANGED <<pc, paramPool, hold, devVars>>
     \/ /\ req[c].total > 0
        /\ dev' = [dev EXCEPT ![dptr[c]] = [i \in Bytes |-> IF i <= req[c].total
                                                              THEN mem[buf[c]][i] ELSE @[i]]]
        /\ ParamPut(c)
        /\ Goto(c, "lookup")
        /\ UNCHANGED <<dptr, crashed>>
     \/ /\ req[c].total > 0
        /\ Free(c)
        /\ ParamPut(c)
        /\ Goto(c, "done")
        /\ UNCHANGED crashed
  /\ UNCHANGED <<req, buf, mem, cacheVars, localVars>>

-----------------------------------------------------------------------------
(* getCudaFunction *)

Cached(c) == req[c].handle \in DOMAIN funcCache

(* Under the read lock: the function, and whether the module is there. *)
LookupFunc(c) ==
  /\ pc[c] = "lookup"
  /\ cacheLock = Nobody
  /\ seenMod' = [seenMod EXCEPT ![c] = modCache]
  /\ IF Cached(c)
       THEN fn' = [fn EXCEPT ![c] = funcCache[req[c].handle]] /\ Goto(c, "launch")
       ELSE Goto(c, "meta") /\ UNCHANGED fn
  /\ UNCHANGED <<req, paramVars, devVars, cacheVars, funcName, crashed>>

(* Faulty variant: no fallback to the name in the request. *)
LookupMeta_NoFallback(c) ==
  /\ pc[c] = "meta"
  /\ cacheLock = Nobody
  /\ funcName' = [funcName EXCEPT ![c] = IF req[c].handle \in DOMAIN funcMeta
                                           THEN funcMeta[req[c].handle] ELSE None]
  /\ Goto(c, "lock")
  /\ UNCHANGED <<req, paramVars, devVars, cacheVars, seenMod, fn, crashed>>

(* Under a second read lock: the name recorded for the handle, or the      *)
(* request's.                                                              *)
LookupMeta(c) ==
  /\ pc[c] = "meta"
  /\ cacheLock = Nobody
  /\ funcName' = [funcName EXCEPT ![c] = IF req[c].handle \in DOMAIN funcMeta
                                           THEN funcMeta[req[c].handle] ELSE req[c].name]
  /\ Goto(c, "lock")
  /\ UNCHANGED <<req, paramVars, devVars, cacheVars, seenMod, fn, crashed>>

LockCache(c) ==
  /\ pc[c] = "lock"
  /\ cacheLock = Nobody
  /\ cacheLock' = c
  /\ Goto(c, "recheck")
  /\ UNCHANGED <<req, paramVars, devVars, funcCache, funcMeta, modCache, loads,
                 localVars, crashed>>

(* Faulty variant: the cache is not read again under the write lock. *)
Recheck_Skipped(c) ==
  /\ pc[c] = "recheck"
  /\ Goto(c, IF seenMod[c] = 0 THEN "load" ELSE "getfunc")
  /\ UNCHANGED <<req, paramVars, devVars, cacheVars, localVars, crashed>>

(* Under the write lock: another call may have cached the function.        *)
Recheck(c) ==
  /\ pc[c] = "recheck"
  /\ IF Cached(c)
       THEN /\ fn' = [fn EXCEPT ![c] = funcCache[req[c].handle]]
            /\ cacheLock' = Nobody
            /\ Goto(c, "launch")
       ELSE /\ Goto(c, IF seenMod[c] = 0 THEN "load" ELSE "getfunc")
            /\ UNCHANGED <<fn, cacheLock>>
  /\ UNCHANGED <<req, paramVars, devVars, funcCache, funcMeta, modCache, loads,
                 seenMod, funcName, crashed>>

(* cuda.ModuleLoad, when the module was not there at the first look *)
LoadModule(c) ==
  /\ pc[c] = "load"
  /\ \/ /\ loads' = loads + 1
        /\ modCache' = loads + 1
        /\ seenMod' = [seenMod EXCEPT ![c] = loads + 1]
        /\ Goto(c, "getfunc")
        /\ UNCHANGED cacheLock
     \/ /\ cacheLock' = Nobody
        /\ Goto(c, "free")
        /\ UNCHANGED <<loads, modCache, seenMod>>
  /\ UNCHANGED <<req, paramVars, devVars, funcCache, funcMeta, funcName, fn, crashed>>

(* Faulty variants: the name is not recorded; a failure keeps the lock. *)
GetFunction_NoMeta(c) ==
  /\ pc[c] = "getfunc"
  /\ cacheLock' = Nobody
  /\ \/ LET f == [mod |-> seenMod[c], name |-> funcName[c]]
            h == req[c].handle
        IN  /\ fn' = [fn EXCEPT ![c] = f]
            /\ funcCache' = [g \in DOMAIN funcCache \cup {h} |-> IF g = h THEN f ELSE funcCache[g]]
            /\ Goto(c, "launch")
     \/ Goto(c, "free") /\ UNCHANGED <<fn, funcCache>>
  /\ UNCHANGED <<req, paramVars, devVars, funcMeta, modCache, loads, seenMod, funcName, crashed>>

GetFunction_KeepsLock(c) ==
  /\ pc[c] = "getfunc"
  /\ \/ LET f == [mod |-> seenMod[c], name |-> funcName[c]]
            h == req[c].handle
        IN  /\ fn' = [fn EXCEPT ![c] = f]
            /\ funcCache' = [g \in DOMAIN funcCache \cup {h} |-> IF g = h THEN f ELSE funcCache[g]]
            /\ funcMeta' = [g \in DOMAIN funcMeta \cup {h} |-> IF g = h THEN funcName[c] ELSE funcMeta[g]]
            /\ cacheLock' = Nobody
            /\ Goto(c, "launch")
     \/ Goto(c, "free") /\ UNCHANGED <<fn, funcCache, funcMeta, cacheLock>>
  /\ UNCHANGED <<req, paramVars, devVars, modCache, loads, seenMod, funcName, crashed>>

(* module.GetFunction, and both caches; Unlock on every way out *)
GetFunction(c) ==
  /\ pc[c] = "getfunc"
  /\ cacheLock' = Nobody
  /\ \/ LET f == [mod |-> seenMod[c], name |-> funcName[c]]
            h == req[c].handle
        IN  /\ fn' = [fn EXCEPT ![c] = f]
            /\ funcCache' = [g \in DOMAIN funcCache \cup {h} |-> IF g = h THEN f ELSE funcCache[g]]
            /\ funcMeta' = [g \in DOMAIN funcMeta \cup {h} |-> IF g = h THEN funcName[c] ELSE funcMeta[g]]
            /\ Goto(c, "launch")
     \/ Goto(c, "free") /\ UNCHANGED <<fn, funcCache, funcMeta>>
  /\ UNCHANGED <<req, paramVars, devVars, modCache, loads, seenMod, funcName, crashed>>

-----------------------------------------------------------------------------
(* cuda.LaunchKernelEx, then the deferred cuda.Free either way *)
Launch(c) ==
  /\ pc[c] = "launch"
  /\ Goto(c, "free")
  /\ UNCHANGED <<req, paramVars, devVars, cacheVars, localVars, crashed>>

FreeParams(c) ==
  /\ pc[c] = "free"
  /\ Free(c)
  /\ Goto(c, "done")
  /\ UNCHANGED <<req, paramVars, cacheVars, localVars, crashed>>

Proceed(c) == \/ ParamGet(c) \/ ParamFill(c) \/ ParamMalloc(c) \/ ParamCopy(c)
              \/ LookupFunc(c) \/ LookupMeta(c) \/ LockCache(c) \/ Recheck(c)
              \/ LoadModule(c) \/ GetFunction(c) \/ Launch(c) \/ FreeParams(c)
Step(c) == cudaKernelLaunch(c) \/ Proceed(c)

Next == ~crashed /\ \E c \in Calls : Step(c)

Spec == Init /\ [][Next]_vars

(* The Go scheduler runs every call that can run; a waiting writer keeps   *)
(* later readers out of an RWMutex, so nobody waits for the lock for ever. *)
(* Calls need not arrive.                                                  *)
FairSpec == Spec /\ \A c \in Calls : SF_vars(~crashed /\ Proceed(c))

-----------------------------------------------------------------------------
(* Properties *)

TypeOK ==
  /\ pc \in [Calls -> Steps]
  /\ req \in [Calls -> Requests \cup {NoRequest}]
  /\ paramPool \subseteq HostBufs
  /\ hold \in [Calls -> HostBufs \cup {Nobody}]
  /\ buf \in [Calls -> HostBufs \cup Calls \cup {Nobody}]
  /\ mem \in [HostBufs \cup Calls -> [Bytes -> Calls \cup {Nobody}]]
  /\ DOMAIN dev \subseteq DevBufs
  /\ dev \in [DOMAIN dev -> [Bytes -> Calls \cup {Nobody}]]
  /\ dptr \in [Calls -> DevBufs \cup {Nobody}]
  /\ DOMAIN funcCache \subseteq Handles /\ funcCache \in [DOMAIN funcCache -> Functions]
  /\ DOMAIN funcMeta \subseteq Handles /\ funcMeta \in [DOMAIN funcMeta -> Names]
  /\ modCache \in Modules /\ loads \in Modules
  /\ seenMod \in [Calls -> Modules]
  /\ funcName \in [Calls -> Names \cup {None}]
  /\ fn \in [Calls -> Functions \cup {NoFn}]
  /\ cacheLock \in Calls \cup {Nobody}
  /\ crashed \in BOOLEAN

HasDevice == { c \in Calls : pc[c] \in {"copy", "lookup", "meta", "lock", "recheck",
                                        "load", "getfunc", "launch", "free"} }

(* Device memory allocated for parameters belongs to one call in progress: *)
(* every way out of cudaKernelLaunch frees it (main.go 383, 448), and no   *)
(* buffer is freed twice.                                                  *)
NoDeviceLeak ==
  /\ DOMAIN dev = { dptr[c] : c \in HasDevice }
  /\ \A c, d \in HasDevice : dptr[c] = dptr[d] => c = d
  /\ \A c \in Calls \ HasDevice : dptr[c] = Nobody

(* The bytes of the parameter buffer that some parameter covers *)
Covered(r) == { i \in 1..r.total : i <= offset(r.lens, Len(r.lens)) }

(* Whatever ParamBytes says, each byte a parameter covers reaches the      *)
(* device as the call's own request has it, although host buffers are      *)
(* pooled and reused between the filling and the copying of other calls    *)
(* (main.go 413-453).                                                      *)
DeviceParamsOwn ==
  \A c \in HasDevice : pc[c] # "copy" => \A i \in Covered(req[c]) : dev[dptr[c]][i] = c

(* "使用后重置并放回池中" (main.go 418): a pooled buffer is reset after use, so *)
(* that no kernel gets bytes of another request.  The code does not keep   *)
(* this: reset is the length, and ParamBytes may exceed the parameters.    *)
NoForeignBytes ==
  \A c \in HasDevice : pc[c] # "copy" =>
    \A i \in 1..req[c].total : dev[dptr[c]][i] \in {c, Nobody}

(* What the caches say of a handle agrees: a cached function has its name  *)
(* recorded and comes from a module that was loaded (main.go 507-508).     *)
CacheConsistent ==
  /\ DOMAIN funcMeta = DOMAIN funcCache
  /\ \A h \in DOMAIN funcCache : /\ funcMeta[h] = funcCache[h].name
                                 /\ funcCache[h].mod \in 1..loads
  /\ modCache = loads

(* All calls that name one handle launch one function, however they race   *)
(* for the cache: the second look under the write lock (main.go 483-486).  *)
SameFunction ==
  \A c, d \in Calls : fn[c] # NoFn /\ fn[d] # NoFn /\ req[c].handle = req[d].handle
                       => fn[c] = fn[d]

(* Every call that arrives ends, unless a panic takes the process down: no *)
(* way out of getCudaFunction keeps cacheLock (main.go 480-511).           *)
CallsEnd == \A c \in Calls : pc[c] # "start" ~> (pc[c] = "done" \/ crashed)

(* "检查模块缓存" (main.go 488): the module is loaded when the cache does not *)
(* have it, so once.                                                       *)
ModuleLoadedOnce == loads <= 1

(* "内核函数名" (kernel.capnp 18): the kernel that is launched is the one     *)
(* the request names.                                                      *)
RunsRequestedKernel ==
  \A c \in Calls : pc[c] = "launch" => fn[c].name = req[c].name
=============================================================================
