-------------------------------- MODULE Hook --------------------------------
(***************************************************************************)
(* The CUDA hook (client/hook): InstallHook redirects five driver          *)
(* functions to Hooked_... functions, which hold g_api_mutex from start to *)
(* end, over a call of the launcher and over the transfers of Zmq.  The    *)
(* threads are those of one application process.  The driver and the       *)
(* launcher are external.                                                  *)
(***************************************************************************)
EXTENDS Zmq

CONSTANTS Ptrs, Functions, \* device pointers and functions of the driver
          FailedHooks,     \* hooks that cannot be installed: a set of sets
          NoPtr

ASSUME HookAssumption == NoPtr \notin Ptrs

VARIABLES g_api_mutex,     \* its holder
          hooked,          \* driver functions that are redirected
          g_function_name_map, \* functions whose name is known
          functions,       \* function -> whether the application has it: "none",
                           \* or got while launches were "hooked" or "unhooked"
          owned, driver,   \* pointers: held by the application, by the driver
          thrown,          \* pointers whose cuMemFree threw
          call,            \* the hooked call of each thread
          refused,         \* functions a launch of which was refused
          launcher         \* "answers" or "blocked"

hookVars == <<g_api_mutex, hooked, g_function_name_map, functions, owned, driver, thrown,
              call, refused, launcher>>

NoCall == [fn |-> "none", pc |-> "idle", ptr |-> NoPtr]

HookInit ==
  /\ g_api_mutex = NoThread /\ hooked = {}
  /\ g_function_name_map = {} /\ functions = [f \in Functions |-> "none"]
  /\ owned = {} /\ driver = {} /\ thrown = {}
  /\ call = [t \in Threads |-> NoCall]
  /\ refused = {} /\ launcher = "answers"

-----------------------------------------------------------------------------
(* The table of InstallHook *)
Hooks ==
  {"cuMemAlloc_v2", "cuMemFree_v2", "cuMemcpyHtoD_v2", "cuMemcpyDtoH_v2", "cuLaunchKernel"}

InstallHook ==
  /\ hooked = {}
  /\ \E failed \in FailedHooks : hooked' = Hooks \ failed
  /\ UNCHANGED <<g_api_mutex, g_function_name_map, functions, owned, driver, thrown, call,
                 refused, launcher, zmqVars>>

UninstallHook ==
  /\ hooked # {} /\ hooked' = {}
  /\ UNCHANGED <<g_api_mutex, g_function_name_map, functions, owned, driver, thrown, call,
                 refused, launcher, zmqVars>>

(* A hooked function is entered with the mutex and left without it. *)
Enter(t, fn, pc, p) ==
  /\ call[t].pc = "idle" /\ fn \in hooked
  /\ g_api_mutex = NoThread /\ g_api_mutex' = t
  /\ call' = [call EXCEPT ![t] = [fn |-> fn, pc |-> pc, ptr |-> p]]
Leave(t) == g_api_mutex' = NoThread /\ call' = [call EXCEPT ![t] = NoCall]

(* cuModuleGetFunction keeps the name of the function, when it is hooked. *)
cuModuleGetFunction(f) ==
  /\ functions[f] = "none"
  /\ functions' = [functions EXCEPT ![f] = IF "cuLaunchKernel" \in hooked THEN "hooked" ELSE "unhooked"]
  /\ IF "cuModuleGetFunction" \in hooked
     THEN g_api_mutex = NoThread /\ g_function_name_map' = g_function_name_map \cup {f}
     ELSE UNCHANGED g_function_name_map
  /\ UNCHANGED <<g_api_mutex, hooked, owned, driver, thrown, call, refused, launcher, zmqVars>>

(* A function without a name is CUDA_ERROR_INVALID_HANDLE. *)
Hooked_cuLaunchKernel(t, f) ==
  /\ functions[f] # "none"
  /\ IF f \in g_function_name_map
     THEN Enter(t, "cuLaunchKernel", "rpc", NoPtr) /\ UNCHANGED refused
     ELSE /\ "cuLaunchKernel" \in hooked /\ call[t].pc = "idle" /\ g_api_mutex = NoThread
          /\ refused' = refused \cup {f} /\ UNCHANGED <<g_api_mutex, call>>
  /\ UNCHANGED <<hooked, g_function_name_map, functions, owned, driver, thrown, launcher, zmqVars>>

-----------------------------------------------------------------------------
(* Allocation and free: the launcher is asked, then the driver is called,  *)
(* whatever the launcher answered; a call that throws ends there.  The     *)
(* faulty variant gives up when the launcher refuses.                      *)
Hooked_cuMemAlloc(t) ==
  /\ Enter(t, "cuMemAlloc_v2", "rpc", NoPtr)
  /\ UNCHANGED <<hooked, g_function_name_map, functions, owned, driver, thrown, refused,
                 launcher, zmqVars>>

Hooked_cuMemFree(t, p) ==
  /\ p \in owned /\ owned' = owned \ {p}
  /\ Enter(t, "cuMemFree_v2", "rpc", p)
  /\ UNCHANGED <<hooked, g_function_name_map, functions, driver, thrown, refused, launcher,
                 zmqVars>>

Answered_OrGivesUp(t) == /\ \/ Leave(t)
                            \/ call' = [call EXCEPT ![t].pc = "driver"] /\ UNCHANGED g_api_mutex
                         /\ UNCHANGED thrown
Answered(t) ==
  /\ IF call[t].fn = "cuLaunchKernel" THEN Leave(t)
     ELSE call' = [call EXCEPT ![t].pc = "driver"] /\ UNCHANGED g_api_mutex
  /\ UNCHANGED thrown

Throws(t) ==
  /\ thrown' = IF call[t].fn = "cuMemFree_v2" THEN thrown \cup {call[t].ptr} ELSE thrown
  /\ Leave(t)

Rpc(t) ==
  /\ call[t].pc = "rpc" /\ launcher = "answers"
  /\ Answered(t) \/ Throws(t)
  /\ UNCHANGED <<hooked, g_function_name_map, functions, owned, driver, refused, launcher, zmqVars>>

LauncherBlocks ==
  /\ launcher = "answers" /\ launcher' = "blocked"
  /\ UNCHANGED <<g_api_mutex, hooked, g_function_name_map, functions, owned, driver, thrown,
                 call, refused, zmqVars>>

(* The driver, called by the hook or directly *)
DriverAllocates(p) == p \notin driver /\ driver' = driver \cup {p} /\ owned' = owned \cup {p}

Original(t) ==
  /\ call[t].pc = "driver"
  /\ \/ call[t].fn = "cuMemAlloc_v2" /\ \E p \in Ptrs : DriverAllocates(p)
     \/ call[t].fn = "cuMemAlloc_v2" /\ UNCHANGED <<driver, owned>>
     \/ call[t].fn = "cuMemFree_v2" /\ driver' = driver \ {call[t].ptr} /\ UNCHANGED owned
  /\ Leave(t)
  /\ UNCHANGED <<hooked, g_function_name_map, functions, thrown, refused, launcher, zmqVars>>

Unhooked(p) ==
  /\ \/ "cuMemAlloc_v2" \notin hooked /\ DriverAllocates(p)
     \/ /\ "cuMemFree_v2" \notin hooked /\ p \in owned
        /\ owned' = owned \ {p} /\ driver' = driver \ {p}
  /\ UNCHANGED <<g_api_mutex, hooked, g_function_name_map, functions, thrown, call, refused,
                 launcher, zmqVars>>

-----------------------------------------------------------------------------
(* The copies are transfers to and from 127.0.0.1:5555.  The faulty variant *)
(* of the first has lost its lock_guard.                                   *)
Hooked_cuMemcpyHtoD_NoLock(t, size) ==
  /\ call[t].pc = "idle" /\ "cuMemcpyHtoD_v2" \in hooked
  /\ call' = [call EXCEPT ![t] = [fn |-> "cuMemcpyHtoD_v2", pc |-> "xfer", ptr |-> NoPtr]]
  /\ SendData(t, size)
  /\ UNCHANGED <<g_api_mutex, hooked, g_function_name_map, functions, owned, driver, thrown,
                 refused, launcher, port, inbox, queued>>

Hooked_cuMemcpyHtoD(t, size) ==
  /\ Enter(t, "cuMemcpyHtoD_v2", "xfer", NoPtr) /\ SendData(t, size)
  /\ UNCHANGED <<hooked, g_function_name_map, functions, owned, driver, thrown, refused,
                 launcher, port, inbox, queued>>

Hooked_cuMemcpyDtoH(t, size) ==
  /\ Enter(t, "cuMemcpyDtoH_v2", "xfer", NoPtr) /\ ReceiveData(t, size)
  /\ UNCHANGED <<hooked, g_function_name_map, functions, owned, driver, thrown, refused,
                 launcher, port, inbox, queued>>

CopyReturns(t) ==
  /\ call[t].pc = "xfer" /\ Return(t) /\ Leave(t)
  /\ UNCHANGED <<hooked, g_function_name_map, functions, owned, driver, thrown, refused, launcher>>

-----------------------------------------------------------------------------
HookStep(t) == Rpc(t) \/ Original(t) \/ CopyReturns(t) \/ (ZmqStep(t) /\ UNCHANGED hookVars)

HookNext ==
  \/ InstallHook \/ UninstallHook \/ LauncherBlocks
  \/ \E f \in Functions : cuModuleGetFunction(f)
  \/ \E p \in Ptrs : Unhooked(p)
  \/ \E t \in Threads :
       \/ HookStep(t) \/ Hooked_cuMemAlloc(t)
       \/ \E f \in Functions : Hooked_cuLaunchKernel(t, f)
       \/ \E p \in Ptrs : Hooked_cuMemFree(t, p)
       \/ \E s \in Sizes : Hooked_cuMemcpyHtoD(t, s) \/ Hooked_cuMemcpyDtoH(t, s)
       \/ ReceiveFails(t) /\ UNCHANGED hookVars
  \/ (IoThread \/ OtherSends \/ OtherBinds) /\ UNCHANGED hookVars

vars == <<hookVars, zmqVars>>

HookSpec == HookInit /\ ZmqInit /\ [][HookNext]_vars

(* Threads run, libzmq sends, and a launcher that is not blocked answers or *)
(* the connection breaks.  Nobody need send a datagram.                    *)
HookFair == WF_vars(IoThread /\ UNCHANGED hookVars) /\ \A t \in Threads : WF_vars(HookStep(t))

-----------------------------------------------------------------------------
(* Properties *)

(* cuMemcpyDtoH never gives the application data it copied to the device:  *)
(* what it takes was sent by another process on the host.  It reads the    *)
(* port cuMemcpyHtoD writes to, but g_api_mutex keeps the two apart and    *)
(* nothing is under way between them (hook_cuda.cpp 87-105).               *)
OwnDataNeverReceived ==
  \A t \in Threads : xfer[t].from \in {NoThread, OtherProcess}

(* What the application has freed, and only that, the driver frees, unless *)
(* the call of the launcher threw: then the driver was never called        *)
(* (hook_cuda.cpp 74-80).                                                  *)
FreedUnlessThrown ==
  driver = owned \cup thrown \cup { call[t].ptr : t \in { u \in Threads : call[u].fn = "cuMemFree_v2" } }

(* The hook intercepts CUDA calls (README.md 283): a function which the     *)
(* application got while launches were hooked can be launched through it.  *)
(* The code does not keep this: Hooks lacks cuModuleGetFunction.           *)
LaunchesForwarded == \A f \in refused : functions[f] # "hooked"

(* g_api_mutex is released, and other CUDA calls go on, unless a copy from *)
(* the device waits for a datagram or the launcher never answers           *)
(* (hook_cuda.cpp 58-112).                                                 *)
HeldUnlessStuck ==
  g_api_mutex # NoThread ~> \/ g_api_mutex = NoThread \/ launcher = "blocked"
                            \/ \E t \in Threads : At(t, "receive")
=============================================================================
