# Verification of GPU-over-IP-AC922

TLA+ models of the concurrent core of this repository, checked by TLC on small
instances and, for the properties that matter most, proved by TLAPS for every
value of the constants. Source paths below are relative to the repository root.

## 1. The system

A client process loads a DLL (`client/hook`) that intercepts CUDA calls. A
launcher on the client's host (`client/launcher`) chooses a server node for an
allocation and keeps the map from the fake pointers it gives out to remote
allocations. A server (`cmd/capnpserver`) runs on every NUMA node: it launches
kernels, and receives memory operations as UDP datagrams that it applies through
`pkg/numa`. A command line tool (`cmd/aitherion-cli`) sets up containers and
networks. Control messages are Cap'n Proto RPC, data is ZeroMQ over UDP or RDMA.

The repository does not build as it stands: some methods are called and never
defined, and declarations and uses disagree (`Dispatcher::PickNode` has one
parameter in `dispatcher.h` and two in `dispatcher.cpp`; `main.cpp` uses the
results of `LauncherClient` as promises while `launcher_client.cpp` waits for
them). The models follow the code that does the work: the handlers of `main.cpp`
and the definitions in `dispatcher.cpp`.

### Components

| Component | State | Operations | Interacts with |
|---|---|---|---|
| Data receiver (`cmd/capnpserver/main.go` 204-350) | ring, head, tail, `ringMutex`, `ringCond`, `msgPool` | receive, queue or drop, take, process, put back | senders over UDP; `RouteMemoryAccess` |
| Memory access (`pkg/numa/routing.go`) | none | local access through mmap, forwarding to another node | kernel, other nodes |
| Kernel launch (`main.go` 362-511) | `paramPool`, `funcCache`, `funcMeta`, `modCache`, `cacheLock`, device memory | prepare parameters, find function, launch, free | CUDA driver; concurrent RPC calls |
| Status, planning, prefetch (`main.go` 515-628) | `nodeStatus`, `prefetchCache` | periodic refresh and publication, choice of a node | GPU store, PUB socket |
| Server start and stop (`main.go` 631-783) | listener, connections | accept, shut down | all of the server |
| Launcher service (`client/launcher/main.cpp`) | requests in flight | requestAllocation, requestFree, planMemcpyHtoD | dispatcher, nodes, clients |
| Dispatcher (`dispatcher.cpp`) | `nodes` under `mutex`, `memory_map_` | LoadConfig, PickNode, GetNodeById, makeAllocationDecision | watcher and health threads |
| Cooling service (`services/cooling_service.cpp`) | access records | RecordAccess, periodic decay, queries | allocation decision, advice |
| Memory, transport, advise services | none | one RPC each | the managers behind them |
| Transports (`transport/`, `client/data_transfer`) | memory regions, sockets | send with retries and CRC, RDMA write, plank transfer | data receiver |
| Global memory table (`memory/global_memory.cpp`) | `ptr_table` | add, look up and count, remove, snapshot | services |
| CUDA hook (`client/hook`) | API mutex, function names | one per CUDA call | launcher, data transfer |
| aitherion-cli | interfaces, namespaces, containers of the host | start, configure, clean | docker, ip |
| NUMA discovery, topology, schemas | none | read the host, describe messages | |

What makes them hard, and what makes them correct:

* **Data receiver.** Five goroutines share the ring; buffers are recycled through
  a pool; `Signal` is sent outside the mutex; a panic in a worker ends the process.
  Correct: one goroutine at a time moves an index, a buffer has one owner, a
  datagram is dropped only when the ring is full and otherwise ends exactly once,
  within its own bytes, and no work stays queued beside sleeping workers.
* **Kernel launch.** Calls race for the caches between three lock sections, reuse
  each other's host buffers, and may fail after each acquisition. Correct: no
  device memory is leaked or freed twice, parameters are the call's own, the
  caches agree, one handle is one function, the lock is always released.
* **Launcher.** One event loop interleaves continuations of requests whose nodes may
  refuse, fail or disappear, while another thread reloads the node list.
  Correct: fake pointers and their mapping live and die together, what a client
  holds is alive on the node the map names, no remote memory is forgotten
  silently, every request is answered.
* **Cooling and allocation decision.** A worker thread ages records that other threads
  write, and reads its clock before it waits for their lock; a decision reads one
  record through several locked getters while it may change between them. Correct:
  data is hot only if it was used lately, records of idle data go away, `Stop`
  returns, the decision takes the first of the best nodes that have the memory.
* **Transports.** Resources of a device taken in order and given back on every error
  path, regions kept by address, a lock taken twice, messages handed over without a
  copy and retried. Correct: nothing is leaked or registered twice, the lock is
  released, one transfer is one message.
* **Global memory table.** A counter written under a shared lock, a snapshot read
  entry by entry. Correct: counts are lost to overlapping lookups only, and a
  snapshot is the table as it was at one moment.
* **CUDA hook.** One mutex over every intercepted call, held over a remote call and a
  receive without a timeout. Correct: the mutex is released unless one of the two
  waits, and the driver frees what the application frees.
* **Configuration watcher.** Polls a write time while the file is being written.
  Correct: the last whole file is loaded.
* **Command line tool.** Sequences of host commands that may stop half way and be
  repeated.

`PROJECT.json` lists the hazards line by line, with the properties that cover them.

## 2. The modules

| Module | Models |
|---|---|
| `DataQueue` | what the data receiver promises: a bounded FIFO queue |
| `DataReceiver` | `StartZMQReceiver`, `processMessage`, `RouteMemoryAccess` |
| `DataReceiver_proofs` | its theorems |
| `KernelLaunch` | `cudaKernelLaunch`, `prepareParamBuffer`, `getCudaFunction` |
| `KernelLaunch_proofs` | its theorems |
| `Launcher` | `RootService` and `Dispatcher`, with the reload of the configuration |
| `Launcher_proofs` | its theorems |
| `ConfigWatcher` | `main` and `ConfigWatcher`: when the configuration is loaded |
| `Cooling` | `CoolingService` |
| `Placement` | `makeAllocationDecision` and `CalculateNodeScore`, composed with `Cooling` |
| `Placement_proofs` | the theorems of both |
| `Rdma` | `RdmaTransport`, `PlankTransport::transferGpuBuffer`, `rdmaMemcpy` |
| `Rdma_proofs` | its theorems |
| `GlobalMemory` | `GlobalMemoryService` |
| `GlobalMemory_proofs` | its theorems |
| `Zmq` | `SendData`, `ReceiveData`, `ZmqTransport::Transfer` |
| `Hook` | `InstallHook` and the `Hooked_` functions, composed with `Zmq` |
| `Hook_proofs` | the theorems of both |
| `MCDataReceiver`, `MCKernelLaunch`, `MCLauncher`, `MCPlacement` | the values of the instances |
| `MCClientParts` | an instance of several parts that share no state |

Operators named `X_Variant` are faulty variants of the operator `X` that follows
them (a dropped guard, a missing reset, ...). Nothing uses them; they document,
and let a reader confirm, that each property fails when the code is wrong in a
way it is meant to catch (`mutants` in `PROJECT.json`).

### DataReceiver

`rpc` and `wpc` are the program counters of the receive loop and of each worker;
`rbuf` and `wbuf` their local `buf` and `msg`; `ring`, `head`, `tail` and
`ringMutex` the variables of the closure. A critical section is split at every
point where what was read is used later (lock, test, move), so that mutual
exclusion is a property and not an assumption. `ringCond.Wait` is one step
(`WorkerTest` joins the waiters as it unlocks) followed by `WorkerLock`;
`ringCond.Signal` is `RecvSignal`, outside the mutex, as in the code.

A datagram is its length, its operation and the size its header announces, the
three things the code branches on. `data` says what a buffer contains: two
owners of a buffer see the same contents. `PoolGet` returns any pooled buffer or
a new one and `PoolForget` is the garbage collector's right to empty a
`sync.Pool`. The outcomes of `accessViaXBus` include the panic of `&payload[0]`
on an empty payload; `crashed` then stops every goroutine. Whether an address is
local is the kernel's answer and is left open. `nrecv` and `outcome` are history.

### DataQueue and the refinement

`DataQueue` has a queue, a hand per worker, and the outcomes. `DataReceiver`
implements it under the mapping `DQ`: the queue is the slots from `tail` up to
`head` (`QueuedIds`), a worker's hand holds what it is parsing or routing
(`IdsInHand`), and a datagram counts as offered when the receive loop stores or drops
it (`LastOffered`). The capacity is `RingSize - 1`. TLC checks the refinement in
`data_queue`, and `RefinementCorrect` proves it.

### KernelLaunch

A call is a program counter, its request and its locals. The two read-lock
sections, the wait for the write lock, the second look, the module load and the
function lookup are separate steps, and `seenMod` is the value of `module` and
`moduleFound` read in the first section and used in the last. A byte is the call
that wrote it. `ParamBytes` need not be the sum of the parameters: `Covered` is the
part of the buffer that parameters write, of which `DeviceParamsOwn` says that it is the
call's own; what lies behind it is whatever the pooled buffer held (section 5). A
read-lock section is one step guarded by the absence of a writer. Malloc, copy, load, lookup and launch
may fail. A parameter offset past `ParamBytes` and an empty buffer panic.

### Launcher

`loop` is the client whose handler occupies the event loop. A handler runs to its
first wait, a continuation runs to its end, but for the lock of `mutex`, at which
the loop blocks while the watcher thread reloads. `PickNode` and `GetNodeById` return a
pointer into the node vector and release the mutex; what the handlers do with the pointer
comes in steps of its own (`SendAllocation`, `SendFree`, the second half of
`planMemcpyHtoD`, and `AllocationDone`, which uses it once more). `epoch` counts moves of the
vector: a pointer taken before a move (`Moved`) may read any node, or end the process
(`Crash`), and `dangled` remembers that one was used. A free sent through such a pointer
reaches a wrong node.

Locking a `std::mutex` twice in one thread is undefined; `RelockOutcomes` gives the
outcomes builds produce: it blocks, it throws, or, where the mutex records its owner and
only counts, it enters. `Rdma` has the same constant. `AddMapping`, `GetMapping` and
`RemoveMapping` are declared and used but not defined: they are the insertion,
lookup and removal their uses expect. A node is external: it allocates, refuses,
frees, fails to free, or its connection breaks before or after it acted.

`ClientAllocates`, `ClientFrees` and `ClientPlansCopy` are the launcher client of the hook. A
client frees a pointer it holds, a pointer that was never given out, and again any
pointer whose free ended in an error (`retry`), since its mapping is still there. Two frees
of one pointer are never under way at once: `g_api_mutex` lets a process make one call
at a time. `spent` are the mapped pointers whose allocation is gone, and `refreed` says that a
repeated free has hit a handle which its node had given out again. Which node
`PickNode` takes is left open here and is the subject of `Placement`.

### ConfigWatcher

`Launcher` lets a reload begin at any time; this module has the loop that decides
when. A write of the file begins and ends, and changes the file's time both times.
`LoadConfig` reads the file as it is when it holds the mutex, and the error of a half
written one is forgotten, so that only the next change of the time brings a reload.
`Relock` stands for the defect of `PickNode`, after which no reload ever ends.

### Cooling and Placement

Time is counted in ticks of the second, and each record keeps the ticks since its last
access. The code subtracts time points and truncates, so that two times `n` ticks apart may
count as `n` seconds or one less: data used a moment before the worker's clock may
stay hot although a tick lies between. `Durations` has both. `Run` looks at `running_`
(`RunChecks`), wakes and reads its clock (`RunWakes`), and gets the lock and cools every record (`RunPass`). `Tick` may come
between the last two, as may `RecordAccess`: the difference of the two times is then
negative, as it is in the code. The temperature is kept as the one thing that is
asked of it, whether it is above 0.8: it is 1.0 after every access and
`exp(-d)` after a pass `d` seconds later, so that a pass leaves it above 0.8 only
below a quarter of a second. The stability score is in millionths, with the
exponential given as a table of percentages.

`makeAllocationDecision` goes through the nodes in one step a round (`Considers`), with
the dispatcher's mutex, chooses (`Chooses`), and then asks `isHotData`, `getStability` and `getNumaId` in steps of their own, since
each takes and releases `data_mutex_`. `getMobility` is always 0: nothing writes
`mobility_count`. Scores are in thousandths, as integers.

### Rdma

A thread is in `RegisterMemory`, `Transfer` or `transferGpuBuffer`, with a step for
each acquisition that may fail. `m_memoryRegions` says for each address whether it has
no region, one made for the buffer that is there now, or one left by a buffer that
was freed: the code keys regions by address and never removes one before `Cleanup`.
`m_mutex` is locked again by the same thread when `Transfer` finds no region; the
second lock blocks, throws (`threw` remembers the host buffer that is then never freed)
or enters, and the region is then registered under the mutex already held
(`TransferRegister`). `rdmaMemcpy` uses a device of its own and shares nothing with the rest.

### GlobalMemory

The exclusive sections are one step each. `GetMapping` reads and writes the counter in
two steps, because other lookups share the lock; `SaveSnapshot` reads entry by entry, and
truncates and writes its file in one step: a crash in the middle of it is not covered.
`lookups` and `overlapped` are history.

### Zmq and Hook

A transfer opens a context and a socket, connects or binds, makes a message, sends or
receives, and closes what it has opened. A message libzmq accepted is in `queued`
until its I/O thread sends it; `zmq_ctx_destroy` waits for that, `zmq_close` does
not. Another process on the host may bind the port and send to it. The hook holds
`g_api_mutex` over all of this and over the call of the launcher, which answers,
refuses, breaks (an exception) or, when the launcher's event loop is blocked, does
nothing. `hooked` says which driver functions are redirected; others reach the driver
directly. `functions` says which functions the application has and whether launches were
hooked when it got them; a launch of a function without a name is `refused`. An application
frees a pointer it holds once. libzmq seems to refuse `zmq_connect` on a socket of
type `ZMQ_DGRAM`, which the repository cannot decide; connecting may succeed
or fail in the model, and where it always fails the sending half never happens.

## 3. The runs

| Run | Instance | Shows |
|---|---|---|
| `data_queue` | 2 workers, 3 slots, 5 buffers, 4 datagrams | mutual exclusion, ownership, no idle worker, bounded overtaking, refinement of `DataQueue` |
| `data_live` | 2 workers, 2 slots, 3 datagrams that panic or are ill formed | nothing that fits a buffer is lost or processed twice, payload within the datagram, queued datagrams are finished, the receive loop returns |
| `kernel` | 2 calls, 2 handles, 6 requests, `ParamBytes` below, at and above the parameters | no leak, own parameters, consistent caches, every call ends |
| `kernel_module` | 2 equal calls | **violated**: the module is loaded twice |
| `kernel_name` | 2 calls without handles | **violated**: another kernel than the named one runs |
| `launcher` | 2 clients, 2 nodes, 2 cells, 1 reload, every outcome of a second lock | pointers, mappings and remote memory stay in step, through repeated frees and moved vectors as far as the two exceptions below |
| `launcher_live` | the same with 1 cell | every request is answered unless the second lock blocks or the process ends |
| `launcher_moved` | 2 clients, 1 reload | **violated**: a mapping names the wrong node |
| `launcher_relock` | 1 client | **violated**: an allocation is never answered |
| `placement` | 1 address, window of 1 s, pass every 2 s, lag of 1 s, counts to 3, lists of 2 and 3 nodes | hot data was used lately, the first best node; idle records go away, `Stop` returns |
| `client_parts` | RDMA: 2 threads, 2 addresses, 5 queues, every outcome of a second lock; table: 2 callers, 2 keys; watcher: 3 writes; hook: 2 threads, 2 pointers, 2 sizes, 3 tries, hooks that fail to install | regions tracked once, resources released, counts and snapshots, changes are loaded, what is received is never the process's own data, the driver follows the application, one message per transfer, both mutexes are released |
| `rdma_stale` | 1 thread, 1 address | **violated**: a buffer is sent through the region of an older one |

`launcher` does not say that what a client holds is always alive. `OwnedStaysLive` and
`RemoteAccounted` stop where a moved pointer was used (`dangled`), which `launcher_moved`
shows to be needed, and the first also where a repeated free has hit a handle in use again
(`refreed`; section 5). A datagram too large for a buffer is dropped before it has an
identity and is outside `NothingLost`.

Bounds. Three slots are the smallest ring with a partly filled state, wrapping
indices and a queue of two; four datagrams fill it, overflow it and empty it. Two
workers are enough for every race between workers, since the properties relate two
at a time; the proofs cover any number. Buffers are as many as owners, so the pool
is never the reason something cannot happen. Lengths lie below, at and above the
header and the buffer. Two calls meet in every order in the caches and pools; pooled
buffers of two bytes are smaller than, equal to and larger than what requests need.
Two clients, two cells and one handle per node make nodes reuse handles and
memory run out, and are needed for a repeated free to hit another pointer's allocation;
one cell is enough for liveness. A second reload adds only longer node lists. The datagrams
of `data_live` are the two kinds that end a process and that only a check keeps out; the
theorems cover every kind. Ages are not told
apart once they are past the window and the lag (an assumption of the module); counts
to 3 pass through growth, full frequency, decay and erasure; the lists of nodes hold
ties, a total of 0, exact fits and no fit. Records of different addresses do not
touch each other, so one address is enough for TLC, and the proofs cover any number.
Five completion queues let two transfers succeed and a third fail half way. Three
writes of the configuration overlap a look, a load and each other. `MCClientParts`
runs parts that share no state one at a time: `part` is chosen
at the start, and interleaving them would only multiply their states. Permutations of
buffers and of workers are a symmetry of `data_queue`, those of clients and of pointers of
`launcher`; liveness runs use none. Deadlock is not checked where the system may stop: the
receiver may fail to start or crash, all calls may be done, the event loop may block.

Fairness. The Go scheduler runs every goroutine that can run (weak fairness of
steps). A `sync.Mutex` goes to a goroutine that has waited for a millisecond
(starvation mode) and a waiting writer keeps later readers out of an `RWMutex`, so
lock steps are strongly fair. Receiving is not fair: peers need not send and errors
need not happen. `SendToRemoteNUMA`, to which a worker forwards, is not defined in the
repository and is assumed to return. The launcher's event loop serves its queue in order (strong
fairness of a client's steps), a node answers or its connection breaks, and a
reload ends; `AnsweredUnlessStuck` rests on all three, since no request has a timeout.
Clients owe nothing.
The cooling worker runs, time passes and `Stop` goes on once the worker has ended; nobody
need call anything. Threads of the RDMA transport run and the device completes what
was posted, with an error if need be: the poll loop has no other end, and whether a device
completes what was posted to a queue pair that cannot send (section 5) is its own
affair; no order among the waiters of a `std::mutex` is assumed, and none is needed
since the property asks for the release only. Threads of the hooked application run,
libzmq sends what it queued, a launcher that is not blocked answers or its connection
breaks; a datagram need never come. A write of the configuration that began ends.

The five violated runs are disagreements between the code and what the repository
says of it; `findings` in `PROJECT.json` quotes both.

## 4. The proofs

Every invariant and action property that a passing run checks, and the refinement of
`DataQueue`, is also a theorem: for any finite set of workers or calls, any threads,
clients, nodes and reloads, any ring of more than one slot, and any datagrams. The
assumptions are the named `ASSUME`s of the modules: numbers are numbers, a
placeholder (`NoPtr`, `Nobody`, ...) is not one of the things it stands in for, a
list of nodes is a list. TLC evaluates them on every instance.

Each theorem has one inductive invariant or, where that would be too large to read, one
built on another (`IInv`, then `LInv`, then `OInv`).

`DataReceiver_proofs`

* `TypeCorrect`, `MutexCorrect`, `OwnershipCorrect`. The invariant is
  `IInv = TypeOK /\ RingMutex /\ BufferOwnership`. Neither of the last two is
  inductive alone: that a store does not overwrite a live slot needs "not full"
  to hold until the store, which is `RingMutex`; and that a taken slot holds a buffer
  needs `BufferOwnership`. `LiveAfterStore` and `LiveAfterTake` say what moving an
  index does to the set of live slots, and carry the modular arithmetic.
* `WakeupCorrect`: `NoIdleWorker` is inductive relative to `IInv`. The lemmas
  `QueueLenFacts` and `ClaimingFacts` say how each step changes the two sides of
  the inequality; the argument is that a worker falls asleep only when the queue is
  empty, under the mutex, and a datagram is added only with a Signal to follow.
* `NothingLostCorrect`, `PayloadCorrect`. The invariant is
  `LInv = Distinct /\ Ahead /\ NothingLost`, relative to `IInv`: the datagrams in
  the ring and in hands are received ones, fit the buffer and differ from each other
  (`Distinct`), and datagrams not received yet have no outcome, while what is
  routed was found well formed (`Ahead`). `Distinct` needs `BufferOwnership`, so
  that copying a datagram changes no other.
* `OvertakenCorrect`. `OInv`, relative to the former two, says that the ring is in the
  order of reception and that what workers hold or have finished is older than all
  of it. `SlotsAfterStore` and `SlotsAfterTake` say what a step does to the positions.
* `RefinementCorrect`: the ring implements `DataQueue`. `StepKinds` sorts the steps into
  those that leave the mapped state alone and those that drop, store, take, end or
  panic; `StepImplements` gives the step of the queue for each. That a drop happens
  only when the queue is full, and that the datagram taken is its head, need `IInv`
  and `LInv`.

`KernelLaunch_proofs`

* `SameFunctionCorrect`, `CacheCorrect`. The invariant `CInv` adds to the two
  properties that the write lock is held exactly between `LockCache` and its
  release, that a call which went on after the second look has a handle that is not
  cached, and that a function in hand is the one cached for its handle. The
  second look is what makes the last one inductive.
* `LaunchTypeCorrect`. The one part of `TypeOK` that is not local is the bound on
  `loads`: `TInv` counts the calls past the load (`LoadsCounted`).
* `NoDeviceLeakCorrect`, `DeviceParamsCorrect`. `BInv` adds that a host buffer a call holds is
  not in the pool and nobody else's (`HostOwned`), and that what is to be copied is the
  call's own bytes wherever a parameter covers them (`Filled`), whatever `ParamBytes`
  says; nothing is claimed of the bytes behind. The length of the parameters is compared and never
  computed, so that nothing has to be known of the recursive `offset`.

`Launcher_proofs`

* `LauncherTypeCorrect`, `PointersCorrect`, `OwnedCorrect`, `RemoteCorrect`, for any outcome of
  the second lock. The invariant `LInv` adds to `PointersMapped` what a request in progress
  knows (`CallsKnow`: a freeing request names the allocation its pointer stands for),
  who has a claim on an allocation (`Live`: the pointers clients hold, have handed in or may
  free again, unless a node has freed what they stand for, and the replies on their
  way, are on different allocations, all live), and
  that a pointer a client holds is not one whose allocation is gone (`Unspent`).
  `OwnedStaysLive` is not inductive without these: a free may be answered after the
  node has reused the handle, and a repeated one may reach the node after that.
  `Accounted` does not let a mapping count whose free was answered: it is about to go.

`Placement_proofs`

* `HotCorrect`, `PlacementTypeCorrect`, `FirstBestCorrect`, for any window,
  interval, lag, number of addresses and list of nodes. The invariant `Inv` has the types,
  `HotIsRecent`, and that the target is the first best of the nodes the loop has seen
  (`BestSoFar`). `NodeScore` shows that a node with the memory scores above the -1 the loop
  starts with, from the assumption that the load is at most 200 percent: without it
  a node that fits could be refused. `CooledLemma` says what a pass makes of a record: it
  stays hot only if its age is at most one tick above the lag, which is what `sincePass`
  becomes. The tick is the truncation, and the case of a negative duration, in
  which the record keeps its temperature, is younger still.

`Rdma_proofs`

* `RegionsCorrect`, `ReleaseCorrect`, for any number of threads and addresses and any outcome
  of the second lock. Neither is inductive. The invariant `RInv` adds that `m_mutex` is held
  exactly by the thread between its lock and its return (`Sees`), that an address
  being registered, alone or inside a transfer, has no region, and that a host buffer
  belongs to one call (`HostsOK`). `QuietStep` covers every step that changes no buffer
  and no region; the others have a lemma each.
* `ReleaseOrderCorrect`, of `rdmaMemcpy`: it has taken the first `m` resources of `Order`, or has
  the first `m` of them still to release (`CopyInv`).

`GlobalMemory_proofs`

* `LookupsCorrect`, and the action property `SnapshotCorrect`, for any number of callers
  and mappings. The invariant `GInv` says what a caller that shares the mutex may rely on:
  a lookup has read a count that is one behind the lookups, or below, and still
  current unless the mapping counts as overlapped (`LookupOK`); what a snapshot has
  read is still in the table (`SnapshotOK`); two lookups in one mapping make it
  overlapped (`AloneOK`).

`Hook_proofs`

* `TransportQueuedOnce`, for any threads in `ZmqTransport::Transfer`. `ZInv` says what a
  transfer has opened and sent where it stands (`Fine`), that a message of `SendData`
  keeps its context open (`Sending`), and a bound port its socket (`Bound`). A
  message that a returned call leaves in the queue is then one of `Transfer`, because
  `zmq_ctx_destroy` waits for those of `SendData`.
* `HookQueuedOnce`, `OwnDataCorrect`, `FreedCorrect`, for any number of threads,
  pointers and functions and any hooks that fail to install. `HInv` adds that a call
  under way holds `g_api_mutex` and only it has a transfer (`Locked`), that every
  datagram at the port is another process's (`Outside`), that no function's name is known
  (`Nameless`), so that no launch takes the mutex, and that a pointer is in one place (`Pointers`). `Outside` is where the
  argument lies: a datagram of the process is sent only while a `SendData` is under
  way, no `ReceiveData` is then bound, and so it goes nowhere.

Left to TLC: the liveness properties (`QueuedIsFinished`, `ReceiverReturns`,
`CallsEnd`, `AnsweredUnlessStuck`, `StopEnds`, `IdleForgotten`,
`ReleasedUnlessRelocked`, `ChangesLoaded`, `HeldUnlessStuck`), whose fairness the prover
does not handle. `ConfigWatcher` has only such a property and is model-checked only. What
the recursive `offset` computes for every list is out of the prover's reach; no
theorem needs it.

## 5. What was seen and has no run

Reading the code for the models showed these; some are outside what a model of
this code can decide, the others follow from a line or two. Four are stated in the
modules, as what the repository promises, and TLC refutes each when it takes the place of
the properties of the configuration named.

* `NoForeignBytes` (`KernelLaunch.cfg`): a pooled parameter buffer is "reset" (`main.go` 418) in
  its length only, so that a request whose `ParamBytes` exceeds its parameters sends
  bytes of an earlier request to its kernel.
* `OwnedIsLive` without any reload (`Launcher.cfg`, `MaxReloads = 0`): a free whose connection
  breaks keeps its mapping although the node may have freed (`main.cpp` 87-89); repeated, it
  frees what the node has since allocated for another pointer.
* `StableZoneFills` (`Placement.cfg`): `pattern_factor` is the constant 0.5, so no stability
  score is above 0.5 while `cooling_service.h` 41 has it go to 1.0, and the branches for stable data
  (`dispatcher.cpp` 136, `README.md` 298) are never taken.
* `LaunchesForwarded` (`ClientParts.cfg`): `InstallHook` does not redirect `cuModuleGetFunction`,
  which alone learns the names, so every hooked launch is refused (`hook_cuda.cpp` 128), while
  `README.md` 283 has the hook intercept CUDA calls.
* `RdmaTransport::Transfer` creates two completion queues per call and destroys none
  (they go with the device, `rdma_transport.cpp` 87-88); the queue pair is never moved to a
  state in which verbs allow sending; after a failed poll `wc` is read uninitialised.
* `transferGpuBuffer` always sends a new buffer, so `Transfer` either locks twice or
  uses the region of an older buffer at the address (`rdma_stale`).
* `ZmqTransport::Transfer` frees its packet when it returns while libzmq may still
  hold it (`zmq_transport.cpp` 81-82): the first conjunct of `QueuedOnce` allows exactly this.
* A packet has a CRC at its end and no header, while the data receiver expects a header
  of 32 bytes and no CRC; `README.md` 242 speaks of a CRC check that no reader makes.
* The hook frees with the driver's pointer, the launcher expects the fake one it gave
  out; `RootService` does not implement the two plan requests the hook calls.
* A configuration written between `main`'s load and the watcher's first look is not
  loaded, and the error of a load is forgotten (`ConfigWatcher`: `firstSeen`).
* `CoolingService::Start` and `RecordAccess` are called by nobody; the dispatcher asks
  `Instance()` while `main` makes an object of its own. Models show what the service
  does when it is used.
* `README.md` 117 announces automatic reconnection; no code reconnects.

## 6. Not modelled

* Cap'n Proto schemas and the code generated from them: 25 thousand of the 27 thousand lines
  of implementation. They serialise messages and have no behaviour of their own, so
  the share of all lines that the models cover stays small however much of the
  hand-written code they cover.
* Advise, memory and transport services: they call methods that no header
  declares (`CoolingService`) or managers that are not defined (`GlobalMemoryManager`,
  `TransportManager`).
* Status monitor, planning and prefetch of the server: counters that are printed, and
  `allocateUdpPort`, `notifyNodeForTransfer`, `fetchDataToCache`, which are not defined;
  `PerformHealthCheck` of the launcher neither, nor the packages `pkg/net` and `pkg/gpu`.
* Server start and accept loop, command line tool, NUMA discovery and binding, topology
  generation: input and output, and commands whose effect on the host is not in the
  repository.
* Bytes are abstracted to identities everywhere; overflow matters in none of the
  modelled code, whose integers are indices, counts and lengths far below their width.

## 7. Plan

Done, in order of weight: `DataReceiver` with `DataQueue`; `KernelLaunch`; `Launcher`;
`Cooling` with `Placement`; `Zmq` with `Hook`; `Rdma` and `GlobalMemory`; `ConfigWatcher`. The
invariants, action properties and the refinement of all of them are proved.

Left: a property of the exempted cases of `LookupsCounted` and `FreedUnlessThrown`, should the
repository come to say what it expects of them; safety lemmas on which the liveness properties rest, where they say something of
their own (that the loop of the launcher is held only by a request that can go on, that a
configuration watcher never believes it has loaded a file it has not), stated as
invariants, checked and proved.
