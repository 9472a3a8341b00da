# A TLA+ model of vSoC's device transport, shared memory and devices

vSoC is QEMU plus a family of paravirtual devices ("express" devices). A guest
driver sends *calls* over a virtqueue; the host distributes them to one thread
per device context, runs them, and returns them. Devices *interrupt* the guest
with calls it has lent them, and share *gbuffers* (graphic buffers), whose
contents are moved by asynchronous transfers and ordered by *sync ids*. This
directory models that machinery and four devices on top of it, checks it with
TLC on small instances and proves the most important parts with TLAPS for every
value of the constants.

Contents: inventory of the system, modules, runs, fairness, proofs, behaviours
worth knowing, what is not modelled.

## 1. Inventory

| Part | State | Operations | What is hard about it |
|---|---|---|---|
| Call ring, `express_handle_thread.c` | `call_buf`, `read_loc`, `write_loc`, one event | `call_push`, `call_pop`, `handle_thread_run`, end of a context | no lock; one auto-reset event for "not empty" and "not full"; the consumer frees the ring |
| Recycle queue, `teleport_express_distribute.c`, `teleport_express_register.c` | array, `header`, `tail` | `push_free_callback` (many threads), dequeue (one thread) | lock-free enqueue, plain stores by the dequeuer, a tail that may lag |
| Life of a call, the same files | rings and recycle queue together | pack, push, handle, callback, recycle | the thread that fills the rings also empties the recycle queue, and runs some callbacks itself |
| Distribution, `teleport_express.c`, `teleport_express_distribute.c` | three-valued lock, `distribute_thread_run` | kick handler, `call_distribute_thread` | two threads on one virtqueue, handing over by compare-and-swap, ignored kicks, batched notifications |
| Packing, `teleport_express_call.c` | `packaging_call`, `remain_elem_num` | `pack_call_from_queue` | elements arrive one by one; resumption; malformed sequences |
| Guest memory, `teleport_express_call.c` | scatter list | `host_guest_buffer_exchange` | parts that cross or touch segment boundaries |
| Cache of calls, `teleport_express_call.c` | flags, arrays, `remain_num` | `get_one_cache`, `release_one_cache` | slots taken without a lock while the table grows |
| Interrupts and input queue, `teleport_express_register.c` | `irq_call`, `register_input_vq_locker`, a recycle queue of its own | register, release, `set_express_device_irq`, input thread | a pointer exchanged by three parties, a mark for "released meanwhile", a queue filled without a lock |
| Clusters, `express_device_ctrl.c` | cursor in the words | `cluster_decode_invoke` | truncated (words are read before the test), nested, null; released exactly once |
| Events, `express_event.c` | bit, mutex, condition variable | `set_event`, `reset_event`, `wait_event` | timeout against signal, invalid deadlines |
| Sync ids, `express_sync.c` | bitmap shared with the guest, GL fences | `signal_express_sync`, `wait_for_express_sync` | many ids in one word, one event for all waiters, ids are reused |
| Transfers, `express_mem.c`, `express_mem_worker.c` | task queue, gbuffer map | `mem_transfer_async`, workers | error paths that skip the signal, gbuffers destroyed by the guest |
| Data flows, `express_mem.c` | tables of flows, gbuffer to flow | usage updates | flows are shared, tables are bounded |
| Video decoder, `dcodec_component.c`, `dcodec_vdec.c` | buffer queues, status, FFmpeg's decoder, callback ring in guest memory | `dcodec_process_buffers`, commands, `dcodec_notify_guest`, `fill_one_output_buffer` | one thread for everything, transfers that answer for it, flush and reset under way, a ring that fills up |
| Composer and window, `express_display.c`, `express_gpu_render.c` | two gbuffers with spin locks, `main_display_gbuffer`, event queue | commit and present, window thread, start and shutdown | a pointer read twice; draw and paint at once; refresh requests that cross |
| Touchscreen, `express_touchscreen.c`, `express_keyboard.c` | fingers and who holds them, records | mouse, wheel, touches, records and replays, `sync_express_touchscreen_input` | five kinds of holders of one pool; a reset of all; updates without an irq call |
| Network bridge, `express_bridge.c` | context, ring and accept slot in guest memory | `bridge_read_host_thread`, `bridge_accept_host_thread`, BIND, CONNECT, register, remove | written while the guest reads; wraps; one irq call; a join by the distributor |

The remaining parts (EGL, GL translation, encoder and audio, camera, sensors,
modem, QEMU itself) are in section 7 and, with the reason, in `PROJECT.json`.

How the parts meet: the kick handler or the distributing thread *packs* a call
(PackCall, from cached structures: CallCache), *pushes* it to a ring (CallRing),
a handling thread runs it, perhaps taking a *cluster* apart (ClusterDecode), and
its callback puts it on the *recycle queue* (RecycleQueue), from which the
distributing side returns it and *notifies* the guest (Distribute). CallLife
composes this way from the ring, as the queue it is shown to be, and the recycle
queue in full; CallRingEvent composes the ring with the *event* it sleeps on
(ExpressEvent). Devices *interrupt* with a call the guest has lent them
(DeviceIrq); the touchscreen (TouchInput, from Touchscreen) and the bridge
(Bridge) are built on it. A device that has finished with a gbuffer signals its
*sync id* (ExpressSync), directly or at the end of a *transfer* (MemTransfer),
which the decoder (Codec) is built on; each use of a gbuffer feeds the *flow*
prediction (Dataflow), and the composer's two gbuffers go to the window
(Display).

## 2. Modules

State variables and actions carry the names of the code; an action stands for
one access to shared state and the thread-local work around it, so that every
interleaving two threads can produce is a behaviour. Three modules take larger
steps: a turn of the distributor on sets of calls (`Distribute`), a callback of
the window thread (`Touchscreen`), and the tracking of one use of a gbuffer
(`Dataflow`). The first two are run by one thread at a time; the third is not: the
code updates flows from several threads without a lock, and what two updates at
the same time do to the tables is not modelled. Thread-local variables are
reset when a function returns. `PROJECT.json` maps each definition to lines.

| Module | Models | Remarks |
|---|---|---|
| `CallFifo` | abstract bounded FIFO queue | specification of the ring |
| `CallRing` | `call_push`, `call_pop`, `handle_thread_run`, `push_to_thread` | refines `CallFifo`; stores reach the other thread in program order |
| `CallRingEvent` | the ring on its event | every `wait_event` and `set_event` of `CallRing` in the steps of `ExpressEvent`; refines `CallFifo` and `AutoResetEvent` |
| `RecycleQueue` | `push_free_callback`, dequeuer | history variable `overlap`: two callbacks have overlapped |
| `CallService` | abstract service: calls served in order, each once, returned once | specification of the way of a call |
| `CallLife` | the way of a call | extends `RecycleQueue`; rings are bounded FIFO queues; refines `CallService`. `RoomAssumption`: a virtqueue has 1024 descriptors, and ring, recycle queue and hands hold more |
| `Distribute` | kick handler V, distributing thread D | one turn of `virtqueue_data_distribute_and_recycle` is one action on sets of calls. History variable `raced`: D went on without the lock |
| `DeviceIrq` | irq call of one device, its recycle queue, input handler and input thread | a slot of the queue is known by its distance from the header; taking a call out is one step, since only the thread with the locker looks at the header. History variable `robbed`: an interrupt took the mark of a release. `Stranded`: a call lies behind the header |
| `Touchscreen` | fingers, holders, records | one thread, so a callback is one step; `stray`: why a finger may be shared or lost |
| `TouchInput` | the way of a touch to the guest | extends `DeviceIrq` and `Touchscreen`; `change` follows one change of the screen |
| `Bridge` | both host threads of the bridge, its commands | extends `DeviceIrq`; bytes and connections are numbered modulo 2, enough to see one lost, doubled or overtaken |
| `AutoResetEvent` | abstract atomic event: a wait takes the bit, runs out of time or fails | specification of the event |
| `EventConstants`, `EventBit`, `ExpressEvent` | POSIX event | refines `AutoResetEvent`; deadlines are sums of microseconds and milliseconds, not carried; the bit `signal_state` is also that of `CallRing` |
| `PackCall` | `pack_call_from_queue` | all streams of elements, also ill-formed ones |
| `GuestMem` | scatter copy | the list of places that stand for the host bytes, used for both directions |
| `ClusterDecode` | `cluster_decode_invoke` | words in one segment or cut at pages, copied with `GuestMem`; `Beyond`: what may lie behind them; place "overrun": more parameters than `MAX_PARA_NUM` (32 in the code), where the model ends |
| `ExpressSync` | `express_sync.c` | ids of one word of the bitmap; history variable `ended`: fences a finished wait has waited for |
| `MemTransfer` | transfers, uploads, decoder output | history variables: `stuck`, buffers of failed or refused transfers; `lost`, frames nobody will free, counted up to `MaxLost` |
| `Codec` | decoder component, FFmpeg as it is used, callback ring | extends `MemTransfer`, whose signals and returns become callbacks |
| `Dataflow` | flow tables | `crashed`: a NULL flow was used, by an update or a prediction |
| `CallCache` | allocator of calls and `Guest_Mem` | growth statement by statement |
| `Display` | composer C, window thread M, start and shutdown of the window | `frame`: how far the oldest unshown frame is; `strayed`: M painted another gbuffer than it locked |

`MC<Module>` and `MC<Module>.cfg` instantiate a module for TLC. Three of them hold
several modules, of which an initial state chooses one: `MCInput` (`TouchInput`,
`Bridge`), `MCCallPath` (`PackCall`, `CallCache`, `Distribute`, `ClusterDecode`) and
`MCGraphics` (`Display`, `Dataflow`). Three further configurations are for
violated properties: `MCFence.cfg` of `MCExpressSync`, `MCFlowFull.cfg` and
`MCFlowMove.cfg` of `Dataflow`. The theorems are in `CallRingProofs` (`ExpressEvent`,
`CallRing`, `CallRingEvent`), `CallLifeProofs` (`RecycleQueue`, `CallLife`),
`TeleportProofs` (`Distribute`, `PackCall`, `Dataflow`), `SharingProofs`
(`CallCache`, `Display`, `ExpressSync`), `InputProofs` (`DeviceIrq`, `TouchInput`,
`Bridge`), `TouchProofs` (`Touchscreen` in `TouchInput`), `CodecProofs`
(`MemTransfer`, `Codec`) and `AnswerProofs` (`Codec`). Operators with "Mutant" in
their comment are wrong variants of the definition that follows them; no
specification uses them. They exist so that each property can be seen to fail
when the code is changed the way they say.

## 3. Runs

| Run | Instance | Checks |
|---|---|---|
| `call_ring` | `CallRingEvent`: 2 calls, ring of 2 (1 usable slot), failing waits, valid and invalid deadlines | `ImplementsFifo`: the ring is a bounded FIFO queue. `ImplementsEvent`: each wait of its event takes the bit, runs out of time or fails, in one step, and only the first clears it. `FreedContextIsDrained`: H frees the context only when no call is left and D is done with it but for the last signal. `SignalIsTaken`: a raised bit with a waiter is taken. `QueuedCallIsHandled`: a queued call is handled unless both threads sleep with the ring full |
| `call_ring_lost_wakeup` | `CallRing`: 3 calls, ring of 3, waits do not fail | `PopWakesUp` is **violated**, see section 6 |
| `event_result` | `ExpressEvent`: 2 waiters, 1 setter | `ResultTellsTimeout` is **violated** |
| `call_life` | 5 calls, the distributor, one handler, recycle queue of 3, ring of 2 | `EachCallInOnePlace`: no call lost or doubled. `QueueFitsOneHandler`: no callback finds the recycle queue full, which the comment on its size promises, for one handler and callbacks that have not overlapped. `ImplementsService`. `CallsComeBack`, unless callbacks have overlapped or the distributor waits for itself |
| `call_path`, packing | all streams of 5 elements | `DeliveredIsIntact`. `ElementInOnePlace`: an element is in use or given back, never both, and only one that cuts a call short is in neither place. `AllAreDelivered` |
| `call_path`, cache | 3 threads, table from 1 to 4 slots | `SlotHeldOnce`, `RemainDoesNotDrift` |
| `call_path`, distribution | a synchronous, an asynchronous, a control call; notification after 2 releases | `ExclusionUntilRaced`, `SubmittedIsDistributed`, `SyncReleaseIsAnnounced` |
| `call_path`, clusters | 1 or 2 inner calls, 0 to 2 parameters, pages of 3 words, up to 3 words missing, words 0 and 3 behind the end | `ExchangeIsExact`: every part read or written, in every cut. `RunsInOrderThenReleases`: inner calls are run unchanged and in order, none that does not fit, and the cluster is released once, after the last. `AllAreRun` |
| `input` | touchscreen: 2 fingers, a touch, a record, two-finger right click; bridge: ring of 3, cache of 2; 2 input threads, recycle queue of 4 | `IrqCallInOnePlace`. `ReleaseReturnsCall`, unless a late interrupt took the mark. `FingerHeldOnce`: no finger has two holders and none is lost. `ChangeReachesGuest`: a change that is not dropped is read by the guest. `ArrivesInOrder`, `DataReachesGuest`: bytes and connections, in order, and all of them while the context lives. `RemoveReturns`: the distributor comes back from the join. The three about reaching the guest and coming back, unless a call is stranded |
| `express_sync` | 2 signallers, 2 waiters, 2 ids, 1 fence, 1 reuse | `OnlyGuestClears`. `LaterWaitSkips`: a wait that begins after another has ended does not wait for its fence. `SignalEndsWait` |
| `fence_waited_twice` | 1 signaller, 2 waiters, 1 id, 1 fence | `FenceWaitedOnce` is **violated** |
| `codec` | 2 input buffers, a gbuffer and two guest buffers, 1 worker, callback ring of 2 | `BufferAnsweredOnce`: a buffer the guest gave away is in one place and answered once. `RestsWithoutWork`: D does not rest with both queues filled. `WorkerUsesLiveGbuffer`. `FrameIsFreedOrLost`: a frame that is not freed belongs to a task that will free it, or was lost by the busy test or a failed transfer. `CallIsFinished`: D comes out of every call, also of one in which it polls busy transfers. `BufferComesBack` |
| `graphics`, display | the two gbuffers, composer, window thread, a second starter | `PaintedIsNotDrawn`: the composer does not draw what is being painted. `FrameIsShown`: a committed frame, or a later one, is shown. Both until the window thread has strayed |
| `graphics`, flows | 2 gbuffers, 2 virtual devices, tables of 3 flows | `ReaderIsInFlow`: after a read the reader is a destination of the gbuffer's flow |
| `flow_is_null` | 1 gbuffer, 2 devices, the 32 flows of the code | `VirtFlowIsNonNull` is **violated** |
| `flow_loses_readers` | the same | `MoveKeepsReaders` is **violated** |

**Why the bounds are enough.** Each is the smallest at which its interesting
case happens: a ring that fills while a call waits outside it; a recycle queue
that wraps around and is full, with the fewest slots `RoomAssumption` allows;
two callbacks that overlap; a stream with a complete call, an interrupted one
and an element that fits neither; words that start, end and cross on page
boundaries; two signallers of one word, and two waiters for one id; three
transfers on one worker, so that the decoder finds them busy; a setter and a
release that fill the input queue at the same time; a bridge ring that wraps in the middle
of a copy and at its end, and fills up; more holders than fingers; a callback
ring that is full when worker and decoder both want to write; a table of flows
that is full; two doublings of the cache. The constants stand for
`CALL_BUF_SIZE`, `MAX_FLOW_SIZE`, `WRITE_CACHE_SIZE`, the 128 releases of a batch
and the like, on whose size the code does not depend. Bounds that exist only for
TLC are `MaxFence`, `MaxReset`, `MaxLost` and `MaxNum`.

The modules that share a run do not interact there: the others rest in one
fixed state. Two instances are cut into slices that do not depend on each other.
`MCInput` checks one device at a time; with the touchscreen either all holders
are in play and the device stays closed, or the left button alone is followed to
the guest; with the bridge either it transfers without end and nobody closes
anything, or everything may end and one byte or connection is under way. A
behaviour ends there when a call is stranded; that the irq call is in one place
beyond that is shown by the proof only.
`MCCodec` lets one thing fail, keeps at most three of the guest's buffers away
from it, sends the third output buffer only while the transfers are busy, sends
nothing more once a frame is lost or a buffer stuck, and lets the guest use its
gbuffers for other things only while the decoder is unused. The theorems of section 5 have none of these bounds.

`CHECK_DEADLOCK FALSE` stands where the guest may stop sending, or a thread has
ended; progress is then stated as a liveness property.

## 4. Fairness

Weak fairness is assumed of the steps of host threads inside a function: the
operating system schedules them. Strong fairness is assumed of acquiring a mutex
or spin lock that others hold for moments only (`ExpressEvent`, `CallRingEvent`,
`Codec`, `Display`), and twice more: FFmpeg produces the frames it holds when it
refuses packets or drains (`Codec`), and the window thread, which handles an
event in no time, finds its event queue empty between two frames (`Display`). Of
the guest's driver it is assumed that it answers: it reads a buffer it was
interrupted for (`TouchInput`, `Bridge`), registers the irq call again for a bridge
that is open (`Bridge`), empties the callback ring (`Codec`) and takes back what it
was told is ready (`Codec`). Nothing is assumed of
the guest's requests, of the user, of the other end of a connection, of
shutdown, of timeouts in `ExpressEvent` or of a failing wait. The waits of
`Distribute`, `DeviceIrq` and `ExpressSync` have a timeout of 1 ms in the code,
so waking up is a step that is always possible there. D's spins have weak
fairness only: a compare-and-swap that sees the lock free now and then may miss
it each time. The host thread of the bridge is fair as a whole: in a poll that
could receive it may as well find nothing, so nothing is forced to arrive.
`CallsComeBack` needs weak fairness of the distributor and of each handler only;
a callback's search for a free slot is among those steps.

## 5. Proofs

All theorems hold for every value of the constants that satisfies the named
assumptions of the modules: sizes are large enough for one element, NULL is not
a call, the distributor is a thread, threads and calls are finitely many where
they are counted, sets of things of different kinds are disjoint, the elements
of a stream are integers, and microseconds are fewer than a million.

* **`CallRingProofs`**: `TypeCorrect`, `NoOverwrite`, `NoEmptyCall`,
  `RingImplementsFifo`. That a push finds its slot empty is not inductive: a
  slot is cleared before `read_loc` moves and filled before `write_loc` moves.
  `SlotsInv` says which slots hold a call (those from `read_loc` to
  `write_loc`, corrected by what each thread has half done); `TestsInv` says
  that what a thread saw when it tested for full or empty still allows its step,
  because only the other side can change it and only in the good direction. The
  refinement maps the queue to the calls between the indices: D's step that
  advances `write_loc` appends, H's step that takes the call removes, the rest
  stutters. `FreedIsDrained`: by `EndInv` the call that ends a context is the
  last one pushed, and H has emptied the ring when it gets to it. `RingOnEvent`
  carries both results over to the ring on its event, whose steps are steps of
  `CallRing` or leave it alone. Of the event: `EventSafe`, `EventIsAtomic`, for
  auto- and manual-reset events: only a wait that takes the bit clears it. The
  invariant says that the owner of the mutex is the only one inside, and that a
  waiter about to clear the bit sees it set.
  `RingKeepsEvent`: the steps of the ring on its event are steps of
  `ExpressEvent` as well, so the event stays atomic under the ring.
* **`CallLifeProofs`**: `TypeCorrect`, `CallsConserved`, `DequeueIsSafe`.
  The invariant gives each call one place: with the guest, in the hands of one
  callback, in one slot, or in the hands of the dequeuer. The dequeuer's plain
  store is safe because no callback writes to a slot that is not empty.
  `LifeKeepsCalls` and `LifeImplementsService` show the same of the whole way of
  a call: a thread's calls at the service are the one it works on, those in its
  ring and the one D is pushing, so that packing issues, the end of the work serves, and the release
  by the dequeuer returns; all steps of the queue stutter. `CallInOnePlace`: no
  call is handed to two threads. `QueueIsLargeEnough` needs `FitInv`: with one
  handler and no overlap one callback runs at a time (`Serial`), the filled slots
  follow each other from `header` to the tail (`Contiguous`), and at most
  `CALL_BUF_SIZE + 1` calls are under way (`UnderWay`). The last holds because a
  turn that packs a call also recycles one, unless the queue is empty, and then
  ring and hand of the handler hold all that are under way. A callback that met
  a full queue would have one call more in its hand. This uses of
  `RoomAssumption` only that the queue has more than `CALL_BUF_SIZE` slots.
* **`TeleportProofs`**: `LockExcludes`. The invariant ties the lock's value to
  the places of D and V; it is needed because V leaves with value 1 or 2.
  `CallsAreIntact` and `NoElementIsLost`: for streams of any length. `PackIInv`
  says that there is a first element `f` the host is not done with: what is kept
  from `f` on is the beginning of one call, in the order of the stream, perhaps
  with the element just looked at; every element before `f` is in a call
  returned, given back, or is one that cut a call short. Of the flows:
  `ReaderIsTracked`. By `TablesInv` the tables never exceed
  their size and a gbuffer's flow is one of its table; the lookups, which take
  the first flow that fits, return one if there is one, because a nonempty set
  of numbers has a least element.
* **`SharingProofs`**: `SlotsAreSafe`, `CountIsRight`. `SafeInv` relates the
  grower's progress to the lengths of the arrays it has replaced so far (data,
  flags, counter, size, in this order), so that a scan that has read the old
  size stays inside. `CountInv` relates `remain_num` to the number of threads
  that are counted as holding a slot (a cardinality, hence the finite set).
  Of the window: `PaintingIsSafe`. A spin lock does not say who took it,
  and the composer gives it back before it draws. `DisplayIInv` therefore says
  which gbuffer each thread has locked and where `main_display_gbuffer` points
  at each place of the composer: a present that is past the lock has taken it
  from the window thread, and from then on the pointer is at the other gbuffer.
  Of the sync ids: `SignalsStay`, because a compare-and-swap succeeds only on the
  word that was read; `LaterWaitsSkip`, for any number of waiting threads: by
  `FencesInv` ids have different fences and no fence is created twice, so that a
  fence a thread has waited for can only be in the entry of its own id, which it
  clears before it returns.
* **`InputProofs`**: `IrqCallIsKept` for any set of interrupting threads and any
  length of the queue, and from it `TouchKeepsIrqCall` and `BridgeKeepsIrqCall`, because every step of the two
  devices is a step of `DeviceIrq` or leaves its variables alone. The delicate
  step is the plain store that clears the mark of a release: the invariant says
  that meanwhile the call is on the other side of `register_input_vq_locker`. The
  queue adds that a callback fills only a slot it finds empty, wherever the tail
  is, so that no call is overwritten.
  `BridgeIsInOrder`: for every size of ring and cache. `BridgeIInv` describes the
  ring by the distance `Off` from the guest's index: slots nearer than the host's
  index hold the next numbers (`Published`), those a copy has filled the numbers
  after them (`CopiedInOrder`), and what is published, copied and still to be
  copied never adds up to the size of the ring (`Sizes`), so that a copy never
  reaches what the guest has yet to read. `AcceptInOrder` does the same for the
  one connection in the buffer and the one the thread keeps.
* **`TouchProofs`**: `FingersAreHeld`, for any fingers, touches and records.
  `TouchIInv` says who holds which finger
  (`Owned`), so that a free finger has no holder when it is handed out and a
  lifted one has none left. A button that is down but not pressed was reset and
  has no finger, and the two fingers of the wheel come and go together
  (`TouchAux`).
* **`CodecProofs`**: `WorkersAreSafe`, `FramesAreFreed`, `DecodedIsBounded` for any
  decoders, workers and buffers, and `CodecKeepsTransfers` for the component on
  top. A task has its buffer for itself (`Own`: the buffer is out, alive and not
  signalled; `Alone`: no other task has it), so the guest, which touches only
  buffers it has got back, cannot terminate it. The frames are counted: a step
  that allocates one for a task adds the task to those that hold one, a step that
  frees one removes it, and the busy test and a failed transfer move one to the
  lost ones. The bound on tasks counts the decoders that have passed the test for
  a busy pool.
  `DecoderRestsWithoutWork`: `RestIInv` says the same also of a decoder that has
  callbacks to send before it rests.
* **`AnswerProofs`**: `BuffersAreAnswered` counts: of every buffer, its entries in the queues, the callbacks on their way to the ring and
  in it, and the answers a worker owes; each step moves one unit from one of
  these places to the next. `NotifyIInv` (who writes to the callback ring has the
  mutex, and the slot holds its own message) and `QueueIInv` (the decoder has an
  input buffer when it empties one) are what these moves need.

Only model-checked are all liveness properties (the prover does not treat
fairness or `ENABLED`), and `ExchangeIsExact` and `RunsInOrderThenReleases` of
`ClusterDecode`: what a recursive copy or a decoding loop computes from its words
takes induction over data. All other safety and action properties of the passing
runs are theorems.

## 6. Behaviours worth knowing

Five are checked as violated properties, which is said where it is so. The
others are part of the models
and appear as a condition of the property named, or stand outside the models
and are named here because reading the code for them showed them.

Transport:

* **Lost wake-up of a ring** (`express_handle_thread.c:36`). H finds the ring
  empty and has not yet begun to wait; D fills the ring, waits for room, takes
  its own signal, finds no room and waits again; H waits too. The comment at :20
  says that `call_pop` blocks until the next call arrives. It takes a full ring
  within one pre-emption. Run `call_ring_lost_wakeup`.
* **A finished call left behind** (`teleport_express_distribute.c:439`). When two
  callbacks overlap, one swap of the tail fails and the tail stays behind; once
  `header` has passed it, the next call is put behind `header` and waits until
  it has gone all the way round. `CallsComeBack` is stated for `~overlap`;
  `EachCallInOnePlace` and `ImplementsService` hold in any case.
* **The distributor waits for itself** (`teleport_express_distribute.c:146`). A
  call without a device thread is called back by the distributor; with the
  recycle queue full it looks for a slot that only it could empty.
  `DWaitsForItself` names the state, and `CallsComeBack` shows that, without
  overlaps, nothing else stops the calls. By `QueueFitsOneHandler` it takes an
  overlap or a second handling thread to get there.
* **D without the lock** (`teleport_express_distribute.c:338`). V may release the
  lock between D's two swaps; D goes on with the lock free and a later kick lets
  V in. `ExclusionUntilRaced` holds up to that step.
* **V kept busy** (`teleport_express.c:67`). D asks V to leave once; when it has
  lost that chance it only spins. `SyncReleaseIsAnnounced` is stated for guests
  that pause.
* **Release overtaken** (`teleport_express_register.c:341`). An interrupt on its
  way when the guest releases may take the mark of the release.
  `ReleaseReturnsCall` says what holds otherwise.
* **An input call left behind** (`teleport_express_register.c:131`). The input side
  has a recycle queue of the same form: when a setter's callback overlaps that of
  a release, the tail can stay behind the header, and the next call is put into
  a slot `express_input_device_sync` has passed (`Stranded`). It is returned only
  when other calls have moved the header all the way round. `IrqCallInOnePlace` holds in any case, `ReleaseReturnsCall`,
  `ChangeReachesGuest` and `DataReachesGuest` up to there. A second irq call
  registered while the first is there replaces it (:274); the guest modelled
  lends one.
* **Event results** (`express_event.c:94`). A timeout returns 0, the comment at :50
  says 1: run `event_result`. The input thread takes 0 for the timeout
  (`teleport_express_register.c:218`), so on POSIX callbacks may set its event
  after every wait, and the limit on interrupts the Windows branch describes (:205)
  is not there. An invalid deadline (nanoseconds not carried, :67) returns -1 at
  once; the ring tries again, `wait_for_express_sync` returns without the signal
  (`express_sync.c:116`).
* **Words behind a cluster** (`express_device_ctrl.c:186`). An inner call is put
  together before the test that it lies within the buffer (:197). If it does
  not, it is not run (`RunsInOrderThenReleases`), but its words, and the number of
  its parameters, come from behind the buffer; with more than `MAX_PARA_NUM` of
  them the arrays they are put into end, and so does the model.
* **An element dropped** (`teleport_express_call.c:487`). The element that
  interrupts a call is neither used nor given back; `ElementInOnePlace` says that
  this is the only one.

Memory and decoder:

* **Two waiters on one fence** (`express_sync.c:130`). Test, wait and deletion are
  three steps, so two threads that wait for one id can both wait for its fence
  and delete it, against the comment at :134: run `fence_waited_twice`.
  `LaterWaitSkips` says what holds.
* **Transfers that fail** (`express_mem_worker.c:98`, `dcodec_vdec.c:778`): no
  signal, and the frame is kept. Also a buffer of a type the decoder does not
  know (`dcodec_vdec.c:787`) and an upload that is refused (`express_mem.c:581`) are
  never signalled. `BufferComesBack` excludes these buffers (`stuck`). The
  descriptor of a buffer in guest memory is not freed (`dcodec_vdec.c:731`);
  descriptors are not modelled.
* **Frames lost while the pool is busy** (`dcodec_vdec.c:678`). A frame is
  allocated before the test for a busy pool and not freed when the test sends
  the decoder away; one is lost at every poll. `FrameIsFreedOrLost` shows that
  this and failed transfers are all that loses frames.
* **Live gbuffers** (`express_mem.c:581`). A transfer keeps a pointer to its
  gbuffer. `WorkerUsesLiveGbuffer` relies on a guest that terminates a gbuffer
  only when it has it back; the host does not test it.
* **End of stream without `AV_CODEC_CAP_DELAY`** (`dcodec_vdec.c:531`). Such a
  decoder is not told to drain and FFmpeg never answers EOF: the loop of
  `dcodec_process_buffers` does not end while an output buffer is queued.
  `CallIsFinished` makes an exception of these decoders.
* **Forked flows** (`express_mem.c:130`) keep the destinations but not their
  number, so the new destination replaces the first; the comment at :223 expects
  the union: run `flow_loses_readers`. Two readers that alternate therefore fork
  at every read until the table is full; then `hg_new_virt_flow` returns NULL,
  which is used at :248 against the comment at :220: run `flow_is_null`.

Devices:

* **A gbuffer locked, another painted** (`express_gpu_render.c:716`). The window
  thread locks what `main_display_gbuffer` points to and reads the pointer again.
  After a present in between it paints and unlocks the other gbuffer, and the
  first stays locked. `PaintedIsNotDrawn` and `FrameIsShown` end there.
* **Shutdown under the window thread** (`express_gpu_render.c:260`).
  `main_display_gbuffer` becomes NULL between the thread's test and its uses
  (place "fault").
* **No window** (`express_display.c:317`). If the window cannot be created,
  `native_render_run` stays 1 and those who wait for 2 poll for ever.
* **The first replay** (`express_touchscreen.c:160`) of a record uses finger 0
  without taking it: the record is zeroed memory, and free is -1. `FingerHeldOnce`
  ends there (`stray`), as it does when a reset of all fingers meets a replay
  that has not been shown yet, whose finger stays used, and when a key is
  recorded again while it is replayed. The first recording resets entry -1 of
  the array (:122).
* **An update without an interrupt** (`express_touchscreen.c:617`). `need_sync` is
  cleared also when the irq call was not there. The change is in the guest's
  buffer and is seen with the next interrupt. `ChangeReachesGuest` counts it as
  dropped and says nothing of it.
* **The end of a connection** (`express_bridge.c:182`). After `recv` has returned 0
  `errno` is looked at, which it has not set: left at EAGAIN by an earlier call,
  the end is taken for a lack of data, and the thread polls until the context is
  removed. The interrupt that tells the end is tried once (:377).
  `DataReachesGuest` is about threads that do not end.
* **Removal of a bridge context.** A context in `CLOSED_STATUS` is removed without
  a join (:554) although its thread may still be closing. While a thread waits
  for its buffer the join takes up to 20 s (:325), and no call of any device is
  distributed meanwhile. A second registration frees a buffer in use (:87); the
  guest modelled registers once.

Not reached by a property, besides those named above: D leaves its loop on
shutdown with the lock taken (`teleport_express_distribute.c:275`); the input
thread starts before `in_teleport_express` is set (`teleport_express.c:118`); two
threads may create the cache (`teleport_express_call.c:155`); an id the guest takes
back between swap and test is signalled twice (`express_sync.c:52`); the array of
a cache that has grown may be read after it is freed (`teleport_express_call.c:129`); microseconds
in an `int` (`express_mem.c:194`); a component removed while a worker may still
notify through it (`express_codec.c:287`); a second registration of the
touchscreen's buffer (`express_touchscreen.c:624`).

## 7. Not modelled

Everywhere: memory-model effects beyond the interleaving of single accesses;
what is in freed memory; allocation failure; the contents of parameters and
textures; logging, timing statistics and slack intervals; clocks; start-up and
teardown of QEMU devices. Windows variants are covered where they differ only in
the event used. The guest's driver is not in this repository: its steps are what
the host code relies on, and are marked as external.

Parts left out, and why:

* EGL surfaces and contexts, the GL translation, the loader and the platform
  windows: sequential forwarding to a driver whose state decides what happens,
  on one thread per context, or generated code. What two threads share of it,
  the gbuffers, is in `MemTransfer` and `Display`.
* Encoder, audio codec and camera: they fill in the callbacks of the component
  `Codec` models; what remains is FFmpeg set-up and conversion of samples and
  colours.
* Sensors, battery, GPS, microphone, and the keyboard's own keys: a value is
  copied to the guest's buffer and an interrupt raised, as in `TouchInput`.
* The modem: an interpreter of AT commands; with the text abstracted nothing is
  left to check.
* Creation and destruction of codec components, lazy creation of the cache,
  the list of devices at start-up, `OUTPUT` of the bridge (it sends and changes no
  state), downloads and DMA buffers of transfers.
* QEMU, the PCI device and the log.
