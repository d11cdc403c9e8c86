# TLA+ verification of r4w

r4w is a software-defined-radio workbench in Rust. This directory holds TLA+
models of its stateful and concurrent parts, the TLC configurations that check
them on small instances, and TLAPS proofs for every value of the constants.
Paths are relative to `src/crates/` unless they start with `src/`.

Contents: 1 inventory, 2 what is modelled and how it corresponds to the code,
3 the runs, 4 bounds and fairness, 5 proofs, 6 what is not modelled, 7 plan.

## 1. Inventory

| component | code | state | operations | hard part |
|---|---|---|---|---|
| SPSC ring | `r4w-core/src/rt/ringbuffer.rs` | atomic `head`, `tail`, slots in `UnsafeCell` | push, pop, slices, blocking slices, try_push, len, drop | two threads without locks, stale loads, wrapping counters |
| buffer pool | `r4w-core/src/rt/pool.rs` | one atomic bitmap | acquire, acquire_blocking, drop of a handle | compare-exchange on an old bitmap, spinning |
| event scheduler | `r4w-core/src/rt_scheduler.rs` | heap of events under a mutex, `running` flag, statistics, callbacks | schedule, cancel, cancel_from_source, run, stop, process; planning helpers (bursts, windows, hops, beacon, TDMA) | everything happens between two lock sections of `process`; lateness |
| radio state | `r4w-core/src/rt_scheduler.rs` | one atomic state | transition, transition_if, set | moved by the loop and by the hardware side |
| mesh MAC | `r4w-core/src/mesh/mac.rs` | channel state, back-off, queue, air time | queue_tx, poll, tx/rx begin and end | collisions, back-off, limits |
| mesh flooding | `r4w-core/src/mesh/routing.rs`, `neighbor.rs` | duplicate cache, pending rebroadcasts, route and neighbour tables | process, heard_rebroadcast, get_pending, evict | lost, duplicated, reordered packets; bounded caches |
| Meshtastic node | `r4w-core/src/mesh/meshtastic.rs` | composes the two above | on_receive, process_tx, tick | several nodes on one channel |
| store-and-forward | `r4w-core/src/mesh/store_forward.rs` | a queue for each destination, node status, delivered ids, statistics | store, heartbeat, retrieve, history, maintenance, clear | two limits, eviction and expiry next to partial retrievals |
| route tracing | `r4w-core/src/mesh/traceroute.rs` | outstanding and completed traces | start, forward, answer, time out | late, lost and repeated replies, hop limit |
| telemetry | `r4w-core/src/mesh/telemetry.rs` | measurements | sample, format | none |
| tick scheduler | `r4w-core/src/scheduler.rs`, `timing.rs` | tick, subscribers, `SchedulerState` | subscribe, sleep, tick, run | none: sequential, and nobody else can stop or pause its loop |
| remote agent | `r4w-core/src/agent/`, `r4w-gui/src/views/remote_lab.rs` | two child processes with their status, the `running` flag, TCP sessions | start, stop, status, shutdown, check_processes | children end at any time, one thread for all sessions, timeouts on both sides |
| plugins | `r4w-core/src/plugin/` | loaded libraries | load, unload | foreign code |
| time sync | `r4w-core/src/time_sync.rs` | `SyncState`, offsets | observations | numeric |
| capture, metrics | `r4w-core/src/observe/` | `CaptureState`, counters | trigger, record | small |
| waveforms, DSP | `r4w-core/src/waveform/` and others | sample buffers | modulate, demodulate | numeric; ALE link states are the exception |
| sandbox | `r4w-sandbox/src/` | header of a shared-memory ring, isolation levels | create, attach, spawn | the operating system; no operation moves the cursors of the ring |
| FPGA | `r4w-fpga/src/` | registers, DMA | transfer | hardware |
| simulator, drivers | `r4w-sim/src/` | channels, devices | numeric, foreign drivers | |
| GUI streaming | `r4w-gui/src/streaming/` | source, playback, windows, recording, UDP receiver with its thread | load, start, play, seek, record, one frame; bind, receive | switching sources while threads start and end, join from the GUI thread |
| front ends | `r4w-gui`, `r4w-cli`, `r4w-web`, `r4w-ffi` | views | | drawing and parsing |

How they interact. A waveform pipeline passes samples between threads through
the ring and takes its buffers from the pool; neither knows of the other. The
event scheduler owns the radio state: its loop pops events whose deadline has
come, checks a guard against the state, and moves the state; user threads reach
the queue (schedule, cancel), the flag (run, stop) and the state
(`atomic_state()`), each through a lock or an atomic of its own, so nothing is
atomic across them. The mesh node calls the MAC for the channel and the flood
router for what to send; store-and-forward and tracing are services beside them
that no node calls. The agent runs `r4w` itself as its children and is commanded
by the command line and by the GUI over TCP. The GUI's streaming manager starts
a thread for each UDP port and polls its channel once a frame.

What makes each correct: the ring is a bounded FIFO whatever the two threads
do; the pool never gives one buffer to two owners and never loses one; the
scheduler keeps to its timetable, loses no event, takes only legal radio
transitions, and never leaves the radio transmitting or in a turnaround with
nothing to end it; a flood reaches whom it can and each node forwards a packet
at most once; a stored message is handed out once, in order; a trace ends with
a route that was walked; a child of the agent is in its table until it was
waited for, and the answer to an earlier command is reported for a later one only if reads
timed out, and by no more; the GUI shows and records the
samples of the present source and never meets itself on a port.

`PROJECT.json` lists the hazards with the code line where each bites and the
property that would catch it.

## 2. Modules

| module | models |
|---|---|
| `BoundedFifo` | abstract: what a stream buffer promises |
| `RingBuffer` | `rt/ringbuffer.rs`, shown to implement `BoundedFifo` |
| `RingBufferLen` | `RingBuffer` with `len()` called by a third thread |
| `RingBufferProofs` | theorems about `RingBuffer` |
| `BufferPool`, `BufferPoolProofs` | `rt/pool.rs` and its theorems |
| `RadioState` | the states, predicates and transition table of `rt_scheduler.rs` |
| `RtScheduler` | the scheduler, its loop, its planning helpers and the radio |
| `MCRtScheduler` | the scenarios TLC plays on `RtScheduler` |
| `RtSchedulerProofs` | theorems about `RtScheduler` |
| `MacLayer` | operators on the record of one `mesh/mac.rs` MAC layer |
| `FloodRouter` | operators on the record of one duplicate cache and flood router |
| `MeshNetwork` | several nodes that compose the two, on one channel |
| `MCMeshNetwork` | the small networks TLC floods |
| `MeshNetworkProofs` | theorems about `MeshNetwork` |
| `StoreForward`, `StoreForwardProofs` | `mesh/store_forward.rs` and its theorems |
| `Traceroute`, `MCTraceroute`, `TracerouteProofs` | `mesh/traceroute.rs` at several nodes, the network TLC traces, and the theorems |
| `RemoteAgent`, `RemoteAgentProofs` | `agent/server.rs`, its clients and its children, and the theorems |
| `StreamManager`, `StreamManagerProofs` | `r4w-gui/src/streaming/` with its receiver threads, and the theorems |

**Ring.** `head`, `tail` and `buffer` are the fields; a slot holds the number of
the item in it. A call is the sequence of its memory accesses: load the other
side's counter (`PLoad`, `CLoad`), touch the slots one at a time (`PWrite`,
`CRead`), publish the own counter (`PPublish`, `CPublish`). push, push_slice and
push_slice_blocking differ in batch length and in what happens when nothing
fits. A thread reads its own counter exactly and may read the other's as any
value between the last one it saw and the current one (`Between`): the acquire
load of one location is coherent, but nothing makes it current. An acquire load
that sees a counter also sees the slot writes before the store it reads, which
is why slots need no staleness of their own. `PLen` and `CLen` are `len()` as
the owner of one end calls it. Counters are `usize`: `2^Width`. In `push_slice`
the slot index is written `(head + i) & mask`, plainly added: in a release build
it wraps as `WAdd` does, in a debug build it would panic within a slice of the
end of the `usize` range. The refinement mapping takes the slots from `tail` to
`head` as the queue and the returned values as `delivered`; a batch is accepted
at the store that publishes it.

**Pool.** `available` is the bitmap as a set. `Load` and `CasSucceeds`/`CasFails`
are the two accesses of `try_acquire`'s loop; the compare-exchange is weak and
may fail for nothing. `Release` is the handle's `Drop`. `Pass` moves a handle to
another thread, since handles are `Send`. The loop's load reads the current
bitmap: an older one would only make the exchange fail.

**Scheduler.** Time is `clock`, in ticks. One action per access to shared state:
`Check` (the `while` test and the `now` that `process` captures), `Pop`,
`Guard` (the snapshot of `execute_event` and what follows from it), `Load` and
`Cas` (a transition), `Unhop` (the store after a hop), `Arm` (the turnaround
event), `Reschedule`, `Doze` and `Wake`. Calls of other threads come from a
scenario: a record of named calls, each made at most once and at any time up to
`by`, in any order. The schedule helpers build their events in one step (the
static id counter cannot be read by the caller in between) and push them one by
one, as the code does. Events keep which of the two id counters their id came
from, and the call they descend from, for the properties only. `stats.cancelled`
is a history variable; the other counters are `SchedulerStats`. `lag[t]` counts
the ticks a runnable thread was kept waiting; the scenario bounds it.

**Mesh.** A node is two records, `mac[n]` and `router[n]`, and the operators on
them are the methods of `MacLayer` and `FloodRouter`; what a method reads from
the clock is a parameter. An action of `MeshNetwork` is one call of a node:
`Send` (broadcast, send_direct), `ProcessTx` with what the receiver says of the
channel, `ForceTx` as the simulator polls, and `EndOfTx`, which reports the end
of a transmission and calls `on_receive` in the nodes that hear it. The random
delay of a rebroadcast is the choice of `ready` at a poll. A scenario says which
nodes hear each other, which driver polls them, what is sent and how many copies
may be lost. Copies are never duplicated by the channel: they come by several
ways. A node that transmits when another's transmission ends misses it. `seen`
holds the unexpired keys of the cache, `Lapse` expires them all at once; `heard`
keeps the marks the code never takes out. Air time is counted in transmissions.

**Store-and-forward.** Every call has `&mut self`, so an action is a call.
Ids grow with the time of storing; the time to live is an id below which all
messages are too old. `handed` and `cleared` are history variables. `heartbeat`
leaves the statistics alone for a new node, as the code does. `original_timestamp`
is never set, so the filter of a history request lets everything through.

**Route tracing.** Each node has a `TracerouteManager`; `Links` says who hears
whom. What was sent stays in a set, so it may be lost, repeated, delayed and
reordered. Handlers are the actions; `Elapse` is the clock passing the timeout
of one trace, `CheckTimeouts` the call that looks. A request forwarded is heard
by any neighbour of the node that forwarded it, loops included.

**Agent.** The server is one thread: `Accept`, `Serve` (one line of
`handle_connection` with the whole command and the answer), `ReadEnds`, `Check`
(`check_processes`, which may find an error) and `Quit`. A session is one
connection; those of the command line give one command, those of the GUI first
ask for the status, as `agent_thread` does, and go on after an error. `Cut` is
the read timeout between a line and its newline, which the client writes apart.
`GiveUp` is the client's timeout: `read_line` fails after 30 s wherever the
command or its answer is, so it comes at any time, and the answer may come later
and be taken for that of a later command (a finding). `missed`, a history
variable, counts these timeouts. `Ended`: the GUI leaves after a shutdown, whatever
it is answered. `StartTxShutdown` is a start whose message holds the word the
server looks for. `Asked` and `Typed` are the commands that the GUI and the command
line give.

**GUI streaming.** The user's operations and `Tick` (one frame, all of
`get_samples` and of what `tick` does with the result) run in the GUI thread,
which stands still between `StopReceiver` and `Joined`. `StartUdp` is in two
parts only because the join is between them. `Bind`, `LookAtFlag` and `Recv` are
the receiver's thread, its channel and the port it holds are variables, and
another application may take the port whenever it is free. Samples are their
numbers in the source. `latest` and `heard` are history variables: `latest` starts
again where the user chooses a source, stops or seeks, apart from the windows,
which `ResetBuffers` empties there.

## 3. Runs

| run | checks | shows |
|---|---|---|
| `RingSafety` | `TypeOK`, `CountersAgree`, `ConservativeViews`, `UnreadIntact`, `NoSlotRace`, `ImplementsFifo`, `BlockingCallsReturn` | the ring is a bounded FIFO, its unsafe accesses do not race, and its spinning calls return while the other side goes on |
| `Pool` | `TypeOK`, `ExclusiveAccess`, `BitmapExact`, `BlockingReturns` | handles are exclusive, none is lost, a blocked thread gets one |
| `RtScheduler` | `TypeOK`, `Balanced`, `NeverStuck`, `FollowsTimetable`, `LegalTransitions`, `DueServed`, `BurstEnds` | six scenarios of ordinary use |
| `MeshFlood` | `TypeOK`, `OnceEach`, `ReachBounded`, `TreeReached`, `NeighbourhoodServed`, `OneAtATime`, `FloodEnds` | floods are bounded, end, and leave no neighbourhood out |
| `Store` | `TypeOK`, `HandedOnce` | limits, statistics and order through evictions, expiry and partial retrievals |
| `Trace` | `TypeOK`, `RouteIsWalk`, `TraceEnds` | each trace is reported once, with a route that was walked, and ends |
| `Agent` | `TypeOK`, `NoneLost`, `LateByMissed`, `ExitNoticed`, `ShutdownEnds` | no child is lost, answers shift by no more than the reads that timed out, shutdown leaves nothing behind |
| `Stream` | `TypeOK`, `ShowsLatest`, `RecordingExact`, `BindsUnlessTaken`, `JoinReturns` | windows, recording, port and join through every switch of the source |
| `RingLen` | `LenIsACount`: violated | `len()` from a third thread can be near 2^64 |
| `RtTdma` | `TdmaTransmitsInItsSlot`: violated | the own slot stays silent after a receive slot |
| `MacWedge` | `QueueDrains`: violated | a second busy poll stops the MAC layer for good |
| `AgentStale` | `ExitNoticed`: violated | with a GUI that stays connected a dead process is shown as running |

Properties of `RtScheduler`: `Balanced` (no event lost or counted twice),
`NeverStuck` and `BurstEnds` (whatever transmits has a stop before it and stops;
a turnaround has its end before it), `LegalTransitions` (only changes of the
table, although some are plain stores and others compare with an old state),
`FollowsTimetable` (exact times on the air, the beacon's included, when the loop
is on time), `DueServed`. `NeverStuck` and `BurstEnds` except a
`cancel_from_source` in the middle of a burst, which takes the `StopTx` away.
The scenarios: *Timetable* a burst and a window with the turnaround between
them; *Traffic* overlapping bursts, a window right behind, hops across them, a
transmitter fault and a reset; *Beacon*; *CancelBursts* cancel by id and by
source at any moment; *Calibrate* a second `run()` and a calibration the
hardware ends; *Pause* the loop stopped and run again in its thread.

Properties of `MeshFlood`: `OnceEach` (a node delivers and rebroadcasts a message
once per life of its cache entry), `ReachBounded` (the hop limit is obeyed along
every way), `TreeReached` (without loops and losses the flood is complete),
`NeighbourhoodServed` (a rebroadcast is given up only for another one nearby:
mutual suppression cannot silence all), `OneAtATime` (no second transmission
begins during the first, whatever the polls find), `FloodEnds`. `QueueDrains`
fails in `MacWedge`: `can_transmit` sets `Busy` at every busy poll and returns
from there to `Backoff` only if no back-off was started, so the second busy poll
of one back-off is never left. `OneAtATime` and the rest hold in spite of it.

`Agent` and `AgentStale` check the same `ExitNoticed`; the difference is `Stays`.
With sessions that end, `check_processes` runs again and again; while one stays,
it never does. `LateByMissed` is what the protocol gives without numbers on commands
and answers: a success reported for a command answers that command or one before
it, at most as many back as reads timed out on the connection. Until the first
timeout of a connection a success answers its own command; after it this is false,
and TLC shows it within a dozen states if asked. `ShutdownEnds` is therefore about a
shutdown whose own answer was read.

`ShowsLatest` would see a window that one of the five calls leaves as it was, or a
wrong wrap; samples carry no mark of their source, so it would not see a sample
buffer or a channel that is kept for too long.

Other disagreements have no run of their own and are under `findings` with the
lines: in the scheduler, a beacon that outlives `cancel`, the turnaround that
`can_receive` skips, a late `StopTx` that is dropped, two threads in the loop
after stop and run; in the mesh, marks left in `heard_rebroadcast`, originators
taken for neighbours, signal quality entered at the wrong hop, statistics a
heartbeat leaves stale; in the agent, answers off by one after a timeout, the
word `shutdown` searched for in the whole line, a shutdown that is forgotten when
the client has gone, a `stop()` nobody can call; in the GUI, a total that seek
resets, bind errors that are never shown, receivers left running, blocks that
are replayed.

Every property of a passing run has a mutant: an operator of the same module
that changes one mapped definition as a plausible bug would, under which TLC
finds the property violated.

## 4. Bounds and fairness

*Ring safety*: capacity 4, 3-bit counters, 9 items, slices up to 5. The
counters wrap while items are in flight, a slice is longer than the ring, and
full and empty are met on both sides of the wrap, and a blocking call needs
several batches. *Pool*: three threads, two buffers, one acquisition each: one
must spin, and its bitmap can be taken and given back behind it. *Scheduler*:
ticks are coarse (turnaround 2, sleep cap 2); the horizon of 12 sees each
scenario to its end and three beacon periods; two threads. *Mesh*: a line of four with a hop limit that ends the flood one node
short of the end and a direct message; a triangle with a tail, where copies come
by two ways and suppression happens, with sources at both ends; two nodes driven
through the MAC layer with a queue of one, so that a rebroadcast is refused. At
most one loss, one expiry of the caches, back-offs of up to one slot; the hop
limit on the wire is capped at `MaxHop` = 2 instead of 7, below what one source
asks for. *Store*: two destinations with queues of two and a total of three, so
that either limit is met first; five messages; two remembered ids of delivered
ones. *Trace*: a line of four with a limit of two hops, two nodes that trace, two
traces in all, which get the same id when each node starts one. *Agent*: a GUI
session of three commands and one of the command line, two children, one cut
line: enough for a start over a running child, a stop while it ends, a second
answer that comes late and is read for the third command, and a
shutdown with another session in the backlog. *Stream*: two receivers, so that
one follows another on the port; windows, file and recording of two samples and
batches of up to two, so that each wraps or fills in the middle of a batch.

Fairness. Threads that are in a call take their next step (weak fairness). The
ring's loads are strongly fair at the newest value: a store becomes visible to a
load tried again and again. The other side keeps calling: the comments of the
blocking calls demand it. In the pool a weak exchange retried on an unchanged
bitmap succeeds sometime, and a thread that is not in a call drops what it
holds; no thread blocks while it holds a buffer (`HoldAndWait = FALSE`), since
it may wait for itself. In the scheduler threads get the processor and time goes
on. Mesh nodes are polled for ever, among the polls again and again one with the
delays over and the channel free (strong fairness, since other polls change the
back-off in between), transmissions end and the utilization window moves. With
the MAC layer a node may wedge, so `FloodEnds` is stated for the simulator's
driver. A tracing node calls `check_timeouts` again and again and time goes on.
The agent's thread goes on; a client that waits gets its answer or gives up, as
its socket timeout makes it, and a session with nothing to do ends, unless
`Stays`. Nothing obliges a user to command anything. Receiver threads run, since
a receive returns after `SOCKET_TIMEOUT_MS` at the latest, and a join returns
when its thread has ended.

`CHECK_DEADLOCK FALSE` throughout: the ring is dropped, acquisitions run out,
the horizon ends, the agent quits.

## 5. Proofs

`RingBufferProofs` proves for every capacity, counter width, batch size and set
of calls that each invariant of `RingSafety` holds, and that the ring implements
`BoundedFifo`. Assumed are `SizeAssumption` (the capacity is at least 2 and
divides the range of the counters, as two powers of two do) and
`BoundsAssumption`, both evaluated by TLC. The inductive invariant is
`TypeOK` with three parts: *Views* (the counters as numbers: what a thread has
loaded lies between what is consumed and what is published; the room and the
items it computed are really there, with what a call in progress has claimed),
*Contents* (every slot from `tail` to `head`, and those the producer has already
written of its batch, holds its item) and *Taken* (what the consumer has read so
far are the items that follow the delivered ones). `CountersAgree` alone is not
inductive: that a publish keeps the ring within its capacity depends on the
stale `tail` the count came from, hence `Views`. `NoSlotRace` follows from
`Views` with the lemma that two counters less than `Capacity` apart have
different slots. The arithmetic on wrapping counters is confined to lemmas about
`WAdd`, `WSub` and `Slot`. For the refinement each step of the ring is a `Put`,
a `Take`, a `Discard` or a stutter.

`BufferPoolProofs` proves type correctness, exclusive access and that the bitmap
is exact, for any set of threads and any count. `BitmapExact` with disjoint
holdings is inductive: a successful exchange compares with the whole bitmap, so
the bit it takes is set now, whatever happened since the load.

`MeshNetworkProofs` proves every safety property of `MeshFlood` for every
network, queue limit and scenario, with four invariants one on the other.

- `MInv` gives `EachOnce` and `NeverTwoAtOnce`. *Shapes* is what the records
  must look like for the rest to make sense. *AirMac* ties the air to the MAC
  layer: under the MAC driver a node on the air is in `Transmitting`, from which
  `Sensed` lets no poll start another. *Once* says, of each node, that what
  waits to be rebroadcast is in the cache and no two packets of it are the same;
  that a message was delivered and handed to the MAC layer at most once more
  than the caches expired; and that a message that is not in the cache, or still
  waits, has one to spare. `OnceEach` alone says nothing of packets that wait.
- `RInv` gives `HopLimitHolds` and `TypeCorrect`. Wherever a packet is (queue,
  pending list, air), it has made as many hops as its limit has lost, so its
  node is within that distance of the source. The balls around a node are a
  function by recursion on the radius (`Balls`), so that `FiniteRecursion`, a
  lemma proved here, gives their equation.
- `NInv` gives `DropsOnlyForAnother`: `NeighbourhoodServed`, provided no two
  messages of a source have one id (`IdsTellApart`). The code takes the 16-bit id
  from the microseconds of the clock, so this is likely and not certain, and
  where it fails one message does suppress another. A neighbour of the source
  that has heard a broadcast has itself or a neighbour that passed it on, or
  still waits without a mark while the source has nothing of the message left: a
  mark in `heard` therefore comes from a neighbour that did pass it on, never
  from the source itself.
- `TInv` gives `TreesAreReached`: `TreeReached`, under the same hypothesis. The
  property knows a tree by its number of links; `TreeRooted` turns that into a
  tree: every node but the source has one neighbour that is nearer to it (`up`),
  two nodes cannot share such a link, so these links are all there are, and every
  link joins a node with its parent. Along each link the invariant then says how
  far the message is: a node has not got it, waits to rebroadcast it, has it
  queued or on the air, or is finished with it, hops left and level together are
  the limit, a child has it exactly when its parent is finished with hops to
  spare, and what a node hears from its children comes after its own rebroadcast,
  so the mark it leaves suppresses nothing. In a quiet network no node is in
  between, and an induction on the level (`QuietTree`) ends the proof.

`StoreForwardProofs` proves both invariants of `Store` for any number of nodes
and messages and all limits: `StorageBounded` (the limits, the statistics, and
that what was stored is pending, delivered, expired or cleared) and
`MessagesHandedOnce`. The invariant adds to the bookkeeping that queues and what
was handed out are in the order of storing, that a message handed out is older
than every one still queued for its destination, and that `delivered` is the end
of what was handed out. A sum over the queues changes in one summand per call
(`TotalWith`); eviction and expiry leave a suffix or a selection of a queue,
which keeps the order.

`RemoteAgentProofs` proves the types, `NoProcessLost` and `NeverLaterThanMissed`,
for any number of sessions, commands and children; nothing is assumed of when a
client gives up. `NoneLost` is inductive once a child under both tasks is
excluded. `LateByMissed` needs the lines in flight. `Due` counts the commands of a
session whose answers it did not read: those whose read timed out, and the one it
waits for. `Queue` numbers the answers and then the commands on a connection from
the oldest on: the i-th has at most the number sent last, and at least that minus
`Due` plus i. A new command has the last place, because what is in flight is at most
`Due` (`FewInFlight`); an answer read takes the first place and lowers `Due` by
one; a command served or dropped only moves the others forward; a timeout leaves
`Due` as it is, what was waited for being missed from now on.

`TracerouteProofs` proves that what is reported was walked (every request on the
air carries a walk from its source with one node more than its hop count, and
every reply such a walk with the reason it ended) and that a trace waits or was
reported once, for every network and hop limit.

It needs that ids are never
given out twice and that a trace and whatever has its source and id have the same
destination: a reply is matched by its id alone.

`StreamManagerProofs` proves all invariants of `Stream`, for windows, files and
recordings of any size and batches of any length. `PortIsOurs`: a thread that
runs belongs to the receiver, or to the one that is being joined, whose handle is
gone by then; so there is one at a time, and who holds the port runs its loop.
`RecordingIsExact`: each frame appends what it delivered, cut where the limit
falls inside a batch. `WindowsShowLatest`: a ring with its head and length shows
the end of all that was pushed since the last reset (`Ordered(ring) =
Ending(Window, ...)`), pushing one sample keeps that, and a batch is as many
pushes; the windows keep to the samples of the present source because every
change of it resets both. `TypeCorrect` needs the buffers of the source.

`RtSchedulerProofs` proves the types and `Balanced`, for every scenario whose
events are well formed (`ScenarioAssumption`), any finite set of threads in the
loop and every delay. `Balanced` counts sets, so it holds only if nothing is
pushed that the queue holds already. That is the invariant *Ids*: an event in the
queue has an id below the counter it was drawn from; what waits in some
`to_reschedule` has an id of `next_occurrence`, is not in the queue and waits
there once; what a call has still to push has an id of `new`, is not in the queue
and belongs to that call alone. The two counters overlap in their values, which is
why the counter is part of the event.

Two more theorems of `RtSchedulerProofs` hold for what a scenario may ask for
without harm; each hypothesis excludes something the code really allows.

- `RadioByTheTable`: every change of the radio is one of the table, if at most
  one thread is in the loop (`OneLoop`: nobody calls `stop`, or every `run` is
  made by one thread), the hardware only reports `Idle` and `Error`
  (`HardwareReports`; a calibration it reports may come between a load and a
  store) and no event is a `Reset`, a plain store of `Idle` from anywhere. The
  invariant is that a thread aims at a state the table allows from the one it
  loaded, and that a hop it is about to end was cut short by the hardware at
  most. The scenarios of the run go beyond it, and pass.
- `NothingSticks`: `NeverStuck` as long as no event was dropped late, in
  scenarios that are `Orderly`. Besides the two hypotheses on threads and
  hardware: each `StartTx` is scheduled with an unguarded, later `StopTx` behind
  it, as `schedule_tx_burst` does; no user event moves the radio into
  transmitting or a turnaround; a cancelled id is not that of a `StopTx`; and
  nothing repeats, since an occurrence that fails is the last one, of the `StopTx`
  of a beacon as well, whose `StartTx` goes on. The events come from any calls
  in any order; cancellation by id and source, faults and loop restarts are in.
  The invariant says that a `StartTx` that is queued or at work has its `StopTx`
  still queued or about to be pushed, unless a `cancel_from_source` took it
  (`silenced`, which `NeverStuck` excepts); that a transmitting radio has a
  `StopTx` that is queued, or at work and still bound to succeed; and the same of
  turnarounds and the event that ends them. It rests on `Ids`, because cancelling
  by id must not hit another call's event. All everyday scenarios but *Beacon*
  are orderly, and the parts of the invariant were checked on them by TLC before
  they were proved.

How late an event can be is a theorem as well. `ServedInTime` is about scenarios
that are `Prompt` for a `Jitter` up to the tolerance: nobody stops the loop; a
runnable thread is kept waiting for at most half the Jitter; each event is
scheduled so early that a sleep and a wait (the loop is asleep, and `schedule`
does not wake it), or two waits (the loop is about to look at the queue), end
within Jitter of its deadline, and so does the first wait of the thread that
enters; no period is shorter than the Jitter. Then, while a thread is in the
loop, no event in the queue or at work is older than Jitter, repetitions and ends
of turnarounds included, and none is dropped late. The invariant (*OnTime*) says
for each program point by when the thread will come to an event although it waits
as long as it may. The bound is tight: TLC reaches it. With lag 0 and events
scheduled `MaxSleep` ahead the Jitter may be 0. With the defaults of the code the
tolerance is 1 ms (`rt_scheduler.rs`:683) and so is the longest sleep (line 1165),
so an event scheduled for now while the loop sleeps is prompt only if the thread
never waits. `PromptNeverSticks` removes the exception of `NothingSticks` for such
scenarios; every everyday scenario but *Pause*, which stops the loop, is prompt
for a Jitter of the tolerance.

When the Jitter is 0 the times on the air are exact. `TimetableKept` is about
`Slotted` scenarios: what they schedule are slots, the pairs of `schedule_tx_burst`,
`schedule_rx_window` and `schedule_beacon` (a start, a later unguarded stop, once
or with a common period), and chores that leave the radio alone; nothing is
cancelled and no other thread moves the radio; and any two slots, or two periods of
one, keep `Apart`. Apart means that the turnaround of the one ends before the
other starts, or in the same tick if the later start has a positive priority
number, so that the event that ends the turnaround (priority 0) comes first:
bursts have 0 and must leave a tick, windows and beacons need not. The frame of
*TDMA* is not slotted, and its run shows what happens then. The theorem
(`KeepsTimetable`) says that, between the steps of the loop, each slot is on the
air from its start to its end and then in its turnaround, in every period for
ever, that the radio is idle otherwise, and that what repeats is queued. The
invariant `XInv` gives each slot a phase and says which of its events are still to
be dealt with, wherever they are, in that phase: not asked for (none), waiting for
its time x (start and stop of x), on the air (stop of x, start of the next
period), in its turnaround (the end of it, start and stop of the next period, or a
thread about to schedule the end), served. At most one slot has the radio, the
others wait; that two never want it in one tick is where `Apart`, the order of the
queue and `ServedInTime` (an event at work is due in this very tick) meet. From the
same invariant, and that what waits to be put back belongs to the next period
(`Repeats`), follows `SlotsNeverStick`: `NeverStuck` with beacons, which
`NothingSticks` excludes. `TimetableFollowed` applies it to the two scenarios of the
model, where it gives `FollowsTimetable`, for every horizon `MaxTime` and every
sleep up to 2 ticks. `Jitter` is a constant of the proofs only; a theorem that says
`Jitter = 0` says which of its values is meant. `XInv` was checked by TLC on
*Timetable*, *Beacon* and a mixture of slots before it was proved.

The library's induction theorems have an operator for the property, which the
provers do not take. Where induction over numbers is needed (folds, recursive
functions, suffixes) the property is a set: `SmallestMember` follows from the
well-foundedness of `<`, and `SetInduction` and `FiniteRecursion` from that.

Only model-checked: all liveness and the refinement's fairness (ENABLED is
outside the provers); `NeverStuck` and `LegalTransitions` beyond the hypotheses
above, such as a beacon whose transmission may fail, or a reset among the events.

## 6. Not modelled

Of the modelled components: what a buffer contains, callbacks and handlers
(user code that runs under a lock), latency statistics, `reset_stats`, and
`process()` called by the user instead of `run()`. In the mesh: neighbour and
route tables (no decision to send depends on them), telemetry and the periodic
broadcasts of `tick`, encryption, channel hashes, and `rx_start`, `rx_complete`
and `collision` of the MAC layer, which nothing calls. The clock is one and never
goes back. The components with status `not_modelled` in `PROJECT.json` are
numeric code, operating-system wrappers, hardware access, parsing and drawing:
they are most of the repository's lines, which is why the map covers a small
share of it. Of the agent: `GetMetrics`, `ListWaveforms` and `Configure`, which
change nothing, and children that block on their unread pipes. Of the GUI: the channel simulation and its
statistics, the waterfall, saving, `update_config`, and the growth of a
channel nobody polls. Of tracing: signal quality and round-trip times. Of
store-and-forward: payload sizes and a node that is no server.

## 7. Plan

Done: ring, pool, radio state, event scheduler; MAC layer, flooding and a network
of nodes; store-and-forward, tracing; agent; GUI streaming. Proved: every safety
property of the passing runs, three of the scheduler's and two of the mesh's under
named hypotheses.

Next:

1. Scheduler: a timetable with Jitter (each slot on the air for its length, give or
   take the Jitter), and `process()` called beside `run()`.
2. Mesh: neighbour and route tables with their limits, recycled packet ids (for
   the marks left in `heard_rebroadcast`), three MAC nodes with a hidden terminal.
3. Agent: a protocol with numbers on commands and answers, under which a success
   answers its own command after timeouts as well.
4. GUI streaming: samples marked with their source, for sample buffers and
   channels kept too long.
