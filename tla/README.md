# de_latency in TLA+

Models of the tracer *de_latency*, which explains where the latency of a vLLM
request goes: it records GPU activity (CUPTI), scheduling delays (eBPF) and the
engine's own stages (Python patches), and draws them together. The modules are
translated from the code under `src/`, `vllm_trace/` and `perfetto/`; TLC checks
them on small instances, and the theorems of the modules named `...Proofs` hold for
every value of the constants. `PROJECT.json` maps each definition to the lines it
stands for, and lists the hazards the properties aim at.

## The system

```
trace_ctl.py --state file--- controller (main.c) --fork--> collector.py <--ZeroMQ PULL--+
   |   |                        |        \--fork--> ebpf_monitor --PUSH-----------------+
   |   |                        \--fork, LD_PRELOAD--> target (vLLM)                    |
   |   +---unix socket--> libtracer.so (CUPTI) in each process -----------PUSH----------+
   +-------unix socket--> monkeypatch_runtime.py in each Python process --PUSH----------+
collector.py --target file--> ebpf_monitor --target_tid_map--> BPF programs --ring--> ebpf_monitor
log file --> perfetto/log_to_trace.py --> Perfetto trace, SVG
```

| Component | State it keeps | Operations | What is hard | What makes it correct | Module |
|---|---|---|---|---|---|
| BPF programs, `sched_latency.bpf.c` | `target_tid_map`, `runnable_ts`, ring `events` | `handle_sched_wakeup`, `handle_sched_wakeup_new`, `handle_sched_switch` | wakeups of running threads, preemption in the kernel, reused tids, a full map or ring | a wait of a tracked thread is reported once, with its true start, end and reason; events of a thread never overlap | `SchedLatency`, `WaitReports` |
| `ebpf_monitor`, `sched_latency.c` | `exiting`, `scan_tick`, map and socket handles | scan the target file, poll the ring, send, stop | scans a file that is being rewritten; a send blocks for ever without a collector | what the collector knows is watched in the end, by whichever monitor stays; it ends when told to | `SchedLatency`, `TargetDiscovery`, `Lifecycle` |
| controller, `main.c` | `exiting`, `child_pid`, `collector_pid`, `ebpf_pid`, the control state file | start three processes, wait, handle a signal, clean up | a signal at any moment, failures of every start, blocking `waitpid` | no child is left behind; the collector outlives the target | `Lifecycle` |
| `trace_ctl.py` | none of its own: it loads and rewrites the state file | on, off, status for each of the three tools | commands overlapping one another and the controller's cleanup, killed or failing between starting a monitor and recording it | one monitor at a time, none left over, every command ends | `Lifecycle`, `CuptiControl`, `MonkeypatchRuntime` |
| `collector.py` | known pids and tids, the target file, the log | receive, register threads, write, drain and stop | failed or torn writes, events still queued at the end, its own death of an exception | the target file names every known thread and no other | `TargetDiscovery`, `Lifecycle` |
| `libtracer.so`, `tracer.cu` | `g_subscriber`, `g_cupti_enabled`, `g_corr_to_ostid_map` | control server, enable, disable, rollback, flush, API and buffer callbacks, destructor | callbacks of many threads during a switch; buffers completed record by record while the map is cleared; partial failures; the destructor waits for the control thread | on means tracing, off means quiet, switching off loses nothing, the library can be unloaded | `CuptiControl`, `Lifecycle` |
| `monkeypatch_runtime.py` | `_enabled`, `_generation`, server thread and socket | on, off, server start and stop, reset after fork | fork while the lock is held; several threads that find no server | each process can be reached at its own socket, and is switched as the last command said | `MonkeypatchRuntime` |
| patches of the API server, `trace_patch.py` | announced roles, `pending_sched_events`, the round's suffix sets, `_de_latency_ready_since_ns` | announce threads, time scheduled callbacks, cut a batch into slices, charge waits to requests | waits known before it is known whom they delayed; outputs merged before they are taken; tracing switched in between | a wait is charged to the requests it delayed, and to no other | `OutputRounds`, `TargetDiscovery` |
| patches of engine and workers, `sitecustomize.py` | announced pids | announce workers, emit enqueue, dispatch and ready events | batches that overlap, preemption, dropped events | what arrives can be put together again | `DispatchTrace`, `TargetDiscovery` |
| `log_to_trace.py` | none (offline) | pair events, clip, merge, attribute, lay out intervals | lost events; touching, nested and empty intervals | dispatches and queue waits are those of the engine; merged time is counted once, lanes do not overlap, the parts of a dispatch add up | `DispatchTrace`, `TraceIntervals` |
| `CPU_demo`, `GPU_demo`, `include`, `lib` | | prototypes and vendored code | | | not modelled |

## The modules

**`SchedLatency`** has one action per tracepoint hit. `sched_wakeup`,
`sched_wakeup_new`, `SwitchFromThread` and `SwitchFromIdle` run the corresponding
BPF program as one step: the kernel fires these tracepoints with the run-queue
lock held, so two hits about one thread do not overlap. The two halves of
`handle_sched_switch` are `SwitchOut` and `SwitchInRunnable`/`SwitchInEvents`, in
the order of the code and with one reading of the clock. The scheduler is
external: `cpu`, `task`, `blocking` and `wait` say what the kernel knows and the
programs do not, and `wait` is the truth the events are compared with.
A thread may be preempted while in the kernel; the tracepoint then reports
`TASK_REPORT_MAX` and not `TASK_RUNNING`, no program sees that a wait begins, and
the wait's type is `Unseen`: nothing is promised about it.
`add_tid_to_bpf_map` and `ring_buffer__poll` are user space at work meanwhile.

**`WaitReports`** is what the reader of the ring is promised, without maps,
processors or task states: waits that are owed a report, and reports. It allows
less the more is known: a seen wait above the threshold *must* be reported truly if
the ring has room, and an unseen one may be reported with any start in the past.
`SchedLatency` implements it under `waiting <- Owed`, the waits of watched threads
and the unseen ones (`ReportsToReader`).

**`TargetDiscovery`** follows a thread from its announcement to the map: the
switch of its process (`set_enabled`), the announcement remembered and then sent
or lost, the collector's `handle_frames` and the two halves of a write (the file
is truncated, then filled), the monitor's scans into a map of bounded size. A
worker's later events name it again (`TraceSender_emit`); an event-loop thread
has only its announcement.

**`Lifecycle`** is the controller's `main` line by line (`pc`), its signal
handler, the three processes it forks and any number of `trace_ctl` commands on
the scheduling monitor, cut at each point where another process can be seen:
load of the state file, kill, wait, save. A command may also fail or be killed at any
of these points (`CommandFails`: an `OSError` of `save_state`, a signal): it then ends
there, and a monitor it has started and not recorded runs on. Both writers of the state
file write it aside under one name and rename it, so of two at work one may put in place
what the other has only begun (`WriteFile`). The collector may end without being asked
(`CollectorDies`: its log cannot be opened or written, a message is no JSON object).
Processes become zombies until their
parent waits for them. Monitors block in `zmq_send` when their queue is full and
in `zmq_ctx_term` until it is empty. A target that is told to stop first sends
its last CUPTI records (`flushing`). Ctrl-C also reaches the collector and the
controller's own monitor; a command's monitor runs in a session of its own.

**`CuptiControl`** is libtracer in one process. The enable and disable sequences
are one step per CUPTI call or group of like calls, under `g_cupti_state_mutex`
(`pc`); the API callback is two steps, because it reads `g_cupti_enabled` before
it takes `g_corr_mutex`. The control thread polls, accepts, receives, executes and
answers (`server`); the server may also have failed to start. The destructor closes
the socket, joins the control thread and only then takes the lock. CUPTI itself is
external: one subscriber, callbacks while the domains are on, a record per API call
while the activity kinds are, buffers handed back when full (to CUPTI's own thread, `Worker`) or flushed (to the
thread that asks), and any call
may fail. Completing a buffer is one step that looks whether tracing is on
(`bufferCompleted`) and one per record that looks its thread up and sends it
(`send_record_payload`), which may fail; no lock is held across them, so the map may be
cleared and tracing may count as off in between. A thread that flushes goes on when it has
completed what it was handed. The ZeroMQ socket is taken to be open.

**`MonkeypatchRuntime`** is the Python switch in a process and in a child forked
from it. `is_enabled` looks for a server without the lock, may start one under it,
and reads the switch under it. Taking the lock (`Acquire`) and the body that holds
it are separate steps, so that a fork can come between them: the child gets a copy
of the lock and only the thread that forked. Server threads check `_stop_event`,
accept, set and answer; a stop closes and unlinks step by step. Leading underscores
of the source's names are dropped. `_refresh_process_identity` finds nothing to do,
since the hook has run before any other code of the child.

**`OutputRounds`** is the event loop of the API server with the tasks the patches
time: the socket task, the output handler and one `generate()` per request. One task
runs at a time (`running`); an action is what it does up to a point where it may
suspend, and `ready` is the loop's queue of callbacks, each marked by `call_soon` if
tracing was on. A round is one batch: `set_output_handler_round_slices` cuts it and
notes which requests are in a slice or after it, `process_outputs` charges the waits
kept so far and hands one slice to the collectors. Time is not modelled; a wait
carries the outputs it delayed, which the code never sees and the properties compare
the charge with. Two simplifications of the code's lists: the branch of
`_begin_output_handler_process_outputs` for a call outside a round is left out,
since this handler always sets one, and so is the comparison of a slice's requests
with those the round expected, which are computed from the same slice.

**`DispatchTrace`** joins two ends of the system. On the side of the engine, the
events that `sitecustomize.py` sends when a request is queued, dispatched in a batch
and ready, with the dispatch key made of how far each request is; any event may be
lost. On the other side, what `log_to_trace.py` makes of those that arrive, as
operators on the log: the pairing of starts with ends (`Pair`, a fold over the log as
in the code's loop) and the waits in between. `done` remembers the dispatches as they
were, for the properties.

**`TraceIntervals`** holds the interval algorithms of `log_to_trace.py` as
operators. A loop over what `sorted()` returns is a fold over a finite set that takes
the latest element last (`Latest`, `Before`): the element the code's loop would come
to last, after all the others. The list of segments `_attribute_wall_components`
returns is a set of them, since each carries its start and end; neighbours in
`zip(sorted_boundaries, sorted_boundaries[1:])` are `Adjacent`. The only action lets
the log grow by one interval, so that TLC checks the results on every small input. The
properties are stated in points of time, without sorting or merging.

Names are those of the source where TLA+ allows. A definition called
`<name>_<word>` with a comment that starts with *Mutant* is a plausible bug of
`<name>`, used to see that the properties notice it; no specification uses it.

## The runs

| Run | Instance | Shows |
|---|---|---|
| `sched` | 2 CPUs, 3 tids, maps of 2, ring of 2, noise 0, clock from 1 to 3 | `RecordsMatchWaits`, `RunnableHasRoom`, `ReportsAreTrue`, `NoWaitMissed`, `EventsDisjoint`, and that the programs implement `WaitReports` (`ReportsToReader`) |
| `sched_preempt` | 1 CPU, 2 tids, preemption in the kernel | **violation** of `PreemptedIsRecorded` (finding 1) |
| `lifecycle` | 2 commands, 1 signal, queues of 1, a collector that may die, commands that may fail, fairness `Scheduling` | `CleanExit`, `TargetBeforeCollector`, `NoOrphan`, `OneMonitor`, and `CtlFinishes`, `InterruptEndsTarget` |
| `lifecycle_hang` | 1 command, no monitor of the controller, a collector that ends only when asked to | **violation** of `CleanupCompletes` (finding 2) |
| `discovery` | 1 worker, 1 loop, 1 leftover thread, a map of 2, failing writes, fairness | `NoStranger`, `FileIsComplete`, `KnownAreWatched`, `WorkersAreWatched` |
| `discovery_lost` | the same, writes succeed | **violation** of `RegisteredAreWatched` (finding 3) |
| `cupti` | 1 thread of the program and CUPTI's own, 3 API calls, 2 clients, CUPTI calls and sends may fail, fairness | `OnMeansTracing`, `OffMeansQuiet`, `NothingLost`, `FewLeftBehind`, and `LibraryUnloads` |
| `runtime` | 2 threads, a forked child, 2 commands, a bind may fail | `Reachable`, `LastCommandWins` |
| `runtime_fork` | the same with 1 command, fairness | **violation** of `NeverBlocks` (finding 4) |
| `intervals` | every log of 3 intervals in 4 time stamps, 2 stages, 2 components | `MergedIsUnion`, `UncoveredIsRest`, `LanesAreMinimal`, `WallTimeIsDivided`, `OsDelayIsWallTime` |
| `rounds` | 3 requests, slices of 1, 3 messages of 0, 2 or 3 outputs, tracing switched once | `ChargesAreTrue`, `WaitsAreReported`, `QueueWaitsAreTrue` |
| `dispatch` | 2 requests, 2 batches under way, 8 steps, 2 events lost | `TraceIsExact`, `DispatchesAreTrue`, `WaitsBetweenDispatches` |

Why the bounds are enough. In `SchedLatency` a record and its event concern one
thread; a second and a third are needed to preempt it, to exceed the map of
targets and to fill `runnable_ts`, and two CPUs to wake a thread from elsewhere
while it still runs. Three clock values separate a wait too short to report, one that
is long enough, and two disjoint events. In `Lifecycle` two commands overlap each
other and the controller; a second signal finds the flag already set. A queue of
one event is full at once. In `TargetDiscovery` the leftover thread and two announced ones exceed a
map of two, two starts are one restart, and two switches are one off and one on.
In `CuptiControl` two clients give two periods of tracing, and three calls put
one in each and one across. The threads of the program race with the switch and with
CUPTI's own thread, not with each other, so one of them makes all the calls: with three
calls the map could hold more entries than there are threads. (Two threads, three calls
and two clients have 6 million states, without a violation of the invariants, but too
many for the liveness property; the theorems are about any number of threads.) In `MonkeypatchRuntime` two threads race to start the
server, two commands have an order, and two server threads are all a process can
start, since it stops once. In `TraceIntervals` three intervals are two steps with a
gap and a phase across it, or three deep in lanes; four time stamps give lengths
from nothing to the whole window. In `OutputRounds` three slices of one output have
a first, a middle and a last one, three messages are one being handled, one queued
and one merged with what was not taken, and a switch of tracing falls between any two
steps. In `DispatchTrace` eight steps are two requests queued and three batches, two
of them overlapping; two lost events are a ready event and any other. Deadlock is checked for the scheduler and the
runtime, which never stop; the other systems do end (a session exits, the library is unloaded, every
thread is known, the log ends, the engine stops), so `CHECK_DEADLOCK FALSE` there.

`trace_ctl` reads the state file at its start and writes it at its end without a lock,
and its monitor runs unrecorded for 300 ms. Overlapping commands do start two monitors, a
command that fails or is killed in between leaves one behind, and nothing in the repository
promises otherwise. `NoOrphan` and `OneMonitor` say *whose* monitors may be lost or
doubled: only those of commands that overlapped another command themselves or the
controller's look at the file (`overlapped`), or that could not record their monitor
(`unrecorded`). Whatever other commands do to one another, the monitor of a command that
ran alone is stopped at the end, and the controller's own never traces beside another.
`InterruptEndsTarget` leaves out a target that waits in its destructor for a collector
that is gone (finding 2 is what this does to the controller). `NothingLost` excuses the
records whose send failed and those which another thread was completing as the map was
cleared (`excused`): `bufferCompleted` sends these without their thread or drops them.
`CleanExit` leaves out a collector that did
not come up in 2 s: it is told to stop and not waited for. `NothingLost`,
`OffMeansQuiet` and `FewLeftBehind` leave out runs in which a CUPTI call failed:
after a failed unsubscribe libtracer forgets the handle and cannot subscribe again.

`ChargesAreTrue` speaks of waits that delayed an output. One that delayed none, after
the last slice of a round or for a message without outputs, stays pending and is
charged to the next round. `DispatchesAreTrue` and `WaitsBetweenDispatches` leave out
a request that was preempted (two of its batches may have the same key) or of which a
*start* was lost: if in addition the end of an earlier dispatch was lost, the fallback
of `_pop_dispatch_start_for_ready` to the oldest start joins the start of one batch
with the end of another, and waits then lie inside that dispatch. A lost end alone
makes its dispatch part of a queue wait.

### Fairness

The safety properties need none. `Lifecycle`: the controller's and a command's next
step is always enabled or waits for another process, and the OS schedules them
(weak fairness, `Scheduling`). A target told to stop stops, as the controller assumes. The
collector leaves its loop after an idle 200 ms, which its senders give it again
and again (strong). A monitor told to stop sees its flag once its poll or its
send returns (strong for the loop, which sending interrupts, weak for the rest). The run
`lifecycle_hang` assumes in addition that a collector that is there takes what was
sent to it (`Draining`), so that only its absence blocks.
No signal, no command and no exit of the target by itself is assumed.
`TargetDiscovery`: collector and monitor loop for ever (weak; strong for
receiving one thread's message among others), an announcement begun is sent or
lost, and a running worker keeps executing steps with a queue that is not full
for ever (strong). That any one message arrives is not assumed.
`CuptiControl`: the control thread and the destructor run, calls of CUPTI and sends return, and
a client that connected sends its command or closes the connection (weak), as both
scripts do at once and the kernel does for a client that dies.
`MonkeypatchRuntime`: threads run (weak), and one that waits for a lock which is
free again and again gets it (strong).

### Findings

1. **`sched_preempt`**: the comment in `handle_sched_switch` says a thread switched
   out in the running state was preempted and its latency is computed. The code
   tests `prev_state == 0`, and the kernel reports a thread preempted *in the kernel*
   as `TASK_REPORT_MAX`: its wait has no record, or an old one.
2. **`lifecycle_hang`**: Ctrl-C reaches the collector directly. Once it is gone, the
   target's blocking sends never return, so the target does not exit, and the
   controller waits for it without a limit. A collector that dies of an exception has the
   same effect (`CollectorDies`; the run does without it, so that it shows the Ctrl-C).
3. **`discovery_lost`**: a thread is remembered as announced before its only message
   is sent, and the message may be dropped. It is then never watched.
4. **`runtime_fork`**: the fork hook of the runtime does not renew `_lock`. A child
   forked while another thread held it blocks at its next traced call, an inference
   thread included, although tracing "must not interrupt the inference".

## The proofs

`SchedLatencyProofs` proves, from `ConstantsAssumption` alone (finitely many tids,
`TargetEntries <= RunnableEntries`, the sizes natural numbers; in the code both maps
have 1024 entries):

* `TypeCorrect`: `TypeOK` is inductive.
* `RunnableNeverFull`: `DOMAIN runnable_ts` is a subset of `target_tid_map`, which
  fits its size, so there is room for every tracked thread. Both conjuncts are
  needed: that there is room now does not by itself survive a new target.
* `EventsNeverOverlap` by `EventsInv`: the events of a thread are ordered and
  disjoint, a record starts no earlier than the last event of its thread ended, and
  nothing lies in the future. Stale records are allowed: what counts is that a record
  is deleted as its event is sent, or lost because the ring is full.
* `RecordsExact`, `ReportsTrue`, `NoneMissed`, about every wait a program saw begin,
  by `MatchInv`: the record of every such waiting thread is exact, a CPU runs what is
  marked running, and a blocking thread is asleep, still running or unseen. The last
  is what makes a record left by a wakeup of a running thread harmless: the thread is
  either switched out as `TASK_RUNNING`, which overwrites it, or sleeps, and the next
  wakeup overwrites it.
* `Refinement`: `Spec => WR!Spec` with `waiting <- Owed`. Initial states map to initial
  states, and every step maps to a step or a stutter: a switch to `Change` of the
  thread that gets the CPU and of the one that begins to wait, a wakeup to a `Change`
  without the first, `ring_buffer__poll` to `Read`. It rests on `MatchInv` (the record
  is the truth where the wait was seen) and on the events invariant (a record that is
  not exact still lies in the past).

`CuptiControlProofs` (from: the threads are finite, the bounds natural numbers):

* `TypeCorrect`, `OnIsTracing`, `OffIsQuiet`. `SwitchInv` and `QuietInv` say, for each
  step of enabling, of rolling back and of disabling, what the holder of the lock may
  rely on: what was reached before a step that failed is what the rollback takes back.
  `OffIsQuiet` holds only as long as no call of CUPTI failed, and so does `QuietInv`.
* `NoCallIsLost`: `RememberedInv` says that a call which saw the present generation of
  tracing has its thread in the map until the map is cleared (calls of an earlier
  generation may not). `DueInv` follows a call that is due: it is settled (sent with its
  thread, or excused), or it is remembered and either buffered or in the hands of a thread
  that completes buffers; from the last flush on it is settled or in somebody's hands, and
  once the map is cleared it is settled. `HolderInv`: the flush is not begun before
  what the holder of the lock was handed is completed, so that nothing is handed over twice.
* `MapStaysSmall`: `FewInv` counts the entries and the threads between having seen
  tracing on and making their entry: together no more than threads. The number of
  entries alone is not inductive, since such a thread adds one after the map is cleared.

`TargetDiscoveryProofs` (from: strangers are no threads of the target, sizes are natural
numbers): `TypeCorrect`; `StrangersUnwatched` and `FileNamesAll` by `FileInv`, which
relates the file to what the collector knows where it receives, before that and
while a write may fail.

`MonkeypatchRuntimeProofs` (from: parent and child differ, threads, servers and `Nobody`
are apart, servers are finite):

* `TypeCorrect`, with the code's own assertion that a server that accepts has a socket.
* `CanBeReached` and `LastCommandObeyed` by two invariants. `ForkInv`: a process that has
  threads goes by its own pid, so no file leads to the socket of another process.
  `Link`: a process that does not exit either has nothing of a server, or has one thread
  which serves its socket, its file leads there, and what its tracing will be once
  all commands in the socket are carried out (`Latest`) is what the last command said.
  That only one server starts rests on the test under the lock in
  `start_control_server`, not on the test before it.

`LifecycleProofs` (from: the pids are apart, and `NoFile` is no state of the file):

* `TypeCorrect`; `NoChildLeft` and `CollectorOutlivesTarget` by `ExitInv`, which says for
  each step of `main` which children are unborn or gone. A signal may take `main` from
  any step of the start to the cleanup, so it has to hold for all of them.
* `NoSecondMonitor` and `NoMonitorLeft` by four invariants, none of which assumes that
  commands do not overlap, fail or die. `FreshInv`: what an earlier session left names no
  monitor, and as long as the controller has published nothing no command can start one.
  `OverlapInv`: two commands under way have noticed each other. `OwnInv`: while the
  controller's own monitor traces, everyone who knows of a monitor knows of that one, so
  no command starts another. `CleanInv`: a monitor whose command was alone and did not fail
  is about to be recorded, or is the one in the file and the one every command has read;
  so no command starts a second one, and the controller finds it at the end.

`OutputRoundsProofs` (from: chunks are not empty, batches name each request once,
requests are not output tasks, and `None` is neither):

* `TypeCorrect`, which needs to know who may be in the loop's queue (`LoopInv`: a task is
  there once, and not while it waits).
* `QueueWaitsHonest` by `WaitsInv`. `InOrder` says that frames stay in order from the
  socket over the queue to the slices, which all carry one frame, and `Earlier` that
  whatever a request has not taken is older than all of these; so what is put into a
  collector is never older than what it holds.
* `ChargesHonest`. A wait is charged in one of two ways, and each has an invariant of what
  a wait not charged yet (kept, or in the loop's queue) has delayed. `SocketCharge`: what
  a wait of the socket task delayed is the first message in the socket.
  `HandlerCharge`: of the batch being handled, a wait of the handler delayed all that is
  in the slices left, and between rounds all of the first batch in the queue. `RoundInv` says
  that the suffix sets the code noted at the start of a round are the requests in the
  slices left, so a charge to the suffix set is one to what was delayed.
* `NoWaitLost`, the action property, from `RoundInv`: a slice with outputs has a suffix set
  that is not empty, so the waits are reported and not dropped.
* All rest on `PlacesInv`: which task is at which step, and what there is for it there.

`DispatchTraceProofs` (from: the bounds are natural numbers, and `None` is no time):

* `DispatchesHonest` by `StartsInv`: as long as every start of a request arrived, the
  starts that `log_to_trace.py` keeps open for it have different keys, all of the past,
  and those of the batches under way are among them. A ready event therefore ends its own
  start, and one that was lost leaves a start behind that no later key matches.
* `TraceExact` by `ExactInv`: if all events of a request arrived, the open starts are the
  batches under way, in their order, and the dispatches found are those that are over.
* `WaitsHonest` from `StartsInv` and `OrderInv`: batches come back in the order in which
  they are formed, so the sorted dispatches of a request have their ends in order, too.

The pairing is a recursive function over the log. `PairedMore` says what one more event
does to it; its proof goes by induction over the length of the log.

`TraceIntervalsProofs` (from: the stages are natural numbers, the components have a
priority other than that of a gap, spans and windows have time stamps, windows are not
empty): the five results hold for any number of intervals, stages and time stamps.

* `MergedExact`: `Good` is the loop invariant of `merge_intervals` (ordered, apart, the
  points those of the intervals absorbed so far, each start that of one of them). It is
  kept because no interval starts after the one that is absorbed next.
* `UncoveredExact` and `OsDelayExact`: lengths of intervals that are apart add up to the
  number of their points (`SumIs`), and clipping keeps the points inside (`ClippedIs`).
* `LanesExact`: `Laid` is the loop invariant of `assign_non_overlapping_lanes`. A lane
  ends with the end of the interval placed there last, and at some moment as many
  intervals go on as there are lanes: a lane is opened only when all the others are taken
  at the start of the interval. So the greedy choice needs no lane too many.
* `WallTimeExact`: what goes on in a segment between two boundaries goes on at each of its
  points (`GoingOnIs`), phases keep the points of their stages (`PhasesAre`), and a point
  is in a gap exactly if one stage is over and the next is to come (`GapsAre`).

The induction theorems of the library take an operator as a parameter, which the provers
cannot instantiate. `SetInduction` and `SubsetInduction` take a *set* instead and
follow from `NatLessThanWellFounded` and `WFMin`; with them each fold is first shown to
have a recursive equation (`MergeDefined`, `SumDefined`, `LanesDefined`, `PairedDefined`)
and what it computes is then proved by induction.

Every invariant and action property of the passing runs is proved, the refinement
too. Only model-checked are the five liveness properties (`CtlFinishes`,
`InterruptEndsTarget`, `KnownAreWatched`, `WorkersAreWatched`, `LibraryUnloads`), since the prover has
neither fairness nor `ENABLED`, and the four violations, which are counterexamples.

## Not modelled, and why

Clients that connect and send nothing; the response written to a client that gave up
after its timeout; GPU records and their JSON; option parsing; the search of `/proc` by
name, which the controller never uses since it always passes a pid file; reuse of
*process* ids; the removal of tids from `target_tid_map`, which the code does not
have. Of `trace_patch.py`: the stages before a request reaches the engine, the slices
of execution and the round numbers, which only name what is reported; exceptions
of the output handler and of the socket task, which end them; the early return of the
socket task when its client is gone, and the hook of a client that processes the outputs
itself (data-parallel load balancing); a `generate()` that begins while tracing is off,
which hands everything to vLLM's own and reports nothing. Of `tracer.cu`: the destructor
closing the ZeroMQ socket after CUPTI is disabled, while CUPTI's own thread could still
hold a buffer; what ZeroMQ then does is undefined. Of `sitecustomize.py`: metrics, phases and the
stage slices of the workers. Of `log_to_trace.py`: reading the log, nudging boundaries
apart, drawing. The ZeroMQ socket shared by threads without a lock (`trace_patch.py`)
and the one a forked child inherits (`sitecustomize.py`) are undefined behaviour of a
library; they are listed as hazards. The demos are not part of the tracer.

## Plan

1. What a reader of `rounds`, `runtime` and `cupti` is promised as abstract
   specifications like `WaitReports`, and that the modules implement them.
2. Which processes a command of `trace_ctl` reaches (`descendant_pids`), as a
   composition of several `MonkeypatchRuntime`s.
3. The stages of a request before the engine, and the phases of a step.

None of these modules declares a `RECURSIVE` operator, so each can be proved about.
