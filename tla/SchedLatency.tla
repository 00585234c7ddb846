---------------------------- MODULE SchedLatency ----------------------------
(***************************************************************************)
(* The in-kernel half of ebpf_monitor: the three tracepoint programs of    *)
(* src/FINAL/sched_latency.bpf.c, their two maps and their ring buffer,    *)
(* driven by the part of the kernel's scheduler that fires them.           *)
(*                                                                         *)
(* One action is one tracepoint hit.  sched_wakeup and sched_switch fire   *)
(* with the run-queue lock of the thread's CPU held, so two hits about one *)
(* thread never overlap and a program runs as one atomic step.             *)
(*                                                                         *)
(* The scheduler is external: cpu, task, blocking and wait are what the    *)
(* kernel knows and the programs do not.  wait is the truth the reported   *)
(* events are compared with.                                               *)
(***************************************************************************)
EXTENDS Naturals, Sequences, FiniteSets, Functions

CONSTANTS
  Cpus,             \* the processors
  Tids,             \* thread ids the kernel hands out (they are reused)
  Idle,             \* the idle task, tid 0: never a target
  TargetEntries,    \* max_entries of target_tid_map
  RunnableEntries,  \* max_entries of runnable_ts
  RingSlots,        \* latency events the ring buffer holds
  Noise,            \* waits of at most Noise are not reported
  MaxTime           \* bound on the clock

ASSUME ConstantsAssumption ==
  /\ IsFiniteSet(Tids)
  /\ Idle \notin Tids
  /\ TargetEntries \in Nat
  /\ RunnableEntries \in Nat
  /\ TargetEntries <= RunnableEntries
  /\ RingSlots \in Nat
  /\ Noise \in Nat
  /\ MaxTime \in Nat \ {0}

VARIABLES
  clock,           \* bpf_ktime_get_ns()
  cpu,             \* what each processor runs
  task,            \* where each thread is
  blocking,        \* threads whose task state is not TASK_RUNNING
  wait,            \* since when and why each ready thread waits for a CPU
  watched,         \* waiting threads that were targets when their wait began
  target_tid_map,  \* tids the monitor tracks
  runnable_ts,     \* tid |-> [ts, type]: when it became runnable, and how
  events           \* the ring buffer

sched == <<cpu, task, blocking, wait, watched>>
maps  == <<target_tid_map, runnable_ts, events>>
vars  == <<clock, cpu, task, blocking, wait, watched, target_tid_map, runnable_ts, events>>

\* runnable_info.type and latency_event.type; Unseen is the reason of a wait
\* whose beginning no program recognises, a preemption inside the kernel
Wakeup  == 0
Preempt == 1
Unseen  == 2

\* prev_state as the sched_switch tracepoint reports it.  A thread switched
\* out by kernel preemption is reported as TASK_REPORT_MAX whatever its state;
\* only sched_yield and the preemption of a thread on its way back to user
\* mode are reported as TASK_RUNNING.
TASK_RUNNING       == 0
TASK_INTERRUPTIBLE == 1
EXIT_DEAD          == 16
TASK_REPORT_MAX    == 256

Time  == 0 .. MaxTime
Info  == [ts : Time, type : {Wakeup, Preempt}]
Event == [start_ns : Time, end_ns : Time, tid : Tids, type : {Wakeup, Preempt}]
Wait  == [since : Time, type : {Wakeup, Preempt, Unseen}]

\* The maps hold records of known threads, and the ring only complete events:
\* of a thread, with a type, and with two times of the clock.
TypeOK ==
  /\ clock \in Time
  /\ cpu \in [Cpus -> Tids \cup {Idle}]
  /\ task \in [Tids -> {"absent", "sleeping", "ready", "running"}]
  /\ blocking \in SUBSET Tids
  /\ DOMAIN wait = {t \in Tids : task[t] = "ready"}
  /\ wait \in [DOMAIN wait -> Wait]
  /\ watched \in SUBSET DOMAIN wait
  /\ target_tid_map \in SUBSET Tids
  /\ DOMAIN runnable_ts \in SUBSET Tids
  /\ runnable_ts \in [DOMAIN runnable_ts -> Info]
  /\ events \in Seq(Event)

-----------------------------------------------------------------------------
(* The programs, as functions of the maps they update. *)

\* Mutant: BPF_NOEXIST, the first record of a thread is kept.
record_runnable_noexist(runnable, t, ts, type) ==
  IF t \notin DOMAIN runnable /\ Cardinality(DOMAIN runnable) < RunnableEntries
  THEN [x \in DOMAIN runnable \cup {t} |->
          IF x = t THEN [ts |-> ts, type |-> type] ELSE runnable[x]]
  ELSE runnable

\* runnable_ts after bpf_map_update_elem(.., BPF_ANY): refused when t is new
\* and the map is full
record_runnable(runnable, t, ts, type) ==
  IF t \in DOMAIN runnable \/ Cardinality(DOMAIN runnable) < RunnableEntries
  THEN [x \in DOMAIN runnable \cup {t} |->
          IF x = t THEN [ts |-> ts, type |-> type] ELSE runnable[x]]
  ELSE runnable

\* Mutant: the thread id and the start time are swapped.
send_event_swapped(ring, t, start, end, type) ==
  IF Len(ring) < RingSlots
  THEN Append(ring, [start_ns |-> t, end_ns |-> end, tid |-> start, type |-> type])
  ELSE ring

\* the ring after bpf_ringbuf_reserve and _submit: a full ring loses the event
send_event(ring, t, start, end, type) ==
  IF Len(ring) < RingSlots
  THEN Append(ring, [start_ns |-> start, end_ns |-> end, tid |-> t, type |-> type])
  ELSE ring

is_tracked_tid(t) == t \in target_tid_map

\* Mutant: every woken thread is recorded.
trace_wakeup_common_unfiltered(t) == record_runnable(runnable_ts, t, clock, Wakeup)

trace_wakeup_common(t) ==
  IF is_tracked_tid(t)
  THEN record_runnable(runnable_ts, t, clock, Wakeup)
  ELSE runnable_ts

\* Mutant: the test of prev_state is inverted.
SwitchOut_inverted(runnable, prev, prev_state) ==
  IF is_tracked_tid(prev) /\ prev_state # TASK_RUNNING
  THEN record_runnable(runnable, prev, clock, Preempt)
  ELSE runnable

\* Part A of handle_sched_switch: the thread that leaves the CPU
SwitchOut(runnable, prev, prev_state) ==
  IF is_tracked_tid(prev) /\ prev_state = TASK_RUNNING
  THEN record_runnable(runnable, prev, clock, Preempt)
  ELSE runnable

\* Part B: the thread that gets the CPU ends its wait
Ends(runnable, next) ==
  is_tracked_tid(next) /\ next \in DOMAIN runnable /\ runnable[next].ts > 0

\* Mutant: the record outlives the wait.
SwitchInRunnable_kept(runnable, next) == runnable

SwitchInRunnable(runnable, next) ==
  IF Ends(runnable, next)
  THEN Restrict(runnable, DOMAIN runnable \ {next})
  ELSE runnable

\* Mutant: the noise threshold is too high.
SwitchInEvents_deaf(runnable, next) ==
  IF Ends(runnable, next) /\ clock - runnable[next].ts > Noise + 1
  THEN send_event(events, next, runnable[next].ts, clock, runnable[next].type)
  ELSE events

SwitchInEvents(runnable, next) ==
  IF Ends(runnable, next) /\ clock - runnable[next].ts > Noise
  THEN send_event(events, next, runnable[next].ts, clock, runnable[next].type)
  ELSE events

handle_sched_switch(prev, prev_state, next) ==
  LET out == SwitchOut(runnable_ts, prev, prev_state)
  IN  /\ runnable_ts' = SwitchInRunnable(out, next)
      /\ events' = SwitchInEvents(out, next)
      /\ UNCHANGED target_tid_map

-----------------------------------------------------------------------------
(* The scheduler, and the program each of its tracepoints runs. *)

\* Thread next (or none) stops waiting, and those of begun (at most one) begin.
Queue(next, begun, type) ==
  /\ wait' = [t \in (DOMAIN wait \ {next}) \cup begun |->
                IF t \in begun THEN [since |-> clock, type |-> type] ELSE wait[t]]
  /\ watched' = (watched \ {next}) \cup (begun \cap target_tid_map)

\* A thread about to sleep sets its task state while still on the CPU; it may
\* also change its mind and reset it.
SetTaskState(t) ==
  /\ task[t] = "running"
  /\ blocking' = IF t \in blocking THEN blocking \ {t} ELSE blocking \cup {t}
  /\ UNCHANGED <<clock, cpu, task, wait, watched, maps>>

\* A thread is woken only if its state is not TASK_RUNNING, and the tracepoint
\* fires wherever the thread is: asleep, still on a CPU, or (preempted in the
\* kernel on its way to sleep) still on the run queue.
sched_wakeup(t) ==
  /\ t \in blocking
  /\ blocking' = blocking \ {t}
  /\ IF task[t] = "sleeping"
     THEN task' = [task EXCEPT ![t] = "ready"] /\ Queue(Idle, {t}, Wakeup)
     ELSE UNCHANGED <<task, wait, watched>>
  /\ runnable_ts' = trace_wakeup_common(t)
  /\ UNCHANGED <<clock, cpu, target_tid_map, events>>

\* A new thread, perhaps with the tid of one that has exited.
sched_wakeup_new(t) ==
  /\ task[t] = "absent"
  /\ task' = [task EXCEPT ![t] = "ready"]
  /\ Queue(Idle, {t}, Wakeup)
  /\ runnable_ts' = trace_wakeup_common(t)
  /\ UNCHANGED <<clock, cpu, blocking, target_tid_map, events>>

\* How thread prev may leave its CPU: the task state afterwards, and what the
\* tracepoint reports.
Leaving(prev) ==
  {how \in [to : {"ready", "sleeping", "absent"},
            prev_state : {TASK_RUNNING, TASK_INTERRUPTIBLE, EXIT_DEAD, TASK_REPORT_MAX}] :
     \/ how = [to |-> "ready", prev_state |-> TASK_RUNNING] /\ prev \notin blocking
     \/ how = [to |-> "sleeping", prev_state |-> TASK_INTERRUPTIBLE] /\ prev \in blocking
     \/ how = [to |-> "absent", prev_state |-> EXIT_DEAD] /\ prev \notin blocking
     \/ how = [to |-> "ready", prev_state |-> TASK_REPORT_MAX]}

\* Processor c goes from a thread to another one or to the idle task.
SwitchFromThread(c, prev, next, how) ==
  /\ cpu[c] = prev
  /\ next = Idle \/ (next \in Tids /\ task[next] = "ready")
  /\ how \in Leaving(prev)
  /\ cpu' = [cpu EXCEPT ![c] = next]
  /\ task' = [t \in Tids |-> CASE t = prev -> how.to
                               [] t = next -> "running"
                               [] OTHER -> task[t]]
  /\ Queue(next, IF how.to = "ready" THEN {prev} ELSE {},
           IF how.prev_state = TASK_RUNNING THEN Preempt ELSE Unseen)
  /\ handle_sched_switch(prev, how.prev_state, next)
  /\ UNCHANGED <<clock, blocking>>

\* Processor c leaves the idle task, which is switched out as TASK_RUNNING.
SwitchFromIdle(c, next) ==
  /\ cpu[c] = Idle
  /\ task[next] = "ready"
  /\ cpu' = [cpu EXCEPT ![c] = next]
  /\ task' = [task EXCEPT ![next] = "running"]
  /\ Queue(next, {}, Preempt)
  /\ handle_sched_switch(Idle, TASK_RUNNING, next)
  /\ UNCHANGED <<clock, blocking>>

\* Time passes between tracepoint hits.
Tick ==
  /\ clock < MaxTime
  /\ clock' = clock + 1
  /\ UNCHANGED <<sched, maps>>

-----------------------------------------------------------------------------
(* The user-space half: it adds targets and drains the ring. *)

\* The scan of the target file adds tids and never removes one.
add_tid_to_bpf_map(t) ==
  /\ t \notin target_tid_map
  /\ Cardinality(target_tid_map) < TargetEntries
  /\ target_tid_map' = target_tid_map \cup {t}
  /\ UNCHANGED <<clock, sched, runnable_ts, events>>

\* ring_buffer__poll hands the oldest event to handle_event.
ring_buffer__poll ==
  /\ events # <<>>
  /\ events' = Tail(events)
  /\ UNCHANGED <<clock, sched, target_tid_map, runnable_ts>>

-----------------------------------------------------------------------------
Init ==
  /\ clock = 1
  /\ cpu = [c \in Cpus |-> Idle]
  /\ task \in [Tids -> {"absent", "sleeping"}]
  /\ blocking = {t \in Tids : task[t] = "sleeping"}
  /\ wait = [t \in {} |-> [since |-> 0, type |-> Wakeup]]
  /\ watched = {}
  /\ target_tid_map = {}
  /\ runnable_ts = [t \in {} |-> [ts |-> 0, type |-> Wakeup]]
  /\ events = <<>>

Next ==
  \/ Tick
  \/ ring_buffer__poll
  \/ \E t \in Tids : \/ SetTaskState(t)
                     \/ sched_wakeup(t)
                     \/ sched_wakeup_new(t)
                     \/ add_tid_to_bpf_map(t)
  \/ \E c \in Cpus : \/ \E next \in Tids : SwitchFromIdle(c, next)
                     \/ \E prev \in Tids, next \in Tids \cup {Idle} :
                          \E how \in Leaving(prev) : SwitchFromThread(c, prev, next, how)

Spec == Init /\ [][Next]_vars

-----------------------------------------------------------------------------
(* Properties *)

\* record_runnable never fails for a tracked thread: runnable_ts, as large as
\* target_tid_map, always has room for it.  A record of an untracked thread
\* would break this after many threads have come and gone.
RunnableHasRoom ==
  \A t \in target_tid_map :
    t \in DOMAIN runnable_ts \/ Cardinality(DOMAIN runnable_ts) < RunnableEntries

\* Did a tracepoint program see the wait of t begin?
Seen(t) == wait[t].type # Unseen

\* While a thread waits for a CPU its record says exactly since when and why;
\* it has none if it was not tracked when the wait began.  Records left behind
\* by wakeups of a thread that was still running never survive into a wait
\* that a program saw begin.
RecordsMatchWaits ==
  \A t \in DOMAIN wait : Seen(t) =>
    IF t \in watched
    THEN t \in DOMAIN runnable_ts /\ runnable_ts[t] = [ts |-> wait[t].since, type |-> wait[t].type]
    ELSE t \notin DOMAIN runnable_ts

\* No two events in the ring for one thread overlap: the reader adds such
\* intervals up, and would count time twice.
EventsDisjoint ==
  \A i, j \in DOMAIN events : i < j /\ events[i].tid = events[j].tid =>
    /\ events[i].start_ns < events[i].end_ns
    /\ events[i].end_ns <= events[j].start_ns

\* The event that reports the wait of t which ends now.
WaitOf(t) ==
  [start_ns |-> wait[t].since, end_ns |-> clock, tid |-> t, type |-> wait[t].type]

Starts(t) == task[t] = "ready" /\ task'[t] = "running"

\* An event is only ever sent for a thread that gets a CPU in that very step,
\* and it tells the true start, end and reason of the wait, if a program saw
\* the wait begin.
ReportsAreTrue ==
  [][Len(events') > Len(events) =>
       \E t \in Tids : /\ Starts(t)
                       /\ Seen(t) => events' = Append(events, WaitOf(t))]_vars

\* A wait longer than the noise threshold of a thread tracked since it began
\* is reported when it ends, unless the ring is full or its beginning was not
\* seen.
NoWaitMissed ==
  [][\A t \in Tids :
       /\ Starts(t) /\ t \in watched /\ Seen(t)
       /\ clock - wait[t].since > Noise
       /\ Len(events) < RingSlots
       => events' = Append(events, WaitOf(t))]_vars

\* The waits a report is owed for, or may be made of.
Owed == [t \in {u \in DOMAIN wait : u \in watched \/ ~Seen(u)} |-> wait[t]]

WR == INSTANCE WaitReports WITH waiting <- Owed

\* The programs, whatever their maps hold, do what their reader is promised.
ReportsToReader == WR!Spec

\* "Switched out in the Running state means preempted: start computing the
\* latency" (handle_sched_switch): a tracked thread that keeps waiting for a
\* CPU after it was switched out has a record of it.
PreemptedIsRecorded ==
  watched \subseteq DOMAIN runnable_ts

=============================================================================
