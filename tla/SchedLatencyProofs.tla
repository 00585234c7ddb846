------------------------- MODULE SchedLatencyProofs -------------------------
(***************************************************************************)
(* Proofs about SchedLatency, for any number of threads, processors, map   *)
(* entries and ring slots, and for any noise threshold.                    *)
(***************************************************************************)
EXTENDS SchedLatency, FiniteSetTheorems, TLAPS

\* What the programs need to know about a runnable_ts map.
RunnableType(r) == DOMAIN r \in SUBSET Tids /\ r \in [DOMAIN r -> Info]

-----------------------------------------------------------------------------
(* What the helpers of the programs compute. *)

\* record_runnable changes the entry of t only, or nothing at all when the
\* map is full.
LEMMA RecordEffect ==
  ASSUME NEW r, NEW t, NEW ts, NEW type
  PROVE  LET n == record_runnable(r, t, ts, type)
             room == t \in DOMAIN r \/ Cardinality(DOMAIN r) < RunnableEntries
         IN  /\ room => /\ DOMAIN n = DOMAIN r \cup {t}
                        /\ n[t] = [ts |-> ts, type |-> type]
                        /\ \A x \in DOMAIN r \ {t} : n[x] = r[x]
             /\ ~room => n = r
  BY DEF record_runnable

\* record_runnable adds no entry but that of t.
LEMMA RecordDomain ==
  ASSUME NEW r, NEW t, NEW ts, NEW type
  PROVE  DOMAIN record_runnable(r, t, ts, type) \subseteq DOMAIN r \cup {t}
  BY DEF record_runnable

\* record_runnable keeps the map's type.
LEMMA RecordType ==
  ASSUME NEW r, RunnableType(r), NEW t \in Tids, NEW ts \in Time,
         NEW type \in {Wakeup, Preempt}
  PROVE  RunnableType(record_runnable(r, t, ts, type))
  BY DEF record_runnable, RunnableType, Info

\* Ending a wait removes the entry of next only.
LEMMA SwitchInEffect ==
  ASSUME NEW r, NEW next
  PROVE  LET n == SwitchInRunnable(r, next)
         IN  /\ Ends(r, next) => DOMAIN n = DOMAIN r \ {next}
             /\ ~Ends(r, next) => n = r
             /\ \A x \in DOMAIN r \ {next} : x \in DOMAIN n /\ n[x] = r[x]
  BY DEF SwitchInRunnable, Restrict

LEMMA SwitchInType ==
  ASSUME NEW r, RunnableType(r), NEW next
  PROVE  RunnableType(SwitchInRunnable(r, next))
  BY DEF SwitchInRunnable, RunnableType, Restrict

-----------------------------------------------------------------------------
(* Type correctness. *)

\* A processor runs a running thread, and no thread runs on two of them.
CpuRuns ==
  /\ \A c \in Cpus : cpu[c] \in Tids => task[cpu[c]] = "running"
  /\ \A c, d \in Cpus : cpu[c] = cpu[d] /\ cpu[c] \in Tids => c = d

\* The three programs keep the types of the maps and of the ring.
LEMMA WakeupType ==
  ASSUME TypeOK, NEW t \in Tids
  PROVE  RunnableType(trace_wakeup_common(t))
  <1>1. RunnableType(runnable_ts)
    BY DEF TypeOK, RunnableType
  <1>2. RunnableType(record_runnable(runnable_ts, t, clock, Wakeup))
    BY <1>1, RecordType DEF TypeOK
  <1> QED
    BY <1>1, <1>2 DEF trace_wakeup_common

LEMMA SwitchType ==
  ASSUME TypeOK, NEW prev \in Tids \cup {Idle}, NEW prev_state,
         NEW next \in Tids \cup {Idle}, handle_sched_switch(prev, prev_state, next)
  PROVE  RunnableType(runnable_ts') /\ events' \in Seq(Event) /\ target_tid_map' \in SUBSET Tids
  <1> DEFINE out == SwitchOut(runnable_ts, prev, prev_state)
  <1>1. RunnableType(runnable_ts)
    BY DEF TypeOK, RunnableType
  <1>2. is_tracked_tid(prev) => prev \in Tids
    BY DEF TypeOK, is_tracked_tid
  <1>3. RunnableType(out)
    BY <1>1, <1>2, RecordType DEF SwitchOut, TypeOK
  <1>4. RunnableType(SwitchInRunnable(out, next))
    BY <1>3, SwitchInType
  <1>5. SwitchInEvents(out, next) \in Seq(Event)
    <2>1. CASE Ends(out, next)
      <3>1. next \in Tids /\ out[next] \in Info
        BY <1>3, <2>1 DEF Ends, is_tracked_tid, TypeOK, RunnableType
      <3>2. [start_ns |-> out[next].ts, end_ns |-> clock, tid |-> next, type |-> out[next].type] \in Event
        BY <3>1 DEF Event, Info, TypeOK
      <3> QED
        BY <3>2 DEF SwitchInEvents, send_event, TypeOK
    <2>2. CASE ~Ends(out, next)
      BY <2>2 DEF SwitchInEvents, TypeOK
    <2> QED
      BY <2>1, <2>2
  <1> QED
    BY <1>4, <1>5 DEF handle_sched_switch, TypeOK

\* The queue holds the ready threads: Queue does to it what the action does to
\* their states.
LEMMA QueueType ==
  ASSUME TypeOK, NEW next, NEW begun, begun \subseteq Tids,
         NEW type, type \in {Wakeup, Preempt, Unseen}, Queue(next, begun, type)
  PROVE  /\ DOMAIN wait' = (DOMAIN wait \ {next}) \cup begun
         /\ wait' \in [DOMAIN wait' -> Wait]
         /\ watched' \in SUBSET DOMAIN wait'
  <1>1. [since |-> clock, type |-> type] \in Wait
    BY DEF TypeOK, Wait
  <1> QED
    BY <1>1 DEF TypeOK, Queue

LEMMA WakeQueue ==
  ASSUME TypeOK, NEW t \in Tids, Queue(Idle, {t}, Wakeup), task' = [task EXCEPT ![t] = "ready"]
  PROVE  /\ DOMAIN wait' = {x \in Tids : task'[x] = "ready"}
         /\ wait' \in [DOMAIN wait' -> Wait]
         /\ watched' \in SUBSET DOMAIN wait'
  <1>1. {t} \subseteq Tids /\ Wakeup \in {Wakeup, Preempt, Unseen}
    OBVIOUS
  <1>2. /\ DOMAIN wait' = (DOMAIN wait \ {Idle}) \cup {t}
        /\ wait' \in [DOMAIN wait' -> Wait]
        /\ watched' \in SUBSET DOMAIN wait'
    BY <1>1, QueueType
  <1>3. Idle \notin DOMAIN wait
    BY ConstantsAssumption DEF TypeOK
  <1>4. \A x \in Tids : task'[x] = "ready" <=> x = t \/ task[x] = "ready"
    BY DEF TypeOK
  <1>5. DOMAIN wait = {x \in Tids : task[x] = "ready"}
    BY DEF TypeOK
  <1>6. DOMAIN wait' = DOMAIN wait \cup {t}
    BY <1>2, <1>3
  <1>7. DOMAIN wait' = {x \in Tids : task'[x] = "ready"}
    BY <1>4, <1>5, <1>6
  <1> QED
    BY <1>2, <1>7

LEMMA TypeInit == Init => TypeOK
  <1> SUFFICES ASSUME Init PROVE TypeOK
    OBVIOUS
  <1>1. /\ runnable_ts \in [DOMAIN runnable_ts -> Info] /\ DOMAIN runnable_ts = {}
        /\ wait \in [DOMAIN wait -> Wait] /\ DOMAIN wait = {}
    BY DEF Init
  <1> QED
    BY <1>1, ConstantsAssumption DEF Init, TypeOK, Time

\* A switch from a thread moves it, and the thread it switches to, out of or
\* into the queue as their new states say.
LEMMA SwitchQueue ==
  ASSUME TypeOK, CpuRuns, NEW c \in Cpus, NEW prev \in Tids, NEW next \in Tids \cup {Idle},
         NEW how \in Leaving(prev), SwitchFromThread(c, prev, next, how)
  PROVE  /\ prev # next
         /\ DOMAIN wait' = {x \in Tids : task'[x] = "ready"}
         /\ wait' \in [DOMAIN wait' -> Wait]
         /\ watched' \in SUBSET DOMAIN wait'
         /\ how.to = "ready" =>
              /\ wait'[prev] = [since |-> clock,
                                type |-> IF how.prev_state = TASK_RUNNING THEN Preempt ELSE Unseen]
              /\ prev \in watched' <=> prev \in target_tid_map
         /\ \A t \in DOMAIN wait' \ {prev} : /\ t \in DOMAIN wait /\ wait'[t] = wait[t]
                                             /\ t \in watched' <=> t \in watched
  <1> DEFINE begun == IF how.to = "ready" THEN {prev} ELSE {}
             type == IF how.prev_state = TASK_RUNNING THEN Preempt ELSE Unseen
  <1>1. begun \in SUBSET Tids /\ type \in {Wakeup, Preempt, Unseen} /\ Queue(next, begun, type)
    BY DEF SwitchFromThread
  <1>2. task[prev] = "running" /\ prev # next
    BY ConstantsAssumption DEF SwitchFromThread, CpuRuns
  <1>3. (DOMAIN wait \ {next}) \cup begun = {x \in Tids : task'[x] = "ready"}
    BY <1>2, ConstantsAssumption DEF SwitchFromThread, TypeOK, Leaving
  <1>4. /\ how.to = "ready" => prev \in begun
        /\ \A t \in DOMAIN wait' \ {prev} : t \notin begun
    OBVIOUS
  <1>5. prev \notin watched
    BY <1>2 DEF TypeOK
  <1> HIDE DEF begun, type
  <1>6. /\ DOMAIN wait' = (DOMAIN wait \ {next}) \cup begun
        /\ wait' \in [DOMAIN wait' -> Wait]
        /\ watched' \in SUBSET DOMAIN wait'
    BY <1>1, QueueType
  <1>7. /\ \A t \in begun : wait'[t] = [since |-> clock, type |-> type]
        /\ \A t \in begun : t \in watched' <=> t \in target_tid_map \/ (t \in watched /\ t # next)
        /\ \A t \in DOMAIN wait' \ begun : t \in DOMAIN wait /\ wait'[t] = wait[t]
        /\ \A t \in DOMAIN wait' \ begun : t \in watched' <=> t \in watched
    BY <1>1, <1>6 DEF Queue
  <1> QED
    BY <1>2, <1>3, <1>4, <1>5, <1>6, <1>7 DEF type

LEMMA TypeStep == TypeOK /\ CpuRuns /\ [Next]_vars => TypeOK'
  <1> SUFFICES ASSUME TypeOK, CpuRuns, [Next]_vars PROVE TypeOK'
    OBVIOUS
  <1> USE DEF sched, maps
  <1>1. CASE Tick
    BY <1>1, ConstantsAssumption DEF Tick, TypeOK, Time
  <1>2. CASE ring_buffer__poll
    BY <1>2 DEF ring_buffer__poll, TypeOK
  <1>3. ASSUME NEW t \in Tids, SetTaskState(t) PROVE TypeOK'
    BY <1>3 DEF SetTaskState, TypeOK
  <1>4. ASSUME NEW t \in Tids, sched_wakeup(t) PROVE TypeOK'
    <2>1. /\ DOMAIN wait' = {x \in Tids : task'[x] = "ready"}
          /\ wait' \in [DOMAIN wait' -> Wait] /\ watched' \in SUBSET DOMAIN wait'
      <3>1. CASE UNCHANGED <<task, wait, watched>>
        BY <3>1 DEF TypeOK
      <3> QED
        BY <1>4, <3>1, WakeQueue DEF sched_wakeup
    <2>2. RunnableType(runnable_ts')
      BY <1>4, WakeupType DEF sched_wakeup
    <2> QED
      BY <1>4, <2>1, <2>2 DEF sched_wakeup, TypeOK, RunnableType
  <1>5. ASSUME NEW t \in Tids, sched_wakeup_new(t) PROVE TypeOK'
    <2>1. /\ DOMAIN wait' = {x \in Tids : task'[x] = "ready"}
          /\ wait' \in [DOMAIN wait' -> Wait] /\ watched' \in SUBSET DOMAIN wait'
      BY <1>5, WakeQueue DEF sched_wakeup_new
    <2>2. RunnableType(runnable_ts')
      BY <1>5, WakeupType DEF sched_wakeup_new
    <2> QED
      BY <1>5, <2>1, <2>2 DEF sched_wakeup_new, TypeOK, RunnableType
  <1>6. ASSUME NEW t \in Tids, add_tid_to_bpf_map(t) PROVE TypeOK'
    BY <1>6 DEF add_tid_to_bpf_map, TypeOK
  <1>7. ASSUME NEW c \in Cpus, NEW next \in Tids, SwitchFromIdle(c, next) PROVE TypeOK'
    <2>1. RunnableType(runnable_ts') /\ events' \in Seq(Event) /\ target_tid_map' \in SUBSET Tids
      BY <1>7, SwitchType DEF SwitchFromIdle
    <2>2. /\ DOMAIN wait' = {x \in Tids : task'[x] = "ready"}
          /\ wait' \in [DOMAIN wait' -> Wait] /\ watched' \in SUBSET DOMAIN wait'
      <3>1. {} \subseteq Tids /\ Preempt \in {Wakeup, Preempt, Unseen} /\ Queue(next, {}, Preempt)
        BY <1>7 DEF SwitchFromIdle
      <3>2. /\ DOMAIN wait' = (DOMAIN wait \ {next}) \cup {}
            /\ wait' \in [DOMAIN wait' -> Wait] /\ watched' \in SUBSET DOMAIN wait'
        BY <3>1, QueueType
      <3> QED
        BY <1>7, <3>2 DEF SwitchFromIdle, TypeOK
    <2> QED
      BY <1>7, <2>1, <2>2 DEF SwitchFromIdle, TypeOK, RunnableType
  <1>8. ASSUME NEW c \in Cpus, NEW prev \in Tids, NEW next \in Tids \cup {Idle},
               NEW how \in Leaving(prev), SwitchFromThread(c, prev, next, how)
        PROVE  TypeOK'
    <2>1. RunnableType(runnable_ts') /\ events' \in Seq(Event) /\ target_tid_map' \in SUBSET Tids
      BY <1>8, SwitchType DEF SwitchFromThread
    <2>2. task' \in [Tids -> {"absent", "sleeping", "ready", "running"}]
      BY <1>8 DEF SwitchFromThread, TypeOK, Leaving
    <2>3. /\ DOMAIN wait' = {x \in Tids : task'[x] = "ready"}
          /\ wait' \in [DOMAIN wait' -> Wait] /\ watched' \in SUBSET DOMAIN wait'
      BY <1>8, SwitchQueue
    <2> QED
      BY <1>8, <2>1, <2>2, <2>3 DEF SwitchFromThread, TypeOK, RunnableType
  <1>9. CASE UNCHANGED vars
    BY <1>9 DEF vars, TypeOK
  <1> QED
    BY <1>1, <1>2, <1>3, <1>4, <1>5, <1>6, <1>7, <1>8, <1>9 DEF Next

LEMMA CpuStep == TypeOK /\ CpuRuns /\ [Next]_vars => CpuRuns'
  <1> SUFFICES ASSUME TypeOK, CpuRuns, [Next]_vars PROVE CpuRuns'
    OBVIOUS
  <1> USE DEF sched, maps
  <1>1. CASE Tick \/ ring_buffer__poll \/ UNCHANGED vars
    BY <1>1 DEF Tick, ring_buffer__poll, vars, CpuRuns
  <1>2. ASSUME NEW t \in Tids, SetTaskState(t) \/ add_tid_to_bpf_map(t) PROVE CpuRuns'
    BY <1>2 DEF SetTaskState, add_tid_to_bpf_map, CpuRuns
  <1>3. ASSUME NEW t \in Tids, sched_wakeup(t) \/ sched_wakeup_new(t) PROVE CpuRuns'
    BY <1>3 DEF sched_wakeup, sched_wakeup_new, CpuRuns, TypeOK
  <1>4. ASSUME NEW c \in Cpus, NEW next \in Tids, SwitchFromIdle(c, next) PROVE CpuRuns'
    BY <1>4, ConstantsAssumption DEF SwitchFromIdle, CpuRuns, TypeOK
  <1>5. ASSUME NEW c \in Cpus, NEW prev \in Tids, NEW next \in Tids \cup {Idle},
               NEW how \in Leaving(prev), SwitchFromThread(c, prev, next, how)
        PROVE  CpuRuns'
    <2>1. next \in Tids => task[next] = "ready" /\ task'[next] = "running"
      BY <1>5, SwitchQueue, ConstantsAssumption DEF SwitchFromThread
    <2>2. /\ \A t \in Tids \ {prev, next} : task'[t] = task[t]
          /\ cpu'[c] = next /\ \A d \in Cpus \ {c} : cpu'[d] = cpu[d]
      BY <1>5 DEF SwitchFromThread, TypeOK
    <2>3. \A d \in Cpus \ {c} : cpu[d] # prev /\ (next \in Tids => cpu[d] # next)
      BY <1>5, <2>1 DEF SwitchFromThread, CpuRuns
    <2>4. ASSUME NEW d \in Cpus, cpu'[d] \in Tids PROVE task'[cpu'[d]] = "running"
      BY <2>1, <2>2, <2>3, <2>4 DEF CpuRuns
    <2>5. ASSUME NEW d \in Cpus, NEW e \in Cpus, cpu'[d] = cpu'[e], cpu'[d] \in Tids PROVE d = e
      BY <2>2, <2>3, <2>5 DEF CpuRuns
    <2> QED
      BY <2>4, <2>5 DEF CpuRuns
  <1> QED
    BY <1>1, <1>2, <1>3, <1>4, <1>5 DEF Next

\* The maps, the ring and the scheduler's state keep their types.
THEOREM TypeCorrect == Spec => []TypeOK
  <1>1. Init => CpuRuns
    BY ConstantsAssumption DEF Init, CpuRuns
  <1> QED
    BY <1>1, TypeInit, TypeStep, CpuStep, PTL DEF Spec

-----------------------------------------------------------------------------
(* The capacity of the maps. *)

RecordsAreTracked == DOMAIN runnable_ts \subseteq target_tid_map
TargetsFit == Cardinality(target_tid_map) <= TargetEntries

LEMMA RoomFollows ==
  ASSUME TypeOK, RecordsAreTracked, TargetsFit
  PROVE  RunnableHasRoom
  <1> SUFFICES ASSUME NEW t \in target_tid_map, t \notin DOMAIN runnable_ts
               PROVE  Cardinality(DOMAIN runnable_ts) < RunnableEntries
    BY DEF RunnableHasRoom
  <1>1. IsFiniteSet(target_tid_map) /\ IsFiniteSet(target_tid_map \ {t})
    BY FS_Subset, ConstantsAssumption DEF TypeOK
  <1>2. Cardinality(target_tid_map \ {t}) = Cardinality(target_tid_map) - 1
    BY <1>1, FS_RemoveElement
  <1>3. DOMAIN runnable_ts \subseteq target_tid_map \ {t}
    BY DEF RecordsAreTracked
  <1>4. Cardinality(DOMAIN runnable_ts) <= Cardinality(target_tid_map \ {t})
    BY <1>1, <1>3, FS_Subset
  <1>5. /\ Cardinality(target_tid_map) \in Nat
        /\ Cardinality(DOMAIN runnable_ts) \in Nat
    BY <1>1, <1>3, FS_Subset, FS_CardinalityType
  <1> QED
    BY <1>2, <1>4, <1>5, ConstantsAssumption DEF TargetsFit

\* The records after a switch: prev may gain one, next may lose its own.
LEMMA SwitchDomain ==
  ASSUME NEW prev, NEW prev_state, NEW next, handle_sched_switch(prev, prev_state, next)
  PROVE  /\ DOMAIN runnable_ts' \subseteq DOMAIN runnable_ts \cup (target_tid_map \cap {prev})
         /\ target_tid_map' = target_tid_map
  <1> DEFINE out == SwitchOut(runnable_ts, prev, prev_state)
  <1>1. DOMAIN out \subseteq DOMAIN runnable_ts \cup (target_tid_map \cap {prev})
    BY RecordDomain DEF SwitchOut, is_tracked_tid
  <1>2. DOMAIN SwitchInRunnable(out, next) \subseteq DOMAIN out
    BY SwitchInEffect
  <1> QED
    BY <1>1, <1>2 DEF handle_sched_switch

LEMMA WakeupDomain ==
  ASSUME NEW t
  PROVE  DOMAIN trace_wakeup_common(t) \subseteq DOMAIN runnable_ts \cup (target_tid_map \cap {t})
  BY RecordDomain DEF trace_wakeup_common, is_tracked_tid

\* A record implies a target, and targets fit in their map.
LEMMA RoomStep ==
  TypeOK /\ RecordsAreTracked /\ TargetsFit /\ [Next]_vars => (RecordsAreTracked /\ TargetsFit)'
  <1> SUFFICES ASSUME TypeOK, RecordsAreTracked, TargetsFit, [Next]_vars
               PROVE  (RecordsAreTracked /\ TargetsFit)'
    OBVIOUS
  <1> USE DEF sched, maps, RecordsAreTracked, TargetsFit
  <1>1. CASE Tick \/ ring_buffer__poll \/ UNCHANGED vars \/ \E t \in Tids : SetTaskState(t)
    BY <1>1 DEF Tick, ring_buffer__poll, SetTaskState, vars
  <1>2. ASSUME NEW t \in Tids, sched_wakeup(t) \/ sched_wakeup_new(t)
        PROVE  (RecordsAreTracked /\ TargetsFit)'
    BY <1>2, WakeupDomain DEF sched_wakeup, sched_wakeup_new
  <1>3. ASSUME NEW t \in Tids, add_tid_to_bpf_map(t) PROVE (RecordsAreTracked /\ TargetsFit)'
    <2>1. IsFiniteSet(target_tid_map)
      BY FS_Subset, ConstantsAssumption DEF TypeOK
    <2>2. Cardinality(target_tid_map \cup {t}) = Cardinality(target_tid_map) + 1
      BY <1>3, <2>1, FS_AddElement DEF add_tid_to_bpf_map
    <2>3. Cardinality(target_tid_map) \in Nat
      BY <2>1, FS_CardinalityType
    <2> QED
      BY <1>3, <2>2, <2>3, ConstantsAssumption DEF add_tid_to_bpf_map
  <1>4. ASSUME NEW c \in Cpus, NEW next \in Tids, SwitchFromIdle(c, next)
        PROVE  (RecordsAreTracked /\ TargetsFit)'
    BY <1>4, SwitchDomain DEF SwitchFromIdle
  <1>5. ASSUME NEW c \in Cpus, NEW prev \in Tids, NEW next \in Tids \cup {Idle},
               NEW how \in Leaving(prev), SwitchFromThread(c, prev, next, how)
        PROVE  (RecordsAreTracked /\ TargetsFit)'
    BY <1>5, SwitchDomain DEF SwitchFromThread
  <1> QED
    BY <1>1, <1>2, <1>3, <1>4, <1>5 DEF Next

LEMMA RoomInit == Init => RecordsAreTracked /\ TargetsFit
  BY FS_EmptySet, ConstantsAssumption DEF Init, RecordsAreTracked, TargetsFit

\* However threads come and go, runnable_ts has room for every tracked one:
\* no latency record is ever refused for lack of space.
THEOREM RunnableNeverFull == Spec => []RunnableHasRoom
  <1>1. Init => RecordsAreTracked /\ TargetsFit
    BY RoomInit
  <1>2. TypeOK /\ RecordsAreTracked /\ TargetsFit => RunnableHasRoom
    BY RoomFollows
  <1> QED
    BY <1>1, <1>2, RoomStep, TypeCorrect, PTL DEF Spec

-----------------------------------------------------------------------------
(* Events of one thread do not overlap. *)

\* The strengthening: every event lies in the past, events of a thread are
\* disjoint, and a thread's record is no older than its last event.
EventsPast(ev, now) ==
  \A i \in 1 .. Len(ev) : ev[i].start_ns < ev[i].end_ns /\ ev[i].end_ns <= now

Disjoint(ev) ==
  \A i, j \in 1 .. Len(ev) :
    i < j /\ ev[i].tid = ev[j].tid => ev[i].end_ns <= ev[j].start_ns

RecordsFollow(r, ev, now) ==
  \A t \in DOMAIN r :
    /\ 0 < r[t].ts /\ r[t].ts <= now
    /\ \A i \in 1 .. Len(ev) : ev[i].tid = t => ev[i].end_ns <= r[t].ts

EventsInv ==
  /\ 0 < clock
  /\ EventsPast(events, clock)
  /\ Disjoint(events)
  /\ RecordsFollow(runnable_ts, events, clock)

\* A new record is made now, after every event of its thread.
LEMMA RecordFollows ==
  ASSUME TypeOK, EventsInv, NEW t \in Tids, NEW type
  PROVE  RecordsFollow(record_runnable(runnable_ts, t, clock, type), events, clock)
  BY DEF TypeOK, EventsInv, RecordsFollow, EventsPast, record_runnable, Time

\* A wait that ends is reported after every earlier event of its thread, and
\* its record is gone.
LEMMA SwitchInFollows ==
  ASSUME TypeOK, EventsInv, NEW out, RunnableType(out), RecordsFollow(out, events, clock),
         NEW next
  PROVE  LET ev == SwitchInEvents(out, next)
         IN  /\ EventsPast(ev, clock)
             /\ Disjoint(ev)
             /\ RecordsFollow(SwitchInRunnable(out, next), ev, clock)
  <1> DEFINE ev == SwitchInEvents(out, next)
             r == SwitchInRunnable(out, next)
             e == [start_ns |-> out[next].ts, end_ns |-> clock, tid |-> next,
                   type |-> out[next].type]
  <1>1. CASE /\ Ends(out, next)
             /\ clock - out[next].ts > Noise
             /\ Len(events) < RingSlots
    <2>1. ev = Append(events, e)
      BY <1>1 DEF SwitchInEvents, send_event
    <2>2. /\ next \in DOMAIN out
          /\ out[next].ts \in Nat /\ clock \in Nat
          /\ events \in Seq(Event) /\ Len(events) \in Nat
      BY <1>1 DEF Ends, RunnableType, Info, TypeOK, Time
    <2>3. /\ Len(ev) = Len(events) + 1
          /\ \A i \in 1 .. Len(events) : ev[i] = events[i]
          /\ ev[Len(events) + 1] = e
      BY <2>1, <2>2
    <2>4. \A i \in 1 .. Len(ev) : i \in 1 .. Len(events) \/ i = Len(events) + 1
      BY <2>2, <2>3
    <2>5. e.start_ns < e.end_ns /\ e.end_ns <= clock
      BY <1>1, <2>2, ConstantsAssumption
    <2>6. EventsPast(ev, clock)
      BY <2>3, <2>4, <2>5 DEF EventsInv, EventsPast
    <2>7. \A i \in 1 .. Len(events) : events[i].tid = next => events[i].end_ns <= e.start_ns
      BY <2>2 DEF RecordsFollow
    <2>8. Disjoint(ev)
      BY <2>2, <2>3, <2>4, <2>7 DEF EventsInv, Disjoint
    <2>9. RecordsFollow(r, ev, clock)
      <3>1. DOMAIN r = DOMAIN out \ {next} /\ \A x \in DOMAIN r : r[x] = out[x]
        BY <1>1 DEF SwitchInRunnable, Restrict
      <3> QED
        BY <2>3, <2>4, <3>1 DEF RecordsFollow
    <2> QED
      BY <2>6, <2>8, <2>9
  <1>2. CASE ~(/\ Ends(out, next)
               /\ clock - out[next].ts > Noise
               /\ Len(events) < RingSlots)
    <2>1. ev = events
      BY <1>2 DEF SwitchInEvents, send_event
    <2>2. RecordsFollow(r, events, clock)
      BY DEF RecordsFollow, SwitchInRunnable, Restrict
    <2> QED
      BY <2>1, <2>2 DEF EventsInv
  <1> QED
    BY <1>1, <1>2

LEMMA SwitchFollows ==
  ASSUME TypeOK, EventsInv, NEW prev \in Tids \cup {Idle}, NEW prev_state,
         NEW next \in Tids \cup {Idle}, handle_sched_switch(prev, prev_state, next),
         UNCHANGED clock
  PROVE  EventsInv'
  <1> DEFINE out == SwitchOut(runnable_ts, prev, prev_state)
  <1>1. is_tracked_tid(prev) => prev \in Tids
    BY DEF TypeOK, is_tracked_tid
  <1>2. RunnableType(runnable_ts)
    BY DEF TypeOK, RunnableType
  <1>3. RunnableType(out)
    BY <1>1, <1>2, RecordType DEF SwitchOut, TypeOK
  <1>4. RecordsFollow(out, events, clock)
    BY <1>1, RecordFollows DEF SwitchOut, EventsInv
  <1> QED
    BY <1>3, <1>4, SwitchInFollows DEF handle_sched_switch, EventsInv

LEMMA EventsStep == TypeOK /\ EventsInv /\ [Next]_vars => EventsInv'
  <1> SUFFICES ASSUME TypeOK, EventsInv, [Next]_vars PROVE EventsInv'
    OBVIOUS
  <1> USE DEF sched, maps
  <1>1. CASE Tick
    <2>1. \A e \in Event, n \in Nat : e.end_ns \in Nat
      BY DEF Event, Time
    <2>2. \A i \in 1 .. Len(events) : events[i] \in Event
      BY DEF TypeOK
    <2>3. \A t \in DOMAIN runnable_ts : runnable_ts[t].ts \in Nat
      BY DEF TypeOK, Info, Time
    <2> QED
      BY <1>1, <2>1, <2>2, <2>3
      DEF Tick, TypeOK, Time, EventsInv, EventsPast, RecordsFollow
  <1>2. CASE ring_buffer__poll
    <2>1. /\ Len(events) \in Nat
          /\ Len(events') = Len(events) - 1
          /\ \A i \in 1 .. Len(events') : i + 1 \in 1 .. Len(events) /\ events'[i] = events[i + 1]
      BY <1>2 DEF ring_buffer__poll, TypeOK
    <2>2. EventsPast(events', clock) /\ RecordsFollow(runnable_ts, events', clock)
      BY <2>1 DEF EventsInv, EventsPast, RecordsFollow
    <2>3. Disjoint(events')
      <3> SUFFICES ASSUME NEW i \in 1 .. Len(events'), NEW j \in 1 .. Len(events'),
                          i < j, events'[i].tid = events'[j].tid
                   PROVE  events'[i].end_ns <= events'[j].start_ns
        BY DEF Disjoint
      <3>1. i + 1 < j + 1
        BY <2>1
      <3>2. /\ i + 1 \in 1 .. Len(events) /\ events'[i] = events[i + 1]
            /\ j + 1 \in 1 .. Len(events) /\ events'[j] = events[j + 1]
        BY <2>1
      <3>3. events[i + 1].end_ns <= events[j + 1].start_ns
        BY <3>1, <3>2 DEF EventsInv, Disjoint
      <3> QED
        BY <3>2, <3>3
    <2> QED
      BY <1>2, <2>2, <2>3 DEF ring_buffer__poll, EventsInv
  <1>3. ASSUME NEW t \in Tids, SetTaskState(t) \/ add_tid_to_bpf_map(t) PROVE EventsInv'
    BY <1>3 DEF SetTaskState, add_tid_to_bpf_map, EventsInv
  <1>4. ASSUME NEW t \in Tids, sched_wakeup(t) \/ sched_wakeup_new(t) PROVE EventsInv'
    <2>1. RecordsFollow(trace_wakeup_common(t), events, clock)
      BY RecordFollows DEF trace_wakeup_common, EventsInv
    <2> QED
      BY <1>4, <2>1 DEF sched_wakeup, sched_wakeup_new, EventsInv
  <1>5. ASSUME NEW c \in Cpus, NEW next \in Tids, SwitchFromIdle(c, next) PROVE EventsInv'
    BY <1>5, SwitchFollows DEF SwitchFromIdle
  <1>6. ASSUME NEW c \in Cpus, NEW prev \in Tids, NEW next \in Tids \cup {Idle},
               NEW how \in Leaving(prev), SwitchFromThread(c, prev, next, how)
        PROVE  EventsInv'
    BY <1>6, SwitchFollows DEF SwitchFromThread
  <1>7. CASE UNCHANGED vars
    BY <1>7 DEF vars, EventsInv
  <1> QED
    BY <1>1, <1>2, <1>3, <1>4, <1>5, <1>6, <1>7 DEF Next

\* The reader may add up the events of a thread: no instant is in two of them,
\* even when threads are preempted inside the kernel.
THEOREM EventsNeverOverlap == Spec => []EventsDisjoint
  <1>1. Init => EventsInv
    BY DEF Init, EventsInv, EventsPast, Disjoint, RecordsFollow
  <1>2. TypeOK /\ EventsInv => EventsDisjoint
    BY DEF TypeOK, EventsInv, EventsPast, Disjoint, EventsDisjoint
  <1> QED
    BY <1>1, <1>2, EventsStep, TypeCorrect, PTL DEF Spec

-----------------------------------------------------------------------------
(* Records tell the truth about every wait a program saw begin. *)

\* A thread in the run queue is not about to sleep: only kernel preemption
\* could have put it there in that state.
BlockingOffQueue ==
  \A t \in blocking : task[t] \in {"sleeping", "running"} \/ (t \in DOMAIN wait /\ ~Seen(t))

WaitsTracked == watched \subseteq target_tid_map

MatchInv ==
  /\ BlockingOffQueue
  /\ WaitsTracked
  /\ RecordsMatchWaits

\* What was proved above, in one formula.
Proved ==
  /\ TypeOK
  /\ CpuRuns
  /\ RecordsAreTracked
  /\ TargetsFit
  /\ EventsInv

LEMMA ProvedInv == Spec => []Proved
  <1>1. Init => EventsInv
    BY DEF Init, EventsInv, EventsPast, Disjoint, RecordsFollow
  <1>2. Init => RecordsAreTracked /\ TargetsFit
    BY RoomInit
  <1>3. Init => CpuRuns
    BY ConstantsAssumption DEF Init, CpuRuns
  <1> QED
    BY <1>1, <1>2, <1>3, TypeInit, TypeStep, CpuStep, RoomStep, EventsStep, PTL DEF Spec, Proved

\* t has a record, and what it says.
RecordIs(r, t, since, type) == t \in DOMAIN r /\ r[t] = [ts |-> since, type |-> type]

Same(r, n, t) == (t \in DOMAIN n <=> t \in DOMAIN r) /\ (t \in DOMAIN r => n[t] = r[t])

\* A new record for a tracked thread is always stored, and no other changes.
LEMMA TrackedRecord ==
  ASSUME Proved, NEW t \in target_tid_map, NEW type
  PROVE  /\ RecordIs(record_runnable(runnable_ts, t, clock, type), t, clock, type)
         /\ \A x \in Tids \ {t} : Same(runnable_ts, record_runnable(runnable_ts, t, clock, type), x)
  <1>1. t \in DOMAIN runnable_ts \/ Cardinality(DOMAIN runnable_ts) < RunnableEntries
    BY RoomFollows DEF Proved, RunnableHasRoom
  <1> QED
    BY <1>1 DEF record_runnable, RecordIs, Same

LEMMA WakeupRecord ==
  ASSUME Proved, NEW t \in Tids
  PROVE  /\ t \in target_tid_map => RecordIs(trace_wakeup_common(t), t, clock, Wakeup)
         /\ t \notin target_tid_map => t \notin DOMAIN trace_wakeup_common(t)
         /\ \A x \in Tids \ {t} : Same(runnable_ts, trace_wakeup_common(t), x)
  <1>1. CASE t \in target_tid_map
    BY <1>1, TrackedRecord DEF trace_wakeup_common, is_tracked_tid
  <1>2. CASE t \notin target_tid_map
    BY <1>2 DEF trace_wakeup_common, is_tracked_tid, Same, Proved, RecordsAreTracked
  <1> QED
    BY <1>1, <1>2

LEMMA SwitchOutRecord ==
  ASSUME Proved, NEW prev \in Tids \cup {Idle}, NEW prev_state
  PROVE  LET out == SwitchOut(runnable_ts, prev, prev_state)
         IN  /\ prev \in target_tid_map /\ prev_state = TASK_RUNNING
                  => RecordIs(out, prev, clock, Preempt)
             /\ prev \notin target_tid_map => prev \notin DOMAIN out
             /\ \A x \in Tids \ {prev} : Same(runnable_ts, out, x)
  <1>1. CASE prev \in target_tid_map /\ prev_state = TASK_RUNNING
    BY <1>1, TrackedRecord DEF SwitchOut, is_tracked_tid
  <1>2. CASE ~(prev \in target_tid_map /\ prev_state = TASK_RUNNING)
    BY <1>2 DEF SwitchOut, is_tracked_tid, Same, Proved, RecordsAreTracked
  <1> QED
    BY <1>1, <1>2

LEMMA SwitchInRecord ==
  ASSUME NEW r, NEW next, NEW x, x # next
  PROVE  Same(r, SwitchInRunnable(r, next), x)
  BY DEF SwitchInRunnable, Restrict, Same

\* The records after a switch from prev to next.
LEMMA SwitchRecord ==
  ASSUME Proved, NEW prev \in Tids \cup {Idle}, NEW prev_state,
         NEW next \in Tids \cup {Idle}, prev # next,
         handle_sched_switch(prev, prev_state, next)
  PROVE  /\ prev \in target_tid_map /\ prev_state = TASK_RUNNING
              => RecordIs(runnable_ts', prev, clock, Preempt)
         /\ prev \notin target_tid_map => prev \notin DOMAIN runnable_ts'
         /\ \A x \in Tids \ {prev, next} : Same(runnable_ts, runnable_ts', x)
         /\ target_tid_map' = target_tid_map
  <1> DEFINE out == SwitchOut(runnable_ts, prev, prev_state)
  <1>1. \A x : x # next => Same(out, runnable_ts', x)
    BY SwitchInRecord DEF handle_sched_switch
  <1>2. /\ prev \in target_tid_map /\ prev_state = TASK_RUNNING
              => RecordIs(out, prev, clock, Preempt)
        /\ prev \notin target_tid_map => prev \notin DOMAIN out
        /\ \A x \in Tids \ {prev} : Same(runnable_ts, out, x)
    BY SwitchOutRecord
  <1> HIDE DEF out
  <1> QED
    BY <1>1, <1>2 DEF Same, RecordIs, handle_sched_switch

\* A switch, seen from the scheduler: next leaves the queue, prev may join it.
LEMMA SwitchMatch ==
  ASSUME Proved, MatchInv,
         NEW c \in Cpus, NEW prev \in Tids, NEW next \in Tids \cup {Idle},
         NEW how \in Leaving(prev), SwitchFromThread(c, prev, next, how)
  PROVE  prev # next /\ MatchInv'
  <1>1. task[prev] = "running" /\ prev # next
    BY SwitchQueue, ConstantsAssumption DEF SwitchFromThread, Proved, CpuRuns
  <1>2. /\ task'[prev] = how.to
        /\ next \in Tids => task'[next] = "running"
        /\ \A t \in Tids \ {prev, next} : task'[t] = task[t]
        /\ how.to # "running"
        /\ task' \in [Tids -> {"absent", "sleeping", "ready", "running"}]
    BY <1>1 DEF SwitchFromThread, Leaving, Proved, TypeOK
  <1>5. /\ target_tid_map' = target_tid_map
        /\ blocking' = blocking
        /\ DOMAIN wait' = {x \in Tids : task'[x] = "ready"}
        /\ watched' \in SUBSET DOMAIN wait'
        /\ how.to = "ready" =>
             /\ wait'[prev] = [since |-> clock,
                               type |-> IF how.prev_state = TASK_RUNNING THEN Preempt ELSE Unseen]
             /\ prev \in watched' <=> prev \in target_tid_map
        /\ \A t \in DOMAIN wait' \ {prev} : /\ t # next /\ t \in DOMAIN wait /\ wait'[t] = wait[t]
                                            /\ t \in watched' <=> t \in watched
    <2>1. TypeOK /\ CpuRuns
      BY DEF Proved
    <2>2. next \notin DOMAIN wait'
      BY <1>1, <1>2, <2>1, SwitchQueue
    <2>3. target_tid_map' = target_tid_map /\ blocking' = blocking
      BY DEF SwitchFromThread, handle_sched_switch
    <2> QED
      BY <2>1, <2>2, <2>3, SwitchQueue
  <1>6. prev \in DOMAIN wait' <=> how.to = "ready"
    BY <1>2, <1>5
  <1>7. BlockingOffQueue'
    <2> SUFFICES ASSUME NEW t \in blocking, task'[t] \notin {"sleeping", "running"}
                 PROVE  t \in DOMAIN wait' /\ wait'[t].type = Unseen
      BY <1>5 DEF BlockingOffQueue, Seen
    <2>1. CASE t = prev
      <3>1. how.to = "ready" /\ how.prev_state = TASK_REPORT_MAX
        BY <1>2, <2>1 DEF Leaving
      <3> QED
        BY <1>5, <1>6, <2>1, <3>1 DEF TASK_REPORT_MAX, TASK_RUNNING
    <2>2. CASE t # prev
      <3>1. t \in Tids /\ t # next
        BY <1>2 DEF Proved, TypeOK
      <3>2. task'[t] = task[t]
        BY <1>2, <2>2, <3>1
      <3>3. t \in DOMAIN wait /\ ~Seen(t)
        BY <3>2 DEF MatchInv, BlockingOffQueue
      <3>4. t \in DOMAIN wait'
        BY <1>5, <3>1, <3>2, <3>3 DEF Proved, TypeOK
      <3> QED
        BY <1>5, <2>2, <3>3, <3>4 DEF Seen
    <2> QED
      BY <2>1, <2>2
  <1>8. WaitsTracked'
    BY <1>5, <1>6 DEF MatchInv, WaitsTracked
  <1>9. RecordsMatchWaits'
    <2>1. /\ prev \in target_tid_map /\ how.prev_state = TASK_RUNNING
               => RecordIs(runnable_ts', prev, clock, Preempt)
          /\ prev \notin target_tid_map => prev \notin DOMAIN runnable_ts'
          /\ \A x \in Tids \ {prev, next} : Same(runnable_ts, runnable_ts', x)
      BY <1>1, SwitchRecord DEF SwitchFromThread
    <2> SUFFICES ASSUME NEW t \in DOMAIN wait', wait'[t].type # Unseen
                 PROVE  IF t \in watched'
                        THEN RecordIs(runnable_ts', t, wait'[t].since, wait'[t].type)
                        ELSE t \notin DOMAIN runnable_ts'
      BY DEF RecordsMatchWaits, RecordIs, Seen
    <2>2. CASE t = prev
      <3>1. how.prev_state = TASK_RUNNING
        BY <1>5, <1>6, <2>2
      <3> QED
        BY <1>5, <1>6, <2>1, <2>2, <3>1
    <2>3. CASE t # prev
      <3>1. /\ t \in Tids /\ t # next /\ t \in DOMAIN wait /\ wait'[t] = wait[t]
            /\ t \in watched' <=> t \in watched
        BY <1>5, <2>3
      <3> QED
        BY <2>1, <2>3, <3>1 DEF MatchInv, RecordsMatchWaits, Same, RecordIs, Seen
    <2> QED
      BY <2>2, <2>3
  <1> QED
    BY <1>1, <1>7, <1>8, <1>9 DEF MatchInv

LEMMA SwitchFromIdleMatch ==
  ASSUME Proved, MatchInv, NEW c \in Cpus, NEW next \in Tids, SwitchFromIdle(c, next)
  PROVE  Idle # next /\ MatchInv'
  <1>1. Idle # next
    BY ConstantsAssumption
  <1>2. task'[next] = "running" /\ \A t \in Tids \ {next} : task'[t] = task[t]
    BY DEF SwitchFromIdle, Proved, TypeOK
  <1>4. /\ DOMAIN wait' = DOMAIN wait \ {next}
        /\ \A t \in DOMAIN wait' : wait'[t] = wait[t] /\ (t \in watched' <=> t \in watched)
        /\ watched' \subseteq watched
    BY QueueType DEF SwitchFromIdle, Proved, Queue
  <1>5. BlockingOffQueue'
    BY <1>2, <1>4 DEF SwitchFromIdle, MatchInv, BlockingOffQueue, Proved, TypeOK, Seen
  <1>6. /\ target_tid_map' = target_tid_map
        /\ \A x \in Tids \ {next} : Same(runnable_ts, runnable_ts', x)
    BY <1>1, SwitchRecord, ConstantsAssumption DEF SwitchFromIdle
  <1>7. WaitsTracked'
    BY <1>4, <1>6 DEF MatchInv, WaitsTracked
  <1>8. RecordsMatchWaits'
    <2>1. DOMAIN wait \subseteq Tids
      BY DEF Proved, TypeOK
    <2> QED
      BY <1>4, <1>6, <2>1 DEF MatchInv, RecordsMatchWaits, Same, Seen
  <1> QED
    BY <1>1, <1>5, <1>7, <1>8 DEF MatchInv

\* A wakeup makes an exact record of the wait it begins; of a thread that is
\* still running it makes one that the next wait seen to begin will overwrite.
LEMMA WakeupMatch ==
  ASSUME Proved, MatchInv, NEW t \in Tids, sched_wakeup(t) \/ sched_wakeup_new(t)
  PROVE  MatchInv'
  <1>1. /\ task[t] \notin {"ready", "running"} => task'[t] = "ready"
        /\ task[t] \in {"ready", "running"} => task'[t] = task[t]
        /\ \A x \in Tids \ {t} : task'[x] = task[x]
        /\ blocking' \subseteq blocking /\ cpu' = cpu /\ target_tid_map' = target_tid_map
        /\ runnable_ts' = trace_wakeup_common(t)
    BY DEF sched_wakeup, sched_wakeup_new, MatchInv, BlockingOffQueue, Proved, TypeOK
  <1>2. /\ task[t] = "ready" => /\ ~Seen(t) /\ wait' = wait
        /\ t \in DOMAIN wait' /\ t \notin DOMAIN wait =>
             /\ wait'[t] = [since |-> clock, type |-> Wakeup]
             /\ t \in watched' <=> t \in target_tid_map
        /\ DOMAIN wait \subseteq DOMAIN wait' /\ DOMAIN wait' \subseteq DOMAIN wait \cup {t}
        /\ \A x \in DOMAIN wait : wait'[x] = wait[x] /\ (x \in watched' <=> x \in watched)
        /\ watched' \subseteq watched \cup target_tid_map
    <2>1. CASE Queue(Idle, {t}, Wakeup) /\ task[t] \notin {"ready", "running"}
      <3>1. t \notin DOMAIN wait
        BY <2>1 DEF Proved, TypeOK
      <3> QED
        BY <2>1, <3>1, ConstantsAssumption DEF Proved, TypeOK, Queue
    <2>2. CASE UNCHANGED <<wait, watched>> /\ t \in blocking
      BY <2>2 DEF MatchInv, BlockingOffQueue
    <2> QED
      BY <2>1, <2>2 DEF sched_wakeup, sched_wakeup_new
  <1>4. BlockingOffQueue'
    BY <1>1, <1>2 DEF sched_wakeup, sched_wakeup_new, MatchInv, BlockingOffQueue, Proved, TypeOK, Seen
  <1>5. WaitsTracked'
    BY <1>1, <1>2 DEF MatchInv, WaitsTracked
  <1>6. RecordsMatchWaits'
    <2> SUFFICES ASSUME NEW x \in DOMAIN wait', wait'[x].type # Unseen
                 PROVE  IF x \in watched'
                        THEN RecordIs(runnable_ts', x, wait'[x].since, wait'[x].type)
                        ELSE x \notin DOMAIN runnable_ts'
      BY DEF RecordsMatchWaits, RecordIs, Seen
    <2>1. CASE x \in DOMAIN wait
      <3>1. /\ wait'[x] = wait[x] /\ x \in Tids /\ task[x] = "ready" /\ Seen(x)
            /\ x \in watched' <=> x \in watched
        BY <1>2, <2>1 DEF Proved, TypeOK, Seen
      <3>2. x # t
        BY <1>2, <3>1
      <3>3. Same(runnable_ts, runnable_ts', x)
        BY <1>1, <3>1, <3>2, WakeupRecord
      <3> QED
        BY <2>1, <3>1, <3>3 DEF MatchInv, RecordsMatchWaits, Same, RecordIs
    <2>2. CASE x \notin DOMAIN wait
      <3>1. x = t
        BY <1>2, <2>2
      <3> QED
        BY <1>1, <1>2, <2>2, <3>1, WakeupRecord
    <2> QED
      BY <2>1, <2>2
  <1> QED
    BY <1>4, <1>5, <1>6 DEF MatchInv

LEMMA MatchStep ==
  Proved /\ MatchInv /\ [Next]_vars => MatchInv'
  <1> SUFFICES ASSUME Proved, MatchInv, [Next]_vars PROVE MatchInv'
    OBVIOUS
  <1> USE DEF sched, maps
  <1>1. CASE Tick \/ ring_buffer__poll \/ UNCHANGED vars
    BY <1>1 DEF Tick, ring_buffer__poll, vars, MatchInv, BlockingOffQueue,
                WaitsTracked, RecordsMatchWaits, Seen
  <1>2. ASSUME NEW t \in Tids, SetTaskState(t) PROVE MatchInv'
    BY <1>2 DEF SetTaskState, MatchInv, BlockingOffQueue,
                WaitsTracked, RecordsMatchWaits, Seen
  <1>3. ASSUME NEW t \in Tids, add_tid_to_bpf_map(t) PROVE MatchInv'
    BY <1>3 DEF add_tid_to_bpf_map, MatchInv, BlockingOffQueue,
                WaitsTracked, RecordsMatchWaits, Seen
  <1>4. ASSUME NEW t \in Tids, sched_wakeup(t) \/ sched_wakeup_new(t) PROVE MatchInv'
    BY <1>4, WakeupMatch
  <1>5. ASSUME NEW c \in Cpus, NEW next \in Tids, SwitchFromIdle(c, next) PROVE MatchInv'
    BY <1>5, SwitchFromIdleMatch
  <1>6. ASSUME NEW c \in Cpus, NEW prev \in Tids, NEW next \in Tids \cup {Idle},
               NEW how \in Leaving(prev), SwitchFromThread(c, prev, next, how)
        PROVE  MatchInv'
    BY <1>6, SwitchMatch
  <1> QED
    BY <1>1, <1>2, <1>3, <1>4, <1>5, <1>6 DEF Next

LEMMA MatchInit == Init => MatchInv
  BY ConstantsAssumption DEF Init, MatchInv, BlockingOffQueue, WaitsTracked, RecordsMatchWaits

LEMMA MatchCorrect == Spec => [](Proved /\ MatchInv)
  <1>1. Proved /\ MatchInv /\ [Next]_vars => MatchInv'
    BY MatchStep
  <1> QED
    BY <1>1, MatchInit, ProvedInv, PTL DEF Spec

\* The record of a waiting thread is exact, if a program saw the wait begin:
\* since when it waits, and whether it was woken or preempted.
THEOREM RecordsExact == Spec => []RecordsMatchWaits
  <1>1. Proved /\ MatchInv => RecordsMatchWaits
    BY DEF MatchInv
  <1> QED
    BY <1>1, MatchCorrect, PTL

-----------------------------------------------------------------------------
(* Every report is true, and none is missing. *)

\* What a switch to next sends, and that it is at most one event, of next.
Truthful(next) ==
  IF /\ next \in DOMAIN wait /\ next \in watched /\ Seen(next)
     /\ clock - wait[next].since > Noise
     /\ Len(events) < RingSlots
  THEN events' = Append(events, WaitOf(next))
  ELSE \/ events' = events
       \/ /\ next \in DOMAIN wait /\ ~Seen(next)
          /\ \E since \in 1 .. clock, type \in {Wakeup, Preempt} :
               /\ clock - since > Noise /\ Len(events) < RingSlots
               /\ events' = Append(events, [start_ns |-> since, end_ns |-> clock,
                                            tid |-> next, type |-> type])

LEMMA SwitchReport ==
  ASSUME Proved, MatchInv, NEW prev \in Tids \cup {Idle}, NEW prev_state,
         NEW next \in Tids \cup {Idle}, prev # next,
         next \in Tids => task[next] = "ready",
         handle_sched_switch(prev, prev_state, next)
  PROVE  Truthful(next)
  <1> DEFINE out == SwitchOut(runnable_ts, prev, prev_state)
  <1>1. events' = SwitchInEvents(out, next)
    BY DEF handle_sched_switch
  <1>2. next \in Tids => Same(runnable_ts, out, next)
    BY SwitchOutRecord
  <1>3. next \in Tids <=> next \in DOMAIN wait
    BY DEF Proved, TypeOK
  <1> HIDE DEF out
  <1>4. CASE next \in Tids /\ Seen(next) /\ next \in watched
    <2>1. next \in target_tid_map /\ RecordIs(runnable_ts, next, wait[next].since, wait[next].type)
      BY <1>3, <1>4 DEF MatchInv, WaitsTracked, RecordsMatchWaits, RecordIs
    <2>2. RecordIs(out, next, wait[next].since, wait[next].type)
      BY <1>2, <1>4, <2>1 DEF Same, RecordIs
    <2>3. 0 < runnable_ts[next].ts /\ runnable_ts[next].ts = wait[next].since
      BY <2>1 DEF RecordIs, Proved, EventsInv, RecordsFollow
    <2>4. Ends(out, next) /\ out[next].ts = wait[next].since /\ out[next].type = wait[next].type
      BY <2>1, <2>2, <2>3 DEF Ends, is_tracked_tid, RecordIs
    <2> QED
      BY <1>1, <1>3, <1>4, <2>4 DEF SwitchInEvents, send_event, WaitOf, Truthful
  <1>5. CASE next \in Tids /\ Seen(next) /\ next \notin watched
    <2>1. ~Ends(out, next)
      BY <1>2, <1>3, <1>5 DEF Ends, Same, MatchInv, RecordsMatchWaits
    <2> QED
      BY <1>1, <1>5, <2>1 DEF SwitchInEvents, Truthful
  <1>6. CASE next \in Tids /\ ~Seen(next)
    <2>1. CASE Ends(out, next) /\ clock - out[next].ts > Noise /\ Len(events) < RingSlots
      <3>1. next \in DOMAIN runnable_ts /\ out[next] = runnable_ts[next]
        BY <1>2, <1>6, <2>1 DEF Same, Ends
      <3>2. out[next].type \in {Wakeup, Preempt} /\ out[next].ts \in 1 .. clock
        BY <3>1 DEF Proved, TypeOK, Info, Time, EventsInv, RecordsFollow
      <3>3. events' = Append(events, [start_ns |-> out[next].ts, end_ns |-> clock,
                                      tid |-> next, type |-> out[next].type])
        BY <1>1, <2>1 DEF SwitchInEvents, send_event
      <3> QED
        BY <1>3, <1>6, <2>1, <3>2, <3>3 DEF Truthful
    <2>2. CASE ~(Ends(out, next) /\ clock - out[next].ts > Noise /\ Len(events) < RingSlots)
      <3>1. events' = events
        BY <1>1, <2>2 DEF SwitchInEvents, send_event
      <3> QED
        BY <1>6, <3>1 DEF Truthful
    <2> QED
      BY <2>1, <2>2
  <1>7. CASE next \notin Tids
    <2>1. ~Ends(out, next)
      BY <1>7 DEF Ends, is_tracked_tid, Proved, TypeOK
    <2> QED
      BY <1>1, <1>3, <1>7, <2>1 DEF SwitchInEvents, Truthful
  <1> QED
    BY <1>4, <1>5, <1>6, <1>7

\* Only a switch sends an event or starts a thread, and then the event is the
\* wait of the thread it starts.
Report(next) ==
  /\ \A t \in Tids : Starts(t) => t = next
  /\ next \in DOMAIN wait => next \in Tids /\ Starts(next)
  /\ Truthful(next)

NoReport ==
  /\ \A t \in Tids : ~Starts(t)
  /\ events' = events \/ (events # <<>> /\ events' = Tail(events))

LEMMA StepReports ==
  ASSUME Proved, MatchInv, [Next]_vars
  PROVE  NoReport \/ \E next \in Tids \cup {Idle} : Report(next)
  <1> USE DEF sched, maps
  <1>1. CASE Tick \/ ring_buffer__poll \/ UNCHANGED vars
    BY <1>1 DEF Tick, ring_buffer__poll, vars, NoReport, Starts
  <1>2. ASSUME NEW t \in Tids, SetTaskState(t) \/ add_tid_to_bpf_map(t) PROVE NoReport
    BY <1>2 DEF SetTaskState, add_tid_to_bpf_map, NoReport, Starts
  <1>3. ASSUME NEW t \in Tids, sched_wakeup(t) \/ sched_wakeup_new(t) PROVE NoReport
    BY <1>3 DEF sched_wakeup, sched_wakeup_new, NoReport, Starts, Proved, TypeOK
  <1>4. ASSUME NEW c \in Cpus, NEW next \in Tids, SwitchFromIdle(c, next) PROVE Report(next)
    <2>1. Idle # next
      BY <1>4, SwitchFromIdleMatch
    <2> QED
      BY <1>4, <2>1, SwitchReport DEF SwitchFromIdle, Report, Starts, Proved, TypeOK
  <1>5. ASSUME NEW c \in Cpus, NEW prev \in Tids, NEW next \in Tids \cup {Idle},
               NEW how \in Leaving(prev), SwitchFromThread(c, prev, next, how)
        PROVE  Report(next)
    <2>1. prev # next
      BY <1>5, SwitchMatch
    <2>2. next \in Tids => task[next] = "ready" /\ task'[next] = "running"
      BY <1>5, <2>1, ConstantsAssumption DEF SwitchFromThread
    <2>3. \A t \in Tids \ {next} : ~Starts(t)
      BY <1>5 DEF SwitchFromThread, Leaving, Starts
    <2>4. next \in DOMAIN wait => next \in Tids
      BY DEF Proved, TypeOK
    <2> QED
      BY <1>5, <2>1, <2>2, <2>3, <2>4, SwitchReport DEF SwitchFromThread, Report, Starts
  <1> QED
    BY <1>1, <1>2, <1>3, <1>4, <1>5 DEF Next

\* An event is the true wait of the thread that gets the CPU in the step that
\* sends it, if a program saw the wait begin.
THEOREM ReportsTrue == Spec => ReportsAreTrue
  <1>1. ASSUME Proved, MatchInv, [Next]_vars, Len(events') > Len(events)
        PROVE  \E t \in Tids : Starts(t) /\ (Seen(t) => events' = Append(events, WaitOf(t)))
    <2>1. events \in Seq(Event) /\ Len(events) \in Nat
      BY <1>1 DEF Proved, TypeOK
    <2>2. ~NoReport
      BY <1>1, <2>1 DEF NoReport
    <2>3. PICK next \in Tids \cup {Idle} : Report(next)
      BY <1>1, <2>2, StepReports
    <2>4. events' # events
      BY <1>1, <2>1
    <2> QED
      BY <2>3, <2>4 DEF Report, Truthful
  <1>2. Proved /\ MatchInv /\ [Next]_vars =>
          [Len(events') > Len(events) =>
             \E t \in Tids : /\ Starts(t)
                             /\ Seen(t) => events' = Append(events, WaitOf(t))]_vars
    BY <1>1
  <1> QED
    BY <1>2, MatchCorrect, PTL DEF Spec, ReportsAreTrue

\* Every long enough wait of a thread tracked since it began is reported, if a
\* program saw it begin and the ring buffer is not full.
THEOREM NoneMissed == Spec => NoWaitMissed
  <1>1. ASSUME Proved, MatchInv, [Next]_vars, NEW t \in Tids, Starts(t), t \in watched, Seen(t),
               clock - wait[t].since > Noise, Len(events) < RingSlots
        PROVE  events' = Append(events, WaitOf(t))
    <2>1. PICK next \in Tids \cup {Idle} : Report(next)
      BY <1>1, StepReports DEF NoReport
    <2>2. t = next /\ t \in DOMAIN wait
      BY <1>1, <2>1 DEF Report, Starts, Proved, TypeOK
    <2> QED
      BY <1>1, <2>1, <2>2 DEF Report, Truthful
  <1>2. Proved /\ MatchInv /\ [Next]_vars =>
          [\A t \in Tids :
             /\ Starts(t) /\ t \in watched /\ Seen(t)
             /\ clock - wait[t].since > Noise
             /\ Len(events) < RingSlots
             => events' = Append(events, WaitOf(t))]_vars
    BY <1>1
  <1> QED
    BY <1>2, MatchCorrect, PTL DEF Spec, NoWaitMissed

-----------------------------------------------------------------------------
(* The programs implement WaitReports. *)

\* The threads of begun whose report is owed, or may be made.
OwedOf(begun, type) == {t \in begun : t \in target_tid_map \/ type = Unseen}

\* What the scheduler does to its queue, as the reader of the ring sees it.
LEMMA OwedQueue ==
  ASSUME TypeOK, NEW next, NEW begun, begun \subseteq Tids, begun \cap DOMAIN wait = {},
         NEW type, Queue(next, begun, type)
  PROVE  Owed' = [t \in (DOMAIN Owed \ {next}) \cup OwedOf(begun, type) |->
                    IF t \in OwedOf(begun, type) THEN [since |-> clock, type |-> type] ELSE Owed[t]]
  <1> DEFINE B == OwedOf(begun, type)
             old == {u \in DOMAIN wait : u \in watched \/ ~Seen(u)}
  <1>1. /\ DOMAIN wait' = (DOMAIN wait \ {next}) \cup begun
        /\ \A t \in begun : /\ wait'[t] = [since |-> clock, type |-> type]
                            /\ t \in watched' <=> t \in target_tid_map
        /\ \A t \in DOMAIN wait \ {next} : wait'[t] = wait[t] /\ (t \in watched' <=> t \in watched)
    BY DEF Queue, TypeOK
  <1>2. \A t : t \in DOMAIN wait' /\ (t \in watched' \/ wait'[t].type = Unseen)
             <=> t \in (old \ {next}) \cup B
    <2> TAKE t
    <2>1. CASE t \in begun
      BY <1>1, <2>1 DEF OwedOf
    <2>2. CASE t \notin begun
      BY <1>1, <2>2 DEF OwedOf, Seen
    <2> QED
      BY <2>1, <2>2
  <1>3. {u \in DOMAIN wait' : u \in watched' \/ wait'[u].type = Unseen} = (old \ {next}) \cup B
    BY <1>2
  <1>4. Owed' = [t \in {u \in DOMAIN wait' : u \in watched' \/ wait'[u].type = Unseen} |-> wait'[t]]
    BY DEF Owed, Seen
  <1>5. \A t \in (old \ {next}) \cup B :
          wait'[t] = IF t \in B THEN [since |-> clock, type |-> type] ELSE wait[t]
    BY <1>1 DEF OwedOf
  <1>6. DOMAIN Owed = old /\ \A t \in old : Owed[t] = wait[t]
    BY DEF Owed
  <1> HIDE DEF B, old
  <1> QED
    BY <1>3, <1>4, <1>5, <1>6 DEF B

\* What a switch sends is what the reader is promised.
LEMMA TruthfulReports ==
  ASSUME Proved, NEW next \in Tids \cup {Idle}, Truthful(next)
  PROVE  WR!Reports(next)
  <1>1. /\ next \in DOMAIN Owed <=> next \in DOMAIN wait /\ (next \in watched \/ ~Seen(next))
        /\ next \in DOMAIN Owed => Owed[next] = wait[next]
    BY DEF Owed
  <1>2. CASE next \in DOMAIN wait /\ next \in watched /\ Seen(next)
    BY <1>1, <1>2 DEF Truthful, WaitOf, Seen, WR!Reports, WR!Report, WR!Reportable, WR!Unseen, Unseen
  <1>3. CASE next \in DOMAIN wait /\ ~Seen(next)
    BY <1>1, <1>3 DEF Truthful, Seen, WR!Reports, WR!Report, WR!Reportable, WR!Unseen, Unseen,
                      WR!Wakeup, WR!Preempt, Wakeup, Preempt
  <1>4. CASE ~(next \in DOMAIN wait /\ (next \in watched \/ ~Seen(next)))
    BY <1>1, <1>4 DEF Truthful, WR!Reports
  <1> QED
    BY <1>2, <1>3, <1>4

\* A change of the queue, with its report, is a step of the abstract module.
LEMMA QueueChange ==
  ASSUME TypeOK, NEW next \in Tids \cup {Idle}, NEW begun \in {{}} \cup {{b} : b \in Tids},
         begun \cap DOMAIN wait = {}, NEW type \in {Wakeup, Preempt, Unseen},
         Queue(next, begun, type), WR!Reports(next), UNCHANGED clock
  PROVE  WR!Next
  <1>1. begun \subseteq Tids
    OBVIOUS
  <1>2. OwedOf(begun, type) \in {{}} \cup {{b} : b \in Tids}
    <2>1. CASE begun = {}
      BY <2>1 DEF OwedOf
    <2>2. ASSUME NEW b \in Tids, begun = {b}
          PROVE  OwedOf(begun, type) \in {{}} \cup {{c} : c \in Tids}
      <3>1. OwedOf(begun, type) = {} \/ OwedOf(begun, type) = {b}
        BY <2>2 DEF OwedOf
      <3> QED
        BY <3>1
    <2> QED
      BY <2>1, <2>2
  <1>3. WR!Change(next, OwedOf(begun, type), type)
    <2>1. Owed' = [t \in (DOMAIN Owed \ {next}) \cup OwedOf(begun, type) |->
                     IF t \in OwedOf(begun, type) THEN [since |-> clock, type |-> type] ELSE Owed[t]]
      BY <1>1, OwedQueue, ZenonT(60)
    <2> QED
      BY <2>1 DEF WR!Change
  <1> QED
    BY <1>2, <1>3 DEF WR!Next, WR!Wakeup, WR!Preempt, WR!Unseen, Wakeup, Preempt, Unseen

LEMMA RefinedStep == Proved /\ MatchInv /\ [Next]_vars => [WR!Next]_(WR!vars)
  <1> SUFFICES ASSUME Proved, MatchInv, [Next]_vars PROVE [WR!Next]_(WR!vars)
    OBVIOUS
  <1> USE DEF sched, maps
  <1>1. CASE Tick
    BY <1>1 DEF Tick, WR!Next, WR!Tick, Owed, Seen
  <1>2. CASE ring_buffer__poll
    BY <1>2 DEF ring_buffer__poll, WR!Next, WR!Read, Owed, Seen
  <1>3. ASSUME NEW t \in Tids, SetTaskState(t) \/ add_tid_to_bpf_map(t) PROVE UNCHANGED WR!vars
    BY <1>3 DEF SetTaskState, add_tid_to_bpf_map, WR!vars, Owed, Seen
  <1>4. ASSUME NEW t \in Tids, sched_wakeup(t) \/ sched_wakeup_new(t) PROVE [WR!Next]_(WR!vars)
    <2>1. CASE UNCHANGED <<wait, watched>>
      BY <1>4, <2>1 DEF sched_wakeup, sched_wakeup_new, WR!vars, Owed, Seen
    <2>2. CASE Queue(Idle, {t}, Wakeup) /\ task[t] # "ready"
      <3>1. {t} \cap DOMAIN wait = {} /\ Idle \notin DOMAIN wait
        BY <2>2, ConstantsAssumption DEF Proved, TypeOK
      <3>2. WR!Reports(Idle)
        BY <1>4, <3>1 DEF sched_wakeup, sched_wakeup_new, WR!Reports, Owed
      <3>3. UNCHANGED clock
        BY <1>4 DEF sched_wakeup, sched_wakeup_new
      <3>4. {t} \in {{}} \cup {{b} : b \in Tids}
        OBVIOUS
      <3> QED
        BY <2>2, <3>1, <3>2, <3>3, <3>4, QueueChange DEF Proved
    <2> QED
      BY <1>4, <2>1, <2>2 DEF sched_wakeup, sched_wakeup_new
  <1>5. ASSUME NEW c \in Cpus, NEW next \in Tids, SwitchFromIdle(c, next) PROVE WR!Next
    <2>1. Truthful(next)
      BY <1>5, SwitchReport, ConstantsAssumption DEF SwitchFromIdle
    <2>2. Queue(next, {}, Preempt) /\ UNCHANGED clock
      BY <1>5 DEF SwitchFromIdle
    <2> QED
      BY <2>1, <2>2, TruthfulReports, QueueChange DEF Proved
  <1>6. ASSUME NEW c \in Cpus, NEW prev \in Tids, NEW next \in Tids \cup {Idle},
               NEW how \in Leaving(prev), SwitchFromThread(c, prev, next, how)
        PROVE  WR!Next
    <2> DEFINE begun == IF how.to = "ready" THEN {prev} ELSE {}
               type == IF how.prev_state = TASK_RUNNING THEN Preempt ELSE Unseen
    <2>1. prev # next /\ prev \notin DOMAIN wait
      <3>1. task[prev] = "running"
        BY <1>6 DEF SwitchFromThread, Proved, CpuRuns
      <3> QED
        BY <1>6, <3>1, SwitchMatch DEF Proved, TypeOK
    <2>2. Truthful(next)
      BY <1>6, <2>1, SwitchReport, ConstantsAssumption DEF SwitchFromThread
    <2>3. /\ begun \in {{}} \cup {{b} : b \in Tids} /\ begun \cap DOMAIN wait = {}
          /\ type \in {Wakeup, Preempt, Unseen} /\ Queue(next, begun, type) /\ UNCHANGED clock
      BY <1>6, <2>1 DEF SwitchFromThread
    <2> HIDE DEF begun, type
    <2> QED
      BY <2>2, <2>3, TruthfulReports, QueueChange DEF Proved
  <1>7. CASE UNCHANGED vars
    BY <1>7 DEF vars, WR!vars, Owed, Seen
  <1> QED
    BY <1>1, <1>2, <1>3, <1>4, <1>5, <1>6, <1>7 DEF Next

\* The maps, the programs and the scheduler together implement the promise
\* made to the reader of the ring: every step is a step of WaitReports or
\* changes nothing the reader can see.
THEOREM Refinement == Spec => ReportsToReader
  <1>1. Init => WR!Init
    <2> SUFFICES ASSUME Init PROVE WR!Init
      OBVIOUS
    <2>1. Owed = [t \in {} |-> [since |-> 0, type |-> WR!Wakeup]]
      BY DEF Init, Owed
    <2> QED
      BY <2>1 DEF Init, WR!Init
  <1> QED
    BY <1>1, RefinedStep, MatchCorrect, PTL DEF Spec, WR!Spec, ReportsToReader

=============================================================================
