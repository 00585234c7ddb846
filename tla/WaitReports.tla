----------------------------- MODULE WaitReports -----------------------------
(***************************************************************************)
(* What the in-kernel monitor promises to the process that reads its ring  *)
(* buffer: every wait for a CPU of a watched thread is reported when it    *)
(* ends, truthfully and once, unless it is short or the ring is full.      *)
(*                                                                         *)
(* No map, processor or task state is left: waiting holds the waits a      *)
(* report is owed for.  A wait whose beginning the tracepoints do not show *)
(* (the thread was preempted inside the kernel) is Unseen: its report may  *)
(* be missing or have another start.  SchedLatency implements this module. *)
(***************************************************************************)
EXTENDS Naturals, Sequences

CONSTANTS Tids, Idle, RingSlots, Noise, MaxTime

VARIABLES
  clock,    \* the time
  waiting,  \* the waits that will be reported: thread |-> [since, type]
  events    \* the ring buffer

vars == <<clock, waiting, events>>

Wakeup  == 0
Preempt == 1
Unseen  == 2

Init ==
  /\ clock = 1
  /\ waiting = [t \in {} |-> [since |-> 0, type |-> Wakeup]]
  /\ events = <<>>

Tick ==
  /\ clock < MaxTime
  /\ clock' = clock + 1
  /\ UNCHANGED <<waiting, events>>

\* The reader takes the oldest report.
Read ==
  /\ events # <<>>
  /\ events' = Tail(events)
  /\ UNCHANGED <<clock, waiting>>

Report(t, since, type) ==
  Append(events, [start_ns |-> since, end_ns |-> clock, tid |-> t, type |-> type])

Reportable(since) == clock - since > Noise /\ Len(events) < RingSlots

\* The ring after thread t, if it is owed a report, gets a CPU.
Reports(t) ==
  \/ /\ t \in DOMAIN waiting /\ waiting[t].type # Unseen /\ Reportable(waiting[t].since)
     /\ events' = Report(t, waiting[t].since, waiting[t].type)
  \/ /\ t \in DOMAIN waiting => waiting[t].type = Unseen \/ ~Reportable(waiting[t].since)
     /\ events' = events
  \/ /\ t \in DOMAIN waiting /\ waiting[t].type = Unseen
     /\ \E since \in 1 .. clock, type \in {Wakeup, Preempt} :
          Reportable(since) /\ events' = Report(t, since, type)

\* Thread t (or no thread, Idle) gets a CPU, and the threads of began begin to
\* wait for one.
Change(t, began, type) ==
  /\ Reports(t)
  /\ waiting' = [x \in (DOMAIN waiting \ {t}) \cup began |->
                   IF x \in began THEN [since |-> clock, type |-> type] ELSE waiting[x]]
  /\ UNCHANGED clock

Next ==
  \/ Tick
  \/ Read
  \/ \E t \in Tids \cup {Idle}, began \in {{}} \cup {{b} : b \in Tids},
       type \in {Wakeup, Preempt, Unseen} : Change(t, began, type)

Spec == Init /\ [][Next]_vars

=============================================================================
