-------------------------- MODULE TargetDiscovery ---------------------------
(***************************************************************************)
(* How the scheduling monitor learns which threads to watch.               *)
(*                                                                         *)
(* A traced thread announces itself once (vllm_trace/trace_patch.py and    *)
(* sitecustomize.py); a worker's later events name it too.  The collector  *)
(* (src/FINAL/collector.py) rewrites the target file when it hears of a    *)
(* new thread, and the monitor (src/FINAL/sched_latency.c) scans the file  *)
(* and adds what it finds to target_tid_map.  Nothing else passes between  *)
(* the three.                                                              *)
(*                                                                         *)
(* Sending never blocks: what the other traffic has left of the send queue *)
(* is not modelled, so a send may always find the queue full.              *)
(***************************************************************************)
EXTENDS Naturals, FiniteSets

CONSTANTS
  Workers,      \* worker processes: lines "<pid>" of the file
  Loops,        \* event-loop threads: lines "tid:<tid>"
  Strangers,    \* threads a previous session has left in the file
  Entries,      \* max_entries of target_tid_map
  MaxStarts,    \* bound on the starts of a monitor
  MaxSwitches,  \* bound on the on/off commands
  WriteFails    \* may writing the target file fail?

Threads == Workers \cup Loops

ASSUME ConstantsAssumption ==
  /\ Workers \cap Loops = {}
  /\ Threads \cap Strangers = {}
  /\ IsFiniteSet(Threads \cup Strangers)
  /\ Entries \in Nat
  /\ MaxStarts \in Nat /\ MaxSwitches \in Nat
  /\ WriteFails \in BOOLEAN

VARIABLES
  on,             \* threads whose process has the monkeypatch tracing enabled
  switches,       \* on/off commands given
  announced,      \* thread_role_announced and _WORKER_READY_PIDS
  sending,        \* threads between their announcement's record and its send
  departed,       \* workers that no longer descend from the target
  inflight,       \* threads named by a message the collector has not received
  collector,      \* where the collector is
  known,          \* _known_worker_pids and _known_exact_tids
  target_file,    \* the threads in the target file
  write_failed,   \* did the last write of the file fail?
  uncleared,      \* did clearing the file at startup fail?
  monitor,        \* is a monitor running?
  starts,         \* monitors started
  target_tid_map  \* the threads it watches

traced  == <<on, switches, announced, sending, departed>>
writer  == <<collector, known, target_file, write_failed, uncleared>>
scanner == <<monitor, starts, target_tid_map>>
vars == <<on, switches, announced, sending, departed, inflight, collector, known, target_file,
          write_failed, uncleared, monitor, starts, target_tid_map>>

\* Only threads are known, only threads or what an earlier session left are in
\* the file and the map, and the map never holds more than its size.
TypeOK ==
  /\ on \in SUBSET Threads
  /\ switches \in 0 .. MaxSwitches
  /\ announced \in SUBSET Threads
  /\ sending \in SUBSET Threads
  /\ departed \in SUBSET Workers
  /\ inflight \in SUBSET Threads
  /\ collector \in {"start", "recv", "persist", "write"}
  /\ known \in SUBSET Threads
  /\ target_file \in SUBSET (Threads \cup Strangers)
  /\ write_failed \in BOOLEAN
  /\ uncleared \in BOOLEAN
  /\ monitor \in BOOLEAN
  /\ starts \in 0 .. MaxStarts
  /\ target_tid_map \in SUBSET (Threads \cup Strangers)
  /\ Cardinality(target_tid_map) <= Entries

-----------------------------------------------------------------------------
(* The traced processes. *)

\* trace_ctl monkeypatch on or off reaches the process of t.
set_enabled(t) ==
  /\ switches < MaxSwitches
  /\ switches' = switches + 1
  /\ on' = IF t \in on THEN on \ {t} ELSE on \cup {t}
  /\ UNCHANGED <<announced, sending, departed, inflight, writer, scanner>>

\* The thread is remembered as announced before it is.
Announce(t) ==
  /\ t \in on /\ t \notin announced
  /\ announced' = announced \cup {t}
  /\ sending' = sending \cup {t}
  /\ UNCHANGED <<on, switches, departed, inflight, writer, scanner>>

emit_thread_role(t) == t \in Loops /\ Announce(t)

emit_worker_process_ready(w) == w \in Workers /\ Announce(w)

\* A message goes into the send queue, or is lost because the queue is full
\* or the tracing has been switched off since.
Send(t) ==
  \/ t \in on /\ inflight' = inflight \cup {t}
  \/ UNCHANGED inflight

\* send_event, TraceSender.emit: the announcement leaves, or not.
send_event(t) ==
  /\ t \in sending
  /\ sending' = sending \ {t}
  /\ Send(t)
  /\ UNCHANGED <<on, switches, announced, departed, writer, scanner>>

\* An event of a step the worker executes; the collector takes the pid of the
\* worker from it too.
TraceSender_emit(w) ==
  /\ w \in on
  /\ Send(w)
  /\ UNCHANGED <<traced, writer, scanner>>

\* A worker exits, or loses the ancestor that links it to the target.
Depart(w) ==
  /\ w \notin departed
  /\ departed' = departed \cup {w}
  /\ UNCHANGED <<on, switches, announced, sending, inflight, writer, scanner>>

-----------------------------------------------------------------------------
(* The collector. *)

\* Mutant: the file of the previous session is kept.
clear_target_file_not ==
  /\ collector = "start"
  /\ collector' = "recv"
  /\ UNCHANGED <<target_file, write_failed, uncleared, known, traced, inflight, scanner>>

\* main empties the file before the socket, for which the controller waits,
\* exists.  A failure is only a warning.
clear_target_file ==
  /\ collector = "start"
  /\ collector' = "recv"
  /\ \/ target_file' = {} /\ UNCHANGED <<write_failed, uncleared>>
     \/ WriteFails /\ write_failed' = TRUE /\ uncleared' = TRUE /\ UNCHANGED target_file
  /\ UNCHANGED <<known, traced, inflight, scanner>>

\* Mutant: a new event-loop thread is remembered and not written.
handle_frames_unpersisted(t) ==
  /\ collector = "recv"
  /\ t \in inflight
  /\ inflight' = inflight \ {t}
  /\ known' = known \cup {t}
  /\ collector' = IF t \in known \cup Loops THEN "recv" ELSE "persist"
  /\ UNCHANGED <<target_file, write_failed, uncleared, traced, scanner>>

\* A message names t.  A thread that is known already is not written again.
handle_frames(t) ==
  /\ collector = "recv"
  /\ t \in inflight
  /\ inflight' = inflight \ {t}
  /\ known' = known \cup {t}
  /\ collector' = IF t \in known THEN "recv" ELSE "persist"
  /\ UNCHANGED <<target_file, write_failed, uncleared, traced, scanner>>

\* _safe_write_text opens the file, which empties it,
open_target_file ==
  /\ collector = "persist"
  /\ \/ target_file' = {} /\ collector' = "write" /\ UNCHANGED write_failed
     \/ WriteFails /\ write_failed' = TRUE /\ collector' = "recv" /\ UNCHANGED target_file
  /\ UNCHANGED <<known, uncleared, traced, inflight, scanner>>

\* Mutant: only the pids are written, not the exact thread ids.
persist_target_file_pids ==
  /\ collector = "write"
  /\ collector' = "recv"
  /\ target_file' = known \cap Workers /\ write_failed' = FALSE
  /\ UNCHANGED <<known, uncleared, traced, inflight, scanner>>

\* and writes every known thread.  A failed write leaves a part of them.
persist_target_file ==
  /\ collector = "write"
  /\ collector' = "recv"
  /\ \/ target_file' = known /\ write_failed' = FALSE
     \/ WriteFails /\ target_file' \in SUBSET known /\ write_failed' = TRUE
  /\ UNCHANGED <<known, uncleared, traced, inflight, scanner>>

-----------------------------------------------------------------------------
(* The monitor. *)

\* The lines a scan takes: a worker must descend from the target, a thread
\* need not.
Accepted(file) == file \ departed

\* Mutant: the map is filled up whatever its size.
Scan_unbounded(map) == {map \cup Accepted(target_file)}

\* target_tid_map after a scan: it grows until it is full.
Scan(map) ==
  {new \in SUBSET (map \cup Accepted(target_file)) :
     /\ map \subseteq new
     /\ Cardinality(new) <= Entries
     /\ new = map \cup Accepted(target_file) \/ Cardinality(new) = Entries}

\* A monitor scans once before it attaches its programs.
StartMonitor ==
  /\ ~monitor /\ starts < MaxStarts
  /\ collector # "start"
  /\ monitor' = TRUE
  /\ starts' = starts + 1
  /\ target_tid_map' \in Scan({})
  /\ UNCHANGED <<traced, inflight, writer>>

\* Mutant: the file is scanned only while the map is empty.
auto_scan_worker_pid_file_once ==
  /\ monitor
  /\ target_tid_map = {}
  /\ target_tid_map' \in Scan({})
  /\ UNCHANGED <<monitor, starts, traced, inflight, writer>>

\* The main loop scans again and again; what is watched stays watched.
auto_scan_worker_pid_file ==
  /\ monitor
  /\ target_tid_map' \in Scan(target_tid_map)
  /\ UNCHANGED <<monitor, starts, traced, inflight, writer>>

\* trace_ctl ebpf off, or a failure: the map goes with the monitor.
StopMonitor ==
  /\ monitor
  /\ monitor' = FALSE
  /\ target_tid_map' = {}
  /\ UNCHANGED <<starts, traced, inflight, writer>>

-----------------------------------------------------------------------------
Init ==
  /\ on \in SUBSET Threads          \* TRACER_MONKEYPATCH_START_ENABLED
  /\ switches = 0
  /\ announced = {} /\ sending = {} /\ departed = {} /\ inflight = {}
  /\ collector = "start" /\ known = {}
  /\ target_file \in {{}, Strangers}
  /\ write_failed = FALSE /\ uncleared = FALSE
  /\ monitor = FALSE /\ starts = 0 /\ target_tid_map = {}

Next ==
  \/ \E t \in Threads : \/ set_enabled(t)
                        \/ emit_thread_role(t)
                        \/ emit_worker_process_ready(t)
                        \/ send_event(t)
                        \/ handle_frames(t)
  \/ \E w \in Workers : TraceSender_emit(w) \/ Depart(w)
  \/ clear_target_file \/ open_target_file \/ persist_target_file
  \/ StartMonitor \/ auto_scan_worker_pid_file \/ StopMonitor

Spec == Init /\ [][Next]_vars

\* The collector receives and the monitor scans for ever; an announcement that
\* was begun is finished; a worker goes on executing steps, and its queue is
\* not full for ever.  No announcement need ever begin, and any may be lost.
Fairness ==
  /\ WF_vars(clear_target_file) /\ WF_vars(open_target_file) /\ WF_vars(persist_target_file)
  /\ WF_vars(auto_scan_worker_pid_file)
  /\ \A t \in Threads : WF_vars(send_event(t)) /\ SF_vars(handle_frames(t))
  /\ \A w \in Workers : SF_vars(TraceSender_emit(w))

LiveSpec == Spec /\ Fairness

-----------------------------------------------------------------------------
(* Properties *)

\* No thread of a previous session is watched, although the file may still
\* name it when the session begins, unless clearing the file failed.
NoStranger == target_tid_map \cap Strangers # {} => uncleared

\* Between two messages the file names every known thread, so that a monitor
\* started later loses none, unless the last write failed.
FileIsComplete == collector = "recv" /\ ~write_failed => target_file = known

\* The map has room for t.
Room(t) == Cardinality(target_tid_map \cup {t}) <= Entries

\* A thread the collector has heard of, be it in the only message that names it,
\* is watched in the end by the monitor that stays: by one that scanned the file
\* while it was empty or before it named the thread, by one started since, and
\* also if a write failed and was made up for by a later one.
KnownAreWatched ==
  \A t \in Threads :
    <>[](t \in known /\ monitor /\ t \notin departed /\ ~write_failed /\ Room(t))
      => <>[](t \in target_tid_map)

\* What it takes for t to be watched.
Watchable(t) ==
  /\ monitor
  /\ t \in on /\ t \notin departed
  /\ ~write_failed
  /\ Room(t)

\* A worker that goes on executing is watched in the end, whatever messages
\* are lost, however often the monitor or the tracing was stopped and started
\* before.
WorkersAreWatched ==
  \A w \in Workers : <>[]Watchable(w) => <>[](w \in target_tid_map)

\* "ebpf_monitor collects the scheduling of the worker threads and of the
\* threads registered explicitly" (README): the same for an event-loop thread
\* that has announced itself.
RegisteredAreWatched ==
  \A t \in Loops : <>[](t \in announced /\ Watchable(t)) => <>[](t \in target_tid_map)

=============================================================================
