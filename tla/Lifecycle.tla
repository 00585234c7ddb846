----------------------------- MODULE Lifecycle ------------------------------
(***************************************************************************)
(* The processes of a tracing session: the controller (src/FINAL/main.c),  *)
(* the collector, the target program and the scheduling monitors it        *)
(* starts, and the trace_ctl commands (vllm_trace/trace_ctl.py) that stop  *)
(* and start monitors while the session runs.  Controller and commands     *)
(* share the control state file, which records the monitor in use.         *)
(*                                                                         *)
(* Of the target, the collector and the monitors only what their start and *)
(* end depend on is modelled: signals, exit, and the events a monitor has  *)
(* handed to ZeroMQ and the collector has not received.                    *)
(***************************************************************************)
EXTENDS Naturals, FiniteSets

CONSTANTS
  Ctls,         \* trace_ctl commands; command k starts monitor k, if any
  Own,          \* the monitor the controller starts itself
  NoPid,        \* pid 0
  NoFile,       \* there is no control state file
  EbpfStart,    \* TRACER_EBPF_START_ENABLED
  CollectorMayDie, \* may the collector end without being asked to?
  Hwm,          \* events a monitor can queue for the collector
  MaxSignals    \* bound on the signals sent to the controller

Monitors == Ctls \cup {Own}

ASSUME ConstantsAssumption ==
  /\ Own \notin Ctls
  /\ NoPid \notin Monitors
  /\ EbpfStart \in BOOLEAN /\ CollectorMayDie \in BOOLEAN
  /\ Hwm \in Nat \ {0}
  /\ MaxSignals \in Nat

VARIABLES
  pc,             \* where main() of the controller is
  exiting,        \* its flag, set by sigint_handler
  child_pid,      \* did it set child_pid (the target)?
  collector_pid,  \* did it set collector_pid?
  ebpf_pid,       \* Own or NoPid
  signals,        \* signals it has been sent
  target,         \* status of the target process
  target_term,    \* has the target been sent SIGTERM?
  collector,      \* status of the collector process
  collector_term, \* who has asked it to stop
  mon,            \* status of each monitor process
  mon_term,       \* monitors that caught SIGTERM in their main loop
  outbox,         \* events each monitor has queued for the collector
  state_file,     \* the control state file, or NoFile
  ctl,            \* where each trace_ctl command is
  snapshot,       \* the state each command has loaded
  \* Observed, and used by no action:
  overlapped,     \* commands during which another one ran, or the controller
                  \* looked for a monitor to stop
  unrecorded      \* commands that started a monitor and could not record it

controller == <<pc, exiting, child_pid, collector_pid, ebpf_pid, signals>>
targets    == <<target, target_term>>
collectors == <<collector, collector_term>>
monitors   == <<mon, mon_term, outbox>>
commands   == <<ctl, snapshot>>
observed   == <<overlapped, unrecorded>>
vars == <<pc, exiting, child_pid, collector_pid, ebpf_pid, signals, target, target_term,
          collector, collector_term, mon, mon_term, outbox, state_file, ctl, snapshot,
          overlapped, unrecorded>>

\* A zombie has exited and its parent has not yet waited for it.
ProcessStatus == {"unborn", "running", "zombie", "gone"}

\* "sending": blocked in zmq_send; "closing": blocked in zmq_ctx_term.
MonitorStatus == ProcessStatus \cup {"sending", "closing"}

\* "flushing": libtracer's destructor sends its last CUPTI records, blocking.
TargetStatus == ProcessStatus \cup {"flushing"}

\* fresh: written by this controller, or taken over from it.
State == [fresh : BOOLEAN, ebpf_pid : Monitors \cup {NoPid}]

\* What a controller that crashed has left, or a file cut short: neither names
\* a live target or a live monitor.
StaleState == [fresh |-> FALSE, ebpf_pid |-> NoPid]

ASSUME NoFileAssumption == NoFile \notin State

StartUp == {"start_collector", "check_collector", "start_target", "start_monitor",
            "check_monitor", "publish"}
Cleanup == {"stop_target", "reap_target", "stop_collector", "reap_collector",
            "stop_monitor", "reap_monitor", "stop_recorded", "remove_state"}

CtlStatus == {"idle", "on", "off", "started", "stopping", "stopped", "done"}

\* The processes and files are in states the code knows: ebpf_pid is the pid of
\* the controller's own monitor or none, and no outbox exceeds its high-water mark.
TypeOK ==
  /\ pc \in StartUp \cup {"wait"} \cup Cleanup \cup {"exited"}
  /\ exiting \in BOOLEAN
  /\ child_pid \in BOOLEAN
  /\ collector_pid \in BOOLEAN
  /\ ebpf_pid \in {Own, NoPid}
  /\ signals \in 0 .. MaxSignals
  /\ target \in TargetStatus
  /\ target_term \in BOOLEAN
  /\ collector \in ProcessStatus
  /\ collector_term \in SUBSET {"controller", "terminal"}
  /\ mon \in [Monitors -> MonitorStatus]
  /\ mon_term \in SUBSET Monitors
  /\ outbox \in [Monitors -> 0 .. Hwm]
  /\ state_file \in State \cup {NoFile}
  /\ ctl \in [Ctls -> CtlStatus]
  /\ snapshot \in [Ctls -> State \cup {NoFile}]
  /\ overlapped \in SUBSET Ctls
  /\ unrecorded \in SUBSET Ctls

-----------------------------------------------------------------------------
(* Signals and exits. *)

Active(k) == ctl[k] \in {"on", "off", "started", "stopping", "stopped"}

\* An exited process stays a zombie while its parent runs and has not waited
\* for it; then init reaps it.
ParentRuns(m) == IF m = Own THEN pc # "exited" ELSE Active(m)

Dead(m) == IF ParentRuns(m) THEN "zombie" ELSE "gone"

\* SIGTERM: in the main loop it sets the monitor's exiting flag; a blocking
\* ZeroMQ call it interrupts returns EINTR, which nothing retries.
Signalled(status, m) ==
  CASE status = "sending" -> "running"
    [] status = "closing" -> Dead(m)
    [] OTHER -> status

\* The monitors of set M get SIGTERM.
Terminate(M) ==
  /\ mon' = [m \in Monitors |-> IF m \in M THEN Signalled(mon[m], m) ELSE mon[m]]
  /\ mon_term' = mon_term \cup {m \in M : mon[m] \in {"running", "sending"}}
  /\ UNCHANGED outbox

\* kill(pid, 0) succeeds, for a zombie too.
pid_alive(m) == m \in Monitors /\ mon[m] \notin {"unborn", "gone"}

CollectorUp == collector = "running"

\* The file is written aside, under a name its writers share, and renamed: a
\* rename may put in place what another writer has only begun.
WriteFile(state, others) ==
  state_file' \in {state} \cup (IF others = {} THEN {} ELSE {StaleState})

-----------------------------------------------------------------------------
(* The controller. *)

sigint_handler(ctrl_c) ==
  /\ pc # "exited"
  /\ signals < MaxSignals
  /\ signals' = signals + 1
  /\ exiting' = TRUE
  /\ target_term' = (target_term \/ child_pid)
  \* Ctrl-C reaches the collector and the monitor Own too: they are in the
  \* controller's process group, the target is not.
  /\ collector_term' = IF ctrl_c /\ CollectorUp
                       THEN collector_term \cup {"terminal"} ELSE collector_term
  /\ Terminate(IF ctrl_c \/ ebpf_pid = Own THEN {Own} ELSE {})
  /\ UNCHANGED <<pc, child_pid, collector_pid, ebpf_pid, target, collector, state_file, commands, observed>>

\* fork and exec of the collector, then up to 2 s for its socket to appear.
StartCollector ==
  /\ pc = "start_collector"
  /\ \/ pc' = "check_collector" /\ collector' = "running"
     \/ pc' = "stop_target" /\ UNCHANGED collector             \* fork failed
  /\ UNCHANGED <<exiting, child_pid, collector_pid, ebpf_pid, signals, targets,
                 collector_term, monitors, state_file, commands, observed>>

\* On a timeout the collector is told to stop and forgotten.
CheckCollector ==
  /\ pc = "check_collector"
  /\ \/ /\ collector_pid' = TRUE
        /\ pc' = "start_target"
        /\ UNCHANGED collector_term
     \/ /\ collector_term' = collector_term \cup {"controller"}
        /\ pc' = "stop_target"
        /\ UNCHANGED collector_pid
  /\ UNCHANGED <<exiting, child_pid, ebpf_pid, signals, targets, collector, monitors,
                 state_file, commands, observed>>

\* The ZeroMQ context and socket, then fork and exec of the target.
StartTarget ==
  /\ pc = "start_target"
  /\ \/ /\ target' = "running"
        /\ child_pid' = TRUE
        /\ pc' = IF EbpfStart THEN "start_monitor" ELSE "publish"
     \/ pc' = "stop_target" /\ UNCHANGED <<target, child_pid>>
  /\ UNCHANGED <<exiting, collector_pid, ebpf_pid, signals, target_term, collectors, monitors,
                 state_file, commands, observed>>

StartMonitor ==
  /\ pc = "start_monitor"
  /\ \/ /\ mon' = [mon EXCEPT ![Own] = "running"]
        /\ pc' = "check_monitor"
     \/ pc' = "publish" /\ UNCHANGED mon                        \* fork failed
  /\ UNCHANGED <<exiting, child_pid, collector_pid, ebpf_pid, signals, targets, collectors,
                 mon_term, outbox, state_file, commands, observed>>

\* 200 ms later: a monitor that has exited already is reaped and not used.
CheckMonitor ==
  /\ pc = "check_monitor"
  /\ IF mon[Own] = "zombie"
     THEN mon' = [mon EXCEPT ![Own] = "gone"] /\ UNCHANGED ebpf_pid
     ELSE ebpf_pid' = Own /\ UNCHANGED mon
  /\ pc' = "publish"
  /\ UNCHANGED <<exiting, child_pid, collector_pid, signals, targets, collectors,
                 mon_term, outbox, state_file, commands, observed>>

\* A failure to write the file is only a warning.
write_control_state_file ==
  /\ pc = "publish"
  /\ \/ WriteFile([fresh |-> TRUE, ebpf_pid |-> ebpf_pid], {k \in Ctls : Active(k)})
     \/ UNCHANGED state_file
  /\ pc' = "wait"
  /\ UNCHANGED <<exiting, child_pid, collector_pid, ebpf_pid, signals, targets, collectors,
                 monitors, commands, observed>>

\* Every 100 ms: has a signal come, has the target exited?
WaitForTarget ==
  /\ pc = "wait"
  /\ \/ exiting /\ UNCHANGED target
     \/ ~exiting /\ target = "zombie" /\ target' = "gone"
  /\ pc' = "stop_target"
  /\ UNCHANGED <<exiting, child_pid, collector_pid, ebpf_pid, signals, target_term, collectors,
                 monitors, state_file, commands, observed>>

\* Mutant: cleanup goes on when the target does not exit.
ReapTarget_nohang ==
  /\ pc = "reap_target"
  /\ target' = IF target = "zombie" THEN "gone" ELSE target
  /\ pc' = "stop_collector"
  /\ UNCHANGED <<exiting, child_pid, collector_pid, ebpf_pid, signals, target_term, collectors,
                 monitors, state_file, commands, observed>>

\* Mutant: cleanup sends the target no SIGTERM, trusting the signal handler.
StopTarget_quiet ==
  /\ pc = "stop_target"
  /\ pc' = IF child_pid THEN "reap_target" ELSE "stop_collector"
  /\ UNCHANGED <<exiting, child_pid, collector_pid, ebpf_pid, signals, targets, collectors,
                 monitors, state_file, commands, observed>>

\* cleanup: each child is sent SIGTERM, then waited for without a time limit.
StopTarget ==
  /\ pc = "stop_target"
  /\ target_term' = (target_term \/ child_pid)
  /\ pc' = IF child_pid THEN "reap_target" ELSE "stop_collector"
  /\ UNCHANGED <<exiting, child_pid, collector_pid, ebpf_pid, signals, target, collectors,
                 monitors, state_file, commands, observed>>

ReapTarget ==
  /\ pc = "reap_target"
  /\ target \in {"zombie", "gone"}
  /\ target' = "gone"
  /\ pc' = "stop_collector"
  /\ UNCHANGED <<exiting, child_pid, collector_pid, ebpf_pid, signals, target_term, collectors,
                 monitors, state_file, commands, observed>>

StopCollector ==
  /\ pc = "stop_collector"
  /\ collector_term' = IF collector_pid THEN collector_term \cup {"controller"} ELSE collector_term
  /\ pc' = IF collector_pid THEN "reap_collector" ELSE "stop_monitor"
  /\ UNCHANGED <<exiting, child_pid, collector_pid, ebpf_pid, signals, targets, collector,
                 monitors, state_file, commands, observed>>

ReapCollector ==
  /\ pc = "reap_collector"
  /\ collector = "zombie"
  /\ collector' = "gone"
  /\ pc' = "stop_monitor"
  /\ UNCHANGED <<exiting, child_pid, collector_pid, ebpf_pid, signals, targets, collector_term,
                 monitors, state_file, commands, observed>>

\* Mutant: the monitor is signalled and not waited for.
StopMonitor_noreap ==
  /\ pc = "stop_monitor"
  /\ Terminate({ebpf_pid} \cap Monitors)
  /\ pc' = "stop_recorded"
  /\ UNCHANGED <<exiting, child_pid, collector_pid, ebpf_pid, signals, targets, collectors,
                 state_file, commands, observed>>

StopMonitor ==
  /\ pc = "stop_monitor"
  /\ Terminate({ebpf_pid} \cap Monitors)
  /\ pc' = IF ebpf_pid = Own THEN "reap_monitor" ELSE "stop_recorded"
  /\ UNCHANGED <<exiting, child_pid, collector_pid, ebpf_pid, signals, targets, collectors,
                 state_file, commands, observed>>

ReapMonitor ==
  /\ pc = "reap_monitor"
  /\ mon[Own] = "zombie"
  /\ mon' = [mon EXCEPT ![Own] = "gone"]
  /\ pc' = "stop_recorded"
  /\ UNCHANGED <<exiting, child_pid, collector_pid, ebpf_pid, signals, targets, collectors,
                 mon_term, outbox, state_file, commands, observed>>

\* Mutant: the monitor a command has started is not looked up.
read_ebpf_pid_from_control_state_own == ebpf_pid

read_ebpf_pid_from_control_state ==
  IF state_file = NoFile THEN NoPid ELSE state_file.ebpf_pid

\* The monitor the file records, if a command has replaced the controller's
\* own.  It is no child of the controller: the waitpid returns at once.
StopRecorded ==
  /\ pc = "stop_recorded"
  /\ Terminate({read_ebpf_pid_from_control_state} \ {NoPid, ebpf_pid})
  /\ overlapped' = overlapped \cup {k \in Ctls : Active(k)}
  /\ pc' = "remove_state"
  /\ UNCHANGED <<exiting, child_pid, collector_pid, ebpf_pid, signals, targets, collectors,
                 state_file, commands, unrecorded>>

\* The file is removed and the controller exits; init reaps what is left.
RemoveState ==
  /\ pc = "remove_state"
  /\ state_file' = NoFile
  /\ pc' = "exited"
  /\ collector' = IF collector = "zombie" THEN "gone" ELSE collector
  /\ UNCHANGED <<exiting, child_pid, collector_pid, ebpf_pid, signals, targets,
                 collector_term, monitors, commands, observed>>

Controller ==
  \/ StartCollector \/ CheckCollector \/ StartTarget \/ StartMonitor \/ CheckMonitor
  \/ write_control_state_file \/ WaitForTarget
  \/ StopTarget \/ ReapTarget \/ StopCollector \/ ReapCollector
  \/ StopMonitor \/ ReapMonitor \/ StopRecorded \/ RemoveState

-----------------------------------------------------------------------------
(* The processes it starts. *)

\* The target may end at any time, and does when told to: at once, or after
\* the destructor of libtracer has sent the records it still holds.
TargetExits ==
  /\ target = "running"
  /\ target' \in {"zombie", "flushing"}
  /\ UNCHANGED <<controller, target_term, collectors, monitors, state_file, commands, observed>>

\* zmq_send blocks as long as there is no collector to connect to.
TargetFlushes ==
  /\ target = "flushing" /\ CollectorUp
  /\ target' = "zombie"
  /\ UNCHANGED <<controller, target_term, collectors, monitors, state_file, commands, observed>>

\* The collector dies of an exception that nothing in it handles: its log cannot be
\* opened or written, a message is no JSON object, the address is in use.
CollectorDies ==
  /\ CollectorMayDie
  /\ CollectorUp
  /\ collector' = IF pc = "exited" THEN "gone" ELSE "zombie"
  /\ UNCHANGED <<controller, targets, collector_term, monitors, state_file, commands, observed>>

\* The collector ends after a stop request, once no message has come for
\* 200 ms: what the monitors have queued and the target is sending has been
\* received.
CollectorExits ==
  /\ CollectorUp /\ collector_term # {}
  /\ \A m \in Monitors : outbox[m] = 0
  /\ target # "flushing"
  /\ collector' = IF pc = "exited" THEN "gone" ELSE "zombie"
  /\ UNCHANGED <<controller, targets, collector_term, monitors, state_file, commands, observed>>

\* Mutant: one event too many is queued.
MonitorEvent_overrun(m) ==
  /\ mon[m] = "running"
  /\ IF outbox[m] <= Hwm
     THEN outbox' = [outbox EXCEPT ![m] = @ + 1] /\ UNCHANGED mon
     ELSE mon' = [mon EXCEPT ![m] = "sending"] /\ UNCHANGED outbox
  /\ UNCHANGED <<controller, targets, collectors, mon_term, state_file, commands, observed>>

\* handle_event passes an event to zmq_send, which blocks when the queue is full.
MonitorEvent(m) ==
  /\ mon[m] = "running"
  /\ IF outbox[m] < Hwm
     THEN outbox' = [outbox EXCEPT ![m] = @ + 1] /\ UNCHANGED mon
     ELSE mon' = [mon EXCEPT ![m] = "sending"] /\ UNCHANGED outbox
  /\ UNCHANGED <<controller, targets, collectors, mon_term, state_file, commands, observed>>

MonitorSent(m) ==
  /\ mon[m] = "sending" /\ outbox[m] < Hwm
  /\ mon' = [mon EXCEPT ![m] = "running"]
  /\ outbox' = [outbox EXCEPT ![m] = @ + 1]
  /\ UNCHANGED <<controller, targets, collectors, mon_term, state_file, commands, observed>>

\* The collector receives a queued event; without a collector it stays queued.
Deliver(m) ==
  /\ CollectorUp /\ outbox[m] > 0
  /\ outbox' = [outbox EXCEPT ![m] = @ - 1]
  /\ UNCHANGED <<controller, targets, collectors, mon, mon_term, state_file, commands, observed>>

\* The main loop ends on the exiting flag, or on a failure to load or poll.
MonitorLeavesLoop(m) ==
  /\ mon[m] = "running"
  /\ mon' = [mon EXCEPT ![m] = "closing"]
  /\ UNCHANGED <<controller, targets, collectors, mon_term, outbox, state_file, commands, observed>>

\* cleanup_zmq: the socket lingers for ever, so zmq_ctx_term returns only when
\* every queued event is delivered.
MonitorExits(m) ==
  /\ mon[m] = "closing" /\ outbox[m] = 0
  /\ mon' = [mon EXCEPT ![m] = Dead(m)]
  /\ UNCHANGED <<controller, targets, collectors, mon_term, outbox, state_file, commands, observed>>

-----------------------------------------------------------------------------
(* A trace_ctl command, on or off, for the scheduling monitor. *)

\* The other commands that are under way.
Others(k) == {j \in Ctls \ {k} : Active(j)}

\* load_state: without the file the command ends.
load_state(k, command) ==
  /\ ctl[k] = "idle"
  /\ snapshot' = [snapshot EXCEPT ![k] = state_file]
  /\ ctl' = [ctl EXCEPT ![k] = IF state_file = NoFile THEN "done" ELSE command]
  /\ overlapped' = overlapped \cup Others(k) \cup (IF Others(k) = {} THEN {} ELSE {k})
  /\ UNCHANGED <<controller, targets, collectors, monitors, state_file, unrecorded>>

\* Command k ends, and with it what it has loaded; a monitor it started and that
\* has exited is reaped.
Finish(k) ==
  /\ ctl' = [ctl EXCEPT ![k] = "done"]
  /\ snapshot' = [snapshot EXCEPT ![k] = NoFile]
  /\ mon' = [mon EXCEPT ![k] = IF @ = "zombie" THEN "gone" ELSE @]

\* Mutant: a second monitor is started without looking at the first.
start_ebpf_unchecked(k) ==
  /\ ctl[k] = "on"
  /\ IF ~snapshot[k].fresh \/ target \in {"unborn", "gone"}
     THEN Finish(k)
     ELSE /\ ctl' = [ctl EXCEPT ![k] = "started"]
          /\ mon' = [mon EXCEPT ![k] = "running"]
          /\ UNCHANGED snapshot
  /\ UNCHANGED <<controller, targets, collectors, mon_term, outbox, state_file, observed>>

\* start_ebpf: nothing to do if the recorded monitor lives, an error if the
\* target does not, otherwise Popen.
start_ebpf(k) ==
  /\ ctl[k] = "on"
  /\ IF pid_alive(snapshot[k].ebpf_pid) \/ ~snapshot[k].fresh \/ target \in {"unborn", "gone"}
     THEN Finish(k)
     ELSE /\ ctl' = [ctl EXCEPT ![k] = "started"]
          /\ mon' = [mon EXCEPT ![k] = "running"]
          /\ UNCHANGED snapshot
  /\ UNCHANGED <<controller, targets, collectors, mon_term, outbox, state_file, observed>>

\* save_state replaces the file by the snapshot with the new pid.
save_state(k, pid) == WriteFile([snapshot[k] EXCEPT !.ebpf_pid = pid], Others(k))

\* 300 ms later: an error if the monitor has exited, otherwise it is recorded.
start_ebpf_check(k) ==
  /\ ctl[k] = "started"
  /\ IF mon[k] = "zombie"
     THEN UNCHANGED state_file
     ELSE save_state(k, k)
  /\ Finish(k)
  /\ UNCHANGED <<controller, targets, collectors, mon_term, outbox, observed>>

\* The command is killed, or a call it makes raises, save_state's open, write
\* and replace included: it ends there, and a monitor it has started runs on.
CommandFails(k) ==
  /\ Active(k)
  /\ unrecorded' = IF ctl[k] = "started" THEN unrecorded \cup {k} ELSE unrecorded
  /\ Finish(k)
  /\ UNCHANGED <<controller, targets, collectors, mon_term, outbox, state_file, overlapped>>

\* stop_ebpf: SIGTERM to the recorded monitor, if it lives.
stop_ebpf(k) ==
  /\ ctl[k] = "off"
  /\ LET pid == snapshot[k].ebpf_pid
     IN  IF pid_alive(pid)
         THEN Terminate({pid}) /\ ctl' = [ctl EXCEPT ![k] = "stopping"]
         ELSE ctl' = [ctl EXCEPT ![k] = "stopped"] /\ UNCHANGED monitors
  /\ UNCHANGED <<controller, targets, collectors, state_file, snapshot, observed>>

\* Mutant: wait for the monitor to disappear, without a deadline.
stop_ebpf_wait_forever(k) ==
  /\ ctl[k] = "stopping"
  /\ ~pid_alive(snapshot[k].ebpf_pid)
  /\ ctl' = [ctl EXCEPT ![k] = "stopped"]
  /\ UNCHANGED <<controller, targets, collectors, monitors, state_file, snapshot, observed>>

\* Up to 3 s for it to disappear, then SIGKILL.
stop_ebpf_wait(k) ==
  /\ ctl[k] = "stopping"
  /\ LET pid == snapshot[k].ebpf_pid
     IN  mon' = IF pid_alive(pid) /\ mon[pid] # "zombie"
                THEN [mon EXCEPT ![pid] = Dead(pid)] ELSE mon
  /\ ctl' = [ctl EXCEPT ![k] = "stopped"]
  /\ UNCHANGED <<controller, targets, collectors, mon_term, outbox, state_file, snapshot, observed>>

stop_ebpf_save(k) ==
  /\ ctl[k] = "stopped"
  /\ save_state(k, NoPid)
  /\ Finish(k)
  /\ UNCHANGED <<controller, targets, collectors, mon_term, outbox, observed>>

Command(k) ==
  start_ebpf(k) \/ start_ebpf_check(k) \/ stop_ebpf(k) \/ stop_ebpf_wait(k) \/ stop_ebpf_save(k)

-----------------------------------------------------------------------------
Init ==
  /\ pc = "start_collector"
  /\ exiting = FALSE /\ child_pid = FALSE /\ collector_pid = FALSE
  /\ ebpf_pid = NoPid /\ signals = 0
  /\ target = "unborn" /\ target_term = FALSE
  /\ collector = "unborn" /\ collector_term = {}
  /\ mon = [m \in Monitors |-> "unborn"] /\ mon_term = {}
  /\ outbox = [m \in Monitors |-> 0]
  /\ state_file \in {NoFile, StaleState}
  /\ ctl = [k \in Ctls |-> "idle"] /\ snapshot = [k \in Ctls |-> NoFile]
  /\ overlapped = {} /\ unrecorded = {}

Next ==
  \/ Controller
  \/ \E ctrl_c \in BOOLEAN : sigint_handler(ctrl_c)
  \/ TargetExits
  \/ TargetFlushes
  \/ CollectorExits \/ CollectorDies
  \/ \E m \in Monitors : MonitorEvent(m) \/ MonitorSent(m) \/ Deliver(m)
                         \/ MonitorLeavesLoop(m) \/ MonitorExits(m)
  \/ \E k \in Ctls : \/ \E command \in {"on", "off"} : load_state(k, command)
                     \/ Command(k)
                     \/ CommandFails(k)

Spec == Init /\ [][Next]_vars

\* The processes are scheduled, and a target that was told to stop does.  No
\* command and no signal need ever come, and no target need end by itself.
Scheduling ==
  /\ WF_vars(Controller)
  /\ WF_vars(target_term /\ TargetExits) /\ WF_vars(TargetFlushes)
  /\ \A k \in Ctls : WF_vars(Command(k))

LiveSpec == Spec /\ Scheduling

\* A monitor that was told to stop does as well, the collector takes what is
\* sent to it, and it ends when its senders leave it idle now and then.
Draining ==
  /\ SF_vars(CollectorExits)
  /\ \A m \in Monitors : /\ SF_vars(m \in mon_term /\ MonitorLeavesLoop(m))
                         /\ WF_vars(MonitorSent(m))
                         /\ WF_vars(Deliver(m))
                         /\ WF_vars(MonitorExits(m))

DrainingSpec == LiveSpec /\ Draining

-----------------------------------------------------------------------------
(* Properties *)

Tracing(m) == mon[m] \in {"running", "sending"} /\ m \notin mon_term

\* The controller leaves no child behind: it has waited for the target and for
\* its own monitor, and for the collector unless it gave up on it at startup,
\* when it at least told it to stop.
CleanExit ==
  pc = "exited" =>
    /\ target \in {"unborn", "gone"}
    /\ mon[Own] \in {"unborn", "gone"}
    /\ collector \in {"unborn", "gone"} \/ "controller" \in collector_term

\* The controller stops the collector only when the target is gone, so that
\* the events the target sends as it exits are still received.
TargetBeforeCollector ==
  "controller" \in collector_term => target \in {"unborn", "gone"}

\* When the session and the commands are over a monitor is left tracing only if
\* the very command that started it overlapped another one, or the controller's
\* look at the state file, or could not record it.  However the other commands
\* overlap, fail or are killed, the monitor of a command that ran alone and
\* recorded it is stopped, and so is the controller's own.
NoOrphan ==
  pc = "exited" /\ (\A k \in Ctls : ~Active(k)) =>
    \A m \in Monitors : Tracing(m) => m \in overlapped \cup unrecorded

\* Two monitors would report every wait twice.  The controller's own never traces
\* beside another, whatever the commands do; two of theirs only if one of these
\* commands overlapped another or could not record its monitor.
OneMonitor ==
  \A m, n \in Monitors :
    Tracing(m) /\ Tracing(n) /\ m # n =>
      /\ Own \notin {m, n}
      /\ {m, n} \cap (overlapped \cup unrecorded) # {}

\* The trace_ctl commands end, even when the monitor one stops stays a zombie
\* because its parent does not wait for it.
CtlFinishes == (\E k \in Ctls : Active(k)) ~> (\A k \in Ctls : ~Active(k))

\* A signal to the controller ends the target, even one that comes before the
\* target is started, unless the collector has ended before the target: then the
\* target waits for it in its destructor.
InterruptEndsTarget ==
  exiting ~> \/ target \notin {"running", "flushing"} /\ pc \notin StartUp
             \/ target = "flushing" /\ collector \in {"zombie", "gone"}

\* "Ensure child is cleaned up" (main): once the cleanup has begun it ends.
CleanupCompletes == pc = "stop_target" ~> pc = "exited"

=============================================================================
