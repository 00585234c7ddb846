-------------------------- MODULE LifecycleProofs ---------------------------
(***************************************************************************)
(* Proofs about Lifecycle, for any number of commands and signals, and any *)
(* high-water mark, with or without a monitor of the controller's own.     *)
(***************************************************************************)
EXTENDS Lifecycle, TLAPS

USE DEF controller, targets, collectors, monitors, commands, observed

\* The two parts of TypeOK: what is true or false, and the rest.
Flags ==
  /\ exiting \in BOOLEAN
  /\ child_pid \in BOOLEAN
  /\ collector_pid \in BOOLEAN
  /\ target_term \in BOOLEAN

Plain ==
  /\ pc \in StartUp \cup {"wait"} \cup Cleanup \cup {"exited"}
  /\ ebpf_pid \in {Own, NoPid}
  /\ signals \in 0 .. MaxSignals
  /\ target \in TargetStatus
  /\ collector \in ProcessStatus
  /\ collector_term \in SUBSET {"controller", "terminal"}
  /\ mon \in [Monitors -> MonitorStatus]
  /\ mon_term \in SUBSET Monitors
  /\ outbox \in [Monitors -> 0 .. Hwm]
  /\ state_file \in State \cup {NoFile}
  /\ ctl \in [Ctls -> CtlStatus]
  /\ snapshot \in [Ctls -> State \cup {NoFile}]
  /\ overlapped \in SUBSET Ctls
  /\ unrecorded \in SUBSET Ctls

\* A command that is under way has loaded a state.
Loaded == \A k \in Ctls : Active(k) => snapshot[k] \in State

LEMMA TypeParts == TypeOK <=> Flags /\ Plain
  BY Zenon DEF TypeOK, Flags, Plain

\* Signals bring nobody back to life, stop what they hit from tracing, and
\* start nothing.
LEMMA TerminateEffect ==
  ASSUME mon \in [Monitors -> MonitorStatus], mon_term \in SUBSET Monitors,
         NEW M \in SUBSET Monitors, Terminate(M)
  PROVE  /\ mon' \in [Monitors -> MonitorStatus] /\ mon_term' \in SUBSET Monitors
         /\ UNCHANGED outbox
         /\ \A m \in Monitors : mon[m] \in {"unborn", "gone"} => mon'[m] = mon[m]
         /\ \A m \in Monitors : Tracing(m)' => Tracing(m)
         /\ \A m \in M : ~Tracing(m)'
  <1>1. /\ mon' = [m \in Monitors |-> IF m \in M THEN Signalled(mon[m], m) ELSE mon[m]]
        /\ mon_term' = mon_term \cup {m \in M : mon[m] \in {"running", "sending"}}
        /\ UNCHANGED outbox
    BY DEF Terminate
  <1>2. \A m \in Monitors : Dead(m) \in {"zombie", "gone"}
    BY DEF Dead
  <1>3. ASSUME NEW m \in Monitors
        PROVE  /\ Signalled(mon[m], m) \in MonitorStatus
               /\ mon[m] \in {"unborn", "gone"} => Signalled(mon[m], m) = mon[m]
               /\ Signalled(mon[m], m) \in {"running", "sending"} => mon[m] \in {"running", "sending"}
    BY <1>2 DEF Signalled, MonitorStatus, ProcessStatus
  <1>4. mon' \in [Monitors -> MonitorStatus]
    BY <1>1, <1>3
  <1> QED
    BY <1>1, <1>3, <1>4 DEF Tracing

\* The initial states have the right type.
LEMMA TypeInit == Init => TypeOK /\ Loaded
  <1> SUFFICES ASSUME Init PROVE TypeOK /\ Loaded
    OBVIOUS
  <1>0. Own \notin Ctls /\ Hwm \in Nat \ {0} /\ MaxSignals \in Nat
    BY ConstantsAssumption
  <1>3. StaleState \in State
    BY DEF State, StaleState
  <1>4. Loaded
    BY DEF Init, Loaded, Active
  <1>1. Flags
    BY Zenon DEF Init, Flags
  <1>2. Plain
    <2>1. /\ mon \in [Monitors -> MonitorStatus] /\ outbox \in [Monitors -> 0 .. Hwm]
          /\ ctl \in [Ctls -> CtlStatus] /\ snapshot \in [Ctls -> State \cup {NoFile}]
          /\ signals \in 0 .. MaxSignals
      BY <1>0 DEF Init, MonitorStatus, ProcessStatus, CtlStatus
    <2> QED
      BY <2>1, <1>3 DEF Init, Plain, StartUp, TargetStatus, ProcessStatus
  <1> QED
    BY <1>1, <1>2, <1>4, TypeParts

\* Every step keeps the flags.
LEMMA FlagsNext ==
  ASSUME Flags, [Next]_vars
  PROVE  Flags'
  <1> USE DEF Flags
  <1>1. CASE Controller
    BY <1>1, Zenon DEF Controller, StartCollector, CheckCollector, StartTarget, StartMonitor,
       CheckMonitor, write_control_state_file, WaitForTarget, StopTarget, ReapTarget, StopCollector,
       ReapCollector, StopMonitor, ReapMonitor, StopRecorded, RemoveState
  <1>2. ASSUME NEW ctrl_c \in BOOLEAN, sigint_handler(ctrl_c) PROVE Flags'
    BY <1>2, Zenon DEF sigint_handler
  <1>3. CASE TargetExits \/ TargetFlushes \/ CollectorExits \/ CollectorDies
    BY <1>3, Zenon DEF TargetExits, TargetFlushes, CollectorExits, CollectorDies
  <1>4. ASSUME NEW m \in Monitors,
               MonitorEvent(m) \/ MonitorSent(m) \/ Deliver(m) \/ MonitorLeavesLoop(m) \/ MonitorExits(m)
        PROVE  Flags'
    BY <1>4, Zenon DEF MonitorEvent, MonitorSent, Deliver, MonitorLeavesLoop, MonitorExits
  <1>5. ASSUME NEW k \in Ctls, NEW command \in {"on", "off"}, load_state(k, command) PROVE Flags'
    BY <1>5, Zenon DEF load_state
  <1>6. ASSUME NEW k \in Ctls, Command(k) \/ CommandFails(k) PROVE Flags'
    BY <1>6, Zenon DEF Command, start_ebpf, start_ebpf_check, stop_ebpf, stop_ebpf_wait, stop_ebpf_save,
       CommandFails
  <1>7. CASE UNCHANGED vars
    BY <1>7, Zenon DEF vars
  <1> QED
    BY <1>1, <1>2, <1>3, <1>4, <1>5, <1>6, <1>7 DEF Next

\* And the types of the other variables.
LEMMA PlainNext ==
  ASSUME Plain, Loaded, [Next]_vars
  PROVE  Plain'
  <1> USE DEF Plain
  <1>0. Own \notin Ctls /\ Hwm \in Nat \ {0} /\ MaxSignals \in Nat
    BY ConstantsAssumption
  <1>1. CASE \/ StartCollector \/ CheckCollector \/ StartTarget \/ WaitForTarget \/ StopTarget
             \/ ReapTarget \/ StopCollector \/ ReapCollector
    BY <1>1 DEF StartCollector, CheckCollector, StartTarget, WaitForTarget, StopTarget, ReapTarget,
       StopCollector, ReapCollector, StartUp, Cleanup, TargetStatus, ProcessStatus
  <1>2. CASE StartMonitor \/ CheckMonitor \/ ReapMonitor
    BY <1>2 DEF StartMonitor, CheckMonitor, ReapMonitor, StartUp, Cleanup, MonitorStatus, ProcessStatus
  <1>3. CASE write_control_state_file
    <2>1. [fresh |-> TRUE, ebpf_pid |-> ebpf_pid] \in State /\ StaleState \in State
      BY DEF State, StaleState, Monitors
    <2>2. state_file' \in State \cup {NoFile}
      BY <1>3, <2>1 DEF write_control_state_file, WriteFile
    <2> QED
      BY <1>3, <2>2 DEF write_control_state_file
  <1>4. CASE StopMonitor
    BY <1>4, TerminateEffect DEF StopMonitor, Cleanup
  <1>5. CASE StopRecorded
    <2>1. {read_ebpf_pid_from_control_state} \ {NoPid, ebpf_pid} \in SUBSET Monitors
      BY DEF read_ebpf_pid_from_control_state, State
    <2> QED
      BY <1>5, <2>1, TerminateEffect DEF StopRecorded, Cleanup
  <1>6. CASE RemoveState
    BY <1>6 DEF RemoveState, ProcessStatus
  <1>7. ASSUME NEW ctrl_c \in BOOLEAN, sigint_handler(ctrl_c) PROVE Plain'
    <2>1. PICK M \in SUBSET Monitors : Terminate(M)
      BY <1>7 DEF sigint_handler, Monitors
    <2> QED
      BY <1>0, <1>7, <2>1, TerminateEffect DEF sigint_handler
  <1>8. CASE TargetExits \/ TargetFlushes \/ CollectorExits \/ CollectorDies
    BY <1>8 DEF TargetExits, TargetFlushes, CollectorExits, CollectorDies, TargetStatus, ProcessStatus
  <1>9. ASSUME NEW m \in Monitors, MonitorEvent(m) \/ MonitorSent(m) \/ Deliver(m)
        PROVE  Plain'
    <2>1. outbox' \in [Monitors -> 0 .. Hwm]
      BY <1>0, <1>9 DEF MonitorEvent, MonitorSent, Deliver
    <2>2. mon' \in [Monitors -> MonitorStatus]
      BY <1>9 DEF MonitorEvent, MonitorSent, Deliver, MonitorStatus, ProcessStatus
    <2> QED
      BY <1>9, <2>1, <2>2 DEF MonitorEvent, MonitorSent, Deliver
  <1>10. ASSUME NEW m \in Monitors, MonitorLeavesLoop(m) \/ MonitorExits(m) PROVE Plain'
    BY <1>10 DEF MonitorLeavesLoop, MonitorExits, Dead, MonitorStatus, ProcessStatus
  <1>11. ASSUME NEW k \in Ctls, NEW command \in {"on", "off"}, load_state(k, command) PROVE Plain'
    BY <1>11 DEF load_state, Others, CtlStatus
  <1>12. ASSUME NEW k \in Ctls, start_ebpf(k) \/ CommandFails(k) PROVE Plain'
    BY <1>12 DEF start_ebpf, CommandFails, Finish, CtlStatus, Monitors, MonitorStatus, ProcessStatus
  <1>13. ASSUME NEW k \in Ctls, start_ebpf_check(k) \/ stop_ebpf_save(k) PROVE Plain'
    <2>1. snapshot[k] \in State
      BY <1>13 DEF start_ebpf_check, stop_ebpf_save, Active, Loaded
    <2>2. /\ [snapshot[k] EXCEPT !.ebpf_pid = k] \in State
          /\ [snapshot[k] EXCEPT !.ebpf_pid = NoPid] \in State
          /\ StaleState \in State
      BY <2>1 DEF State, StaleState, Monitors
    <2>3. state_file' \in State \cup {NoFile}
      BY <1>13, <2>2 DEF start_ebpf_check, stop_ebpf_save, save_state, WriteFile
    <2> QED
      BY <1>13, <2>3 DEF start_ebpf_check, stop_ebpf_save, Finish, CtlStatus, MonitorStatus, ProcessStatus
  <1>14. ASSUME NEW k \in Ctls, stop_ebpf(k) PROVE Plain'
    <2>1. CASE UNCHANGED monitors
      BY <1>14, <2>1 DEF stop_ebpf, CtlStatus
    <2>2. CASE pid_alive(snapshot[k].ebpf_pid) /\ Terminate({snapshot[k].ebpf_pid})
      BY <1>14, <2>2, TerminateEffect DEF stop_ebpf, pid_alive, CtlStatus
    <2> QED
      BY <1>14, <2>1, <2>2 DEF stop_ebpf
  <1>15. ASSUME NEW k \in Ctls, stop_ebpf_wait(k) PROVE Plain'
    <2>1. Dead(snapshot[k].ebpf_pid) \in MonitorStatus
      BY DEF Dead, MonitorStatus, ProcessStatus
    <2> QED
      BY <1>15, <2>1 DEF stop_ebpf_wait, pid_alive, CtlStatus
  <1>16. CASE UNCHANGED vars
    BY <1>16 DEF vars
  <1> QED
    BY <1>1, <1>2, <1>3, <1>4, <1>5, <1>6, <1>7, <1>8, <1>9, <1>10, <1>11, <1>12, <1>13, <1>14,
       <1>15, <1>16 DEF Next, Controller, Command

\* A command loads a state before it does anything, and keeps it.
LEMMA LoadedNext ==
  ASSUME Plain, Loaded, [Next]_vars
  PROVE  Loaded'
  <1>0. /\ ctl \in [Ctls -> CtlStatus]
        /\ snapshot \in [Ctls -> State \cup {NoFile}] /\ state_file \in State \cup {NoFile}
    BY DEF Plain
  <1> USE DEF Loaded, Active
  <1>1. ASSUME NEW k \in Ctls, NEW command \in {"on", "off"}, load_state(k, command) PROVE Loaded'
    BY <1>0, <1>1 DEF load_state
  <1>2. ASSUME NEW k \in Ctls, Command(k) \/ CommandFails(k) PROVE Loaded'
    <2>1. CASE Finish(k)
      <3>1. ctl' = [ctl EXCEPT ![k] = "done"] /\ snapshot' = [snapshot EXCEPT ![k] = NoFile]
        BY <2>1 DEF Finish
      <3> QED
        BY <1>0, <3>1
    <2>2. CASE ~Finish(k)
      <3>1. UNCHANGED snapshot /\ Active(k)
        BY <1>2, <2>2 DEF Command, CommandFails, start_ebpf, start_ebpf_check, stop_ebpf, stop_ebpf_wait,
           stop_ebpf_save
      <3>2. PICK at \in CtlStatus : ctl' = [ctl EXCEPT ![k] = at]
        BY <1>2, <2>2 DEF Command, CommandFails, start_ebpf, start_ebpf_check, stop_ebpf, stop_ebpf_wait,
           stop_ebpf_save, CtlStatus
      <3> QED
        BY <1>0, <3>1, <3>2
    <2> QED
      BY <2>1, <2>2
  <1>3. CASE UNCHANGED commands
    BY <1>3
  <1>4. ASSUME Controller \/ \E ctrl_c \in BOOLEAN : sigint_handler(ctrl_c) PROVE UNCHANGED commands
    BY <1>4 DEF Controller, StartCollector, CheckCollector, StartTarget, StartMonitor,
       CheckMonitor, write_control_state_file, WaitForTarget, StopTarget, ReapTarget, StopCollector,
       ReapCollector, StopMonitor, ReapMonitor, StopRecorded, RemoveState, sigint_handler
  <1>5. ASSUME NEW m \in Monitors,
               MonitorEvent(m) \/ MonitorSent(m) \/ Deliver(m) \/ MonitorLeavesLoop(m) \/ MonitorExits(m)
        PROVE  UNCHANGED commands
    BY <1>5 DEF MonitorEvent, MonitorSent, Deliver, MonitorLeavesLoop, MonitorExits
  <1> QED
    BY <1>1, <1>2, <1>3, <1>4, <1>5
       DEF Next, TargetExits, TargetFlushes, CollectorExits, CollectorDies, vars

\* It holds always.
LEMMA TypeAndLoaded == Spec => [](Flags /\ Plain /\ Loaded)
  <1>1. Init => Flags /\ Plain /\ Loaded
    BY TypeInit, TypeParts
  <1>2. Flags /\ Plain /\ Loaded /\ [Next]_vars => (Flags /\ Plain /\ Loaded)'
    BY FlagsNext, PlainNext, LoadedNext
  <1> QED
    BY <1>1, <1>2, PTL DEF Spec

\* The type invariant.
THEOREM TypeCorrect == Spec => []TypeOK
  BY TypeAndLoaded, TypeParts, PTL

-----------------------------------------------------------------------------
(* The end of the session. *)

\* What the controller has started and waited for at each of its steps.
ExitInv ==
  /\ pc \in {"start_collector", "check_collector", "start_target"} => target = "unborn"
  /\ target = "unborn" \/ child_pid
  /\ pc \in {"stop_collector", "reap_collector", "stop_monitor", "reap_monitor", "stop_recorded",
             "remove_state", "exited"} => target \in {"unborn", "gone"}
  /\ "controller" \in collector_term =>
       target \in {"unborn", "gone"} /\ pc \notin StartUp \cup {"wait"}
  /\ pc = "start_collector" => collector = "unborn"
  /\ pc \notin {"start_collector", "check_collector"} =>
       collector = "unborn" \/ collector_pid \/ "controller" \in collector_term
  /\ pc \in {"reap_collector", "stop_monitor", "reap_monitor", "stop_recorded", "remove_state",
             "exited"} => (collector_pid => "controller" \in collector_term)
  /\ pc \in {"start_collector", "check_collector", "start_target", "start_monitor"} =>
       mon[Own] = "unborn"
  /\ pc # "check_monitor" /\ ebpf_pid = NoPid => mon[Own] \in {"unborn", "gone"}
  /\ pc \in {"stop_recorded", "remove_state", "exited"} => mon[Own] \in {"unborn", "gone"}

\* Every step keeps it.
LEMMA ExitNext ==
  ASSUME Plain, ExitInv, [Next]_vars
  PROVE  ExitInv'
  <1>0. /\ Own \notin Ctls /\ Own \in Monitors /\ Own # NoPid /\ NoPid \notin Monitors
        /\ mon \in [Monitors -> MonitorStatus] /\ mon_term \in SUBSET Monitors
        /\ ebpf_pid \in {Own, NoPid}
        /\ pc \in StartUp \cup {"wait"} \cup Cleanup \cup {"exited"}
        /\ target \in {"unborn", "running", "zombie", "gone", "flushing"}
    BY ConstantsAssumption DEF Plain, Monitors, TargetStatus, ProcessStatus
  <1> USE DEF ExitInv, StartUp, Cleanup
  <1>1. CASE StartCollector \/ CheckCollector \/ StartTarget
    BY <1>0, <1>1 DEF StartCollector, CheckCollector, StartTarget
  <1>2. CASE StartMonitor \/ CheckMonitor \/ ReapMonitor
    BY <1>0, <1>2 DEF StartMonitor, CheckMonitor, ReapMonitor
  <1>3. CASE write_control_state_file \/ WaitForTarget \/ StopTarget \/ ReapTarget
    BY <1>0, <1>3 DEF write_control_state_file, WaitForTarget, StopTarget, ReapTarget
  <1>4. CASE StopCollector \/ ReapCollector
    BY <1>0, <1>4 DEF StopCollector, ReapCollector
  <1>5. ASSUME NEW M \in SUBSET Monitors, Terminate(M)
        PROVE  mon[Own] \in {"unborn", "gone"} => mon'[Own] = mon[Own]
    BY <1>0, <1>5, TerminateEffect
  <1>6. CASE StopMonitor \/ StopRecorded
    <2>1. PICK M \in SUBSET Monitors : Terminate(M)
      BY <1>0, <1>6 DEF StopMonitor, StopRecorded, read_ebpf_pid_from_control_state, Plain, State
    <2> QED
      BY <1>0, <1>5, <1>6, <2>1 DEF StopMonitor, StopRecorded
  <1>7. CASE RemoveState
    BY <1>0, <1>7 DEF RemoveState
  <1>8. ASSUME NEW ctrl_c \in BOOLEAN, sigint_handler(ctrl_c) PROVE ExitInv'
    <2>1. PICK M \in SUBSET Monitors : Terminate(M)
      BY <1>0, <1>8 DEF sigint_handler
    <2>2. mon'[Own] = mon[Own] \/ (mon[Own] \notin {"unborn", "gone"})
      BY <1>5, <2>1
    <2>3. "controller" \in collector_term' <=> "controller" \in collector_term
      BY <1>8 DEF sigint_handler
    <2> QED
      BY <1>0, <1>8, <2>2, <2>3 DEF sigint_handler
  <1>9. CASE TargetExits \/ TargetFlushes \/ CollectorExits \/ CollectorDies
    BY <1>0, <1>9 DEF TargetExits, TargetFlushes, CollectorExits, CollectorDies, CollectorUp
  <1>10. ASSUME NEW m \in Monitors,
                MonitorEvent(m) \/ MonitorSent(m) \/ Deliver(m) \/ MonitorLeavesLoop(m) \/ MonitorExits(m)
         PROVE  ExitInv'
    <2>1. mon[Own] \in {"unborn", "gone"} => mon'[Own] = mon[Own]
      BY <1>0, <1>10 DEF MonitorEvent, MonitorSent, Deliver, MonitorLeavesLoop, MonitorExits
    <2>2. UNCHANGED <<controller, targets, collectors>>
      BY <1>10 DEF MonitorEvent, MonitorSent, Deliver, MonitorLeavesLoop, MonitorExits
    <2> QED
      BY <1>0, <2>1, <2>2
  <1>11. ASSUME NEW k \in Ctls, NEW command \in {"on", "off"}, load_state(k, command) PROVE ExitInv'
    BY <1>0, <1>11 DEF load_state
  <1>12. ASSUME NEW k \in Ctls, Command(k) \/ CommandFails(k) PROVE ExitInv'
    <2>1. UNCHANGED <<controller, targets, collectors>>
      BY <1>12 DEF Command, start_ebpf, start_ebpf_check, stop_ebpf, stop_ebpf_wait, stop_ebpf_save,
         CommandFails
    <2>2. mon[Own] \in {"unborn", "gone"} => mon'[Own] = mon[Own]
      <3>1. CASE start_ebpf(k) \/ start_ebpf_check(k) \/ stop_ebpf_save(k) \/ CommandFails(k)
        BY <1>0, <3>1 DEF start_ebpf, start_ebpf_check, stop_ebpf_save, CommandFails, Finish
      <3>2. CASE stop_ebpf(k)
        BY <1>0, <1>5, <3>2 DEF stop_ebpf, pid_alive
      <3>3. CASE stop_ebpf_wait(k)
        BY <1>0, <3>3 DEF stop_ebpf_wait, pid_alive
      <3> QED
        BY <1>12, <3>1, <3>2, <3>3 DEF Command
    <2> QED
      BY <1>0, <2>1, <2>2
  <1>13. CASE UNCHANGED vars
    BY <1>13 DEF vars
  <1> QED
    BY <1>1, <1>2, <1>3, <1>4, <1>6, <1>7, <1>8, <1>9, <1>10, <1>11, <1>12, <1>13 DEF Next, Controller

\* It is an invariant.
LEMMA ExitInvariant == Spec => []ExitInv
  <1>1. Init => ExitInv
    <2>1. Own \in Monitors
      BY DEF Monitors
    <2> QED
      BY <2>1 DEF Init, ExitInv
  <1>2. Plain /\ ExitInv /\ [Next]_vars => ExitInv'
    BY ExitNext
  <1> QED
    BY <1>1, <1>2, TypeAndLoaded, PTL DEF Spec

\* The controller leaves no child behind.
THEOREM NoChildLeft == Spec => []CleanExit
  <1>1. ExitInv => CleanExit
    BY DEF ExitInv, CleanExit
  <1> QED
    BY <1>1, ExitInvariant, PTL

\* The controller stops the collector only when the target is gone.
THEOREM CollectorOutlivesTarget == Spec => []TargetBeforeCollector
  <1>1. ExitInv => TargetBeforeCollector
    BY DEF ExitInv, TargetBeforeCollector
  <1> QED
    BY <1>1, ExitInvariant, PTL

-----------------------------------------------------------------------------
(* The monitors. *)

\* Only a file this controller has written names a live target or a monitor; and
\* before it has written one no command can start a monitor.
FreshInv ==
  /\ state_file # NoFile /\ ~state_file.fresh => state_file.ebpf_pid = NoPid
  /\ \A k \in Ctls : Active(k) /\ ~snapshot[k].fresh => snapshot[k].ebpf_pid = NoPid
  /\ \A k \in Ctls : ctl[k] = "started" => snapshot[k].fresh
  /\ pc \in StartUp =>
       /\ state_file # NoFile => ~state_file.fresh
       /\ \A k \in Ctls : ~Tracing(k) /\ (Active(k) => ~snapshot[k].fresh)

\* Two commands that are under way have noticed each other.
OverlapInv == \A j, k \in Ctls : Active(j) /\ Active(k) /\ j # k => j \in overlapped

\* While the controller's own monitor traces, whoever knows of a monitor knows of
\* that one, and none has stopped it.
OwnInv ==
  Tracing(Own) =>
    /\ state_file # NoFile /\ state_file.fresh => state_file.ebpf_pid = Own
    /\ \A k \in Ctls :
         /\ ~Tracing(k)
         /\ Active(k) /\ snapshot[k].fresh => snapshot[k].ebpf_pid = Own /\ ctl[k] \in {"on", "off"}

\* Monitor k traces, and its command was alone and did not fail to record it.
Clean(k) == Tracing(k) /\ k \notin overlapped /\ k \notin unrecorded

\* Its command is about to record it, alone; or has recorded it, and everyone
\* who has looked since knows of it.
Recorded(k) ==
  /\ ctl[k] = "done"
  /\ state_file # NoFile /\ state_file.ebpf_pid = k
  /\ \A j \in Ctls : Active(j) => snapshot[j].ebpf_pid = k /\ ctl[j] \in {"on", "off"}

CleanInv ==
  \A k \in Ctls : Clean(k) =>
    /\ pc \notin {"remove_state", "exited"}
    /\ \/ ctl[k] = "started" /\ \A j \in Ctls : Active(j) => j = k
       \/ Recorded(k)

\* A monitor begins to trace when the controller starts its own, before it has
\* published anything, or when a command starts one that knows of no other.
LEMMA MonitorStarts ==
  ASSUME Plain, [Next]_vars, NEW m \in Monitors, Tracing(m)', ~Tracing(m)
  PROVE  \/ m = Own /\ StartMonitor
         \/ /\ m \in Ctls /\ start_ebpf(m) /\ ctl' = [ctl EXCEPT ![m] = "started"]
            /\ snapshot[m].fresh /\ ~pid_alive(snapshot[m].ebpf_pid)
            /\ target \notin {"unborn", "gone"} /\ UNCHANGED snapshot
  <1>0. /\ Own \in Monitors /\ Own \notin Ctls
        /\ mon \in [Monitors -> MonitorStatus] /\ mon_term \in SUBSET Monitors
    BY ConstantsAssumption DEF Plain, Monitors
  <1>1. ASSUME NEW M \in SUBSET Monitors, Terminate(M) PROVE FALSE
    BY <1>0, <1>1, TerminateEffect
  <1>2. ASSUME UNCHANGED <<mon, mon_term>> PROVE FALSE
    BY <1>2 DEF Tracing
  <1>3. \A n \in Monitors : Dead(n) \in {"zombie", "gone"}
    BY DEF Dead
  <1>4. CASE Controller
    <2>1. CASE CheckMonitor \/ ReapMonitor
      BY <1>0, <2>1 DEF CheckMonitor, ReapMonitor, Tracing
    <2>2. CASE StartMonitor
      BY <1>0, <2>2 DEF StartMonitor, Tracing
    <2>3. CASE StopMonitor
      BY <1>1, <2>3 DEF StopMonitor
    <2>4. CASE StopRecorded
      <3>1. {read_ebpf_pid_from_control_state} \ {NoPid, ebpf_pid} \in SUBSET Monitors
        BY DEF read_ebpf_pid_from_control_state, State, Plain
      <3> QED
        BY <1>1, <2>4, <3>1 DEF StopRecorded
    <2> QED
      BY <1>2, <1>4, <2>1, <2>2, <2>3, <2>4 DEF Controller, StartCollector, CheckCollector, StartTarget,
         write_control_state_file, WaitForTarget, StopTarget, ReapTarget, StopCollector, ReapCollector,
         RemoveState
  <1>5. ASSUME NEW ctrl_c \in BOOLEAN, sigint_handler(ctrl_c) PROVE FALSE
    BY <1>0, <1>1, <1>5 DEF sigint_handler
  <1>6. ASSUME NEW n \in Monitors,
               MonitorEvent(n) \/ MonitorSent(n) \/ Deliver(n) \/ MonitorLeavesLoop(n) \/ MonitorExits(n)
        PROVE  FALSE
    BY <1>0, <1>3, <1>6
       DEF MonitorEvent, MonitorSent, Deliver, MonitorLeavesLoop, MonitorExits, Tracing
  <1>7. ASSUME NEW k \in Ctls, NEW command \in {"on", "off"}, load_state(k, command) PROVE FALSE
    BY <1>2, <1>7 DEF load_state
  <1>8. ASSUME NEW k \in Ctls, Finish(k), UNCHANGED mon_term PROVE FALSE
    BY <1>0, <1>8 DEF Finish, Tracing, Monitors
  <1>9. ASSUME NEW k \in Ctls, Command(k) \/ CommandFails(k) PROVE k = m /\ start_ebpf(m) /\ ~Finish(m)
    <2>1. CASE start_ebpf(k)
      BY <1>0, <1>8, <2>1 DEF start_ebpf, Tracing, Monitors
    <2>2. CASE start_ebpf_check(k) \/ stop_ebpf_save(k) \/ CommandFails(k)
      BY <1>8, <2>2 DEF start_ebpf_check, stop_ebpf_save, CommandFails
    <2>3. CASE stop_ebpf(k)
      BY <1>1, <1>2, <2>3 DEF stop_ebpf, pid_alive
    <2>4. CASE stop_ebpf_wait(k)
      BY <1>0, <1>3, <2>4 DEF stop_ebpf_wait, pid_alive, Tracing
    <2> QED
      BY <1>9, <2>1, <2>2, <2>3, <2>4 DEF Command
  <1> QED
    BY <1>2, <1>4, <1>5, <1>6, <1>7, <1>9
       DEF Next, TargetExits, TargetFlushes, CollectorExits, CollectorDies, vars, start_ebpf

\* What a step of a command leaves alone, and where it may lead.
LEMMA CommandStep ==
  ASSUME Plain, Loaded, NEW k \in Ctls, Command(k) \/ CommandFails(k)
  PROVE  /\ Active(k) /\ UNCHANGED <<pc, overlapped>> /\ unrecorded \subseteq unrecorded'
         /\ snapshot[k] \in State
         /\ \A j \in Ctls \ {k} : /\ ctl'[j] = ctl[j] /\ snapshot'[j] = snapshot[j]
                                  /\ Active(j)' <=> Active(j)
         /\ \/ ctl'[k] = "done" /\ ~Active(k)'
            \/ UNCHANGED <<snapshot, state_file>> /\ ctl'[k] \in {"started", "stopping", "stopped"}
  <1>0. /\ ctl \in [Ctls -> CtlStatus] /\ snapshot \in [Ctls -> State \cup {NoFile}]
    BY DEF Plain
  <1>1. /\ Active(k) /\ UNCHANGED <<pc, overlapped>> /\ unrecorded \subseteq unrecorded'
        /\ snapshot[k] \in State
    BY Zenon DEF Command, CommandFails, start_ebpf, start_ebpf_check, stop_ebpf, stop_ebpf_wait,
       stop_ebpf_save, Active, Loaded
  <1>2. CASE Finish(k)
    BY <1>0, <1>1, <1>2 DEF Finish, Active
  <1>3. CASE ~Finish(k)
    <2>1. /\ UNCHANGED <<snapshot, state_file>>
          /\ \E at \in {"started", "stopping", "stopped"} : ctl' = [ctl EXCEPT ![k] = at]
      BY <1>3 DEF Command, CommandFails, start_ebpf, start_ebpf_check, stop_ebpf, stop_ebpf_wait,
         stop_ebpf_save
    <2> QED
      BY <1>0, <1>1, <2>1 DEF Active
  <1> QED
    BY <1>2, <1>3

\* Every other step leaves the commands alone; only two write the file.
LEMMA OtherStep ==
  ASSUME [Next]_vars, \A k \in Ctls : ~Command(k) /\ ~CommandFails(k),
         \A k \in Ctls : ~load_state(k, "on") /\ ~load_state(k, "off")
  PROVE  /\ UNCHANGED <<ctl, snapshot, unrecorded>> /\ overlapped \subseteq overlapped'
         /\ \A j \in Ctls : Active(j)' <=> Active(j)
         /\ UNCHANGED state_file \/ write_control_state_file \/ RemoveState
         /\ pc' \in StartUp => pc \in StartUp
         /\ pc' \in {"remove_state", "exited"} => pc \in {"remove_state", "exited"} \/ StopRecorded
  <1>1. CASE Controller
    BY <1>1 DEF Controller, StartCollector, CheckCollector, StartTarget, StartMonitor,
       CheckMonitor, write_control_state_file, WaitForTarget, StopTarget, ReapTarget, StopCollector,
       ReapCollector, StopMonitor, ReapMonitor, StopRecorded, RemoveState, StartUp, Active
  <1>2. ASSUME NEW ctrl_c \in BOOLEAN, sigint_handler(ctrl_c)
        PROVE  UNCHANGED <<ctl, snapshot, state_file, pc, observed>>
    BY <1>2 DEF sigint_handler
  <1>3. ASSUME NEW m \in Monitors,
               MonitorEvent(m) \/ MonitorSent(m) \/ Deliver(m) \/ MonitorLeavesLoop(m) \/ MonitorExits(m)
        PROVE  UNCHANGED <<ctl, snapshot, state_file, pc, observed>>
    BY <1>3 DEF MonitorEvent, MonitorSent, Deliver, MonitorLeavesLoop, MonitorExits
  <1>4. CASE UNCHANGED <<ctl, snapshot, state_file, pc, observed>>
    BY <1>4 DEF Active
  <1> QED
    BY <1>1, <1>2, <1>3, <1>4
       DEF Next, TargetExits, TargetFlushes, CollectorExits, CollectorDies, vars

\* What a command does to the file: nothing, or what its snapshot allows.
LEMMA CommandFile ==
  ASSUME Plain, Loaded, NEW k \in Ctls, Command(k) \/ CommandFails(k)
  PROVE  \/ UNCHANGED state_file
         \/ state_file' \in State /\ ~state_file'.fresh /\ state_file'.ebpf_pid = NoPid
         \/ /\ start_ebpf_check(k) /\ ctl[k] = "started"
            /\ state_file' \in State /\ state_file'.ebpf_pid = k /\ state_file'.fresh = snapshot[k].fresh
         \/ /\ stop_ebpf_save(k) /\ ctl[k] = "stopped"
            /\ state_file' \in State /\ state_file'.ebpf_pid = NoPid
            /\ state_file'.fresh = snapshot[k].fresh
  <1>0. snapshot[k] \in State /\ k \in Monitors
    BY CommandStep DEF Monitors
  <1>1. StaleState \in State /\ ~StaleState.fresh /\ StaleState.ebpf_pid = NoPid
    BY DEF StaleState, State
  <1>2. CASE start_ebpf_check(k)
    <2> DEFINE saved == [snapshot[k] EXCEPT !.ebpf_pid = k]
    <2>1. saved \in State /\ saved.ebpf_pid = k /\ saved.fresh = snapshot[k].fresh
      BY <1>0 DEF State
    <2>2. UNCHANGED state_file \/ state_file' \in {saved, StaleState}
      BY <1>2 DEF start_ebpf_check, save_state, WriteFile
    <2> HIDE DEF saved
    <2> QED
      BY <1>1, <1>2, <2>1, <2>2 DEF start_ebpf_check
  <1>3. CASE stop_ebpf_save(k)
    <2> DEFINE saved == [snapshot[k] EXCEPT !.ebpf_pid = NoPid]
    <2>1. saved \in State /\ saved.ebpf_pid = NoPid /\ saved.fresh = snapshot[k].fresh
      BY <1>0 DEF State
    <2>2. state_file' \in {saved, StaleState}
      BY <1>3 DEF stop_ebpf_save, save_state, WriteFile
    <2> HIDE DEF saved
    <2> QED
      BY <1>1, <1>3, <2>1, <2>2 DEF stop_ebpf_save
  <1>4. CASE start_ebpf(k) \/ stop_ebpf(k) \/ stop_ebpf_wait(k) \/ CommandFails(k)
    BY <1>4 DEF start_ebpf, stop_ebpf, stop_ebpf_wait, CommandFails
  <1> QED
    BY <1>2, <1>3, <1>4 DEF Command

\* And what the controller writes.
LEMMA ControllerFile ==
  ASSUME write_control_state_file, ~UNCHANGED state_file
  PROVE  \/ ~state_file'.fresh /\ state_file'.ebpf_pid = NoPid
         \/ state_file'.fresh /\ state_file'.ebpf_pid = ebpf_pid
  BY DEF write_control_state_file, WriteFile, StaleState

\* Loading a state.
LEMMA LoadStep ==
  ASSUME Plain, NEW k \in Ctls, NEW command \in {"on", "off"}, load_state(k, command)
  PROVE  /\ UNCHANGED <<state_file, pc, mon, mon_term, unrecorded>> /\ overlapped \subseteq overlapped'
         /\ ctl[k] = "idle" /\ ~Active(k) /\ snapshot'[k] = state_file
         /\ Active(k)' => state_file \in State /\ ctl'[k] \in {"on", "off"}
         /\ ctl'[k] \in {"on", "off", "done"}
         /\ \A j \in Ctls \ {k} : /\ ctl'[j] = ctl[j] /\ snapshot'[j] = snapshot[j]
                                  /\ Active(j)' <=> Active(j)
         /\ \A j \in Ctls \ {k} : Active(j) => j \in overlapped' /\ k \in overlapped'
         /\ \A m \in Monitors : Tracing(m)' <=> Tracing(m)
  <1>1. /\ ctl \in [Ctls -> CtlStatus] /\ snapshot \in [Ctls -> State \cup {NoFile}]
        /\ state_file \in State \cup {NoFile}
    BY DEF Plain
  <1>2. \A j \in Ctls \ {k} : Active(j) => j \in overlapped' /\ k \in overlapped'
    BY DEF load_state, Others
  <1> QED
    BY <1>1, <1>2 DEF load_state, Active, Tracing

\* FreshInv is kept.
LEMMA FreshNext ==
  ASSUME Plain, Loaded, FreshInv, [Next]_vars
  PROVE  FreshInv'
  <1>1. ASSUME pc \in StartUp, pc' \in StartUp, NEW j \in Ctls PROVE ~Tracing(j)'
    <2> SUFFICES ASSUME Tracing(j)' PROVE FALSE
      OBVIOUS
    <2>1. ~Tracing(j) /\ j \in Monitors /\ j # Own
      BY <1>1, ConstantsAssumption DEF FreshInv, Monitors
    <2>2. start_ebpf(j) /\ snapshot[j].fresh
      BY <2>1, MonitorStarts
    <2>3. Active(j)
      BY <2>2 DEF start_ebpf, Active
    <2> QED
      BY <1>1, <2>2, <2>3 DEF FreshInv
  <1>2. ASSUME NEW k \in Ctls, NEW command \in {"on", "off"}, load_state(k, command) PROVE FreshInv'
    <2>1. \A j \in Ctls : Active(j)' => snapshot'[j] = IF j = k THEN state_file ELSE snapshot[j]
      BY <1>2, LoadStep
    <2>2. \A j \in Ctls : ctl'[j] = "started" => j # k /\ ctl[j] = "started"
      BY <1>2, LoadStep
    <2>3. /\ UNCHANGED <<state_file, pc>> /\ NoFile \notin State
          /\ Active(k)' => state_file \in State
          /\ \A j \in Ctls \ {k} : snapshot'[j] = snapshot[j] /\ (Active(j)' <=> Active(j))
      BY <1>2, LoadStep, NoFileAssumption
    <2> QED
      BY <1>1, <2>1, <2>2, <2>3 DEF FreshInv
  <1>3. ASSUME NEW k \in Ctls, Command(k) \/ CommandFails(k) PROVE FreshInv'
    <2>1. /\ UNCHANGED pc /\ snapshot[k] \in State /\ Active(k)
          /\ \A j \in Ctls : Active(j)' => Active(j) /\ snapshot'[j] = snapshot[j]
      BY <1>3, CommandStep
    <2>2. /\ state_file' # NoFile /\ ~state_file'.fresh => state_file'.ebpf_pid = NoPid
          /\ pc \in StartUp /\ state_file' # NoFile => ~state_file'.fresh
      BY <1>3, <2>1, CommandFile DEF FreshInv
    <2>3. ASSUME NEW j \in Ctls, ctl'[j] = "started" PROVE snapshot'[j].fresh
      <3>1. CASE j # k
        BY <1>3, <2>3, <3>1, CommandStep DEF FreshInv
      <3>2. CASE j = k
        <4>1. start_ebpf(k) /\ ~Finish(k)
          <5>1. ctl \in [Ctls -> CtlStatus]
            BY DEF Plain
          <5> QED
            BY <1>3, <2>3, <3>2, <5>1 DEF Command, CommandFails, start_ebpf_check, stop_ebpf,
               stop_ebpf_wait, stop_ebpf_save, Finish, start_ebpf
        <4> QED
          BY <3>2, <4>1 DEF start_ebpf
      <3> QED
        BY <3>1, <3>2
    <2> QED
      BY <1>1, <2>1, <2>2, <2>3 DEF FreshInv
  <1>4. ASSUME \A k \in Ctls : ~Command(k) /\ ~CommandFails(k),
               \A k \in Ctls : ~load_state(k, "on") /\ ~load_state(k, "off")
        PROVE  FreshInv'
    <2>1. /\ UNCHANGED <<ctl, snapshot>> /\ (\A j \in Ctls : Active(j)' <=> Active(j))
          /\ UNCHANGED state_file \/ write_control_state_file \/ RemoveState
          /\ pc' \in StartUp => pc \in StartUp
      BY <1>4, OtherStep
    <2>2. CASE UNCHANGED state_file
      BY <1>1, <2>1, <2>2 DEF FreshInv
    <2>3. CASE write_control_state_file /\ ~UNCHANGED state_file
      <3>1. pc' \notin StartUp
        BY <2>3 DEF write_control_state_file, StartUp
      <3>2. ~state_file'.fresh => state_file'.ebpf_pid = NoPid
        BY <2>3, ControllerFile
      <3> QED
        BY <2>1, <3>1, <3>2 DEF FreshInv
    <2>4. CASE RemoveState
      <3>1. pc' \notin StartUp /\ state_file' = NoFile
        BY <2>4 DEF RemoveState, StartUp
      <3> QED
        BY <2>1, <3>1 DEF FreshInv
    <2> QED
      BY <2>1, <2>2, <2>3, <2>4
  <1> QED
    BY <1>2, <1>3, <1>4

\* So is OverlapInv.
LEMMA OverlapNext ==
  ASSUME Plain, Loaded, OverlapInv, [Next]_vars
  PROVE  OverlapInv'
  <1>1. ASSUME NEW k \in Ctls, NEW command \in {"on", "off"}, load_state(k, command) PROVE OverlapInv'
    <2>1. /\ \A j \in Ctls \ {k} : Active(j)' <=> Active(j)
          /\ \A j \in Ctls \ {k} : Active(j) => j \in overlapped' /\ k \in overlapped'
          /\ overlapped \subseteq overlapped'
      BY <1>1, LoadStep
    <2> QED
      BY <2>1 DEF OverlapInv
  <1>2. ASSUME NEW k \in Ctls, Command(k) \/ CommandFails(k) PROVE OverlapInv'
    <2>1. UNCHANGED overlapped /\ \A j \in Ctls : Active(j)' => Active(j)
      BY <1>2, CommandStep
    <2> QED
      BY <2>1 DEF OverlapInv
  <1>3. ASSUME \A k \in Ctls : ~Command(k) /\ ~CommandFails(k),
               \A k \in Ctls : ~load_state(k, "on") /\ ~load_state(k, "off")
        PROVE  OverlapInv'
    <2>1. overlapped \subseteq overlapped' /\ \A j \in Ctls : Active(j)' <=> Active(j)
      BY <1>3, OtherStep
    <2> QED
      BY <2>1 DEF OverlapInv
  <1> QED
    BY <1>1, <1>2, <1>3

\* And OwnInv: a command that finds the controller's monitor alive starts none, and
\* one that stops it does so before it forgets it.
LEMMA OwnNext ==
  ASSUME Plain, Loaded, ExitInv, FreshInv, OwnInv, [Next]_vars
  PROVE  OwnInv'
  <1> SUFFICES ASSUME Tracing(Own)' PROVE OwnInv'
    BY DEF OwnInv
  <1>0. /\ Own \in Monitors /\ Own \notin Ctls /\ Ctls \subseteq Monitors /\ Own # NoPid
        /\ mon \in [Monitors -> MonitorStatus] /\ mon_term \in SUBSET Monitors
        /\ ebpf_pid \in {Own, NoPid} /\ NoFile \notin State
    BY ConstantsAssumption, NoFileAssumption DEF Plain, Monitors
  <1>1. CASE ~Tracing(Own)
    <2>1. StartMonitor
      BY <1>0, <1>1, MonitorStarts
    <2>2. /\ pc = "start_monitor" /\ UNCHANGED <<state_file, ctl, snapshot, mon_term>>
          /\ mon' \in {[mon EXCEPT ![Own] = "running"], mon}
      BY <2>1 DEF StartMonitor
    <2>3. pc \in StartUp /\ \A k \in Ctls : Tracing(k)' <=> Tracing(k)
      BY <1>0, <2>2 DEF StartUp, Tracing
    <2> QED
      BY <2>2, <2>3 DEF FreshInv, OwnInv, Active
  <1>2. CASE Tracing(Own)
    <2>0. /\ state_file # NoFile /\ state_file.fresh => state_file.ebpf_pid = Own
          /\ \A k \in Ctls :
               /\ ~Tracing(k)
               /\ (Active(k) /\ snapshot[k].fresh) =>
                    snapshot[k].ebpf_pid = Own /\ ctl[k] \in {"on", "off"}
          /\ pid_alive(Own)
      BY <1>0, <1>2 DEF OwnInv, pid_alive, Tracing
    <2>1. \A k \in Ctls : ~Tracing(k)'
      <3> SUFFICES ASSUME NEW k \in Ctls, Tracing(k)' PROVE FALSE
        OBVIOUS
      <3>1. start_ebpf(k) /\ snapshot[k].fresh /\ ~pid_alive(snapshot[k].ebpf_pid)
        BY <1>0, <2>0, MonitorStarts
      <3>2. Active(k)
        BY <3>1 DEF start_ebpf, Active
      <3> QED
        BY <2>0, <3>1, <3>2
    <2>2. ASSUME NEW k \in Ctls, NEW command \in {"on", "off"}, load_state(k, command) PROVE OwnInv'
      <3>1. /\ UNCHANGED state_file /\ snapshot'[k] = state_file
            /\ Active(k)' => state_file \in State /\ ctl'[k] \in {"on", "off"}
            /\ \A j \in Ctls \ {k} : /\ ctl'[j] = ctl[j] /\ snapshot'[j] = snapshot[j]
                                     /\ Active(j)' <=> Active(j)
        BY <2>2, LoadStep
      <3> QED
        BY <1>0, <2>0, <2>1, <3>1 DEF OwnInv
    <2>3. ASSUME NEW k \in Ctls, Command(k) \/ CommandFails(k) PROVE OwnInv'
      <3>1. /\ Active(k) /\ snapshot[k] \in State
            /\ \A j \in Ctls \ {k} : /\ ctl'[j] = ctl[j] /\ snapshot'[j] = snapshot[j]
                                     /\ Active(j)' <=> Active(j)
            /\ \/ ctl'[k] = "done" /\ ~Active(k)'
               \/ UNCHANGED <<snapshot, state_file>> /\ ctl'[k] \in {"started", "stopping", "stopped"}
        BY <2>3, CommandStep
      <3>2. state_file' # NoFile /\ state_file'.fresh => state_file'.ebpf_pid = Own
        <4>1. ctl[k] \in {"started", "stopped"} => ~snapshot[k].fresh
          BY <2>0, <3>1
        <4>2. ctl[k] = "started" => snapshot[k].fresh
          BY DEF FreshInv
        <4> QED
          BY <2>0, <2>3, <4>1, <4>2, CommandFile
      <3>3. ASSUME Active(k)', snapshot'[k].fresh PROVE FALSE
        <4>1. ctl'[k] # "done" /\ snapshot[k].fresh
          BY <3>1, <3>3 DEF Active
        <4>2. snapshot[k].ebpf_pid = Own /\ ctl[k] \in {"on", "off"}
          BY <2>0, <3>1, <4>1
        <4>3. ~Finish(k)
          BY <4>1 DEF Finish, Plain
        <4>4. stop_ebpf(k)
          BY <2>0, <2>3, <4>2, <4>3 DEF Command, CommandFails, start_ebpf, start_ebpf_check, stop_ebpf_wait,
             stop_ebpf_save
        <4>5. Terminate({Own})
          BY <2>0, <4>2, <4>4 DEF stop_ebpf
        <4>6. ~Tracing(Own)'
          <5>1. {Own} \in SUBSET Monitors /\ Own \in {Own}
            BY <1>0
          <5> QED
            BY <1>0, <4>5, <5>1, TerminateEffect
        <4> QED
          BY <4>6
      <3> QED
        BY <2>0, <2>1, <3>1, <3>2, <3>3 DEF OwnInv
    <2>4. ASSUME \A k \in Ctls : ~Command(k) /\ ~CommandFails(k),
                 \A k \in Ctls : ~load_state(k, "on") /\ ~load_state(k, "off")
          PROVE  OwnInv'
      <3>1. /\ UNCHANGED <<ctl, snapshot>> /\ (\A j \in Ctls : Active(j)' <=> Active(j))
            /\ UNCHANGED state_file \/ write_control_state_file \/ RemoveState
        BY <2>4, OtherStep
      <3>2. state_file' # NoFile /\ state_file'.fresh => state_file'.ebpf_pid = Own
        <4>1. CASE UNCHANGED state_file
          BY <2>0, <4>1
        <4>2. CASE write_control_state_file /\ ~UNCHANGED state_file
          <5>1. ebpf_pid = Own
            BY <1>0, <1>2, <4>2 DEF write_control_state_file, ExitInv, Tracing
          <5> QED
            BY <4>2, <5>1, ControllerFile
        <4>3. CASE RemoveState
          BY <4>3 DEF RemoveState
        <4> QED
          BY <3>1, <4>1, <4>2, <4>3
      <3> QED
        BY <2>0, <2>1, <3>1, <3>2 DEF OwnInv
    <2> QED
      BY <2>2, <2>3, <2>4
  <1> QED
    BY <1>1, <1>2

\* And CleanInv: whoever touches a recorded monitor knows of it, and so does the
\* controller when it looks for one to stop.
LEMMA CleanNext ==
  ASSUME Plain, Loaded, ExitInv, FreshInv, OverlapInv, CleanInv, [Next]_vars
  PROVE  CleanInv'
  <1>0. /\ Own \in Monitors /\ Own \notin Ctls /\ Ctls \subseteq Monitors /\ NoPid \notin Monitors
        /\ mon \in [Monitors -> MonitorStatus] /\ mon_term \in SUBSET Monitors
        /\ ctl \in [Ctls -> CtlStatus] /\ snapshot \in [Ctls -> State \cup {NoFile}]
        /\ ebpf_pid \in {Own, NoPid} /\ NoFile \notin State
    BY ConstantsAssumption, NoFileAssumption DEF Plain, Monitors
  <1> SUFFICES ASSUME NEW k \in Ctls, Clean(k)'
               PROVE  /\ pc' \notin {"remove_state", "exited"}
                      /\ \/ ctl'[k] = "started" /\ \A j \in Ctls : Active(j)' => j = k
                         \/ Recorded(k)'
    BY DEF CleanInv
  <1>1. Tracing(k)' /\ k \notin overlapped' /\ k \notin unrecorded'
    BY DEF Clean
  <1>2. k \notin overlapped /\ k \notin unrecorded
    <2>1. overlapped \subseteq overlapped' /\ unrecorded \subseteq unrecorded'
      BY LoadStep, CommandStep, OtherStep
    <2> QED
      BY <1>1, <2>1
  <1>3. CASE ~Tracing(k)
    <2>1. /\ start_ebpf(k) /\ ctl' = [ctl EXCEPT ![k] = "started"]
          /\ target \notin {"unborn", "gone"}
      BY <1>0, <1>1, <1>3, MonitorStarts
    <2>2. Active(k) /\ UNCHANGED pc
      BY <2>1 DEF start_ebpf, Active
    <2>3. pc \notin {"remove_state", "exited"}
      BY <2>1 DEF ExitInv
    <2>4. \A j \in Ctls \ {k} : ~Active(j)
      BY <1>2, <2>2 DEF OverlapInv
    <2>5. ctl'[k] = "started" /\ \A j \in Ctls \ {k} : ~Active(j)'
      BY <1>0, <2>1, <2>4 DEF Active
    <2> QED
      BY <2>2, <2>3, <2>5
  <1>4. CASE Tracing(k)
    <2>0. /\ pc \notin {"remove_state", "exited"}
          /\ \/ ctl[k] = "started" /\ \A j \in Ctls : Active(j) => j = k
             \/ Recorded(k)
          /\ pid_alive(k)
      BY <1>0, <1>2, <1>4 DEF CleanInv, Clean, pid_alive, Tracing
    <2>1. ASSUME NEW j \in Ctls, NEW command \in {"on", "off"}, load_state(j, command)
          PROVE  UNCHANGED pc /\ Recorded(k)'
      <3>1. /\ UNCHANGED <<state_file, pc>> /\ snapshot'[j] = state_file /\ ctl[j] = "idle"
            /\ Active(j)' => ctl'[j] \in {"on", "off"}
            /\ \A i \in Ctls \ {j} : /\ ctl'[i] = ctl[i] /\ snapshot'[i] = snapshot[i]
                                     /\ Active(i)' <=> Active(i)
            /\ \A i \in Ctls \ {j} : Active(i) => i \in overlapped'
        BY <2>1, LoadStep
      <3>2. Recorded(k)
        BY <1>1, <2>0, <3>1 DEF Active
      <3>3. j # k
        BY <3>1, <3>2 DEF Recorded
      <3> QED
        BY <3>1, <3>2, <3>3 DEF Recorded
    <2>2. ASSUME Command(k) \/ CommandFails(k) PROVE UNCHANGED pc /\ Recorded(k)'
      <3>1. Active(k) /\ UNCHANGED pc /\ snapshot[k] \in State
        BY <2>2, CommandStep
      <3>2. ctl[k] = "started" /\ \A j \in Ctls : Active(j) => j = k
        BY <2>0, <3>1 DEF Recorded, Active
      <3>3. start_ebpf_check(k)
        BY <1>1, <2>2, <3>2 DEF Command, CommandFails, start_ebpf, stop_ebpf, stop_ebpf_wait, stop_ebpf_save
      <3>4. Finish(k) /\ mon[k] # "zombie"
        BY <1>4, <3>3 DEF start_ebpf_check, Tracing
      <3>5. Others(k) = {}
        BY <3>2 DEF Others
      <3>6. state_file' = [snapshot[k] EXCEPT !.ebpf_pid = k]
        BY <3>3, <3>4, <3>5 DEF start_ebpf_check, save_state, WriteFile
      <3>7. state_file' \in State /\ state_file'.ebpf_pid = k
        BY <1>0, <3>1, <3>6 DEF State
      <3>8. \A j \in Ctls : ~Active(j)' /\ ctl'[k] = "done"
        BY <1>0, <3>2, <3>4 DEF Finish, Active
      <3> QED
        BY <1>0, <3>1, <3>7, <3>8 DEF Recorded
    <2>3. ASSUME NEW j \in Ctls \ {k}, Command(j) \/ CommandFails(j)
          PROVE  UNCHANGED pc /\ Recorded(k)'
      <3>1. /\ Active(j) /\ UNCHANGED pc
            /\ \A i \in Ctls \ {j} : /\ ctl'[i] = ctl[i] /\ snapshot'[i] = snapshot[i]
                                     /\ Active(i)' <=> Active(i)
        BY <2>3, CommandStep
      <3>2. Recorded(k)
        BY <2>0, <3>1
      <3>3. snapshot[j].ebpf_pid = k /\ ctl[j] \in {"on", "off"}
        BY <3>1, <3>2 DEF Recorded
      <3>4. CASE stop_ebpf(j)
        <4>1. Terminate({k})
          BY <2>0, <3>3, <3>4 DEF stop_ebpf
        <4>2. {k} \in SUBSET Monitors /\ k \in {k}
          BY <1>0
        <4> QED
          BY <1>0, <1>1, <4>1, <4>2, TerminateEffect
      <3>5. CASE Finish(j) /\ UNCHANGED state_file
        <4>1. ~Active(j)'
          BY <1>0, <3>5 DEF Finish, Active
        <4> QED
          BY <3>1, <3>2, <3>5, <4>1 DEF Recorded
      <3> QED
        BY <2>0, <2>3, <3>3, <3>4, <3>5 DEF Command, CommandFails, start_ebpf, start_ebpf_check,
           stop_ebpf_wait, stop_ebpf_save
    <2>4. ASSUME \A j \in Ctls : ~Command(j) /\ ~CommandFails(j),
                 \A j \in Ctls : ~load_state(j, "on") /\ ~load_state(j, "off")
          PROVE  /\ pc' \notin {"remove_state", "exited"}
                 /\ \/ ctl'[k] = "started" /\ \A j \in Ctls : Active(j)' => j = k
                    \/ Recorded(k)'
      <3>1. /\ UNCHANGED <<ctl, snapshot>> /\ (\A j \in Ctls : Active(j)' <=> Active(j))
            /\ UNCHANGED state_file \/ write_control_state_file \/ RemoveState
            /\ pc' \in {"remove_state", "exited"} => StopRecorded
        BY <2>0, <2>4, OtherStep
      <3>2. ~write_control_state_file /\ ~RemoveState
        BY <1>4, <2>0 DEF FreshInv, write_control_state_file, RemoveState, StartUp
      <3>3. ~StopRecorded
        <4> SUFFICES ASSUME StopRecorded PROVE FALSE
          OBVIOUS
        <4>1. ~Active(k)
          BY <1>1 DEF StopRecorded
        <4>2. state_file # NoFile /\ state_file.ebpf_pid = k
          BY <2>0, <4>1 DEF Active, Recorded
        <4> DEFINE M == {read_ebpf_pid_from_control_state} \ {NoPid, ebpf_pid}
        <4>3. k \in M /\ M \in SUBSET Monitors
          BY <1>0, <4>2 DEF read_ebpf_pid_from_control_state
        <4>4. Terminate(M)
          BY DEF StopRecorded
        <4> HIDE DEF M
        <4> QED
          BY <1>0, <1>1, <4>3, <4>4, TerminateEffect
      <3> QED
        BY <2>0, <3>1, <3>2, <3>3 DEF Recorded
    <2> QED
      BY <2>0, <2>1, <2>2, <2>3, <2>4
  <1> QED
    BY <1>3, <1>4

\* They hold always.
LEMMA MonitorInvariant == Spec => [](FreshInv /\ OverlapInv /\ OwnInv /\ CleanInv)
  <1>1. Init => FreshInv /\ OverlapInv /\ OwnInv /\ CleanInv
    <2> SUFFICES ASSUME Init PROVE FreshInv /\ OverlapInv /\ OwnInv /\ CleanInv
      OBVIOUS
    <2>1. \A m \in Monitors : ~Tracing(m)
      BY DEF Init, Tracing
    <2>2. state_file # NoFile => ~state_file.fresh /\ state_file.ebpf_pid = NoPid
      BY DEF Init, StaleState
    <2>3. \A k \in Ctls : ~Active(k) /\ ctl[k] = "idle"
      BY DEF Init, Active
    <2>4. Own \in Monitors /\ Ctls \subseteq Monitors
      BY DEF Monitors
    <2> QED
      BY <2>1, <2>2, <2>3, <2>4 DEF FreshInv, OverlapInv, OwnInv, CleanInv, Clean
  <1>2. /\ Plain /\ Loaded /\ ExitInv /\ FreshInv /\ OverlapInv /\ OwnInv /\ CleanInv
        /\ [Next]_vars
        => (FreshInv /\ OverlapInv /\ OwnInv /\ CleanInv)'
    BY FreshNext, OverlapNext, OwnNext, CleanNext
  <1> QED
    BY <1>1, <1>2, TypeAndLoaded, ExitInvariant, PTL DEF Spec

\* The controller's own monitor never traces beside another, and of two others
\* one is of a command that overlapped another or could not record it.
THEOREM NoSecondMonitor == Spec => []OneMonitor
  <1>1. OwnInv /\ CleanInv => OneMonitor
    <2> SUFFICES ASSUME OwnInv, CleanInv, NEW m \in Monitors, NEW n \in Monitors,
                        Tracing(m), Tracing(n), m # n
                 PROVE  Own \notin {m, n} /\ {m, n} \cap (overlapped \cup unrecorded) # {}
      BY DEF OneMonitor
    <2>1. Own \notin {m, n}
      BY DEF OwnInv, Monitors
    <2>2. ASSUME m \notin overlapped \cup unrecorded, n \notin overlapped \cup unrecorded PROVE FALSE
      <3>1. m \in Ctls /\ n \in Ctls /\ Clean(m) /\ Clean(n)
        BY <2>1, <2>2 DEF Monitors, Clean
      <3> QED
        BY <3>1 DEF CleanInv, Recorded, Active
    <2> QED
      BY <2>1, <2>2
  <1> QED
    BY <1>1, MonitorInvariant, PTL

\* And when the session is over only the monitor of such a command is left.
THEOREM NoMonitorLeft == Spec => []NoOrphan
  <1>1. ExitInv /\ CleanInv => NoOrphan
    BY DEF ExitInv, CleanInv, Clean, NoOrphan, Monitors, Tracing
  <1> QED
    BY <1>1, ExitInvariant, MonitorInvariant, PTL

=============================================================================
