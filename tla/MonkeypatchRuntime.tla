------------------------- MODULE MonkeypatchRuntime -------------------------
(***************************************************************************)
(* vllm_trace/monkeypatch_runtime.py: the switch of the Python patches in  *)
(* a process, and in a process forked from it.                             *)
(*                                                                         *)
(* Every patched function asks is_enabled(), which starts the control      *)
(* server where it does not run yet.  The server's thread takes commands   *)
(* from a socket whose path names the process.  _lock guards both; fork    *)
(* copies it, held or not, and of the threads only the one that forks.     *)
(*                                                                         *)
(* External: fork with its hook, sockets and their paths, threads.  A      *)
(* client of trace_ctl connects and sends one command; whether it still    *)
(* waits for the answer makes no difference to the process.                *)
(***************************************************************************)
EXTENDS Naturals, Sequences, FiniteSets

CONSTANTS
  Parent, Child,  \* the processes
  Threads,        \* threads of the program that call is_enabled
  Servers,        \* threads a process may start to serve commands
  Nobody,         \* holds a free lock, owns a path without a file
  MaxCommands,    \* bound on the commands
  BindFails       \* may binding the control socket fail?

Procs == {Parent, Child}

ASSUME ConstantsAssumption ==
  /\ Parent # Child
  /\ Threads \cap Servers = {}
  /\ Nobody \notin Threads \cup Servers
  /\ IsFiniteSet(Servers)
  /\ MaxCommands \in Nat
  /\ BindFails \in BOOLEAN

VARIABLES
  pc,              \* where each thread is, in each process
  lock,            \* _lock: its holder
  process_pid,     \* _process_pid, and with it _socket_path
  server_started,  \* _server_started
  start_failed,    \* is _server_start_failed_pid this process?
  server_socket,   \* _server_socket, named after the thread made for it
  stop_event,      \* _stop_event
  enabled,         \* _enabled
  server,          \* what each server thread is doing, and with what
  stopping,        \* the server that stop_control_server is stopping
  path,            \* the socket that the file of each process leads to
  open,            \* sockets the process has not closed
  backlog,         \* commands sent to each socket and not yet taken
  commanded,       \* the last command sent to each process, or what it began with
  commands         \* commands sent

switch == <<process_pid, server_started, start_failed, server_socket, stop_event, enabled>>
sockets == <<path, open, backlog>>
client == <<commanded, commands>>
vars == <<pc, lock, process_pid, server_started, start_failed, server_socket, stop_event, enabled,
          server, stopping, path, open, backlog, commanded, commands>>

ThreadAt == {"absent", "idle", "start", "read", "stop", "close", "unlink", "exiting"}
ServerAt == {"unborn", "loop", "accept", "set", "status", "done"}
NoFile == [proc |-> Nobody, socket |-> Nobody]

\* The globals of each process hold what they are declared to hold, and a server
\* thread that accepts has a socket to accept on, as the loop asserts.
TypeOK ==
  /\ pc \in [Procs -> [Threads -> ThreadAt]]
  /\ lock \in [Procs -> Threads \cup Servers \cup {Nobody}]
  /\ process_pid \in [Procs -> Procs]
  /\ server_started \in [Procs -> BOOLEAN]
  /\ start_failed \in [Procs -> BOOLEAN]
  /\ server_socket \in [Procs -> Servers \cup {Nobody}]
  /\ stop_event \in [Procs -> BOOLEAN]
  /\ enabled \in [Procs -> BOOLEAN]
  /\ server \in [Procs -> [Servers -> [at : ServerAt, socket : Servers \cup {Nobody},
                                       command : BOOLEAN]]]
  /\ \A p \in Procs, s \in Servers : server[p][s].at = "accept" => server[p][s].socket # Nobody
  /\ stopping \in [Procs -> Servers \cup {Nobody}]
  /\ path \in [Procs -> [proc : Procs, socket : Servers] \cup {NoFile}]
  /\ open \in [Procs -> SUBSET Servers]
  /\ backlog \in [Procs -> [Servers -> Seq(BOOLEAN)]]
  /\ commanded \in [Procs -> BOOLEAN]
  /\ commands \in 0 .. MaxCommands

-----------------------------------------------------------------------------
(* Helpers. *)

Goto(p, t, at) == pc' = [pc EXCEPT ![p][t] = at]
ServerGoes(p, s, to) == server' = [server EXCEPT ![p][s] = to]
ServerGoto(p, s, at) == ServerGoes(p, s, [server[p][s] EXCEPT !.at = at])
Release(p) == lock' = [lock EXCEPT ![p] = Nobody]
Unlinked(p) == [path EXCEPT ![process_pid[p]] = NoFile]

\* The threads and servers that are about to take the lock, or have it.
Locking(p) ==
  {t \in Threads : pc[p][t] \in {"start", "read", "stop"}}
    \cup {s \in Servers : server[p][s].at \in {"set", "status"}}

\* with _lock:
Acquire(p, x) ==
  /\ x \in Locking(p)
  /\ lock[p] = Nobody
  /\ lock' = [lock EXCEPT ![p] = x]
  /\ UNCHANGED <<pc, switch, server, stopping, sockets, client>>

-----------------------------------------------------------------------------
(* Threads of the program. *)

\* is_enabled looks, without the lock, whether there is a server.  The pid has
\* been brought up to date by the fork hook.
is_enabled(p, t) ==
  /\ pc[p][t] = "idle"
  /\ Goto(p, t, IF ~server_started[p] /\ ~start_failed[p] THEN "start" ELSE "read")
  /\ UNCHANGED <<lock, switch, server, stopping, sockets, client>>

\* Another thread has started it meanwhile.
AlreadyStarted(p, t) ==
  /\ server_started[p]
  /\ UNCHANGED <<switch, server, sockets>>

\* Binding or listening fails: the process does not try again.
StartFails(p, t) ==
  /\ ~server_started[p] /\ BindFails
  /\ path' = Unlinked(p)
  /\ start_failed' = [start_failed EXCEPT ![p] = TRUE]
  /\ UNCHANGED <<process_pid, server_started, server_socket, stop_event, enabled, server,
                 open, backlog>>

Unborn(p) == {s \in Servers : server[p][s].at = "unborn"}

\* A new socket replaces what the path led to, and a new thread serves it.
StartServer(p) ==
  /\ Unborn(p) # {}
  /\ LET s == CHOOSE s \in Unborn(p) : TRUE
     IN  /\ path' = [path EXCEPT ![process_pid[p]] = [proc |-> p, socket |-> s]]
         /\ open' = [open EXCEPT ![p] = @ \cup {s}]
         /\ server_socket' = [server_socket EXCEPT ![p] = s]
         /\ ServerGoto(p, s, "loop")
  /\ stop_event' = [stop_event EXCEPT ![p] = FALSE]
  /\ server_started' = [server_started EXCEPT ![p] = TRUE]
  /\ start_failed' = [start_failed EXCEPT ![p] = FALSE]
  /\ UNCHANGED <<process_pid, enabled, backlog>>

\* Mutant: a thread that has waited for the lock does not look again.
start_control_server_unchecked(p, t) ==
  /\ pc[p][t] = "start" /\ lock[p] = t
  /\ StartFails(p, t) \/ StartServer(p)
  /\ Release(p) /\ Goto(p, t, "read")
  /\ UNCHANGED <<stopping, client>>

start_control_server(p, t) ==
  /\ pc[p][t] = "start" /\ lock[p] = t
  /\ \/ AlreadyStarted(p, t)
     \/ StartFails(p, t)
     \/ ~server_started[p] /\ StartServer(p)
  /\ Release(p) /\ Goto(p, t, "read")
  /\ UNCHANGED <<stopping, client>>

\* is_enabled reads _enabled and returns.
ReadEnabled(p, t) ==
  /\ pc[p][t] = "read" /\ lock[p] = t
  /\ Release(p) /\ Goto(p, t, "idle")
  /\ UNCHANGED <<switch, server, stopping, sockets, client>>

\* Mutant: the child goes on with the path of its parent.
reset_after_fork_locked_samepath ==
  /\ server_socket' = [server_socket EXCEPT ![Child] = Nobody]
  /\ server_started' = [server_started EXCEPT ![Child] = FALSE]
  /\ start_failed' = [start_failed EXCEPT ![Child] = FALSE]
  /\ stop_event' = [stop_event EXCEPT ![Child] = FALSE]
  /\ UNCHANGED process_pid

\* The variables of the module as the hook of the child leaves them.  It closes
\* the child's copy of the socket.
reset_after_fork_locked ==
  /\ server_socket' = [server_socket EXCEPT ![Child] = Nobody]
  /\ server_started' = [server_started EXCEPT ![Child] = FALSE]
  /\ start_failed' = [start_failed EXCEPT ![Child] = FALSE]
  /\ process_pid' = [process_pid EXCEPT ![Child] = Child]
  /\ stop_event' = [stop_event EXCEPT ![Child] = FALSE]

\* fork() in thread t, and the hook, which takes no lock.
after_fork_child(t) ==
  /\ pc[Parent][t] = "idle"
  /\ \A x \in Threads : pc[Child][x] = "absent"
  /\ Goto(Child, t, "idle")
  /\ lock' = [lock EXCEPT ![Child] = lock[Parent]]
  /\ enabled' = [enabled EXCEPT ![Child] = enabled[Parent]]
  /\ commanded' = [commanded EXCEPT ![Child] = enabled[Parent]]
  /\ reset_after_fork_locked
  /\ UNCHANGED <<server, stopping, sockets, commands>>

\* stop_control_server, which atexit runs once, while other threads go on.  The
\* children that multiprocessing forks leave by os._exit, without it.
Exit(p, t) ==
  /\ p = Parent
  /\ pc[p][t] = "idle"
  /\ \A x \in Threads : pc[p][x] \in {"absent", "idle", "start", "read"}
  /\ Goto(p, t, "stop")
  /\ UNCHANGED <<lock, switch, server, stopping, sockets, client>>

stop_control_server(p, t) ==
  /\ pc[p][t] = "stop" /\ lock[p] = t
  /\ Release(p)
  /\ IF server_started[p]
     THEN /\ stop_event' = [stop_event EXCEPT ![p] = TRUE]
          /\ stopping' = [stopping EXCEPT ![p] = server_socket[p]]
          /\ server_socket' = [server_socket EXCEPT ![p] = Nobody]
          /\ server_started' = [server_started EXCEPT ![p] = FALSE]
          /\ Goto(p, t, "close")
     ELSE /\ Goto(p, t, "exiting")
          /\ UNCHANGED <<stop_event, stopping, server_socket, server_started>>
  /\ UNCHANGED <<process_pid, start_failed, enabled, server, sockets, client>>

\* Commands that wait in the backlog are lost with the socket.
CloseSocket(p, t) ==
  /\ pc[p][t] = "close"
  /\ open' = [open EXCEPT ![p] = @ \ {stopping[p]}]
  /\ backlog' = [backlog EXCEPT ![p][stopping[p]] = <<>>]
  /\ Goto(p, t, "unlink")
  /\ UNCHANGED <<lock, switch, server, stopping, path, client>>

\* The thread is joined, with a limit; then the file goes.
UnlinkPath(p, t) ==
  /\ pc[p][t] = "unlink"
  /\ path' = Unlinked(p)
  /\ stopping' = [stopping EXCEPT ![p] = Nobody]
  /\ Goto(p, t, "exiting")
  /\ UNCHANGED <<lock, switch, server, open, backlog, client>>

Thread(p, t) ==
  \/ ReadEnabled(p, t) \/ start_control_server(p, t)
  \/ stop_control_server(p, t) \/ CloseSocket(p, t) \/ UnlinkPath(p, t)

-----------------------------------------------------------------------------
(* The server threads. *)

\* Mutant: the loop looks at nothing before it accepts.
server_loop_endless(p, s) ==
  /\ server[p][s].at = "loop"
  /\ ServerGoes(p, s, [at |-> "accept", socket |-> server_socket[p],
                        command |-> server[p][s].command])
  /\ UNCHANGED <<pc, lock, switch, stopping, sockets, client>>

\* The loop reads _stop_event, then _server_socket; None ends the thread with
\* an exception.
server_loop(p, s) ==
  /\ server[p][s].at = "loop"
  /\ LET ends == stop_event[p] \/ server_socket[p] = Nobody
     IN  ServerGoes(p, s, [at |-> IF ends THEN "done" ELSE "accept",
                            socket |-> server_socket[p], command |-> server[p][s].command])
  /\ UNCHANGED <<pc, lock, switch, stopping, sockets, client>>

\* accept: a command, or a timeout, or the socket has been closed.
accept(p, s) ==
  /\ server[p][s].at = "accept"
  /\ LET socket == server[p][s].socket
     IN  \/ /\ socket \notin open[p]
            /\ ServerGoto(p, s, "done") /\ UNCHANGED backlog
         \/ /\ socket \in open[p] /\ backlog[p][socket] = <<>>
            /\ ServerGoto(p, s, "loop") /\ UNCHANGED backlog
         \/ /\ socket \in open[p] /\ backlog[p][socket] # <<>>
            /\ ServerGoes(p, s, [at |-> "set", socket |-> socket,
                                 command |-> Head(backlog[p][socket])])
            /\ backlog' = [backlog EXCEPT ![p][socket] = Tail(@)]
  /\ UNCHANGED <<pc, lock, switch, stopping, path, open, client>>

set_enabled(p, s) ==
  /\ server[p][s].at = "set" /\ lock[p] = s
  /\ enabled' = [enabled EXCEPT ![p] = server[p][s].command]
  /\ Release(p) /\ ServerGoto(p, s, "status")
  /\ UNCHANGED <<pc, process_pid, server_started, start_failed, server_socket, stop_event,
                 stopping, sockets, client>>

\* The answer, made from get_status.
status_line(p, s) ==
  /\ server[p][s].at = "status" /\ lock[p] = s
  /\ Release(p) /\ ServerGoto(p, s, "loop")
  /\ UNCHANGED <<pc, switch, stopping, sockets, client>>

Server(p, s) ==
  server_loop(p, s) \/ accept(p, s) \/ set_enabled(p, s) \/ status_line(p, s)

-----------------------------------------------------------------------------
(* trace_ctl. *)

\* "on" or "off" for p.  A socket that is closed refuses the connection.
send_socket_command(p, on) ==
  /\ commands < MaxCommands
  /\ path[p] # NoFile /\ path[p].socket \in open[path[p].proc]
  /\ backlog' = [backlog EXCEPT ![path[p].proc][path[p].socket] = Append(@, on)]
  /\ commanded' = [commanded EXCEPT ![p] = on]
  /\ commands' = commands + 1
  /\ UNCHANGED <<pc, lock, switch, server, stopping, path, open>>

-----------------------------------------------------------------------------
Init ==
  /\ pc = [p \in Procs |-> [t \in Threads |-> IF p = Parent THEN "idle" ELSE "absent"]]
  /\ lock = [p \in Procs |-> Nobody]
  /\ process_pid = [p \in Procs |-> Parent]
  /\ server_started = [p \in Procs |-> FALSE] /\ start_failed = [p \in Procs |-> FALSE]
  /\ server_socket = [p \in Procs |-> Nobody] /\ stop_event = [p \in Procs |-> FALSE]
  /\ \E on \in BOOLEAN : enabled = [p \in Procs |-> on] /\ commanded = [p \in Procs |-> on]
  /\ server = [p \in Procs |->
                 [s \in Servers |-> [at |-> "unborn", socket |-> Nobody, command |-> FALSE]]]
  /\ stopping = [p \in Procs |-> Nobody]
  /\ path = [p \in Procs |-> NoFile] /\ open = [p \in Procs |-> {}]
  /\ backlog = [p \in Procs |-> [s \in Servers |-> <<>>]]
  /\ commands = 0

Next ==
  \E p \in Procs :
    \/ \E t \in Threads : is_enabled(p, t) \/ Exit(p, t) \/ Thread(p, t)
    \/ \E s \in Servers : Server(p, s)
    \/ \E x \in Threads \cup Servers : Acquire(p, x)
    \/ \E on \in BOOLEAN : send_socket_command(p, on)
    \/ p = Parent /\ \E t \in Threads : after_fork_child(t)

Spec == Init /\ [][Next]_vars

\* Threads run, and one that waits for a lock gets it if it is free again and
\* again.  No call, command, fork or exit need ever come.
Fairness ==
  \A p \in Procs :
    /\ \A t \in Threads : WF_vars(Thread(p, t))
    /\ \A s \in Servers : WF_vars(Server(p, s))
    /\ \A x \in Threads \cup Servers : SF_vars(Acquire(p, x))

LiveSpec == Spec /\ Fairness

-----------------------------------------------------------------------------
(* Properties *)

Exiting(p) == \E t \in Threads : pc[p][t] \in {"stop", "close", "unlink", "exiting"}

\* A process that has started its server can be reached: its own path leads to
\* its own socket, one thread serves it, and no other process took the path.
\* Not so once it exits: the patches may start a server whose file the stop
\* that is under way removes.
Reachable ==
  \A p \in Procs : server_started[p] /\ ~Exiting(p) =>
    /\ path[p] = [proc |-> p, socket |-> server_socket[p]]
    /\ server_socket[p] \in open[p]
    /\ {s \in Servers : server[p][s].at \notin {"unborn", "done"}} = {server_socket[p]}

\* Commands take effect in the order in which they are given: when all have
\* been carried out, the tracing of each process is as its last one said,
\* whatever was forked meanwhile.
LastCommandWins ==
  \A p \in Procs :
    /\ ~Exiting(p)
    /\ \A s \in Servers : backlog[p][s] = <<>> /\ server[p][s].at # "set"
    => enabled[p] = commanded[p]

\* "The tracing must not interrupt the inference" (trace_patch.py): every
\* question of every thread is answered.
NeverBlocks ==
  \A p \in Procs, t \in Threads : pc[p][t] \in {"start", "read"} ~> pc[p][t] = "idle"

=============================================================================
