---------------------- MODULE MonkeypatchRuntimeProofs ----------------------
(***************************************************************************)
(* Proofs about MonkeypatchRuntime, for any number of threads, of servers  *)
(* and of commands, whether binding a socket fails or not.                 *)
(***************************************************************************)
EXTENDS MonkeypatchRuntime, SequenceTheorems, TLAPS

USE DEF Procs, switch, sockets, client, Release

ServerState == [at : ServerAt, socket : Servers \cup {Nobody}, command : BOOLEAN]

\* The two parts of TypeOK: the globals of the module that say yes or no, and
\* the rest.
Flags ==
  /\ server_started \in [Procs -> BOOLEAN]
  /\ start_failed \in [Procs -> BOOLEAN]
  /\ stop_event \in [Procs -> BOOLEAN]
  /\ enabled \in [Procs -> BOOLEAN]
  /\ commanded \in [Procs -> BOOLEAN]

Plain ==
  /\ pc \in [Procs -> [Threads -> ThreadAt]]
  /\ lock \in [Procs -> Threads \cup Servers \cup {Nobody}]
  /\ process_pid \in [Procs -> Procs]
  /\ server_socket \in [Procs -> Servers \cup {Nobody}]
  /\ server \in [Procs -> [Servers -> ServerState]]
  /\ \A p \in Procs, s \in Servers : server[p][s].at = "accept" => server[p][s].socket # Nobody
  /\ stopping \in [Procs -> Servers \cup {Nobody}]
  /\ path \in [Procs -> [proc : Procs, socket : Servers] \cup {NoFile}]
  /\ open \in [Procs -> SUBSET Servers]
  /\ backlog \in [Procs -> [Servers -> Seq(BOOLEAN)]]
  /\ commands \in 0 .. MaxCommands

LEMMA TypeParts == TypeOK <=> Flags /\ Plain
  BY Zenon DEF TypeOK, Flags, Plain, ServerState

\* A thread goes on: the others stay where they are.
LEMMA ThreadMoves ==
  ASSUME pc \in [Procs -> [Threads -> ThreadAt]],
         NEW p \in Procs, NEW t \in Threads, NEW at \in ThreadAt, Goto(p, t, at)
  PROVE  /\ pc' \in [Procs -> [Threads -> ThreadAt]]
         /\ \A q \in Procs, x \in Threads :
              pc'[q][x] = IF q = p /\ x = t THEN at ELSE pc[q][x]
  <1> DEFINE row == [pc[p] EXCEPT ![t] = at]
  <1>1. pc' = [pc EXCEPT ![p] = row]
    BY DEF Goto
  <1>2. /\ row \in [Threads -> ThreadAt]
        /\ \A x \in Threads : row[x] = IF x = t THEN at ELSE pc[p][x]
    OBVIOUS
  <1> HIDE DEF row
  <1> QED
    BY <1>1, <1>2

\* And so does a server.
LEMMA ServerMoves ==
  ASSUME server \in [Procs -> [Servers -> ServerState]],
         NEW p \in Procs, NEW s \in Servers, NEW to \in ServerState, ServerGoes(p, s, to)
  PROVE  /\ server' \in [Procs -> [Servers -> ServerState]]
         /\ \A q \in Procs, x \in Servers :
              server'[q][x] = IF q = p /\ x = s THEN to ELSE server[q][x]
  <1> DEFINE row == [server[p] EXCEPT ![s] = to]
  <1>1. server' = [server EXCEPT ![p] = row]
    BY DEF ServerGoes
  <1>2. /\ row \in [Servers -> ServerState]
        /\ \A x \in Servers : row[x] = IF x = s THEN to ELSE server[p][x]
    OBVIOUS
  <1> HIDE DEF row
  <1> QED
    BY <1>1, <1>2

\* A server that only changes its place keeps its socket and its command.
LEMMA ServerTurns ==
  ASSUME server \in [Procs -> [Servers -> ServerState]],
         NEW p \in Procs, NEW s \in Servers, NEW at \in ServerAt, ServerGoto(p, s, at)
  PROVE  /\ server' \in [Procs -> [Servers -> ServerState]]
         /\ \A q \in Procs, x \in Servers :
              /\ server'[q][x].at = IF q = p /\ x = s THEN at ELSE server[q][x].at
              /\ server'[q][x].socket = server[q][x].socket
              /\ server'[q][x].command = server[q][x].command
  <1> DEFINE to == [server[p][s] EXCEPT !.at = at]
  <1>1. /\ to \in ServerState
        /\ to.at = at /\ to.socket = server[p][s].socket /\ to.command = server[p][s].command
    BY DEF ServerState
  <1>2. ServerGoes(p, s, to)
    BY DEF ServerGoto
  <1> HIDE DEF to
  <1> QED
    BY <1>1, <1>2, ServerMoves

\* A socket's backlog changes, the others do not.
LEMMA BacklogMoves ==
  ASSUME backlog \in [Procs -> [Servers -> Seq(BOOLEAN)]],
         NEW p \in Procs, NEW s \in Servers, NEW b \in Seq(BOOLEAN),
         backlog' = [backlog EXCEPT ![p][s] = b]
  PROVE  /\ backlog' \in [Procs -> [Servers -> Seq(BOOLEAN)]]
         /\ \A q \in Procs, x \in Servers :
              backlog'[q][x] = IF q = p /\ x = s THEN b ELSE backlog[q][x]
  <1> DEFINE row == [backlog[p] EXCEPT ![s] = b]
  <1>1. backlog' = [backlog EXCEPT ![p] = row]
    OBVIOUS
  <1>2. /\ row \in [Servers -> Seq(BOOLEAN)]
        /\ \A x \in Servers : row[x] = IF x = s THEN b ELSE backlog[p][x]
    OBVIOUS
  <1> HIDE DEF row
  <1> QED
    BY <1>1, <1>2

\* StartServer makes one of the servers that were not born yet serve its socket.
LEMMA StartEffect ==
  ASSUME NEW p \in Procs, StartServer(p)
  PROVE  \E s \in Servers :
           /\ server[p][s].at = "unborn"
           /\ path' = [path EXCEPT ![process_pid[p]] = [proc |-> p, socket |-> s]]
           /\ open' = [open EXCEPT ![p] = @ \cup {s}]
           /\ server_socket' = [server_socket EXCEPT ![p] = s]
           /\ ServerGoto(p, s, "loop")
           /\ stop_event' = [stop_event EXCEPT ![p] = FALSE]
           /\ server_started' = [server_started EXCEPT ![p] = TRUE]
           /\ start_failed' = [start_failed EXCEPT ![p] = FALSE]
           /\ UNCHANGED <<process_pid, enabled, backlog>>
  <1> DEFINE s == CHOOSE s \in Unborn(p) : TRUE
  <1>1. s \in Unborn(p)
    BY DEF StartServer
  <1>2. s \in Servers /\ server[p][s].at = "unborn"
    BY <1>1 DEF Unborn
  <1> QED
    BY <1>2 DEF StartServer

\* The initial states have the right type.
LEMMA TypeInit == Init => TypeOK
  <1> SUFFICES ASSUME Init PROVE TypeOK
    OBVIOUS
  <1>1. Flags
    BY DEF Init, Flags
  <1>2. Plain
    <2>1. MaxCommands \in Nat
      BY ConstantsAssumption
    <2>2. [p \in Procs |-> [s \in Servers |-> <<>>]] \in [Procs -> [Servers -> Seq(BOOLEAN)]]
      OBVIOUS
    <2>3. pc \in [Procs -> [Threads -> ThreadAt]]
      BY DEF Init, ThreadAt
    <2>4. /\ server \in [Procs -> [Servers -> ServerState]]
          /\ \A p \in Procs, s \in Servers : server[p][s].at # "accept"
      BY DEF Init, ServerState, ServerAt
    <2>5. /\ path \in [Procs -> [proc : Procs, socket : Servers] \cup {NoFile}]
          /\ backlog \in [Procs -> [Servers -> Seq(BOOLEAN)]]
      BY <2>2 DEF Init
    <2>6. /\ lock \in [Procs -> Threads \cup Servers \cup {Nobody}]
          /\ process_pid \in [Procs -> Procs]
          /\ server_socket \in [Procs -> Servers \cup {Nobody}]
          /\ stopping \in [Procs -> Servers \cup {Nobody}]
          /\ open \in [Procs -> SUBSET Servers]
          /\ commands \in 0 .. MaxCommands
      BY <2>1 DEF Init
    <2> QED
      BY <2>3, <2>4, <2>5, <2>6 DEF Plain
  <1> QED
    BY <1>1, <1>2, TypeParts

\* Every step of a thread, of a server or of a client keeps the flags.
LEMMA FlagsNext ==
  ASSUME Flags, Plain, [Next]_vars
  PROVE  Flags'
  <1> USE DEF Flags
  <1>1. ASSUME NEW p \in Procs, NEW t \in Threads,
               is_enabled(p, t) \/ Exit(p, t) \/ ReadEnabled(p, t) \/ CloseSocket(p, t)
                 \/ UnlinkPath(p, t)
        PROVE  Flags'
    BY <1>1 DEF is_enabled, Exit, ReadEnabled, CloseSocket, UnlinkPath
  <1>2. ASSUME NEW p \in Procs, NEW t \in Threads, start_control_server(p, t)
        PROVE  Flags'
    <2>1. CASE StartServer(p)
      <3>1. /\ stop_event' = [stop_event EXCEPT ![p] = FALSE]
            /\ server_started' = [server_started EXCEPT ![p] = TRUE]
            /\ start_failed' = [start_failed EXCEPT ![p] = FALSE]
            /\ UNCHANGED <<enabled, commanded>>
        BY <1>2, <2>1 DEF StartServer, start_control_server
      <3> QED
        BY <3>1
    <2> QED
      BY <1>2, <2>1 DEF start_control_server, AlreadyStarted, StartFails
  <1>3. ASSUME NEW p \in Procs, NEW t \in Threads, stop_control_server(p, t)
        PROVE  Flags'
    BY <1>3 DEF stop_control_server
  <1>4. ASSUME NEW p \in Procs, NEW s \in Servers,
               server_loop(p, s) \/ accept(p, s) \/ status_line(p, s)
        PROVE  Flags'
    BY <1>4 DEF server_loop, accept, status_line
  <1>5. ASSUME NEW p \in Procs, NEW s \in Servers, set_enabled(p, s)
        PROVE  Flags'
    <2>1. server[p][s].command \in BOOLEAN
      BY DEF Plain, ServerState
    <2> QED
      BY <1>5, <2>1 DEF set_enabled
  <1>6. ASSUME NEW p \in Procs, NEW x \in Threads \cup Servers, Acquire(p, x)
        PROVE  Flags'
    BY <1>6 DEF Acquire
  <1>7. ASSUME NEW p \in Procs, NEW on \in BOOLEAN, send_socket_command(p, on)
        PROVE  Flags'
    BY <1>7 DEF send_socket_command
  <1>8. ASSUME NEW t \in Threads, after_fork_child(t)
        PROVE  Flags'
    BY <1>8 DEF after_fork_child, reset_after_fork_locked
  <1>9. CASE UNCHANGED vars
    BY <1>9 DEF vars
  <1> QED
    BY <1>1, <1>2, <1>3, <1>4, <1>5, <1>6, <1>7, <1>8, <1>9 DEF Next, Thread, Server

\* And the types of the other variables.
LEMMA PlainNext ==
  ASSUME Plain, [Next]_vars
  PROVE  Plain'
  <1>0. /\ server \in [Procs -> [Servers -> ServerState]]
        /\ \A q \in Procs, x \in Servers : server[q][x].at = "accept" => server[q][x].socket # Nobody
    BY DEF Plain
  <1> USE DEF Plain
  <1>1. ASSUME NEW p \in Procs, NEW t \in Threads,
               is_enabled(p, t) \/ Exit(p, t) \/ ReadEnabled(p, t)
        PROVE  Plain'
    <2>1. PICK at \in ThreadAt : Goto(p, t, at)
      BY <1>1 DEF is_enabled, Exit, ReadEnabled, ThreadAt
    <2>2. pc' \in [Procs -> [Threads -> ThreadAt]]
      BY <2>1, ThreadMoves
    <2>3. lock' \in [Procs -> Threads \cup Servers \cup {Nobody}]
      BY <1>1 DEF is_enabled, Exit, ReadEnabled
    <2> QED
      BY <1>1, <2>2, <2>3 DEF is_enabled, Exit, ReadEnabled
  <1>2. ASSUME NEW p \in Procs, NEW t \in Threads, CloseSocket(p, t)
        PROVE  Plain'
    <2>1. Goto(p, t, "unlink") /\ "unlink" \in ThreadAt
      BY <1>2 DEF CloseSocket, ThreadAt
    <2>2. backlog' \in [Procs -> [Servers -> Seq(BOOLEAN)]]
      <3>1. <<>> \in Seq(BOOLEAN)
        OBVIOUS
      <3>2. CASE stopping[p] \in Servers
        BY <1>2, <3>1, <3>2, BacklogMoves DEF CloseSocket
      <3>3. CASE stopping[p] \notin Servers
        BY <1>2, <3>3 DEF CloseSocket
      <3> QED
        BY <3>2, <3>3
    <2> QED
      BY <1>2, <2>1, <2>2, ThreadMoves DEF CloseSocket
  <1>3. ASSUME NEW p \in Procs, NEW t \in Threads, UnlinkPath(p, t)
        PROVE  Plain'
    <2>1. Goto(p, t, "exiting") /\ "exiting" \in ThreadAt
      BY <1>3 DEF UnlinkPath, ThreadAt
    <2> QED
      BY <1>3, <2>1, ThreadMoves DEF UnlinkPath, Unlinked
  <1>4. ASSUME NEW p \in Procs, NEW t \in Threads, start_control_server(p, t)
        PROVE  Plain'
    <2>1. Goto(p, t, "read") /\ "read" \in ThreadAt
      BY <1>4 DEF start_control_server, ThreadAt
    <2>2. pc' \in [Procs -> [Threads -> ThreadAt]]
      BY <2>1, ThreadMoves
    <2>3. CASE AlreadyStarted(p, t) \/ StartFails(p, t)
      BY <1>4, <2>2, <2>3 DEF start_control_server, AlreadyStarted, StartFails, Unlinked
    <2>4. CASE StartServer(p)
      <3>1. PICK s \in Servers :
              /\ path' = [path EXCEPT ![process_pid[p]] = [proc |-> p, socket |-> s]]
              /\ open' = [open EXCEPT ![p] = @ \cup {s}]
              /\ server_socket' = [server_socket EXCEPT ![p] = s]
              /\ ServerGoto(p, s, "loop")
              /\ UNCHANGED <<process_pid, backlog>>
        BY <2>4, StartEffect
      <3>2. "loop" \in ServerAt
        BY DEF ServerAt
      <3>3. /\ server' \in [Procs -> [Servers -> ServerState]]
            /\ \A q \in Procs, x \in Servers :
                 /\ server'[q][x].at = IF q = p /\ x = s THEN "loop" ELSE server[q][x].at
                 /\ server'[q][x].socket = server[q][x].socket
        <4> HIDE DEF Plain
        <4> QED
          BY <1>0, <3>1, <3>2, ServerTurns
      <3>4. \A q \in Procs, x \in Servers :
              server'[q][x].at = "accept" => server'[q][x].socket # Nobody
        <4> HIDE DEF Plain
        <4> QED
          BY <1>0, <3>3
      <3>5. path' \in [Procs -> [proc : Procs, socket : Servers] \cup {NoFile}]
        BY <3>1
      <3> QED
        BY <1>4, <2>2, <3>1, <3>3, <3>4, <3>5 DEF start_control_server
    <2> QED
      BY <1>4, <2>3, <2>4 DEF start_control_server
  <1>5. ASSUME NEW p \in Procs, NEW t \in Threads, stop_control_server(p, t)
        PROVE  Plain'
    <2>1. PICK at \in ThreadAt : Goto(p, t, at)
      BY <1>5 DEF stop_control_server, ThreadAt
    <2>2. pc' \in [Procs -> [Threads -> ThreadAt]]
      BY <2>1, ThreadMoves
    <2>3. /\ lock' \in [Procs -> Threads \cup Servers \cup {Nobody}]
          /\ UNCHANGED <<process_pid, server, path, open, backlog, commands>>
      BY <1>5 DEF stop_control_server
    <2>4. /\ stopping' \in [Procs -> Servers \cup {Nobody}]
          /\ server_socket' \in [Procs -> Servers \cup {Nobody}]
      BY <1>5 DEF stop_control_server
    <2> QED
      BY <2>2, <2>3, <2>4
  <1>6. ASSUME NEW p \in Procs, NEW s \in Servers, server_loop(p, s)
        PROVE  Plain'
    <2> DEFINE ends == stop_event[p] \/ server_socket[p] = Nobody
               to == [at |-> IF ends THEN "done" ELSE "accept", socket |-> server_socket[p],
                      command |-> server[p][s].command]
    <2>1. ServerGoes(p, s, to)
      BY <1>6 DEF server_loop
    <2>2. to \in ServerState
      BY DEF ServerState, ServerAt
    <2>3. to.at = "accept" => to.socket # Nobody
      OBVIOUS
    <2> HIDE DEF to
    <2>4. /\ server' \in [Procs -> [Servers -> ServerState]]
          /\ \A q \in Procs, x \in Servers :
               server'[q][x] = IF q = p /\ x = s THEN to ELSE server[q][x]
      <3> HIDE DEF Plain
      <3> QED
        BY <1>0, <2>1, <2>2, ServerMoves
    <2>5. \A q \in Procs, x \in Servers :
             server'[q][x].at = "accept" => server'[q][x].socket # Nobody
      BY <2>3, <2>4
    <2> QED
      BY <1>6, <2>4, <2>5 DEF server_loop
  <1>7. ASSUME NEW p \in Procs, NEW s \in Servers, accept(p, s)
        PROVE  Plain'
    <2> DEFINE socket == server[p][s].socket
               waiting == backlog[p][socket]
               to == [at |-> "set", socket |-> socket, command |-> Head(waiting)]
    <2>1. CASE UNCHANGED backlog /\ \E at \in {"loop", "done"} : ServerGoto(p, s, at)
      <3>1. PICK at \in {"loop", "done"} : ServerGoto(p, s, at)
        BY <2>1
      <3>2. at \in ServerAt
        BY DEF ServerAt
      <3>3. /\ server' \in [Procs -> [Servers -> ServerState]]
            /\ \A q \in Procs, x \in Servers :
                 /\ server'[q][x].at = IF q = p /\ x = s THEN at ELSE server[q][x].at
                 /\ server'[q][x].socket = server[q][x].socket
        <4> HIDE DEF Plain
        <4> QED
          BY <1>0, <3>1, <3>2, ServerTurns
      <3>4. \A q \in Procs, x \in Servers :
              server'[q][x].at = "accept" => server'[q][x].socket # Nobody
        <4> HIDE DEF Plain
        <4>1. at # "accept"
          OBVIOUS
        <4> QED
          BY <1>0, <3>3, <4>1
      <3> QED
        BY <1>7, <2>1, <3>3, <3>4 DEF accept
    <2>2. CASE /\ socket \in open[p] /\ waiting # <<>>
               /\ ServerGoes(p, s, to)
               /\ backlog' = [backlog EXCEPT ![p][socket] = Tail(@)]
      <3>1. socket \in Servers /\ waiting \in Seq(BOOLEAN)
        BY <2>2
      <3>2. Head(waiting) \in BOOLEAN /\ Tail(waiting) \in Seq(BOOLEAN)
        BY <2>2, <3>1, HeadTailProperties
      <3>3. backlog' = [backlog EXCEPT ![p][socket] = Tail(waiting)]
        BY <2>2
      <3>4. backlog' \in [Procs -> [Servers -> Seq(BOOLEAN)]]
        BY <3>1, <3>2, <3>3, BacklogMoves
      <3>5. to \in ServerState /\ to.at # "accept"
        BY <3>1, <3>2 DEF ServerState, ServerAt
      <3> HIDE DEF to
      <3>6. /\ server' \in [Procs -> [Servers -> ServerState]]
            /\ \A q \in Procs, x \in Servers :
                 server'[q][x] = IF q = p /\ x = s THEN to ELSE server[q][x]
        <4> HIDE DEF Plain
        <4> QED
          BY <1>0, <2>2, <3>5, ServerMoves
      <3>7. \A q \in Procs, x \in Servers :
              server'[q][x].at = "accept" => server'[q][x].socket # Nobody
        BY <3>5, <3>6
      <3> QED
        BY <1>7, <3>4, <3>6, <3>7 DEF accept
    <2> QED
      BY <1>7, <2>1, <2>2 DEF accept
  <1>8. ASSUME NEW p \in Procs, NEW s \in Servers, set_enabled(p, s) \/ status_line(p, s)
        PROVE  Plain'
    <2>1. PICK at \in {"status", "loop"} : ServerGoto(p, s, at)
      BY <1>8 DEF set_enabled, status_line
    <2>2. at \in ServerAt
      BY DEF ServerAt
    <2>3. /\ server' \in [Procs -> [Servers -> ServerState]]
          /\ \A q \in Procs, x \in Servers :
               /\ server'[q][x].at = IF q = p /\ x = s THEN at ELSE server[q][x].at
               /\ server'[q][x].socket = server[q][x].socket
      <3> HIDE DEF Plain
      <3> QED
        BY <1>0, <2>1, <2>2, ServerTurns
    <2>4. \A q \in Procs, x \in Servers :
            server'[q][x].at = "accept" => server'[q][x].socket # Nobody
      <3> HIDE DEF Plain
      <3>1. at # "accept"
        OBVIOUS
      <3> QED
        BY <1>0, <2>3, <3>1
    <2>5. lock' \in [Procs -> Threads \cup Servers \cup {Nobody}]
      BY <1>8 DEF set_enabled, status_line
    <2> QED
      BY <1>8, <2>3, <2>4, <2>5 DEF set_enabled, status_line
  <1>9. ASSUME NEW p \in Procs, NEW x \in Threads \cup Servers, Acquire(p, x)
        PROVE  Plain'
    BY <1>9 DEF Acquire
  <1>10. ASSUME NEW p \in Procs, NEW on \in BOOLEAN, send_socket_command(p, on)
         PROVE  Plain'
    <2>1. MaxCommands \in Nat
      BY ConstantsAssumption
    <2>2. commands' \in 0 .. MaxCommands
      BY <1>10, <2>1 DEF send_socket_command
    <2> DEFINE to == path[p]
               b == Append(backlog[to.proc][to.socket], on)
    <2>3. to.proc \in Procs /\ to.socket \in Servers
      BY <1>10 DEF send_socket_command
    <2>4. b \in Seq(BOOLEAN)
      BY <2>3, AppendProperties
    <2>5. backlog' = [backlog EXCEPT ![to.proc][to.socket] = b]
      BY <1>10 DEF send_socket_command
    <2> HIDE DEF b
    <2>6. backlog' \in [Procs -> [Servers -> Seq(BOOLEAN)]]
      BY <2>3, <2>4, <2>5, BacklogMoves
    <2> QED
      BY <1>10, <2>2, <2>6 DEF send_socket_command
  <1>11. ASSUME NEW t \in Threads, after_fork_child(t)
         PROVE  Plain'
    <2>1. Goto(Child, t, "idle") /\ "idle" \in ThreadAt
      BY <1>11 DEF after_fork_child, ThreadAt
    <2> QED
      BY <1>11, <2>1, ThreadMoves DEF after_fork_child, reset_after_fork_locked
  <1>12. CASE UNCHANGED vars
    BY <1>12 DEF vars
  <1> QED
    BY <1>1, <1>2, <1>3, <1>4, <1>5, <1>6, <1>7, <1>8, <1>9, <1>10, <1>11, <1>12
       DEF Next, Thread, Server

\* The type invariant: in particular, a server that accepts has a socket to
\* accept on, as the code asserts.
THEOREM TypeCorrect == Spec => []TypeOK
  <1>1. TypeOK /\ [Next]_vars => TypeOK'
    <2>1. (Flags /\ Plain)' => TypeOK'
      BY Zenon DEF TypeOK, Flags, Plain, ServerState
    <2> QED
      BY <2>1, FlagsNext, PlainNext, TypeParts
  <1> QED
    BY <1>1, TypeInit, PTL DEF Spec

-----------------------------------------------------------------------------
(* Who can be reached, and how it is switched. *)

\* A process goes by its own name once it has threads; before that it has no
\* server.  No file leads to the socket of another process.
ForkInv ==
  /\ process_pid[Parent] = Parent
  /\ (\E t \in Threads : pc[Child][t] # "absent") => process_pid[Child] = Child
  /\ (\A t \in Threads : pc[Child][t] = "absent") => ~server_started[Child]
  /\ \A p \in Procs : path[p] = NoFile \/ path[p].proc = p

\* What tracing will be once all commands given so far have been carried out.
Latest(p, s) ==
  IF backlog[p][s] # <<>> THEN backlog[p][s][Len(backlog[p][s])]
  ELSE IF server[p][s].at = "set" THEN server[p][s].command
  ELSE enabled[p]

\* A process with a server has one, which serves the socket of the process, to
\* which its file leads, and will obey the last command.
Up(p) ==
  LET s == server_socket[p]
  IN  /\ s \in Servers
      /\ ~stop_event[p]
      /\ path[p] = [proc |-> p, socket |-> s]
      /\ open[p] = {s}
      /\ server[p][s].at \notin {"unborn", "done"}
      /\ server[p][s].at = "accept" => server[p][s].socket = s
      /\ \A x \in Servers \ {s} : server[p][x].at = "unborn" /\ backlog[p][x] = <<>>
      /\ Latest(p, s) = commanded[p]

\* One without has nothing of the kind, and is as it began.
Down(p) ==
  /\ open[p] = {}
  /\ \A x \in Servers : server[p][x].at = "unborn" /\ backlog[p][x] = <<>>
  /\ enabled[p] = commanded[p]

Link(p) == ~Exiting(p) => IF server_started[p] THEN Up(p) ELSE Down(p)

\* A process that exits goes on exiting.
LEMMA ExitingStays ==
  ASSUME Plain, [Next]_vars, NEW p \in Procs, Exiting(p)
  PROVE  Exiting(p)'
  <1>0. pc \in [Procs -> [Threads -> ThreadAt]]
    BY DEF Plain
  <1>1. PICK x \in Threads : pc[p][x] \in {"stop", "close", "unlink", "exiting"}
    BY DEF Exiting
  <1>2. ASSUME NEW q \in Procs, NEW t \in Threads, NEW at \in ThreadAt, Goto(q, t, at),
               pc[q][t] \in {"stop", "close", "unlink", "exiting"}
                 => at \in {"stop", "close", "unlink", "exiting"}
        PROVE  Exiting(p)'
    BY <1>0, <1>1, <1>2, ThreadMoves DEF Exiting
  <1>3. ASSUME NEW q \in Procs, NEW t \in Threads,
               is_enabled(q, t) \/ Exit(q, t) \/ ReadEnabled(q, t) \/ start_control_server(q, t)
        PROVE  Exiting(p)'
    <2>1. PICK at \in ThreadAt : Goto(q, t, at)
      BY <1>3 DEF is_enabled, Exit, ReadEnabled, start_control_server, ThreadAt
    <2>2. pc[q][t] \in {"idle", "read", "start"}
      BY <1>3 DEF is_enabled, Exit, ReadEnabled, start_control_server
    <2> QED
      BY <1>2, <2>1, <2>2
  <1>4. ASSUME NEW q \in Procs, NEW t \in Threads,
               stop_control_server(q, t) \/ CloseSocket(q, t) \/ UnlinkPath(q, t)
        PROVE  Exiting(p)'
    <2>1. PICK at \in {"close", "unlink", "exiting"} : Goto(q, t, at)
      BY <1>4 DEF stop_control_server, CloseSocket, UnlinkPath
    <2>2. at \in ThreadAt
      BY DEF ThreadAt
    <2> QED
      BY <1>2, <2>1, <2>2
  <1>5. ASSUME NEW t \in Threads, after_fork_child(t)
        PROVE  Exiting(p)'
    <2>1. Goto(Child, t, "idle") /\ "idle" \in ThreadAt /\ pc[Child][t] = "absent"
      BY <1>5 DEF after_fork_child, ThreadAt
    <2> QED
      BY <1>2, <2>1
  <1>6. CASE UNCHANGED pc
    BY <1>6 DEF Exiting
  <1>7. ASSUME NEW q \in Procs, NEW s \in Servers, Server(q, s)
        PROVE  UNCHANGED pc
    BY <1>7 DEF Server, server_loop, accept, set_enabled, status_line
  <1> QED
    BY <1>3, <1>4, <1>5, <1>6, <1>7 DEF Next, Thread, Acquire, send_socket_command, vars

\* A step that is none of the process's keeps its link.
LEMMA LinkStays ==
  ASSUME NEW p \in Procs, Link(p), Exiting(p) => Exiting(p)',
         server_started'[p] = server_started[p], server_socket'[p] = server_socket[p],
         stop_event'[p] = stop_event[p], path'[p] = path[p], open'[p] = open[p],
         enabled'[p] = enabled[p], commanded'[p] = commanded[p],
         \A x \in Servers : server'[p][x] = server[p][x] /\ backlog'[p][x] = backlog[p][x]
  PROVE  Link(p)'
  <1> SUFFICES ASSUME ~Exiting(p)' PROVE (IF server_started[p] THEN Up(p) ELSE Down(p))'
    BY DEF Link
  <1>1. CASE server_started[p]
    <2>1. Up(p)
      BY <1>1 DEF Link
    <2>2. Up(p)'
      BY <2>1 DEF Up, Latest
    <2> QED
      BY <1>1, <2>2
  <1>2. CASE ~server_started[p]
    <2>1. Down(p)
      BY <1>2 DEF Link
    <2>2. Down(p)'
      BY <2>1 DEF Down
    <2> QED
      BY <1>2, <2>2
  <1> QED
    BY <1>1, <1>2

\* Every step keeps what is known of forks and files.
LEMMA ForkNext ==
  ASSUME Flags, Plain, ForkInv, [Next]_vars
  PROVE  ForkInv'
  <1>0. /\ pc \in [Procs -> [Threads -> ThreadAt]]
        /\ path \in [Procs -> [proc : Procs, socket : Servers] \cup {NoFile}]
        /\ process_pid \in [Procs -> Procs]
        /\ server_started \in [Procs -> BOOLEAN]
        /\ Parent # Child
    BY ConstantsAssumption DEF Flags, Plain
  <1> USE DEF ForkInv
  <1>1. ASSUME NEW p \in Procs, NEW t \in Threads, NEW at \in ThreadAt, Goto(p, t, at),
               pc[p][t] # "absent", at # "absent"
        PROVE  \A x \in Threads : pc'[Child][x] = "absent" <=> pc[Child][x] = "absent"
    BY <1>0, <1>1, ThreadMoves
  <1>2. ASSUME NEW p \in Procs, NEW t \in Threads, pc[p][t] # "absent"
        PROVE  process_pid[p] = p
    BY <1>2
  <1>3. ASSUME NEW p \in Procs, NEW t \in Threads,
               is_enabled(p, t) \/ Exit(p, t) \/ ReadEnabled(p, t) \/ CloseSocket(p, t)
        PROVE  ForkInv'
    <2>1. PICK at \in ThreadAt \ {"absent"} : Goto(p, t, at) /\ pc[p][t] # "absent"
      BY <1>3 DEF is_enabled, Exit, ReadEnabled, CloseSocket, ThreadAt
    <2>2. \A x \in Threads : pc'[Child][x] = "absent" <=> pc[Child][x] = "absent"
      BY <1>1, <2>1
    <2>3. UNCHANGED <<process_pid, server_started, path>>
      BY <1>3 DEF is_enabled, Exit, ReadEnabled, CloseSocket
    <2> QED
      BY <2>2, <2>3
  <1>4. ASSUME NEW p \in Procs, NEW t \in Threads, UnlinkPath(p, t)
        PROVE  ForkInv'
    <2>1. Goto(p, t, "exiting") /\ pc[p][t] # "absent" /\ "exiting" \in ThreadAt
      BY <1>4 DEF UnlinkPath, ThreadAt
    <2>2. \A x \in Threads : pc'[Child][x] = "absent" <=> pc[Child][x] = "absent"
      BY <1>1, <2>1
    <2>3. /\ UNCHANGED <<process_pid, server_started>>
          /\ \A q \in Procs : path'[q] = path[q] \/ path'[q] = NoFile
      BY <1>0, <1>4 DEF UnlinkPath, Unlinked
    <2> QED
      BY <2>2, <2>3
  <1>5. ASSUME NEW p \in Procs, NEW t \in Threads, start_control_server(p, t)
        PROVE  ForkInv'
    <2>1. Goto(p, t, "read") /\ pc[p][t] # "absent" /\ "read" \in ThreadAt
      BY <1>5 DEF start_control_server, ThreadAt
    <2>2. \A x \in Threads : pc'[Child][x] = "absent" <=> pc[Child][x] = "absent"
      BY <1>1, <2>1
    <2>3. process_pid[p] = p
      BY <1>2, <2>1
    <2>4. UNCHANGED process_pid
      BY <1>5 DEF start_control_server, AlreadyStarted, StartFails, StartServer
    <2>5. \A q \in Procs : path'[q] = NoFile \/ path'[q].proc = q
      <3>1. CASE AlreadyStarted(p, t)
        BY <3>1 DEF AlreadyStarted
      <3>2. CASE StartFails(p, t)
        BY <1>0, <3>2 DEF StartFails, Unlinked
      <3>3. CASE StartServer(p)
        <4>1. PICK s \in Servers : path' = [path EXCEPT ![process_pid[p]] = [proc |-> p, socket |-> s]]
          BY <3>3, StartEffect
        <4> QED
          BY <1>0, <2>3, <4>1
      <3> QED
        BY <1>5, <3>1, <3>2, <3>3 DEF start_control_server
    <2>6. p = Child => \E x \in Threads : pc[Child][x] # "absent"
      BY <2>1
    <2>7. p # Child => server_started'[Child] = server_started[Child]
      BY <1>0, <1>5 DEF start_control_server, AlreadyStarted, StartFails, StartServer
    <2> QED
      BY <2>2, <2>4, <2>5, <2>6, <2>7
  <1>6. ASSUME NEW p \in Procs, NEW t \in Threads, stop_control_server(p, t)
        PROVE  ForkInv'
    <2>1. PICK at \in ThreadAt \ {"absent"} : Goto(p, t, at) /\ pc[p][t] # "absent"
      BY <1>6 DEF stop_control_server, ThreadAt
    <2>2. \A x \in Threads : pc'[Child][x] = "absent" <=> pc[Child][x] = "absent"
      BY <1>1, <2>1
    <2>3. /\ UNCHANGED <<process_pid, path>>
          /\ server_started'[Child] => server_started[Child]
      BY <1>0, <1>6 DEF stop_control_server
    <2> QED
      BY <2>2, <2>3
  <1>7. ASSUME NEW t \in Threads, after_fork_child(t)
        PROVE  ForkInv'
    <2>1. Goto(Child, t, "idle") /\ "idle" \in ThreadAt
      BY <1>7 DEF after_fork_child, ThreadAt
    <2>2. pc'[Child][t] = "idle"
      BY <1>0, <2>1, ThreadMoves
    <2> QED
      BY <1>0, <1>7, <2>2 DEF after_fork_child, reset_after_fork_locked
  <1>8. ASSUME NEW p \in Procs, NEW s \in Servers, Server(p, s)
        PROVE  UNCHANGED <<pc, process_pid, server_started, path>>
    BY <1>8 DEF Server, server_loop, accept, set_enabled, status_line
  <1>9. CASE UNCHANGED <<pc, process_pid, server_started, path>>
    BY <1>9
  <1> QED
    BY <1>3, <1>4, <1>5, <1>6, <1>7, <1>8, <1>9
       DEF Next, Thread, Acquire, send_socket_command, vars

\* Once the first command is taken, the last one is still the last, or was the
\* one that was taken.
LEMMA LastStays ==
  ASSUME NEW w \in Seq(BOOLEAN), w # <<>>
  PROVE  /\ Head(w) \in BOOLEAN /\ Tail(w) \in Seq(BOOLEAN)
         /\ w[Len(w)] = IF Tail(w) # <<>> THEN Tail(w)[Len(Tail(w))] ELSE Head(w)
  <1> DEFINE rest == Tail(w)
             n == Len(w)
  <1>1. rest \in Seq(BOOLEAN) /\ Head(w) \in BOOLEAN /\ Head(w) = w[1]
    BY HeadTailProperties
  <1>2. n \in Nat \ {0} /\ Len(rest) = n - 1
    BY HeadTailProperties, EmptySeq
  <1>3. \A k \in 1 .. Len(rest) : rest[k] = w[k + 1]
    BY HeadTailProperties
  <1>4. rest = <<>> => Len(rest) = 0
    <2>1. Len(<<>>) = 0
      BY EmptySeq
    <2> HIDE DEF rest
    <2> QED
      BY <2>1, Zenon
  <1>5. rest # <<>> => Len(rest) # 0
    BY <1>1, EmptySeq
  <1> SUFFICES w[n] = IF rest # <<>> THEN rest[Len(rest)] ELSE Head(w)
    BY <1>1
  <1> HIDE DEF rest, n
  <1>6. CASE n = 1
    BY <1>1, <1>2, <1>5, <1>6
  <1>7. CASE n # 1
    <2>1. Len(rest) \in 1 .. Len(rest) /\ Len(rest) + 1 = n
      BY <1>2, <1>7
    <2> QED
      BY <1>2, <1>3, <1>4, <1>7, <2>1
  <1> QED
    BY <1>6, <1>7

\* A server that goes on, takes a command or carries it out.
LEMMA LinkServer ==
  ASSUME Flags, Plain, NEW p \in Procs, NEW s \in Servers, Server(p, s),
         Exiting(p) <=> Exiting(p)', Link(p)
  PROVE  Link(p)'
  <1>0. /\ server \in [Procs -> [Servers -> ServerState]]
        /\ backlog \in [Procs -> [Servers -> Seq(BOOLEAN)]]
        /\ enabled \in [Procs -> BOOLEAN]
    BY DEF Flags, Plain
  <1>1. UNCHANGED <<server_started, server_socket, stop_event, path, open, commanded>>
    BY DEF Server, server_loop, accept, set_enabled, status_line
  <1> SUFFICES ASSUME ~Exiting(p) PROVE (IF server_started[p] THEN Up(p) ELSE Down(p))'
    BY DEF Link
  <1>2. server[p][s].at # "unborn"
    BY DEF Server, server_loop, accept, set_enabled, status_line
  <1>3. server_started[p] /\ Up(p) /\ s = server_socket[p]
    BY <1>2 DEF Link, Up, Down
  <1>4. ASSUME NEW at \in ServerAt, ServerGoto(p, s, at), UNCHANGED <<backlog, enabled>>,
               server[p][s].at # "set", at \notin {"unborn", "done", "accept", "set"}
        PROVE  Up(p)'
    <2>1. \A q \in Procs, x \in Servers :
            /\ server'[q][x].at = IF q = p /\ x = s THEN at ELSE server[q][x].at
            /\ server'[q][x].socket = server[q][x].socket
            /\ server'[q][x].command = server[q][x].command
      BY <1>0, <1>4, ServerTurns
    <2>2. Latest(p, s)' = Latest(p, s)
      BY <1>4, <2>1 DEF Latest
    <2> QED
      BY <1>1, <1>3, <1>4, <2>1, <2>2 DEF Up
  <1>5. CASE server_loop(p, s)
    <2> DEFINE ends == stop_event[p] \/ server_socket[p] = Nobody
               to == [at |-> IF ends THEN "done" ELSE "accept", socket |-> server_socket[p],
                      command |-> server[p][s].command]
    <2>1. ServerGoes(p, s, to) /\ server[p][s].at = "loop" /\ UNCHANGED <<backlog, enabled>>
      BY <1>5 DEF server_loop
    <2>2. to \in ServerState
      BY DEF Plain, ServerState, ServerAt
    <2>3. to.at = "accept" /\ to.socket = s
      BY <1>3, ConstantsAssumption DEF Up
    <2> HIDE DEF to
    <2>4. \A q \in Procs, x \in Servers :
            server'[q][x] = IF q = p /\ x = s THEN to ELSE server[q][x]
      BY <1>0, <2>1, <2>2, ServerMoves
    <2>5. Latest(p, s)' = Latest(p, s)
      BY <2>1, <2>3, <2>4 DEF Latest
    <2> QED
      BY <1>1, <1>3, <2>1, <2>3, <2>4, <2>5 DEF Up
  <1>6. CASE accept(p, s)
    <2> DEFINE waiting == backlog[p][s]
               to == [at |-> "set", socket |-> s, command |-> Head(waiting)]
    <2>1. server[p][s].at = "accept" /\ server[p][s].socket = s /\ s \in open[p]
      BY <1>3, <1>6 DEF accept, Up
    <2>2. UNCHANGED enabled
      BY <1>6 DEF accept
    <2>3. CASE ServerGoto(p, s, "loop") /\ UNCHANGED backlog
      <3>1. "loop" \in ServerAt
        BY DEF ServerAt
      <3>2. Up(p)'
        BY <1>4, <2>1, <2>2, <2>3, <3>1
      <3> QED
        BY <1>1, <1>3, <3>2
    <2>4. CASE /\ waiting # <<>>
               /\ ServerGoes(p, s, to)
               /\ backlog' = [backlog EXCEPT ![p][s] = Tail(@)]
      <3>1. waiting \in Seq(BOOLEAN) /\ waiting # <<>>
        BY <1>0, <2>4
      <3>2. /\ Head(waiting) \in BOOLEAN /\ Tail(waiting) \in Seq(BOOLEAN)
            /\ waiting[Len(waiting)] = IF Tail(waiting) # <<>>
                                       THEN Tail(waiting)[Len(Tail(waiting))] ELSE Head(waiting)
        BY <3>1, LastStays
      <3>3. backlog' = [backlog EXCEPT ![p][s] = Tail(waiting)]
        BY <2>4
      <3>4. \A q \in Procs, x \in Servers :
              backlog'[q][x] = IF q = p /\ x = s THEN Tail(waiting) ELSE backlog[q][x]
        BY <1>0, <3>2, <3>3, BacklogMoves
      <3>5. to \in ServerState /\ to.at = "set" /\ to.command = Head(waiting)
        BY <3>2 DEF ServerState, ServerAt
      <3> HIDE DEF to
      <3>6. \A q \in Procs, x \in Servers :
              server'[q][x] = IF q = p /\ x = s THEN to ELSE server[q][x]
        BY <1>0, <2>4, <3>5, ServerMoves
      <3>7. Latest(p, s) = waiting[Len(waiting)]
        BY <3>1 DEF Latest
      <3>8. Latest(p, s)' = waiting[Len(waiting)]
        BY <3>2, <3>4, <3>5, <3>6 DEF Latest
      <3> QED
        BY <1>1, <1>3, <3>4, <3>5, <3>6, <3>7, <3>8 DEF Up
    <2> QED
      BY <1>6, <2>1, <2>3, <2>4 DEF accept
  <1>7. CASE set_enabled(p, s)
    <2>1. /\ server[p][s].at = "set" /\ ServerGoto(p, s, "status") /\ UNCHANGED backlog
          /\ enabled'[p] = server[p][s].command
      BY <1>0, <1>7 DEF set_enabled
    <2>2. "status" \in ServerAt
      BY DEF ServerAt
    <2>3. \A q \in Procs, x \in Servers :
            /\ server'[q][x].at = IF q = p /\ x = s THEN "status" ELSE server[q][x].at
            /\ server'[q][x].socket = server[q][x].socket
      BY <1>0, <2>1, <2>2, ServerTurns
    <2>4. Latest(p, s)' = Latest(p, s)
      BY <2>1, <2>3 DEF Latest
    <2> QED
      BY <1>1, <1>3, <2>1, <2>3, <2>4 DEF Up
  <1>8. CASE status_line(p, s)
    <2>1. /\ server[p][s].at = "status" /\ ServerGoto(p, s, "loop")
          /\ UNCHANGED <<backlog, enabled>>
      BY <1>8 DEF status_line
    <2>2. "loop" \in ServerAt
      BY DEF ServerAt
    <2>3. Up(p)'
      BY <1>4, <2>1, <2>2
    <2> QED
      BY <1>1, <1>3, <2>3
  <1> QED
    BY <1>1, <1>3, <1>5, <1>6, <1>7, <1>8 DEF Server

\* A thread that starts a server, or finds one.
LEMMA LinkStart ==
  ASSUME Flags, Plain, NEW p \in Procs, NEW t \in Threads, start_control_server(p, t),
         process_pid[p] = p, ~Exiting(p), Link(p)
  PROVE  Link(p)'
  <1>0. /\ server \in [Procs -> [Servers -> ServerState]]
        /\ path \in [Procs -> [proc : Procs, socket : Servers] \cup {NoFile}]
        /\ open \in [Procs -> SUBSET Servers]
        /\ server_socket \in [Procs -> Servers \cup {Nobody}]
        /\ server_started \in [Procs -> BOOLEAN] /\ stop_event \in [Procs -> BOOLEAN]
    BY DEF Flags, Plain
  <1>1. UNCHANGED commanded
    BY DEF start_control_server
  <1>2. CASE AlreadyStarted(p, t)
    <2>1. Up(p)
      BY <1>2 DEF AlreadyStarted, Link
    <2>2. Up(p)'
      BY <1>1, <1>2, <2>1 DEF AlreadyStarted, Up, Latest
    <2> QED
      BY <1>2, <2>2 DEF AlreadyStarted, Link
  <1>3. CASE StartFails(p, t)
    <2>1. Down(p) /\ ~server_started[p]
      BY <1>3 DEF StartFails, Link
    <2>2. Down(p)'
      BY <1>1, <1>3, <2>1 DEF StartFails, Down
    <2> QED
      BY <1>3, <2>1, <2>2 DEF StartFails, Link
  <1>4. CASE ~server_started[p] /\ StartServer(p)
    <2>1. Down(p)
      BY <1>4 DEF Link
    <2>2. PICK s \in Servers :
            /\ path' = [path EXCEPT ![process_pid[p]] = [proc |-> p, socket |-> s]]
            /\ open' = [open EXCEPT ![p] = @ \cup {s}]
            /\ server_socket' = [server_socket EXCEPT ![p] = s]
            /\ ServerGoto(p, s, "loop")
            /\ stop_event' = [stop_event EXCEPT ![p] = FALSE]
            /\ server_started' = [server_started EXCEPT ![p] = TRUE]
            /\ UNCHANGED <<enabled, backlog>>
      BY <1>4, StartEffect
    <2>3. "loop" \in ServerAt
      BY DEF ServerAt
    <2>4. \A q \in Procs, x \in Servers :
            server'[q][x].at = IF q = p /\ x = s THEN "loop" ELSE server[q][x].at
      BY <1>0, <2>2, <2>3, ServerTurns
    <2>5. /\ server_socket'[p] = s /\ ~stop_event'[p] /\ server_started'[p]
          /\ path'[p] = [proc |-> p, socket |-> s] /\ open'[p] = {s}
      BY <1>0, <2>1, <2>2 DEF Down
    <2>6. Latest(p, s)' = commanded'[p]
      BY <1>1, <2>1, <2>2, <2>4 DEF Latest, Down
    <2>7. Up(p)'
      BY <2>1, <2>2, <2>4, <2>5, <2>6 DEF Up, Down
    <2> QED
      BY <2>5, <2>7 DEF Link
  <1> QED
    BY <1>2, <1>3, <1>4 DEF start_control_server

\* A command that is sent to a process.
LEMMA LinkSend ==
  ASSUME Flags, Plain, NEW p \in Procs, NEW on \in BOOLEAN, send_socket_command(p, on),
         path[p].proc = p, Exiting(p) <=> Exiting(p)', Link(p)
  PROVE  Link(p)'
  <1>0. /\ backlog \in [Procs -> [Servers -> Seq(BOOLEAN)]]
        /\ path[p] \in [proc : Procs, socket : Servers]
        /\ commanded \in [Procs -> BOOLEAN]
    BY DEF Flags, Plain, send_socket_command
  <1> SUFFICES ASSUME ~Exiting(p) PROVE (IF server_started[p] THEN Up(p) ELSE Down(p))'
    BY DEF Link
  <1> DEFINE s == path[p].socket
             b == Append(backlog[p][s], on)
  <1>1. s \in open[p] /\ s \in Servers
    BY <1>0 DEF send_socket_command
  <1>2. server_started[p] /\ Up(p) /\ s = server_socket[p]
    BY <1>1 DEF Link, Up, Down
  <1>3. b \in Seq(BOOLEAN) /\ b # <<>> /\ b[Len(b)] = on
    <2>1. backlog[p][s] \in Seq(BOOLEAN)
      BY <1>0, <1>1
    <2> QED
      BY <2>1, AppendProperties
  <1>4. backlog' = [backlog EXCEPT ![p][s] = b] /\ commanded'[p] = on
    BY <1>0 DEF send_socket_command
  <1> HIDE DEF b
  <1>5. \A q \in Procs, x \in Servers : backlog'[q][x] = IF q = p /\ x = s THEN b ELSE backlog[q][x]
    BY <1>0, <1>1, <1>3, <1>4, BacklogMoves
  <1>6. UNCHANGED <<server_started, server_socket, stop_event, path, open, server>>
    BY DEF send_socket_command
  <1>7. Latest(p, s)' = on
    BY <1>1, <1>3, <1>5, <1>6 DEF Latest
  <1> QED
    BY <1>2, <1>4, <1>5, <1>6, <1>7 DEF Up

\* Every step keeps the link of every process.
LEMMA LinkNext ==
  ASSUME Flags, Plain, ForkInv, \A p \in Procs : Link(p), [Next]_vars
  PROVE  \A p \in Procs : Link(p)'
  <1> SUFFICES ASSUME NEW r \in Procs PROVE Link(r)'
    OBVIOUS
  <1>0. /\ pc \in [Procs -> [Threads -> ThreadAt]]
        /\ process_pid \in [Procs -> Procs]
        /\ server \in [Procs -> [Servers -> ServerState]]
        /\ server_socket \in [Procs -> Servers \cup {Nobody}]
        /\ path \in [Procs -> [proc : Procs, socket : Servers] \cup {NoFile}]
        /\ open \in [Procs -> SUBSET Servers]
        /\ backlog \in [Procs -> [Servers -> Seq(BOOLEAN)]]
        /\ server_started \in [Procs -> BOOLEAN] /\ stop_event \in [Procs -> BOOLEAN]
        /\ enabled \in [Procs -> BOOLEAN] /\ commanded \in [Procs -> BOOLEAN]
        /\ Parent # Child
    BY ConstantsAssumption DEF Flags, Plain
  <1>1. Link(r) /\ (Exiting(r) => Exiting(r)')
    BY ExitingStays
  <1>2. ASSUME NEW p \in Procs, NEW t \in Threads, pc[p][t] # "absent"
        PROVE  process_pid[p] = p
    BY <1>2 DEF ForkInv
  <1>3. CASE Exiting(r)'
    BY <1>3 DEF Link
  <1>4. CASE /\ UNCHANGED <<server_started, server_socket, stop_event, path, open, enabled>>
             /\ UNCHANGED <<commanded, server, backlog>>
    BY <1>1, <1>4, LinkStays
  <1>5. ASSUME NEW p \in Procs, NEW t \in Threads, is_enabled(p, t) \/ Exit(p, t) \/ ReadEnabled(p, t)
        PROVE  Link(r)'
    BY <1>4, <1>5 DEF is_enabled, Exit, ReadEnabled
  <1>6. ASSUME NEW p \in Procs, NEW t \in Threads, start_control_server(p, t)
        PROVE  Link(r)'
    <2>1. process_pid[p] = p
      BY <1>2, <1>6 DEF start_control_server
    <2>2. CASE r = p
      BY <1>1, <1>3, <1>6, <2>1, <2>2, LinkStart
    <2>3. CASE r # p
      <3>1. CASE AlreadyStarted(p, t)
        BY <1>4, <1>6, <3>1 DEF AlreadyStarted, start_control_server
      <3>2. CASE StartFails(p, t)
        <4>1. path'[r] = path[r]
          BY <1>0, <2>1, <2>3, <3>2 DEF StartFails, Unlinked
        <4>2. /\ UNCHANGED <<server_started, server_socket, stop_event, open, enabled>>
              /\ UNCHANGED <<commanded, server, backlog>>
          BY <1>6, <3>2 DEF StartFails, start_control_server
        <4> QED
          BY <1>1, <4>1, <4>2, LinkStays
      <3>3. CASE StartServer(p)
        <4>1. PICK s \in Servers :
                /\ path' = [path EXCEPT ![process_pid[p]] = [proc |-> p, socket |-> s]]
                /\ open' = [open EXCEPT ![p] = @ \cup {s}]
                /\ server_socket' = [server_socket EXCEPT ![p] = s]
                /\ ServerGoto(p, s, "loop")
                /\ stop_event' = [stop_event EXCEPT ![p] = FALSE]
                /\ server_started' = [server_started EXCEPT ![p] = TRUE]
                /\ UNCHANGED <<enabled, backlog>>
          BY <3>3, StartEffect
        <4>2. \A x \in Servers : server'[r][x] = server[r][x]
          BY <1>0, <2>3, <4>1 DEF ServerGoto, ServerGoes
        <4>3. /\ path'[r] = path[r] /\ open'[r] = open[r] /\ server_socket'[r] = server_socket[r]
              /\ stop_event'[r] = stop_event[r] /\ server_started'[r] = server_started[r]
          BY <1>0, <2>1, <2>3, <4>1
        <4>4. UNCHANGED commanded
          BY <1>6 DEF start_control_server
        <4> QED
          BY <1>1, <4>1, <4>2, <4>3, <4>4, LinkStays
      <3> QED
        BY <1>6, <3>1, <3>2, <3>3 DEF start_control_server
    <2> QED
      BY <2>2, <2>3
  <1>7. ASSUME NEW p \in Procs, NEW t \in Threads,
               stop_control_server(p, t) \/ CloseSocket(p, t) \/ UnlinkPath(p, t)
        PROVE  Link(r)'
    <2>1. CASE r = p
      <3>1. Exiting(p)
        BY <1>7 DEF stop_control_server, CloseSocket, UnlinkPath, Exiting
      <3> QED
        BY <1>1, <1>3, <2>1, <3>1
    <2>2. CASE r # p
      <3>1. process_pid[p] = p
        BY <1>2, <1>7 DEF stop_control_server, CloseSocket, UnlinkPath
      <3>2. /\ server_started'[r] = server_started[r] /\ server_socket'[r] = server_socket[r]
            /\ stop_event'[r] = stop_event[r]
        BY <1>0, <1>7, <2>2 DEF stop_control_server, CloseSocket, UnlinkPath
      <3>3. path'[r] = path[r] /\ open'[r] = open[r] /\ backlog'[r] = backlog[r]
        BY <1>0, <1>7, <2>2, <3>1 DEF stop_control_server, CloseSocket, UnlinkPath, Unlinked
      <3>4. UNCHANGED <<enabled, commanded, server>>
        BY <1>7 DEF stop_control_server, CloseSocket, UnlinkPath
      <3> QED
        BY <1>1, <3>2, <3>3, <3>4, LinkStays
    <2> QED
      BY <2>1, <2>2
  <1>8. ASSUME NEW p \in Procs, NEW s \in Servers, Server(p, s)
        PROVE  Link(r)'
    <2>1. UNCHANGED <<pc, server_started, server_socket, stop_event, path, open, commanded>>
      BY <1>8 DEF Server, server_loop, accept, set_enabled, status_line
    <2>2. CASE r = p
      <3>1. Exiting(p) <=> Exiting(p)'
        BY <2>1 DEF Exiting
      <3> QED
        BY <1>1, <1>8, <2>2, <3>1, LinkServer
    <2>3. CASE r # p
      <3>1. server'[r] = server[r] /\ backlog'[r] = backlog[r] /\ enabled'[r] = enabled[r]
        BY <1>0, <1>8, <2>3
           DEF Server, server_loop, accept, set_enabled, status_line, ServerGoto, ServerGoes
      <3> QED
        BY <1>1, <2>1, <3>1, LinkStays
    <2> QED
      BY <2>2, <2>3
  <1>9. ASSUME NEW p \in Procs, NEW x \in Threads \cup Servers, Acquire(p, x)
        PROVE  Link(r)'
    BY <1>4, <1>9 DEF Acquire
  <1>10. ASSUME NEW p \in Procs, NEW on \in BOOLEAN, send_socket_command(p, on)
         PROVE  Link(r)'
    <2>1. path[p].proc = p
      BY <1>10 DEF send_socket_command, ForkInv
    <2>2. UNCHANGED <<pc, server_started, server_socket, stop_event, path, open, enabled, server>>
      BY <1>10 DEF send_socket_command
    <2>3. CASE r = p
      <3>1. Exiting(p) <=> Exiting(p)'
        BY <2>2 DEF Exiting
      <3> QED
        BY <1>1, <1>10, <2>1, <2>3, <3>1, LinkSend
    <2>4. CASE r # p
      <3>1. backlog'[r] = backlog[r] /\ commanded'[r] = commanded[r]
        BY <1>0, <1>10, <2>1, <2>4 DEF send_socket_command
      <3> QED
        BY <1>1, <2>2, <3>1, LinkStays
    <2> QED
      BY <2>3, <2>4
  <1>11. ASSUME NEW t \in Threads, after_fork_child(t)
         PROVE  Link(r)'
    <2>1. UNCHANGED <<server, path, open, backlog>>
      BY <1>11 DEF after_fork_child
    <2>2. CASE r = Child
      <3>1. ~server_started[Child] /\ ~Exiting(Child)
        BY <1>11 DEF after_fork_child, ForkInv, Exiting
      <3>2. Down(Child)
        BY <1>1, <2>2, <3>1 DEF Link
      <3>3. CASE enabled[Parent] = commanded'[Child]
        <4>1. ~server_started'[Child] /\ enabled'[Child] = commanded'[Child]
          BY <1>0, <1>11, <3>3 DEF after_fork_child, reset_after_fork_locked
        <4>2. Down(Child)'
          BY <2>1, <3>2, <4>1 DEF Down
        <4> QED
          BY <2>2, <4>1, <4>2 DEF Link
      <3> QED
        BY <1>0, <1>11, <3>3 DEF after_fork_child
    <2>3. CASE r # Child
      <3>1. /\ server_started'[r] = server_started[r] /\ server_socket'[r] = server_socket[r]
            /\ stop_event'[r] = stop_event[r]
            /\ enabled'[r] = enabled[r] /\ commanded'[r] = commanded[r]
        BY <1>0, <1>11, <2>3 DEF after_fork_child, reset_after_fork_locked
      <3> QED
        BY <1>1, <2>1, <3>1, LinkStays
    <2> QED
      BY <2>2, <2>3
  <1>12. CASE UNCHANGED vars
    BY <1>4, <1>12 DEF vars
  <1> QED
    BY <1>5, <1>6, <1>7, <1>8, <1>9, <1>10, <1>11, <1>12 DEF Next, Thread

\* Together they are an invariant.
LEMMA LinkInvariant == Spec => [](ForkInv /\ \A p \in Procs : Link(p))
  <1>1. Init => ForkInv /\ \A p \in Procs : Link(p)
    <2> SUFFICES ASSUME Init PROVE ForkInv /\ \A p \in Procs : Link(p)
      OBVIOUS
    <2>1. ForkInv
      BY ConstantsAssumption DEF Init, ForkInv
    <2>2. ASSUME NEW p \in Procs PROVE Link(p)
      <3>1. \A x \in Servers : server[p][x].at = "unborn" /\ backlog[p][x] = <<>>
        BY DEF Init
      <3>2. open[p] = {} /\ enabled[p] = commanded[p] /\ ~server_started[p]
        BY DEF Init
      <3> QED
        BY <3>1, <3>2 DEF Link, Down
    <2> QED
      BY <2>1, <2>2
  <1>2. /\ TypeOK /\ ForkInv /\ (\A p \in Procs : Link(p)) /\ [Next]_vars
        => (ForkInv /\ \A p \in Procs : Link(p))'
    BY TypeParts, ForkNext, LinkNext
  <1> QED
    BY <1>1, <1>2, TypeCorrect, PTL DEF Spec

\* A process that has started its server, and does not exit, can be reached at
\* its own path and is served by one thread.
THEOREM CanBeReached == Spec => []Reachable
  <1>1. (\A p \in Procs : Link(p)) => Reachable
    BY DEF Link, Up, Reachable
  <1> QED
    BY <1>1, LinkInvariant, PTL

\* When all commands have been carried out, the tracing of each process is as
\* its last command said.
THEOREM LastCommandObeyed == Spec => []LastCommandWins
  <1>1. (\A p \in Procs : Link(p)) => LastCommandWins
    BY DEF Link, Up, Down, Latest, LastCommandWins
  <1> QED
    BY <1>1, LinkInvariant, PTL

=============================================================================
