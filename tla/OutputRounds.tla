---------------------------- MODULE OutputRounds ----------------------------
(***************************************************************************)
(* How the patches of the API server (vllm_trace/trace_patch.py) charge    *)
(* the time its tasks wait for the event loop to requests.                 *)
(*                                                                         *)
(* The engine sends batches of outputs.  The socket task receives them and *)
(* queues them for the output handler, which hands each batch on slice by  *)
(* slice, letting other tasks run in between, to the collector of each     *)
(* request, from which the request's generate() takes it.  A wait of the   *)
(* two output tasks is kept in pending_sched_events until it is known      *)
(* which requests it delayed.                                              *)
(*                                                                         *)
(* There is one thread: running is the task that has it, and an action is  *)
(* what that task does up to a point where it may suspend.  Times are not  *)
(* modelled.  A wait is known by the outputs it delayed, those that were   *)
(* there for the task when the wait began; the code never sees these.      *)
(***************************************************************************)
EXTENDS Naturals, Sequences, FiniteSets, Functions

CONSTANTS
  Requests,     \* the requests being generated
  Batches,      \* what a batch may hold: sequences of requests
  Chunk,        \* VLLM_V1_OUTPUT_PROC_CHUNK_SIZE
  MaxFrames,    \* bound on the messages of the engine
  MaxSwitches,  \* bound on the switches of tracing
  None

ASSUME ConstantsAssumption ==
  /\ Chunk \in Nat \ {0}
  /\ MaxFrames \in Nat /\ MaxSwitches \in Nat
  /\ Requests \cap {"socket", "handler"} = {}
  /\ None \notin Requests \cup {"socket", "handler"}
  /\ \A b \in Batches : b \in Seq(Requests) /\ IsInjective(b)

VARIABLES
  enabled,        \* is tracing on?
  switches,       \* how often it was switched
  sent,           \* how many messages the engine has sent
  socket,         \* messages in the output socket
  outputs_queue,  \* batches the socket task has queued for the handler
  ready,          \* the callbacks the event loop will run, in order
  running,        \* the task that has the thread
  pc,             \* where each task is suspended or runs
  slices,         \* the handler's output_slices, those that are left
  pending,        \* pending_sched_events of the two output tasks
  round,          \* the handler's round: its suffix sets and the next slice
  collector,      \* of each request: the frames put and not taken, and
                  \* _de_latency_ready_since_ns
  reports         \* what the last step sent

loop == <<ready, running, pc>>
tracing == <<enabled, switches>>
vars == <<enabled, switches, sent, socket, outputs_queue, ready, running, pc,
          slices, pending, round, collector, reports>>

OutputTasks == {"socket", "handler"}
Tasks == OutputTasks \cup Requests
Frames == 1 .. MaxFrames

\* An output is a request's part of a message.
Output == Frames \X Requests
Outs(frame, batch) == {frame} \X Range(batch)
Reqs(outputs) == {o[2] : o \in outputs}

Message == [frame : Frames, kind : {"utility", "stats", "none"}, batch : Batches]

-----------------------------------------------------------------------------
(* The event loop. *)

\* call_soon by a task or a callback, wrapped if tracing is on: the callback
\* resumes task t and delays the given outputs until then.
Scheduled(t, outputs) == [task |-> t, tracked |-> enabled, delayed |-> outputs]

\* What the handler has before it: the slices left of its round, the queue.
AtHandler ==
  UNION {Outs(s.frame, s.batch) : s \in Range(slices) \cup Range(outputs_queue)}

\* The first callback runs: wrapped_callback keeps the wait of an output task.
\* (The waits of other tasks are reported at once, as they are.)
RunNext ==
  /\ running = None /\ ready # <<>>
  /\ running' = Head(ready).task
  /\ ready' = Tail(ready)
  /\ pending' = [t \in OutputTasks |->
                   IF t = running' /\ Head(ready).tracked
                   THEN Append(pending[t], Head(ready).delayed) ELSE pending[t]]
  /\ reports' = {}
  /\ UNCHANGED <<tracing, sent, socket, outputs_queue, pc, slices, round, collector>>

\* The waits of task t, all charged to the same requests of a frame.  No
\* request, or tracing off by now: they are gone without a report.
Flush(t, frame, charged) ==
  /\ pending' = [pending EXCEPT ![t] = <<>>]
  /\ reports' = IF charged = {} \/ ~enabled THEN {}
                ELSE {[task |-> t, frame |-> frame, delayed |-> w, charged |-> charged] :
                        w \in Range(pending[t])}

-----------------------------------------------------------------------------
(* The output socket. *)

\* External: the engine sends a message, and zmq wakes a task that waits.
Engine(message) ==
  /\ sent < MaxFrames
  /\ sent' = sent + 1 /\ message.frame = sent'
  /\ message.batch # <<>> => message.kind = "none"
  /\ socket' = Append(socket, message)
  /\ IF pc["socket"] = "waits"
     THEN /\ pc' = [pc EXCEPT !["socket"] = "recv"]
          /\ ready' = Append(ready, Scheduled("socket", Outs(sent', message.batch)))
     ELSE UNCHANGED <<pc, ready>>
  /\ reports' = {}
  /\ UNCHANGED <<tracing, outputs_queue, running, slices, pending, round, collector>>

\* No message: the socket task waits for one.
SocketWaits ==
  /\ running = "socket" /\ socket = <<>>
  /\ running' = None /\ pc' = [pc EXCEPT !["socket"] = "waits"]
  /\ reports' = {}
  /\ UNCHANGED <<tracing, sent, socket, outputs_queue, ready, slices, pending, round, collector>>

\* Mutant: the handler is woken whatever it does.
Put_wakes(message) ==
  /\ outputs_queue' = Append(outputs_queue, [frame |-> message.frame, batch |-> message.batch])
  /\ UNCHANGED pc
  /\ ready' = Append(ready, Scheduled("handler", Outs(message.frame, message.batch)))

\* outputs_queue.put_nowait, which wakes the handler if it waits for a batch.
Put(message) ==
  /\ outputs_queue' = Append(outputs_queue, [frame |-> message.frame, batch |-> message.batch])
  /\ IF pc["handler"] = "waits"
     THEN /\ pc' = [pc EXCEPT !["handler"] = "get"]
          /\ ready' = Append(ready, Scheduled("handler", Outs(message.frame, message.batch)))
     ELSE UNCHANGED <<pc, ready>>

process_outputs_socket ==
  LET message == Head(socket) IN
  /\ running = "socket" /\ socket # <<>>
  /\ socket' = Tail(socket)
  /\ IF message.kind = "utility"
     THEN reports' = {} /\ UNCHANGED pending
     ELSE Flush("socket", message.frame, Range(message.batch))
  /\ IF message.batch # <<>> \/ message.kind = "stats"
     THEN Put(message) ELSE UNCHANGED <<outputs_queue, pc, ready>>
  /\ UNCHANGED <<tracing, sent, running, slices, round, collector>>

-----------------------------------------------------------------------------
(* The output handler. *)

\* The slices of a batch, each of at most Chunk outputs; an empty one has one.
chunk_output_handler_slices(batch) ==
  IF Len(batch) <= Chunk THEN <<batch>>
  ELSE [i \in 1 .. (Len(batch) + Chunk - 1) \div Chunk |->
          SubSeq(batch, (i - 1) * Chunk + 1, IF i * Chunk < Len(batch) THEN i * Chunk ELSE Len(batch))]

\* Mutant: every slice is given the requests of the whole round.
build_output_handler_suffix_req_ids_whole(parts) ==
  [i \in DOMAIN parts |-> UNION {Range(parts[j]) : j \in DOMAIN parts}]

\* Of each slice: the requests in it and in the slices after it.
build_output_handler_suffix_req_ids(parts) ==
  [i \in DOMAIN parts |-> UNION {Range(parts[j]) : j \in i .. Len(parts)}]

NoRound == [suffix |-> <<>>, next |-> 1]

HandlerWaits ==
  /\ running = "handler" /\ pc["handler"] = "get" /\ outputs_queue = <<>>
  /\ running' = None /\ pc' = [pc EXCEPT !["handler"] = "waits"]
  /\ reports' = {}
  /\ UNCHANGED <<tracing, sent, socket, outputs_queue, ready, slices, pending, round, collector>>

\* A batch is taken and cut, and its suffix sets are noted.
set_output_handler_round_slices ==
  /\ running = "handler" /\ pc["handler"] = "get" /\ outputs_queue # <<>>
  /\ outputs_queue' = Tail(outputs_queue)
  /\ LET parts == chunk_output_handler_slices(Head(outputs_queue).batch)
     IN  /\ slices' = [i \in DOMAIN parts |->
                         [frame |-> Head(outputs_queue).frame, batch |-> parts[i]]]
         /\ round' = [suffix |-> build_output_handler_suffix_req_ids(parts), next |-> 1]
  /\ pc' = [pc EXCEPT !["handler"] = "slice"]
  /\ reports' = {}
  /\ UNCHANGED <<tracing, sent, socket, ready, running, pending, collector>>

\* Mutant: the index is advanced before it is used.
SchedReqIds_late == IF round.next < Len(round.suffix) THEN round.suffix[round.next + 1] ELSE {}

\* The requests the waits before this slice are charged to.
SchedReqIds == round.suffix[round.next]

\* Mutant: the time is that of the last output.
queue_put_latest(batch, frame) ==
  [r \in Requests |-> IF r \notin Range(batch) THEN collector[r]
     ELSE [frames |-> collector[r].frames \cup {frame}, since |-> frame]]

\* RequestOutputCollector.put for every output of a slice: what was not taken
\* is merged with it, and keeps the time at which the first became ready.
queue_put(batch, frame) ==
  [r \in Requests |-> IF r \notin Range(batch) THEN collector[r]
     ELSE [frames |-> collector[r].frames \cup {frame},
           since  |-> IF collector[r].frames = {} THEN frame ELSE collector[r].since]]

\* The requests of a slice that wait in q.get(), in its order.
Waiting(batch) ==
  LET first[n \in 0 .. Len(batch)] ==
        IF n = 0 THEN <<>>
        ELSE IF pc[batch[n]] = "queue" THEN Append(first[n - 1], batch[n]) ELSE first[n - 1]
  IN  first[Len(batch)]

\* One slice is charged, and handed to the collectors, which wakes requests
\* that wait; sleep(0) lets other tasks run unless it was the last slice.
process_outputs ==
  LET slice == Head(slices)
      woken == Waiting(slice.batch)
  IN
  /\ running = "handler" /\ pc["handler"] = "slice"
  /\ Flush("handler", slice.frame, SchedReqIds)
  /\ round' = [suffix |-> round.suffix, next |-> round.next + 1]
  /\ collector' = queue_put(slice.batch, slice.frame)
  /\ slices' = Tail(slices)
  /\ pc' = [t \in Tasks |-> IF t = "handler" THEN "abort"
                            ELSE IF t \in Range(woken) THEN "runs" ELSE pc[t]]
  /\ UNCHANGED <<tracing, sent, socket, outputs_queue>>
  /\ LET wakeups == [i \in DOMAIN woken |-> Scheduled(woken[i], {})]
     IN  IF Len(slices) = 1
         THEN ready' = ready \o wakeups /\ UNCHANGED running
         ELSE ready' = Append(ready \o wakeups, Scheduled("handler", AtHandler')) /\ running' = None

\* abort_requests_async has no request to abort, or its message is sent: on
\* to the next slice, or to the next round.
HandlerGoesOn ==
  /\ running = "handler" /\ pc["handler"] \in {"abort", "sent"}
  /\ IF slices # <<>>
     THEN pc' = [pc EXCEPT !["handler"] = "slice"] /\ UNCHANGED round
     ELSE pc' = [pc EXCEPT !["handler"] = "get"] /\ round' = NoRound
  /\ reports' = {}
  /\ UNCHANGED <<tracing, sent, socket, outputs_queue, ready, running, slices, pending, collector>>

\* The message is not sent yet: the handler waits until it is.
abort_requests_async ==
  /\ running = "handler" /\ pc["handler"] = "abort"
  /\ pc' = [pc EXCEPT !["handler"] = "sending"] /\ running' = None
  /\ reports' = {}
  /\ UNCHANGED <<tracing, sent, socket, outputs_queue, ready, slices, pending, round, collector>>

AbortSent ==
  /\ pc["handler"] = "sending"
  /\ pc' = [pc EXCEPT !["handler"] = "sent"]
  /\ ready' = Append(ready, Scheduled("handler", AtHandler))
  /\ reports' = {}
  /\ UNCHANGED <<tracing, sent, socket, outputs_queue, running, slices, pending, round, collector>>

-----------------------------------------------------------------------------
(* The requests, and the switch of tracing. *)

\* generate() takes what is there and reports since when it was; its caller
\* may suspend it.  With nothing there it waits in q.get().
generate(r) ==
  /\ running = r
  /\ collector' = [collector EXCEPT ![r] = [frames |-> {}, since |-> None]]
  /\ \E at \in IF collector[r].frames = {} THEN {"queue"} ELSE {"queue", "yield"} :
       pc' = [pc EXCEPT ![r] = at]
  /\ running' = None
  /\ reports' = {}
  /\ UNCHANGED <<tracing, sent, socket, outputs_queue, ready, slices, pending, round>>

\* External: the caller has sent the output to the client.
CallerReturns(r) ==
  /\ pc[r] = "yield"
  /\ pc' = [pc EXCEPT ![r] = "runs"]
  /\ ready' = Append(ready, Scheduled(r, {}))
  /\ reports' = {}
  /\ UNCHANGED <<tracing, sent, socket, outputs_queue, running, slices, pending, round, collector>>

set_enabled ==
  /\ switches < MaxSwitches
  /\ enabled' = ~enabled /\ switches' = switches + 1
  /\ reports' = {}
  /\ UNCHANGED <<sent, socket, outputs_queue, loop, slices, pending, round, collector>>

-----------------------------------------------------------------------------
Init ==
  /\ enabled \in BOOLEAN /\ switches = 0
  /\ sent = 0 /\ socket = <<>> /\ outputs_queue = <<>>
  /\ ready = <<>> /\ running = None
  /\ pc = [t \in Tasks |-> IF t \in OutputTasks THEN "waits" ELSE "queue"]
  /\ slices = <<>> /\ round = NoRound
  /\ pending = [t \in OutputTasks |-> <<>>]
  /\ collector = [r \in Requests |-> [frames |-> {}, since |-> None]]
  /\ reports = {}

Next ==
  \/ RunNext \/ set_enabled
  \/ \E message \in Message : Engine(message)
  \/ SocketWaits \/ process_outputs_socket
  \/ HandlerWaits \/ set_output_handler_round_slices \/ process_outputs
  \/ HandlerGoesOn \/ abort_requests_async \/ AbortSent
  \/ \E r \in Requests : generate(r) \/ CallerReturns(r)

Spec == Init /\ [][Next]_vars

-----------------------------------------------------------------------------
(* Properties *)

\* Every variable has its type, a task is in the loop's queue at most once and
\* never while it runs, and a task is suspended only where something wakes it.
TypeOK ==
  /\ enabled \in BOOLEAN /\ switches \in 0 .. MaxSwitches /\ sent \in 0 .. MaxFrames
  /\ socket \in Seq(Message)
  /\ Range(outputs_queue) \cup Range(slices) \subseteq [frame : Frames, batch : Seq(Requests)]
  /\ ready \in Seq([task : Tasks, tracked : BOOLEAN, delayed : SUBSET Output])
  /\ running \in Tasks \cup {None}
  /\ \A t \in Tasks :
       Cardinality({i \in DOMAIN ready : ready[i].task = t}) + (IF running = t THEN 1 ELSE 0)
         = IF pc[t] \in {"waits", "queue", "yield", "sending"} THEN 0 ELSE 1
  /\ pending \in [OutputTasks -> Seq(SUBSET Output)]
  /\ round.suffix \in Seq(SUBSET Requests) /\ round.next \in Nat
  /\ collector \in [Requests -> [frames : SUBSET Frames, since : Frames \cup {None}]]

\* A wait that held up outputs of the round it is reported with is charged to
\* exactly the requests of these: to none that had been handed on before it,
\* and to all that still had to wait.  (A wait that held up nothing, after the
\* last slice or for a message without outputs, is charged to the next round.)
ChargesAreTrue ==
  \A report \in reports :
    report.delayed # {} =>
      report.charged = Reqs({o \in report.delayed : o[1] = report.frame})

\* As long as tracing is on, a wait of an output task is only forgotten when it
\* is reported, or when the message at hand held no output: then it delayed
\* none of it.
WaitsAreReported ==
  [][enabled =>
       \A t \in OutputTasks : \A w \in Range(pending[t]) :
         \/ w \in Range(pending'[t])
         \/ \E report \in reports' : report.task = t /\ report.delayed = w
         \/ t = "socket" /\ Head(socket).batch = <<>>
         \/ t = "handler" /\ Head(slices).batch = <<>>]_vars

\* The time from which generate() counts an output as ready is that of the
\* first one it has not taken, however many were merged with it since.
QueueWaitsAreTrue ==
  \A r \in Requests :
    LET c == collector[r] IN
    IF c.frames = {} THEN c.since = None
    ELSE c.since \in c.frames /\ \A frame \in c.frames : c.since <= frame

=============================================================================
