---------------------------- MODULE DispatchTrace ----------------------------
(***************************************************************************)
(* From the steps of vLLM's engine core to the times in the trace: the     *)
(* events vllm_trace/sitecustomize.py sends when a request is queued, when *)
(* a batch is handed to the workers and when its results are back, and     *)
(* what perfetto/log_to_trace.py makes of the events that arrive.          *)
(*                                                                         *)
(* Several batches may be under way (pipeline parallelism), also with the  *)
(* same request in them (chunks of one prompt); their results come back in *)
(* order.  The engine is external.  An event is lost when the queue of its *)
(* sender is full or tracing is off; those that arrive keep their order,   *)
(* so the sorting of the log by time changes nothing here.                 *)
(***************************************************************************)
EXTENDS Naturals, Sequences, FiniteSets, SequencesExt

CONSTANTS
  Requests,
  Depth,     \* batches under way at a time
  MaxSteps,  \* bound on the steps of the engine
  MaxLost,   \* bound on the events lost
  None

ASSUME ConstantsAssumption ==
  /\ {Depth, MaxSteps, MaxLost} \subseteq Nat
  /\ None \notin 0 .. MaxSteps

VARIABLES
  clock,      \* the time, which passes with every step of the engine
  enqueued,   \* when each request was queued
  computed,   \* tokens of each request scheduled so far, in chunks
  under_way,  \* the batches whose results are not back
  done,       \* the dispatches that are over, with their times
  log,        \* the events that arrived
  lost,       \* those that did not
  preempted   \* requests that were preempted, and compute their tokens again

vars == <<clock, enqueued, computed, under_way, done, log, lost, preempted>>

Times == 0 .. MaxSteps

-----------------------------------------------------------------------------
(* The engine and its hooks. *)

\* TraceSender.emit
Emit(event) ==
  \/ log' = Append(log, event) /\ UNCHANGED lost
  \/ Cardinality(lost) < MaxLost /\ lost' = lost \cup {event} /\ UNCHANGED log

\* _make_dispatch_key: a hash of which requests the batch holds and of how far
\* each of them is.
make_dispatch_key(reqs) == [r \in reqs |-> computed[r]]

Tick == clock < MaxSteps /\ clock' = clock + 1

\* Scheduler.add_request
add_request(r) ==
  /\ Tick
  /\ enqueued[r] = None
  /\ enqueued' = [enqueued EXCEPT ![r] = clock]
  /\ Emit([type |-> "req_enqueue_scheduler", ts |-> clock, reqs |-> {r}, key |-> None])
  /\ UNCHANGED <<computed, under_way, done, preempted>>

\* Executor.execute_model: the scheduler has formed a batch.
execute_model(reqs) ==
  /\ Tick
  /\ Len(under_way) < Depth
  /\ \A r \in reqs : enqueued[r] # None
  /\ Emit([type |-> "req_scheduler_out_rpc", ts |-> clock, reqs |-> reqs,
           key |-> make_dispatch_key(reqs)])
  /\ under_way' = Append(under_way, [reqs |-> reqs, start |-> clock, key |-> make_dispatch_key(reqs)])
  /\ computed' = [r \in Requests |-> IF r \in reqs THEN computed[r] + 1 ELSE computed[r]]
  /\ UNCHANGED <<enqueued, done, preempted>>

\* Scheduler.update_from_output: the results of the oldest batch.
update_from_output ==
  LET batch == Head(under_way) IN
  /\ Tick
  /\ under_way # <<>>
  /\ Emit([type |-> "req_step_ready", ts |-> clock, reqs |-> batch.reqs, key |-> batch.key])
  /\ under_way' = Tail(under_way)
  /\ done' = done \cup {[reqs |-> batch.reqs, start |-> batch.start, end |-> clock]}
  /\ UNCHANGED <<enqueued, computed, preempted>>

\* External: the scheduler takes a request's blocks away; it starts over.
Preempt(r) ==
  /\ computed[r] > 0
  /\ computed' = [computed EXCEPT ![r] = 0]
  /\ preempted' = preempted \cup {r}
  /\ UNCHANGED <<clock, enqueued, under_way, done, log, lost>>

-----------------------------------------------------------------------------
(* What log_to_trace makes of the log, for one request. *)

Enqueue(r) == {e \in Range(log) : e.type = "req_enqueue_scheduler" /\ r \in e.reqs}

\* Mutant: the oldest start is taken, whatever its key.
pop_dispatch_start_for_ready_oldest(starts, key) == 1

\* Which start a ready event ends: the first with its key, or else the oldest.
pop_dispatch_start_for_ready(starts, key) ==
  LET same == {i \in DOMAIN starts : starts[i].key = key}
  IN  IF same # {} THEN Min(same) ELSE 1

\* The starts still open and the dispatches found, after one more event.
Pair(found, event) ==
  CASE event.type = "req_scheduler_out_rpc" ->
         [starts     |-> Append(found.starts, [start |-> event.ts, key |-> event.key]),
          dispatches |-> found.dispatches]
    [] event.type = "req_step_ready" /\ found.starts # <<>> ->
         LET i == pop_dispatch_start_for_ready(found.starts, event.key)
         IN  [starts     |-> RemoveAt(found.starts, i),
              dispatches |-> found.dispatches
                               \cup {[start |-> found.starts[i].start, end |-> event.ts]}]
    [] OTHER -> found

\* After all events that name the request, in their order.
Paired(events, r) ==
  LET after[n \in 0 .. Len(events)] ==
        IF n = 0 THEN [starts |-> <<>>, dispatches |-> {}]
        ELSE IF r \in events[n].reqs THEN Pair(after[n - 1], events[n]) ELSE after[n - 1]
  IN  after[Len(events)]

req_dispatch_intervals(r) == Paired(log, r).dispatches

\* Mutant: the wait until the first dispatch is forgotten.
EnqueueWait_none(r, dispatches) == {}

\* The wait from the queueing of a request to its first dispatch.
EnqueueWait(r, dispatches) ==
  {[start |-> e.ts, end |-> d.start] :
     e \in Enqueue(r), d \in {x \in dispatches : \A y \in dispatches : x.start <= y.start}}

\* Mutant: also between dispatches that do not follow one another.
StepWaits_anypair(dispatches) ==
  {[start |-> d[1].end, end |-> d[2].start] :
     d \in {p \in dispatches \X dispatches : p[1].end < p[2].start}}

\* The waits between one dispatch and the next one in order of their starts.
StepWaits(dispatches) ==
  {[start |-> d[1].end, end |-> d[2].start] :
     d \in {p \in dispatches \X dispatches :
              /\ p[1].start < p[2].start /\ p[1].end < p[2].start
              /\ ~\E x \in dispatches : p[1].start < x.start /\ x.start < p[2].start}}

queue_intervals(r) ==
  LET dispatches == req_dispatch_intervals(r)
  IN  EnqueueWait(r, dispatches) \cup StepWaits(dispatches)

-----------------------------------------------------------------------------
Init ==
  /\ clock = 0
  /\ enqueued = [r \in Requests |-> None]
  /\ computed = [r \in Requests |-> 0]
  /\ under_way = <<>> /\ done = {} /\ log = <<>> /\ lost = {} /\ preempted = {}

Next ==
  \/ \E r \in Requests : add_request(r) \/ Preempt(r)
  \/ \E reqs \in SUBSET Requests \ {{}} : execute_model(reqs)
  \/ update_from_output

Spec == Init /\ [][Next]_vars

-----------------------------------------------------------------------------
(* Properties.  x stands for the time from x to x + 1. *)

During(x, interval) == interval.start <= x /\ x < interval.end

\* The dispatches of r that are over, as they were.
Truly(r) == {[start |-> d.start, end |-> d.end] : d \in {x \in done : r \in x.reqs}}

LostOf(r, type) == {e \in lost : r \in e.reqs /\ e.type = type}

\* If every event of a request arrives, the trace shows its dispatches, and as
\* its waiting time all the time between its queueing and the last of these in
\* which it was in no batch, though batches overlap and a request is preempted.
TraceIsExact ==
  \A r \in Requests : {e \in lost : r \in e.reqs} = {} =>
    /\ req_dispatch_intervals(r) = Truly(r)
    /\ Truly(r) # {} =>
         \A x \in Times :
           (\E w \in queue_intervals(r) : During(x, w)) <=>
             /\ enqueued[r] <= x
             /\ \A d \in Truly(r) : ~During(x, d)
             /\ \E d \in Truly(r) : x < d.start

\* Whatever ready events are lost, no dispatch of the trace joins the start of
\* one batch with the end of another, unless the request was preempted (two of
\* its batches may then have one key) or a start was lost as well.
DispatchesAreTrue ==
  \A r \in Requests \ preempted :
    LostOf(r, "req_scheduler_out_rpc") = {} => req_dispatch_intervals(r) \subseteq Truly(r)

\* "Keeps queue slices in the gaps between dispatch slices": no wait overlaps a
\* dispatch of the trace.
WaitsBetweenDispatches ==
  \A r \in Requests \ preempted :
    LostOf(r, "req_scheduler_out_rpc") = {} =>
      \A w \in queue_intervals(r), d \in req_dispatch_intervals(r) :
        d.end <= w.start \/ w.end <= d.start

=============================================================================
