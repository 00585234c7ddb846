---------------------------- MODULE CuptiControl ----------------------------
(***************************************************************************)
(* libtracer.so (src/FINAL/tracer.cu) in a traced process: how it switches *)
(* CUPTI on and off while the threads of the program call the CUDA API.    *)
(*                                                                         *)
(* The constructor, the control thread and the destructor switch under     *)
(* g_cupti_state_mutex, one CUPTI call after another; the callbacks of the *)
(* program's threads take no part in that lock.  An API call is named by   *)
(* its correlation id.                                                     *)
(*                                                                         *)
(* CUPTI is external: one subscriber, callbacks while a domain is enabled, *)
(* a record of an API call while an activity kind is, buffers handed back  *)
(* when full, by a thread of its own, or flushed, by the thread that asks. *)
(* So are the clients of the control socket.  GPU records are left out;    *)
(* sends that block are in Lifecycle.                                      *)
(***************************************************************************)
EXTENDS Naturals, FiniteSets

CONSTANTS
  Threads,       \* threads of the program
  Holder,        \* the thread that holds g_cupti_state_mutex
  Worker,        \* CUPTI's own thread
  MaxCalls,      \* bound on the API calls
  MaxCommands,   \* bound on the clients of the control socket
  StartEnabled,  \* TRACER_CUPTI_START_ENABLED
  Fails          \* may calls of CUPTI fail?

ASSUME ConstantsAssumption ==
  /\ IsFiniteSet(Threads)
  /\ Holder \notin Threads /\ Worker \notin Threads /\ Holder # Worker
  /\ MaxCalls \in Nat /\ MaxCommands \in Nat
  /\ StartEnabled \in BOOLEAN /\ Fails \in BOOLEAN

VARIABLES
  life,               \* of the library in the process
  server,             \* what the control thread does
  commands,           \* clients it has accepted
  pc,                 \* the next step of the holder of g_cupti_state_mutex
  ok,                 \* its variable ok
  g_cupti_enabled,
  g_cupti_generation,
  g_subscriber,       \* is it not NULL?
  g_activity_callbacks_registered,
  g_corr_to_ostid_map,\* the calls whose thread is remembered
  subscribed,         \* CUPTI has a subscriber
  domains,            \* it calls the subscriber back
  activities,         \* it records API calls
  buffered,           \* records not yet handed back
  completing,         \* records each thread has been handed and has not yet sent
  admitted,           \* threads that saw tracing enabled when they were handed them
  failed,             \* has a CUPTI call failed?
  calls,              \* API calls so far
  thread,             \* what each thread is doing
  sent,               \* records sent to the collector with the thread of the call
  \* Observed, and used by no action:
  excused,            \* records whose send has failed, and those in the hands of other
                      \* threads when the holder cleared the map
  due                 \* calls made from beginning to end in one period of tracing,
                      \* which lasts until the activities are disabled

library == <<life, server, commands, g_activity_callbacks_registered>>
switch == <<life, server, commands, pc, ok, g_cupti_enabled, g_cupti_generation, g_subscriber,
            g_activity_callbacks_registered>>
cupti  == <<subscribed, domains, activities, failed>>
records == <<buffered, completing, admitted, sent, excused>>
program == <<calls, thread, due>>
vars == <<life, server, commands, pc, ok, g_cupti_enabled, g_cupti_generation, g_subscriber,
          g_activity_callbacks_registered, g_corr_to_ostid_map, subscribed, domains, activities,
          failed, buffered, completing, admitted, sent, excused, calls, thread, due>>

Call == 1 .. MaxCalls

\* Who may be handed buffers.
Completers == Threads \cup {Holder, Worker}

Enabling  == {"subscribe", "domains_on", "activities_on", "finish_enable"}
Disabling == {"flush", "activities_off", "final_flush", "unsubscribe", "clear", "finish_disable"}

\* at: outside the API, in the enter callback after it saw tracing enabled, in
\* the API.  generation: of the tracing it saw, 0 if it saw none.
ThreadState == [at : {"out", "callback", "in"}, call : 0 .. MaxCalls, generation : Nat]

\* The states of the control thread, of CUPTI and of the records are as declared;
\* every record kept, buffered or sent is of a call within the bounds.
TypeOK ==
  /\ life \in {"loading", "running", "joining", "destroying", "unloaded"}
  /\ server \in {"poll", "recv", "command", "answer", "stopped"}
  /\ commands \in 0 .. MaxCommands
  /\ pc \in {"idle"} \cup Enabling \cup Disabling
  /\ ok \in BOOLEAN
  /\ g_cupti_enabled \in BOOLEAN
  /\ g_cupti_generation \in Nat
  /\ g_subscriber \in BOOLEAN
  /\ g_activity_callbacks_registered \in BOOLEAN
  /\ g_corr_to_ostid_map \in SUBSET Call
  /\ subscribed \in BOOLEAN /\ domains \in BOOLEAN /\ activities \in BOOLEAN
  /\ failed \in BOOLEAN
  /\ calls \in 0 .. MaxCalls
  /\ thread \in [Threads -> ThreadState]
  /\ buffered \in SUBSET Call
  /\ completing \in [Completers -> SUBSET Call]
  /\ admitted \in SUBSET Completers
  /\ sent \in SUBSET Call /\ excused \in SUBSET Call
  /\ due \in SUBSET Call

-----------------------------------------------------------------------------
(* CUPTI. *)

\* A call succeeds with the given effect, or fails without it.
Cupti(effect, none) ==
  \/ effect /\ UNCHANGED failed
  \/ Fails /\ none /\ failed' = TRUE

\* The lock is free.
Free == pc = "idle" /\ completing[Holder] = {}

\* Thread f is handed every buffer there is.
Hand(f) ==
  /\ buffered' = {}
  /\ completing' = [completing EXCEPT ![f] = buffered]
  /\ UNCHANGED <<admitted, sent, excused>>

\* cuptiActivityFlushAll, called by thread f.
cuptiActivityFlushAll(f) == Cupti(Hand(f), UNCHANGED records)

\* CUPTI hands a full buffer back.
BufferFull ==
  /\ life # "unloaded"
  /\ buffered # {} /\ completing[Worker] = {}
  /\ Hand(Worker)
  /\ UNCHANGED <<switch, g_corr_to_ostid_map, cupti, program>>

\* bufferCompleted looks once whether tracing is on, and drops the buffer if not.
bufferCompleted(f) ==
  /\ life # "unloaded"
  /\ completing[f] # {} /\ f \notin admitted
  /\ IF g_cupti_enabled
     THEN admitted' = admitted \cup {f} /\ UNCHANGED completing
     ELSE completing' = [completing EXCEPT ![f] = {}] /\ UNCHANGED admitted
  /\ UNCHANGED <<switch, g_corr_to_ostid_map, cupti, program, buffered, sent, excused>>

\* It looks up the thread of one record after another and sends it, with thread 0
\* if it is not remembered.  The send may fail, and without a socket none is made.
send_record_payload(f, call) ==
  /\ life # "unloaded"
  /\ f \in admitted /\ call \in completing[f]
  /\ completing' = [completing EXCEPT ![f] = @ \ {call}]
  /\ admitted' = IF completing[f] = {call} THEN admitted \ {f} ELSE admitted
  /\ \/ /\ sent' = IF call \in g_corr_to_ostid_map THEN sent \cup {call} ELSE sent
        /\ UNCHANGED excused
     \/ excused' = excused \cup {call} /\ UNCHANGED sent
  /\ UNCHANGED <<switch, g_corr_to_ostid_map, cupti, program, buffered>>

CompleteBuffer(f) == bufferCompleted(f) \/ \E call \in Call : send_record_payload(f, call)

-----------------------------------------------------------------------------
(* cupti_enable_locked *)

\* The buffer callbacks are registered the first time.
register_activity_callbacks_locked ==
  IF g_activity_callbacks_registered
  THEN pc' = "subscribe" /\ UNCHANGED <<g_activity_callbacks_registered, failed>>
  ELSE Cupti(g_activity_callbacks_registered' = TRUE /\ pc' = "subscribe",
             pc' = "idle" /\ UNCHANGED g_activity_callbacks_registered)

cupti_enable_locked ==
  /\ Free
  /\ ok' = TRUE
  /\ IF g_cupti_enabled
     THEN UNCHANGED <<pc, g_activity_callbacks_registered, failed>>
     ELSE register_activity_callbacks_locked
  /\ UNCHANGED <<g_cupti_enabled, g_cupti_generation, g_subscriber, g_corr_to_ostid_map,
                 subscribed, domains, activities, records, program>>

\* CUPTI has room for one subscriber.
cuptiSubscribe ==
  /\ pc = "subscribe"
  /\ IF g_subscriber
     THEN pc' = "domains_on" /\ UNCHANGED <<g_subscriber, subscribed, failed>>
     ELSE Cupti(/\ ~subscribed
                /\ subscribed' = TRUE /\ g_subscriber' = TRUE /\ pc' = "domains_on",
                pc' = "idle" /\ UNCHANGED <<g_subscriber, subscribed>>)
  /\ UNCHANGED <<library, ok, g_cupti_enabled, g_cupti_generation,
                 g_corr_to_ostid_map, domains, activities, records, program>>

EnableDomains ==
  /\ pc = "domains_on"
  /\ pc' = "activities_on"
  /\ Cupti(domains' = TRUE /\ UNCHANGED ok, ok' = FALSE /\ UNCHANGED domains)
  /\ UNCHANGED <<library, g_cupti_enabled, g_cupti_generation, g_subscriber,
                 g_corr_to_ostid_map, subscribed, activities, records, program>>

EnableActivities ==
  /\ pc = "activities_on"
  /\ pc' = "finish_enable"
  /\ Cupti(activities' = TRUE /\ UNCHANGED ok, ok' = FALSE /\ UNCHANGED activities)
  /\ UNCHANGED <<library, g_cupti_enabled, g_cupti_generation, g_subscriber,
                 g_corr_to_ostid_map, subscribed, domains, records, program>>

\* Mutant: an error does not roll the switch back.
FinishEnable_norollback ==
  /\ pc = "finish_enable"
  /\ g_cupti_generation' = g_cupti_generation + 1
  /\ g_cupti_enabled' = TRUE
  /\ pc' = "idle"
  /\ UNCHANGED <<library, ok, g_subscriber, g_corr_to_ostid_map, cupti, records, program>>

\* After an error what was enabled is disabled again.
FinishEnable ==
  /\ pc = "finish_enable"
  /\ IF ok
     THEN /\ g_cupti_generation' = g_cupti_generation + 1
          /\ g_cupti_enabled' = TRUE
          /\ pc' = "idle"
     ELSE pc' = "flush" /\ UNCHANGED <<g_cupti_enabled, g_cupti_generation>>
  /\ UNCHANGED <<library, ok, g_subscriber, g_corr_to_ostid_map, cupti, records, program>>

-----------------------------------------------------------------------------
(* cupti_disable_locked *)

cupti_disable_locked ==
  /\ Free
  /\ pc' = IF g_cupti_enabled \/ g_subscriber THEN "flush" ELSE "idle"
  /\ UNCHANGED <<g_activity_callbacks_registered, ok, g_cupti_enabled, g_cupti_generation,
                 g_subscriber, g_corr_to_ostid_map, cupti, records, program>>

\* cupti_flush_locked, before and after the activities are disabled; the flush
\* returns when the buffers it was handed are completed.
cupti_flush_locked ==
  /\ \/ pc = "flush" /\ pc' = "activities_off"
     \/ pc = "final_flush" /\ pc' = "unsubscribe"
  /\ cuptiActivityFlushAll(Holder)
  /\ UNCHANGED <<library, ok, g_cupti_enabled, g_cupti_generation, g_subscriber,
                 g_corr_to_ostid_map, subscribed, domains, activities, program>>

\* Mutant: tracing is declared off as soon as nothing is recorded any more.
DisableActivities_eager ==
  /\ pc = "activities_off" /\ completing[Holder] = {}
  /\ pc' = "final_flush"
  /\ g_cupti_enabled' = FALSE
  /\ Cupti(activities' = FALSE, UNCHANGED activities)
  /\ UNCHANGED <<library, ok, g_cupti_generation, g_subscriber,
                 g_corr_to_ostid_map, subscribed, domains, records, program>>

DisableActivities ==
  /\ pc = "activities_off" /\ completing[Holder] = {}
  /\ pc' = "final_flush"
  /\ Cupti(activities' = FALSE, UNCHANGED activities)
  /\ UNCHANGED <<library, ok, g_cupti_enabled, g_cupti_generation, g_subscriber,
                 g_corr_to_ostid_map, subscribed, domains, records, program>>

\* Mutant: the handle is forgotten without unsubscribing.
cuptiUnsubscribe_forgotten ==
  /\ pc = "unsubscribe" /\ completing[Holder] = {}
  /\ pc' = "clear"
  /\ g_subscriber' = FALSE
  /\ domains' = FALSE
  /\ UNCHANGED <<library, subscribed, failed, ok, g_cupti_enabled, g_cupti_generation,
                 g_corr_to_ostid_map, activities, records, program>>

\* Disabling the domains and unsubscribing; the handle is forgotten whether
\* that worked or not.
cuptiUnsubscribe ==
  /\ pc = "unsubscribe" /\ completing[Holder] = {}
  /\ pc' = "clear"
  /\ g_subscriber' = FALSE
  /\ IF g_subscriber
     THEN Cupti(subscribed' = FALSE /\ domains' = FALSE,
                UNCHANGED subscribed /\ domains' \in {domains, FALSE})
     ELSE UNCHANGED <<subscribed, domains, failed>>
  /\ UNCHANGED <<library, ok, g_cupti_enabled, g_cupti_generation,
                 g_corr_to_ostid_map, activities, records, program>>

\* Mutant: the map is not cleared.
ClearCorrelations_not ==
  /\ pc = "clear"
  /\ pc' = "finish_disable"
  /\ excused' = excused \cup UNION {completing[f] : f \in Completers}
  /\ UNCHANGED <<library, ok, g_cupti_enabled, g_cupti_generation, g_subscriber,
                 g_corr_to_ostid_map, cupti, buffered, completing, admitted, sent, program>>

ClearCorrelations ==
  /\ pc = "clear"
  /\ pc' = "finish_disable"
  /\ g_corr_to_ostid_map' = {}
  /\ excused' = excused \cup UNION {completing[f] : f \in Completers}
  /\ UNCHANGED <<library, ok, g_cupti_enabled, g_cupti_generation, g_subscriber, cupti,
                 buffered, completing, admitted, sent, program>>

FinishDisable ==
  /\ pc = "finish_disable"
  /\ pc' = "idle"
  /\ g_cupti_enabled' = FALSE
  /\ life' = IF life = "destroying" THEN "unloaded" ELSE life
  /\ UNCHANGED <<g_activity_callbacks_registered, server, commands, ok, g_cupti_generation,
                 g_subscriber, g_corr_to_ostid_map, cupti, records, program>>

-----------------------------------------------------------------------------
(* Who switches. *)

\* The control server, if it could be started, is up before the constructor
\* enables CUPTI, so a command may come first.
initCuptiTracer ==
  /\ life = "loading"
  /\ life' = "running"
  /\ IF StartEnabled
     THEN cupti_enable_locked
     ELSE /\ Free
          /\ UNCHANGED <<pc, ok, g_cupti_enabled, g_cupti_generation, g_subscriber,
                         g_activity_callbacks_registered, g_corr_to_ostid_map, cupti,
                         records, program>>
  /\ UNCHANGED <<server, commands>>

\* The control thread takes the next step, without the lock.
Serves(at, next) ==
  /\ server = at /\ server' = next
  /\ UNCHANGED <<life, pc, ok, g_cupti_enabled, g_cupti_generation, g_subscriber,
                 g_activity_callbacks_registered, g_corr_to_ostid_map, cupti, records, program>>

\* A client connects, while the socket is open.
accept ==
  /\ life \in {"loading", "running"}
  /\ commands < MaxCommands
  /\ commands' = commands + 1
  /\ Serves("poll", "recv")

\* The client has sent its command; a client that leaves without one counts as
\* one that asks for the status.
recv == Serves("recv", "command") /\ UNCHANGED commands

\* The command is done and answered.
Answer == Free /\ Serves("answer", "poll") /\ UNCHANGED commands

\* The loop ends: within a poll's timeout the thread sees g_destroying.
control_thread_main ==
  life = "joining" /\ Serves("poll", "stopped") /\ UNCHANGED commands

\* The commands "on", "off", "flush" and "status"; off, graceful or fast: the
\* control thread has no CUDA context of its own to synchronize.
handle_control_command ==
  /\ server = "command" /\ server' = "answer"
  /\ \/ cupti_enable_locked
     \/ cupti_disable_locked
     \/ /\ Free
        /\ g_cupti_enabled \/ g_subscriber
        /\ cuptiActivityFlushAll(Holder)
        /\ UNCHANGED <<pc, ok, g_cupti_enabled, g_cupti_generation, g_subscriber,
                       g_activity_callbacks_registered, g_corr_to_ostid_map,
                       subscribed, domains, activities, program>>
     \/ /\ Free
        /\ UNCHANGED <<pc, ok, g_cupti_enabled, g_cupti_generation, g_subscriber,
                       g_activity_callbacks_registered, g_corr_to_ostid_map, cupti,
                       records, program>>
  /\ UNCHANGED <<life, commands>>

\* Mutant: the destructor holds the lock while it joins.
deinitCuptiTracer_holding ==
  /\ life = "running" /\ life' = "joining"
  /\ Free /\ pc' = "join"
  /\ UNCHANGED <<server, commands, ok, g_cupti_enabled, g_cupti_generation, g_subscriber,
                 g_activity_callbacks_registered, g_corr_to_ostid_map, cupti, records, program>>

\* The destructor closes the socket,
deinitCuptiTracer ==
  /\ life = "running" /\ life' = "joining"
  /\ UNCHANGED <<server, commands, pc, ok, g_cupti_enabled, g_cupti_generation, g_subscriber,
                 g_activity_callbacks_registered, g_corr_to_ostid_map, cupti, records, program>>

\* joins the control thread in stop_control_server, then disables CUPTI.
stop_control_server ==
  /\ life = "joining" /\ server = "stopped"
  /\ cupti_disable_locked
  /\ life' = IF g_cupti_enabled \/ g_subscriber THEN "destroying" ELSE "unloaded"
  /\ UNCHANGED <<server, commands>>

-----------------------------------------------------------------------------
(* The threads of the program. *)

\* Thread t calls the API; its callback looks whether tracing is enabled,
ApiEnter(t) ==
  /\ life # "unloaded"
  /\ thread[t].at = "out"
  /\ calls < MaxCalls
  /\ calls' = calls + 1
  /\ thread' = [thread EXCEPT ![t] =
       IF subscribed /\ domains /\ g_cupti_enabled
       THEN [at |-> "callback", call |-> calls + 1, generation |-> g_cupti_generation]
       ELSE [at |-> "in", call |-> calls + 1, generation |-> 0]]
  /\ UNCHANGED <<switch, g_corr_to_ostid_map, cupti, records, due>>

\* Mutant: the entry is made under the id of the next call.
api_callback_stale(t) ==
  /\ thread[t].at = "callback"
  /\ g_corr_to_ostid_map' = g_corr_to_ostid_map \cup {thread[t].call + 1}
  /\ thread' = [thread EXCEPT ![t].at = "in"]
  /\ UNCHANGED <<switch, cupti, records, calls, due>>

\* and remembers the thread, after a while.
api_callback(t) ==
  /\ thread[t].at = "callback"
  /\ g_corr_to_ostid_map' = g_corr_to_ostid_map \cup {thread[t].call}
  /\ thread' = [thread EXCEPT ![t].at = "in"]
  /\ UNCHANGED <<switch, cupti, records, calls, due>>

\* The call returns: CUPTI has a record of it.
ApiExit(t) ==
  /\ thread[t].at = "in" /\ completing[t] = {}
  /\ thread' = [thread EXCEPT ![t] = [at |-> "out", call |-> 0, generation |-> 0]]
  /\ buffered' = IF activities THEN buffered \cup {thread[t].call} ELSE buffered
  /\ due' = IF /\ g_cupti_enabled /\ pc \notin Disabling \ {"flush", "activities_off"}
               /\ thread[t].generation = g_cupti_generation
            THEN due \cup {thread[t].call} ELSE due
  /\ UNCHANGED <<switch, g_corr_to_ostid_map, cupti, completing, admitted, sent, excused, calls>>

\* flush_cupti_after_sync_api: a synchronizing call flushes as it returns.
flush_cupti_after_sync_api(t) ==
  /\ thread[t].at = "in"
  /\ subscribed /\ domains /\ g_cupti_enabled
  /\ buffered # {} /\ completing[t] = {}
  /\ cuptiActivityFlushAll(t)
  /\ UNCHANGED <<switch, g_corr_to_ostid_map, subscribed, domains, activities, program>>

-----------------------------------------------------------------------------
Init ==
  /\ life = "loading" /\ server \in {"poll", "stopped"} /\ commands = 0 /\ pc = "idle" /\ ok = TRUE
  /\ g_cupti_enabled = FALSE /\ g_cupti_generation = 0 /\ g_subscriber = FALSE
  /\ g_activity_callbacks_registered = FALSE
  /\ g_corr_to_ostid_map = {}
  /\ subscribed = FALSE /\ domains = FALSE /\ activities = FALSE /\ failed = FALSE
  /\ buffered = {} /\ completing = [f \in Completers |-> {}] /\ admitted = {}
  /\ sent = {} /\ excused = {}
  /\ calls = 0 /\ due = {}
  /\ thread = [t \in Threads |-> [at |-> "out", call |-> 0, generation |-> 0]]

\* A step of the holder of g_cupti_state_mutex.
Switch ==
  \/ cuptiSubscribe \/ EnableDomains \/ EnableActivities \/ FinishEnable
  \/ cupti_flush_locked \/ DisableActivities \/ cuptiUnsubscribe
  \/ ClearCorrelations \/ FinishDisable
  \/ CompleteBuffer(Holder)

Next ==
  \/ initCuptiTracer \/ deinitCuptiTracer \/ stop_control_server
  \/ accept \/ recv \/ handle_control_command \/ Answer \/ control_thread_main
  \/ Switch
  \/ BufferFull \/ CompleteBuffer(Worker)
  \/ \E t \in Threads : \/ ApiEnter(t) \/ api_callback(t) \/ ApiExit(t)
                        \/ flush_cupti_after_sync_api(t) \/ CompleteBuffer(t)

Spec == Init /\ [][Next]_vars

\* The control thread and the destructor get the processor; calls of CUPTI and
\* sends return; a client sends its command or closes the connection, which the
\* kernel does for one that is killed.
Scheduling ==
  /\ WF_vars(Switch) /\ WF_vars(stop_control_server)
  /\ WF_vars(recv) /\ WF_vars(handle_control_command) /\ WF_vars(Answer)
  /\ WF_vars(control_thread_main)

LiveSpec == Spec /\ Scheduling

-----------------------------------------------------------------------------
(* Properties *)

\* While no one switches, "on" means that CUPTI calls back and records,
\* whatever CUPTI calls failed on the way.
OnMeansTracing ==
  pc = "idle" /\ g_cupti_enabled => g_subscriber /\ subscribed /\ domains /\ activities

\* And "off" means that it has neither a subscriber nor anything to record,
\* so that the next "on" can subscribe, unless a CUPTI call failed.
OffMeansQuiet ==
  pc = "idle" /\ ~g_cupti_enabled /\ ~failed => ~g_subscriber /\ ~subscribed /\ ~activities

\* Switching off loses nothing it could keep: when tracing is off every call made
\* in one period of tracing has been sent with its thread, but for the records
\* whose send has failed and those that CUPTI's thread or a thread of the program
\* was still completing as the map was cleared.
NothingLost ==
  pc = "idle" /\ ~g_cupti_enabled /\ ~failed => due \subseteq sent \cup excused

\* Calls whose callback races with the switch leave at most one entry each in
\* the map; it does not grow from one period of tracing to the next.
FewLeftBehind ==
  pc = "idle" /\ ~g_cupti_enabled /\ ~failed =>
    Cardinality(g_corr_to_ostid_map) <= Cardinality(Threads)

\* The destructor, which waits for the control thread, comes to its end, be the
\* thread idle, waiting for a client's command or for the lock, or switching.
LibraryUnloads == life = "joining" ~> life = "unloaded"

=============================================================================
