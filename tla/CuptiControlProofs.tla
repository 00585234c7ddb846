------------------------- MODULE CuptiControlProofs -------------------------
(***************************************************************************)
(* Proofs about CuptiControl, for any number of threads, of their calls    *)
(* and of clients, and whatever calls of CUPTI fail.                       *)
(***************************************************************************)
EXTENDS CuptiControl, FiniteSetTheorems, TLAPS

\* A thread in the API is in a call.
CallsNamed == \A t \in Threads : thread[t].at # "out" => thread[t].call \in Call

\* What the holder of the lock may rely on at each of its steps.
SwitchInv ==
  /\ g_subscriber => subscribed
  /\ pc \in Enabling => ~g_cupti_enabled
  /\ pc \in {"domains_on", "activities_on", "finish_enable"} => g_subscriber
  /\ pc \in {"activities_on", "finish_enable"} /\ ok => domains
  /\ pc = "finish_enable" /\ ok => activities
  /\ pc = "idle" /\ g_cupti_enabled => g_subscriber /\ domains
  /\ pc \in {"idle", "flush", "activities_off"} /\ g_cupti_enabled => activities

\* And if no call of CUPTI has failed.
QuietInv ==
  ~failed =>
    /\ subscribed => g_subscriber
    /\ pc = "idle" /\ ~g_cupti_enabled => ~g_subscriber /\ ~activities
    /\ pc \in {"final_flush", "unsubscribe", "clear", "finish_disable"} => ~activities
    /\ pc \in {"clear", "finish_disable"} => ~subscribed

USE DEF library, switch, cupti, records, program

\* The two parts of TypeOK: what is true or false, and the rest.
Flags ==
  /\ ok \in BOOLEAN
  /\ g_cupti_enabled \in BOOLEAN /\ g_subscriber \in BOOLEAN
  /\ g_activity_callbacks_registered \in BOOLEAN
  /\ subscribed \in BOOLEAN /\ domains \in BOOLEAN /\ activities \in BOOLEAN
  /\ failed \in BOOLEAN

Plain ==
  /\ life \in {"loading", "running", "joining", "destroying", "unloaded"}
  /\ server \in {"poll", "recv", "command", "answer", "stopped"}
  /\ commands \in 0 .. MaxCommands
  /\ pc \in {"idle"} \cup Enabling \cup Disabling
  /\ g_cupti_generation \in Nat
  /\ calls \in 0 .. MaxCalls
  /\ thread \in [Threads -> ThreadState]
  /\ g_corr_to_ostid_map \in SUBSET Call
  /\ buffered \in SUBSET Call
  /\ completing \in [Completers -> SUBSET Call]
  /\ admitted \in SUBSET Completers
  /\ sent \in SUBSET Call /\ excused \in SUBSET Call
  /\ due \in SUBSET Call

\* Zenon deals with the flags, SMT with the rest.
LEMMA TypeParts == TypeOK <=> Flags /\ Plain
  BY Zenon DEF TypeOK, Flags, Plain

\* The initial states have the right type.
LEMMA TypeInit == Init => TypeOK /\ CallsNamed
  <1> SUFFICES ASSUME Init PROVE TypeOK /\ CallsNamed
    OBVIOUS
  <1>1. MaxCalls \in Nat /\ MaxCommands \in Nat
    BY ConstantsAssumption
  <1>2. thread \in [Threads -> ThreadState]
    BY <1>1 DEF Init, ThreadState
  <1>3. CallsNamed
    BY DEF Init, CallsNamed
  <1>4. Flags
    BY Zenon DEF Init, Flags
  <1>5. Plain
    BY <1>1, <1>2 DEF Init, Plain
  <1> QED
    BY <1>3, <1>4, <1>5, TypeParts

\* A step of one thread of the program in the API.
ThreadStep ==
  \E t \in Threads : \/ ApiEnter(t) \/ api_callback(t) \/ ApiExit(t)
                     \/ flush_cupti_after_sync_api(t)

\* A step of a thread that completes buffers.
CompletionStep == \E f \in Completers : CompleteBuffer(f)

\* It leaves the switch, CUPTI, the program and the buffers it was not handed alone.
LEMMA CompletionKeeps ==
  CompletionStep => UNCHANGED <<switch, g_corr_to_ostid_map, cupti, program, buffered>>
  BY DEF CompletionStep, CompleteBuffer, bufferCompleted, send_record_payload

\* Threads that complete buffers are those named in Next.
LEMMA Steps ==
  ASSUME Next
  PROVE  \/ initCuptiTracer \/ deinitCuptiTracer \/ stop_control_server
         \/ (accept \/ recv \/ Answer \/ control_thread_main) \/ handle_control_command
         \/ cuptiSubscribe \/ EnableDomains \/ EnableActivities \/ FinishEnable
         \/ cupti_flush_locked \/ DisableActivities \/ cuptiUnsubscribe
         \/ ClearCorrelations \/ FinishDisable
         \/ BufferFull \/ CompletionStep \/ ThreadStep
  BY DEF Next, Switch, ThreadStep, CompletionStep, Completers

\* Every step keeps what the holder of the lock relies on.
LEMMA SwitchNext ==
  ASSUME TypeOK, SwitchInv, [Next]_vars
  PROVE  SwitchInv'
  <1> USE DEF SwitchInv, Cupti, Hand, cuptiActivityFlushAll, Free
  <1>1. CASE initCuptiTracer
    BY <1>1 DEF initCuptiTracer, cupti_enable_locked, register_activity_callbacks_locked, TypeOK, Enabling
  <1>2. CASE deinitCuptiTracer
    BY <1>2 DEF deinitCuptiTracer
  <1>3. CASE stop_control_server
    BY <1>3 DEF stop_control_server, cupti_disable_locked, Enabling
  <1>4. CASE accept \/ recv \/ Answer \/ control_thread_main
    BY <1>4 DEF accept, recv, Answer, control_thread_main, Serves
  <1>5. CASE handle_control_command
    BY <1>5 DEF handle_control_command, cupti_enable_locked, register_activity_callbacks_locked,
                cupti_disable_locked, Enabling
  <1>6. CASE cuptiSubscribe
    BY <1>6 DEF cuptiSubscribe, Enabling
  <1>7. CASE EnableDomains
    BY <1>7 DEF EnableDomains, Enabling
  <1>8. CASE EnableActivities
    BY <1>8 DEF EnableActivities, Enabling
  <1>9. CASE FinishEnable
    BY <1>9 DEF FinishEnable, Enabling
  <1>10. CASE cupti_flush_locked
    BY <1>10 DEF cupti_flush_locked, Enabling
  <1>11. CASE DisableActivities
    BY <1>11 DEF DisableActivities, Enabling
  <1>12. CASE cuptiUnsubscribe
    BY <1>12 DEF cuptiUnsubscribe, Enabling
  <1>13. CASE ClearCorrelations
    BY <1>13 DEF ClearCorrelations, Enabling
  <1>14. CASE FinishDisable
    BY <1>14 DEF FinishDisable, Enabling
  <1>15. CASE BufferFull
    BY <1>15 DEF BufferFull
  <1>21. CASE CompletionStep
    BY <1>21, CompletionKeeps
  <1>16. CASE ThreadStep
    BY <1>16 DEF ThreadStep, ApiEnter, api_callback, ApiExit, flush_cupti_after_sync_api
  <1>17. CASE UNCHANGED vars
    BY <1>17 DEF vars
  <1> QED
    BY <1>1, <1>2, <1>3, <1>4, <1>5, <1>6, <1>7, <1>8, <1>9, <1>10, <1>11, <1>12, <1>13, <1>14,
       <1>15, <1>16, <1>17, <1>21, Steps

\* And what it may rely on if no call has failed.
LEMMA QuietNext ==
  ASSUME TypeOK, SwitchInv, QuietInv, [Next]_vars
  PROVE  QuietInv'
  <1> USE DEF SwitchInv, QuietInv, Cupti, Hand, cuptiActivityFlushAll, Free
  <1>1. CASE initCuptiTracer
    BY <1>1 DEF initCuptiTracer, cupti_enable_locked, register_activity_callbacks_locked, Enabling
  <1>2. CASE deinitCuptiTracer
    BY <1>2 DEF deinitCuptiTracer
  <1>3. CASE stop_control_server
    BY <1>3 DEF stop_control_server, cupti_disable_locked, Enabling
  <1>4. CASE accept \/ recv \/ Answer \/ control_thread_main
    BY <1>4 DEF accept, recv, Answer, control_thread_main, Serves
  <1>5. CASE handle_control_command
    BY <1>5 DEF handle_control_command, cupti_enable_locked, register_activity_callbacks_locked,
                cupti_disable_locked, Enabling
  <1>6. CASE cuptiSubscribe
    BY <1>6 DEF cuptiSubscribe, Enabling, TypeOK
  <1>7. CASE EnableDomains
    BY <1>7 DEF EnableDomains, Enabling
  <1>8. CASE EnableActivities
    BY <1>8 DEF EnableActivities, Enabling
  <1>9. CASE FinishEnable
    BY <1>9 DEF FinishEnable, Enabling
  <1>10. CASE cupti_flush_locked
    BY <1>10 DEF cupti_flush_locked, Enabling
  <1>11. CASE DisableActivities
    BY <1>11 DEF DisableActivities, Enabling
  <1>12. CASE cuptiUnsubscribe
    BY <1>12 DEF cuptiUnsubscribe, Enabling
  <1>13. CASE ClearCorrelations
    BY <1>13 DEF ClearCorrelations, Enabling
  <1>14. CASE FinishDisable
    BY <1>14 DEF FinishDisable, Enabling
  <1>15. CASE BufferFull
    BY <1>15 DEF BufferFull
  <1>21. CASE CompletionStep
    BY <1>21, CompletionKeeps
  <1>16. CASE ThreadStep
    BY <1>16 DEF ThreadStep, ApiEnter, api_callback, ApiExit, flush_cupti_after_sync_api
  <1>17. CASE UNCHANGED vars
    BY <1>17 DEF vars
  <1> QED
    BY <1>1, <1>2, <1>3, <1>4, <1>5, <1>6, <1>7, <1>8, <1>9, <1>10, <1>11, <1>12, <1>13, <1>14,
       <1>15, <1>16, <1>17, <1>21, Steps

\* Every step keeps the types.
LEMMA FlagsNext ==
  ASSUME Flags, [Next]_vars
  PROVE  Flags'
  <1> USE DEF Flags, Cupti, Hand, cuptiActivityFlushAll, Free
  <1>1. CASE initCuptiTracer
    BY <1>1, Zenon DEF initCuptiTracer, cupti_enable_locked, register_activity_callbacks_locked
  <1>2. CASE deinitCuptiTracer
    BY <1>2, Zenon DEF deinitCuptiTracer
  <1>3. CASE stop_control_server
    BY <1>3, Zenon DEF stop_control_server, cupti_disable_locked
  <1>4. CASE accept \/ recv \/ Answer \/ control_thread_main
    BY <1>4, Zenon DEF accept, recv, Answer, control_thread_main, Serves
  <1>5. CASE handle_control_command
    BY <1>5, Zenon DEF handle_control_command, cupti_enable_locked, register_activity_callbacks_locked,
                cupti_disable_locked
  <1>6. CASE cuptiSubscribe
    BY <1>6, Zenon DEF cuptiSubscribe
  <1>7. CASE EnableDomains
    BY <1>7, Zenon DEF EnableDomains
  <1>8. CASE EnableActivities
    BY <1>8, Zenon DEF EnableActivities
  <1>9. CASE FinishEnable
    BY <1>9, Zenon DEF FinishEnable
  <1>10. CASE cupti_flush_locked
    BY <1>10, Zenon DEF cupti_flush_locked
  <1>11. CASE DisableActivities
    BY <1>11, Zenon DEF DisableActivities
  <1>12. CASE cuptiUnsubscribe
    BY <1>12, Zenon DEF cuptiUnsubscribe
  <1>13. CASE ClearCorrelations
    BY <1>13, Zenon DEF ClearCorrelations
  <1>14. CASE FinishDisable
    BY <1>14, Zenon DEF FinishDisable
  <1>15. CASE BufferFull
    BY <1>15, Zenon DEF BufferFull
  <1>21. CASE CompletionStep
    BY <1>21, CompletionKeeps, Zenon
  <1>16. ASSUME NEW t \in Threads, ApiEnter(t) PROVE Flags'
    BY <1>16, Zenon DEF ApiEnter
  <1>17. ASSUME NEW t \in Threads, api_callback(t) PROVE Flags'
    BY <1>17, Zenon DEF api_callback
  <1>18. ASSUME NEW t \in Threads, ApiExit(t) PROVE Flags'
    BY <1>18, Zenon DEF ApiExit
  <1>19. ASSUME NEW t \in Threads, flush_cupti_after_sync_api(t) PROVE Flags'
    BY <1>19, Zenon DEF flush_cupti_after_sync_api
  <1>20. CASE UNCHANGED vars
    BY <1>20, Zenon DEF vars
  <1> QED
    BY <1>1, <1>2, <1>3, <1>4, <1>5, <1>6, <1>7, <1>8, <1>9, <1>10, <1>11, <1>12, <1>13, <1>14, <1>15, <1>16, <1>17, <1>18, <1>19,
       <1>20, <1>21, Steps DEF ThreadStep

\* And the other variables, and the names of the calls under way.
LEMMA PlainNext ==
  ASSUME Plain, CallsNamed, [Next]_vars
  PROVE  Plain' /\ CallsNamed'
  <1> USE DEF Plain, CallsNamed, Cupti, Hand, cuptiActivityFlushAll, Free, Enabling, Disabling
  <1>0. MaxCalls \in Nat /\ MaxCommands \in Nat
    BY ConstantsAssumption
  <1>1. CASE initCuptiTracer
    BY <1>1 DEF initCuptiTracer, cupti_enable_locked, register_activity_callbacks_locked
  <1>2. CASE deinitCuptiTracer
    BY <1>2 DEF deinitCuptiTracer
  <1>3. CASE stop_control_server
    BY <1>3 DEF stop_control_server, cupti_disable_locked
  <1>4. CASE accept \/ recv \/ Answer \/ control_thread_main
    BY <1>0, <1>4 DEF accept, recv, Answer, control_thread_main, Serves
  <1>5. CASE handle_control_command
    BY <1>5 DEF handle_control_command, cupti_enable_locked, register_activity_callbacks_locked,
                cupti_disable_locked
  <1>6. CASE cuptiSubscribe
    BY <1>6 DEF cuptiSubscribe
  <1>7. CASE EnableDomains
    BY <1>7 DEF EnableDomains
  <1>8. CASE EnableActivities
    BY <1>8 DEF EnableActivities
  <1>9. CASE FinishEnable
    BY <1>9 DEF FinishEnable
  <1>10. CASE cupti_flush_locked
    BY <1>10 DEF cupti_flush_locked
  <1>11. CASE DisableActivities
    BY <1>11 DEF DisableActivities
  <1>12. CASE cuptiUnsubscribe
    BY <1>12 DEF cuptiUnsubscribe
  <1>13. CASE ClearCorrelations
    BY <1>13 DEF ClearCorrelations
  <1>14. CASE FinishDisable
    BY <1>14 DEF FinishDisable
  <1>15. CASE BufferFull
    BY <1>15 DEF BufferFull
  <1>21. CASE CompletionStep
    <2>1. PICK f \in Completers : CompleteBuffer(f)
      BY <1>21 DEF CompletionStep
    <2>2. /\ completing' \in [Completers -> SUBSET Call] /\ admitted' \in SUBSET Completers
          /\ sent' \in SUBSET Call /\ excused' \in SUBSET Call
      <3>1. CASE bufferCompleted(f)
        BY <3>1 DEF bufferCompleted
      <3>2. ASSUME NEW call \in Call, send_record_payload(f, call)
            PROVE  /\ completing' \in [Completers -> SUBSET Call] /\ admitted' \in SUBSET Completers
                   /\ sent' \in SUBSET Call /\ excused' \in SUBSET Call
        <4>1. completing' \in [Completers -> SUBSET Call]
          BY <3>2 DEF send_record_payload
        <4>2. admitted' \in SUBSET Completers
          BY <3>2 DEF send_record_payload
        <4>3. sent' \in SUBSET Call /\ excused' \in SUBSET Call
          BY <3>2 DEF send_record_payload
        <4> QED
          BY <4>1, <4>2, <4>3
      <3> QED
        BY <2>1, <3>1, <3>2 DEF CompleteBuffer
    <2> QED
      BY <1>21, <2>2, CompletionKeeps
  <1>16. ASSUME NEW t \in Threads, ApiEnter(t) PROVE Plain' /\ CallsNamed'
    <2>1. calls + 1 \in Call /\ calls + 1 \in 0 .. MaxCalls
      BY <1>0, <1>16 DEF ApiEnter, Call
    <2>2. thread' \in [Threads -> ThreadState]
      BY <1>16, <2>1 DEF ApiEnter, ThreadState
    <2>3. CallsNamed'
      BY <1>16, <2>1 DEF ApiEnter
    <2> QED
      BY <1>16, <2>1, <2>2, <2>3 DEF ApiEnter
  <1>17. ASSUME NEW t \in Threads, api_callback(t) PROVE Plain' /\ CallsNamed'
    <2>1. thread[t] \in ThreadState /\ thread[t].call \in Call
      BY <1>17 DEF api_callback
    <2>2. thread' \in [Threads -> ThreadState]
      BY <1>17, <2>1 DEF api_callback, ThreadState
    <2>3. CallsNamed'
      BY <1>17, <2>1 DEF api_callback, ThreadState
    <2> QED
      BY <1>17, <2>1, <2>2, <2>3 DEF api_callback
  <1>18. ASSUME NEW t \in Threads, ApiExit(t) PROVE Plain' /\ CallsNamed'
    <2>1. thread[t].call \in Call
      BY <1>18 DEF ApiExit
    <2>2. thread' \in [Threads -> ThreadState]
      BY <1>0, <1>18 DEF ApiExit, ThreadState
    <2>3. CallsNamed'
      BY <1>18 DEF ApiExit
    <2> QED
      BY <1>18, <2>1, <2>2, <2>3 DEF ApiExit
  <1>19. ASSUME NEW t \in Threads, flush_cupti_after_sync_api(t) PROVE Plain' /\ CallsNamed'
    BY <1>19 DEF flush_cupti_after_sync_api
  <1>20. CASE UNCHANGED vars
    BY <1>20 DEF vars
  <1> QED
    BY <1>1, <1>2, <1>3, <1>4, <1>5, <1>6, <1>7, <1>8, <1>9, <1>10, <1>11, <1>12, <1>13, <1>14, <1>15, <1>16, <1>17, <1>18, <1>19,
       <1>20, <1>21, Steps DEF ThreadStep

-----------------------------------------------------------------------------
(* What every step keeps, together. *)

SwitchOK == TypeOK /\ CallsNamed /\ SwitchInv /\ QuietInv

\* It is an invariant.
LEMMA SwitchOKInv == Spec => []SwitchOK
  <1>1. Init => SwitchOK
    <2>1. Init => SwitchInv /\ QuietInv
      BY DEF Init, SwitchInv, QuietInv, Enabling
    <2> QED
      BY <2>1, TypeInit DEF SwitchOK
  <1>2. SwitchOK /\ [Next]_vars => SwitchOK'
    <2>1. (Flags /\ Plain)' => TypeOK'
      BY Zenon DEF TypeOK, Flags, Plain
    <2> QED
      BY <2>1, FlagsNext, PlainNext, SwitchNext, QuietNext, TypeParts DEF SwitchOK
  <1> QED
    BY <1>1, <1>2, PTL DEF Spec

\* The state of the switch, of CUPTI and of the records is as declared.
THEOREM TypeCorrect == Spec => []TypeOK
  BY SwitchOKInv, PTL DEF SwitchOK

\* "On" means that CUPTI calls back and records, whatever calls of CUPTI failed.
THEOREM OnIsTracing == Spec => []OnMeansTracing
  <1>1. SwitchOK => OnMeansTracing
    BY DEF SwitchOK, SwitchInv, OnMeansTracing
  <1> QED
    BY <1>1, SwitchOKInv, PTL

\* "Off" means that CUPTI is left as it was found, unless one of its calls failed.
THEOREM OffIsQuiet == Spec => []OffMeansQuiet
  <1>1. SwitchOK => OffMeansQuiet
    BY DEF SwitchOK, QuietInv, OffMeansQuiet
  <1> QED
    BY <1>1, SwitchOKInv, PTL

-----------------------------------------------------------------------------
(* Switching off loses nothing. *)

\* A call that saw the present tracing enabled has its thread remembered, until
\* the map is cleared.
RememberedInv ==
  /\ g_cupti_enabled => g_cupti_generation > 0
  /\ \A t \in Threads : thread[t].generation <= g_cupti_generation
  /\ g_cupti_enabled /\ pc # "finish_disable" =>
       \A t \in Threads :
         thread[t].at = "in" /\ thread[t].generation = g_cupti_generation
           => thread[t].call \in g_corr_to_ostid_map

\* Every record a thread has been handed, and the records whose fate is known.
InHands == UNION {completing[f] : f \in Completers}
Settled == sent \cup excused

\* The holder of the lock flushes only when it has completed what it was handed.
HolderInv == pc \in Enabling \cup {"flush", "final_flush"} => completing[Holder] = {}

\* A call that is due is settled, or still buffered or in the hands of a thread and
\* remembered; from the last flush on it is settled or in the hands of a thread, and
\* once the map is cleared it is settled.
DueInv ==
  ~failed =>
    /\ due \subseteq Settled \cup ((buffered \cup InHands) \cap g_corr_to_ostid_map)
    /\ pc \in {"unsubscribe", "clear"} => due \subseteq Settled \cup InHands
    /\ pc = "finish_disable" \/ ~g_cupti_enabled => due \subseteq Settled

\* Only ClearCorrelations forgets a thread, and a new period has a new generation.
LEMMA RememberedNext ==
  ASSUME SwitchOK, RememberedInv, [Next]_vars
  PROVE  RememberedInv'
  <1> USE DEF RememberedInv, Cupti, Hand, cuptiActivityFlushAll, Free
  <1>0. g_cupti_generation \in Nat /\ thread \in [Threads -> ThreadState]
    BY TypeParts DEF SwitchOK, Plain
  <1>1. CASE initCuptiTracer
    BY <1>1 DEF initCuptiTracer, cupti_enable_locked, register_activity_callbacks_locked
  <1>2. CASE deinitCuptiTracer
    BY <1>2 DEF deinitCuptiTracer
  <1>3. CASE stop_control_server
    BY <1>3 DEF stop_control_server, cupti_disable_locked
  <1>4. CASE accept \/ recv \/ Answer \/ control_thread_main
    BY <1>4 DEF accept, recv, Answer, control_thread_main, Serves
  <1>5. CASE handle_control_command
    BY <1>5 DEF handle_control_command, cupti_enable_locked, register_activity_callbacks_locked,
                cupti_disable_locked
  <1>6. CASE cuptiSubscribe
    BY <1>6 DEF cuptiSubscribe
  <1>7. CASE EnableDomains
    BY <1>7 DEF EnableDomains
  <1>8. CASE EnableActivities
    BY <1>8 DEF EnableActivities
  <1>9. CASE FinishEnable
    <2>1. \A t \in Threads : thread[t].generation \in Nat
      BY <1>0 DEF ThreadState
    <2>2. CASE ok
      BY <1>0, <1>9, <2>1, <2>2 DEF FinishEnable
    <2>3. CASE ~ok
      BY <1>9, <2>3 DEF FinishEnable, SwitchOK, SwitchInv, Enabling
    <2> QED
      BY <2>2, <2>3
  <1>10. CASE cupti_flush_locked
    BY <1>10 DEF cupti_flush_locked
  <1>11. CASE DisableActivities
    BY <1>11 DEF DisableActivities
  <1>12. CASE cuptiUnsubscribe
    BY <1>12 DEF cuptiUnsubscribe
  <1>13. CASE ClearCorrelations
    BY <1>13 DEF ClearCorrelations
  <1>14. CASE FinishDisable
    BY <1>14 DEF FinishDisable
  <1>15. CASE BufferFull
    BY <1>15 DEF BufferFull
  <1>21. CASE CompletionStep
    BY <1>21, CompletionKeeps
  <1>16. ASSUME NEW t \in Threads, ApiEnter(t) PROVE RememberedInv'
    <2>1. \A u \in Threads \ {t} : thread'[u] = thread[u]
      BY <1>0, <1>16 DEF ApiEnter
    <2>2. \/ thread'[t].generation \in {0, g_cupti_generation} /\ thread'[t].at # "in"
          \/ thread'[t].generation = 0
      BY <1>0, <1>16 DEF ApiEnter
    <2> QED
      BY <1>0, <1>16, <2>1, <2>2 DEF ApiEnter
  <1>17. ASSUME NEW t \in Threads, api_callback(t) PROVE RememberedInv'
    BY <1>17 DEF api_callback
  <1>18. ASSUME NEW t \in Threads, ApiExit(t) PROVE RememberedInv'
    <2>1. \A u \in Threads \ {t} : thread'[u] = thread[u]
      BY <1>0, <1>18 DEF ApiExit
    <2>2. \/ thread'[t].generation \in {0, g_cupti_generation} /\ thread'[t].at # "in"
          \/ thread'[t].generation = 0
      BY <1>0, <1>18 DEF ApiExit
    <2> QED
      BY <1>0, <1>18, <2>1, <2>2 DEF ApiExit
  <1>19. ASSUME NEW t \in Threads, flush_cupti_after_sync_api(t) PROVE RememberedInv'
    BY <1>19 DEF flush_cupti_after_sync_api
  <1>20. CASE UNCHANGED vars
    BY <1>20 DEF vars
  <1> QED
    BY <1>1, <1>2, <1>3, <1>4, <1>5, <1>6, <1>7, <1>8, <1>9, <1>10, <1>11, <1>12, <1>13, <1>14, <1>15, <1>16, <1>17, <1>18, <1>19,
       <1>20, <1>21, Steps DEF ThreadStep

\* A flush moves every buffered record to the hands of the thread that completes it.
LEMMA HandsMove ==
  ASSUME NEW f \in Completers, completing \in [Completers -> SUBSET Call], completing[f] = {}, Hand(f)
  PROVE  buffered \cup InHands \subseteq InHands' /\ Settled' = Settled
  <1>1. completing'[f] = buffered /\ \A g \in Completers \ {f} : completing'[g] = completing[g]
    BY DEF Hand
  <1>2. InHands' = UNION {completing'[g] : g \in Completers} /\ Settled' = Settled
    BY DEF InHands, Settled, Hand
  <1>3. ASSUME NEW c \in InHands PROVE c \in InHands'
    <2>1. PICK g \in Completers : c \in completing[g]
      BY DEF InHands
    <2> QED
      BY <1>1, <1>2, <2>1
  <1> QED
    BY <1>1, <1>2, <1>3

\* No one but the holder touches its records.
LEMMA HolderNext ==
  ASSUME SwitchOK, HolderInv, [Next]_vars
  PROVE  HolderInv'
  <1> USE DEF HolderInv, Cupti, Free, cuptiActivityFlushAll, Enabling
  <1>0. completing \in [Completers -> SUBSET Call] /\ Holder \in Completers /\ Holder # Worker /\ Holder \notin Threads
    BY TypeParts, ConstantsAssumption DEF SwitchOK, Plain, Completers
  <1>1. CASE initCuptiTracer
    BY <1>1 DEF initCuptiTracer, cupti_enable_locked, register_activity_callbacks_locked
  <1>2. CASE deinitCuptiTracer
    BY <1>2 DEF deinitCuptiTracer
  <1>3. CASE stop_control_server
    BY <1>3 DEF stop_control_server, cupti_disable_locked
  <1>4. CASE accept \/ recv \/ Answer \/ control_thread_main
    BY <1>4 DEF accept, recv, Answer, control_thread_main, Serves
  <1>5. CASE handle_control_command
    BY <1>5 DEF handle_control_command, cupti_enable_locked, register_activity_callbacks_locked,
                cupti_disable_locked
  <1>6. CASE cuptiSubscribe
    BY <1>6 DEF cuptiSubscribe
  <1>7. CASE EnableDomains
    BY <1>7 DEF EnableDomains
  <1>8. CASE EnableActivities
    BY <1>8 DEF EnableActivities
  <1>9. CASE FinishEnable
    BY <1>9 DEF FinishEnable
  <1>10. CASE cupti_flush_locked
    BY <1>10 DEF cupti_flush_locked
  <1>11. CASE DisableActivities
    BY <1>11 DEF DisableActivities
  <1>12. CASE cuptiUnsubscribe
    BY <1>12 DEF cuptiUnsubscribe
  <1>13. CASE ClearCorrelations
    BY <1>13 DEF ClearCorrelations
  <1>14. CASE FinishDisable
    BY <1>14 DEF FinishDisable
  <1>15. CASE BufferFull
    BY <1>0, <1>15 DEF BufferFull, Hand
  <1>21. CASE CompletionStep
    <2>1. PICK f \in Completers : CompleteBuffer(f)
      BY <1>21 DEF CompletionStep
    <2>2. completing'[Holder] \subseteq completing[Holder]
      BY <1>0, <2>1 DEF CompleteBuffer, bufferCompleted, send_record_payload
    <2> QED
      BY <1>21, <2>2, CompletionKeeps
  <1>16. ASSUME NEW t \in Threads, ApiEnter(t) \/ api_callback(t) \/ ApiExit(t) PROVE HolderInv'
    BY <1>16 DEF ApiEnter, api_callback, ApiExit
  <1>19. ASSUME NEW t \in Threads, flush_cupti_after_sync_api(t) PROVE HolderInv'
    BY <1>0, <1>19 DEF flush_cupti_after_sync_api, Hand
  <1>20. CASE UNCHANGED vars
    BY <1>20 DEF vars
  <1> QED
    BY <1>1, <1>2, <1>3, <1>4, <1>5, <1>6, <1>7, <1>8, <1>9, <1>10, <1>11, <1>12, <1>13, <1>14,
       <1>15, <1>16, <1>19, <1>20, <1>21, Steps DEF ThreadStep

\* A call becomes due when it is buffered; it stays buffered or in the hands of a
\* thread until it is settled, and the map is cleared after the last flush.
LEMMA DueNext ==
  ASSUME SwitchOK, RememberedInv, HolderInv, DueInv, [Next]_vars
  PROVE  DueInv'
  <1> USE DEF DueInv, Cupti, Free, cuptiActivityFlushAll
  <1>0. completing \in [Completers -> SUBSET Call] /\ Holder \in Completers /\ Worker \in Completers
        /\ Threads \subseteq Completers
    BY TypeParts DEF SwitchOK, Plain, Completers
  <1>r. UNCHANGED <<sent, excused>> => Settled' = Settled
    BY DEF Settled
  <1>h. UNCHANGED completing => InHands' = InHands
    BY DEF InHands
  <1>f. ASSUME NEW f \in Completers, completing[f] = {}, Hand(f),
               UNCHANGED <<due, g_corr_to_ostid_map, g_cupti_enabled, failed>>,
               pc' = pc \/ pc' \notin {"clear", "finish_disable"}
        PROVE  DueInv'
    <2>1. buffered \cup InHands \subseteq InHands' /\ Settled' = Settled
      BY <1>0, <1>f, HandsMove
    <2> QED
      BY <1>f, <2>1
  <1>1. CASE initCuptiTracer
    BY <1>1, <1>r, <1>h DEF initCuptiTracer, cupti_enable_locked, register_activity_callbacks_locked
  <1>2. CASE deinitCuptiTracer
    BY <1>2, <1>r, <1>h DEF deinitCuptiTracer
  <1>3. CASE stop_control_server
    BY <1>3, <1>r, <1>h DEF stop_control_server, cupti_disable_locked
  <1>4. CASE accept \/ recv \/ Answer \/ control_thread_main
    BY <1>4, <1>r, <1>h DEF accept, recv, Answer, control_thread_main, Serves
  <1>5. CASE handle_control_command
    <2>1. CASE cupti_enable_locked
      BY <1>5, <2>1, <1>r, <1>h DEF cupti_enable_locked, register_activity_callbacks_locked, handle_control_command
    <2>2. CASE cupti_disable_locked
      BY <1>5, <2>2, <1>r, <1>h DEF cupti_disable_locked, handle_control_command
    <2>3. CASE Free /\ Hand(Holder) /\ UNCHANGED <<pc, due, g_corr_to_ostid_map, g_cupti_enabled, failed>>
      BY <1>0, <1>f, <2>3
    <2>4. CASE UNCHANGED <<pc, due, g_corr_to_ostid_map, g_cupti_enabled, records>>
               /\ (failed' \/ UNCHANGED failed)
      BY <2>4, <1>r, <1>h
    <2> QED
      BY <1>5, <2>1, <2>2, <2>3, <2>4 DEF handle_control_command
  <1>6. CASE cuptiSubscribe
    BY <1>6, <1>r, <1>h DEF cuptiSubscribe
  <1>7. CASE EnableDomains
    BY <1>7, <1>r, <1>h DEF EnableDomains
  <1>8. CASE EnableActivities
    BY <1>8, <1>r, <1>h DEF EnableActivities
  <1>9. CASE FinishEnable
    BY <1>9, <1>r, <1>h DEF FinishEnable
  <1>10. CASE cupti_flush_locked
    <2>1. CASE failed'
      BY <2>1
    <2>2. CASE ~failed'
      <3>1. completing[Holder] = {} /\ pc' \notin {"clear", "finish_disable"}
        BY <1>10 DEF cupti_flush_locked, HolderInv
      <3>2. Hand(Holder) /\ UNCHANGED <<due, g_corr_to_ostid_map, g_cupti_enabled, failed>>
        BY <1>10, <2>2 DEF cupti_flush_locked
      <3> QED
        BY <1>0, <1>f, <3>1, <3>2
    <2> QED
      BY <2>1, <2>2
  <1>11. CASE DisableActivities
    BY <1>11, <1>r, <1>h DEF DisableActivities
  <1>12. CASE cuptiUnsubscribe
    BY <1>12, <1>r, <1>h DEF cuptiUnsubscribe
  <1>13. CASE ClearCorrelations
    <2>1. Settled' = Settled \cup InHands
      BY <1>13 DEF ClearCorrelations, Settled, InHands
    <2>2. UNCHANGED <<due, g_cupti_enabled, failed>> /\ pc = "clear" /\ pc' = "finish_disable"
      BY <1>13 DEF ClearCorrelations
    <2> QED
      BY <2>1, <2>2
  <1>14. CASE FinishDisable
    BY <1>14, <1>r, <1>h DEF FinishDisable
  <1>15. CASE BufferFull
    BY <1>0, <1>f, <1>15 DEF BufferFull
  <1>21. CASE CompletionStep
    <2>1. PICK f \in Completers : CompleteBuffer(f)
      BY <1>21 DEF CompletionStep
    <2>2. UNCHANGED <<switch, g_corr_to_ostid_map, cupti, program, buffered>>
      BY <1>21, CompletionKeeps
    <2>3. CASE bufferCompleted(f) /\ g_cupti_enabled
      <3>1. UNCHANGED <<completing, sent, excused>>
        BY <2>3 DEF bufferCompleted
      <3> QED
        BY <1>r, <1>h, <2>2, <3>1
    <2>4. CASE bufferCompleted(f) /\ ~g_cupti_enabled
      <3>1. UNCHANGED <<sent, excused>>
        BY <2>4 DEF bufferCompleted
      <3> QED
        BY <1>r, <2>2, <2>4, <3>1
    <2>5. ASSUME NEW call \in Call, send_record_payload(f, call)
          PROVE  DueInv'
      <3>1. /\ InHands \subseteq InHands' \cup {call}
            /\ Settled \subseteq Settled'
            /\ call \in g_corr_to_ostid_map => call \in Settled'
        BY <2>1, <2>5, <1>0 DEF send_record_payload, InHands, Settled
      <3> QED
        BY <2>2, <3>1
    <2> QED
      BY <2>1, <2>3, <2>4, <2>5 DEF CompleteBuffer
  <1>16. ASSUME NEW t \in Threads, ApiEnter(t) PROVE DueInv'
    BY <1>16, <1>r, <1>h DEF ApiEnter
  <1>17. ASSUME NEW t \in Threads, api_callback(t) PROVE DueInv'
    BY <1>17, <1>r, <1>h DEF api_callback
  <1>18. ASSUME NEW t \in Threads, ApiExit(t) PROVE DueInv'
    <2>1. CASE due' = due
      BY <1>18, <2>1, <1>r, <1>h DEF ApiExit
    <2>2. CASE due' # due
      <3>1. /\ due' = due \cup {thread[t].call} /\ thread[t].at = "in"
            /\ g_cupti_enabled /\ pc \notin Disabling \ {"flush", "activities_off"}
            /\ thread[t].generation = g_cupti_generation
        BY <1>18, <2>2 DEF ApiExit
      <3>2. pc \in {"idle", "flush", "activities_off"}
        BY <3>1, TypeParts DEF SwitchOK, SwitchInv, Plain
      <3>3. thread[t].call \in g_corr_to_ostid_map
        BY <3>1, <3>2 DEF RememberedInv
      <3>4. buffered' = buffered \cup {thread[t].call}
        BY <1>18, <3>1, <3>2 DEF ApiExit, SwitchOK, SwitchInv
      <3>5. ~(pc \in {"unsubscribe", "clear", "finish_disable"} \/ ~g_cupti_enabled)
        BY <3>1, <3>2
      <3> QED
        BY <1>18, <1>r, <1>h, <3>1, <3>3, <3>4, <3>5 DEF ApiExit
    <2> QED
      BY <2>1, <2>2
  <1>19. ASSUME NEW t \in Threads, flush_cupti_after_sync_api(t) PROVE DueInv'
    <2>1. CASE failed'
      BY <2>1
    <2>2. CASE ~failed'
      <3>1. /\ completing[t] = {} /\ Hand(t)
            /\ UNCHANGED <<due, g_corr_to_ostid_map, g_cupti_enabled, failed, pc>>
        BY <1>19, <2>2 DEF flush_cupti_after_sync_api
      <3> QED
        BY <1>0, <1>f, <3>1
    <2> QED
      BY <2>1, <2>2
  <1>20. CASE UNCHANGED vars
    BY <1>20, <1>r, <1>h DEF vars
  <1> QED
    BY <1>1, <1>2, <1>3, <1>4, <1>5, <1>6, <1>7, <1>8, <1>9, <1>10, <1>11, <1>12, <1>13, <1>14,
       <1>15, <1>16, <1>17, <1>18, <1>19, <1>20, <1>21, Steps DEF ThreadStep

\* No call made in one period of tracing is lost when it ends, but for those whose
\* send fails and those another thread was completing as the map was cleared.
THEOREM NoCallIsLost == Spec => []NothingLost
  <1>1. Init => RememberedInv /\ HolderInv /\ DueInv
    BY DEF Init, RememberedInv, HolderInv, DueInv, Enabling
  <1>2. SwitchOK /\ RememberedInv /\ HolderInv /\ DueInv /\ [Next]_vars
          => (RememberedInv /\ HolderInv /\ DueInv)'
    BY RememberedNext, HolderNext, DueNext
  <1>3. DueInv => NothingLost
    BY DEF DueInv, NothingLost, Settled
  <1> QED
    BY <1>1, <1>2, <1>3, SwitchOKInv, PTL DEF Spec

-----------------------------------------------------------------------------
(* The map does not grow. *)

\* The threads whose callback saw tracing enabled and has not made its entry.
InCallback == {t \in Threads : thread[t].at = "callback"}

\* After the map was cleared each of them adds one entry at most, and no other
\* thread becomes one of them before tracing is on again.
FewInv ==
  ~failed /\ (pc = "finish_disable" \/ ~g_cupti_enabled) =>
    Cardinality(g_corr_to_ostid_map) + Cardinality(InCallback) <= Cardinality(Threads)

\* All these sets are finite.
LEMMA FiniteParts ==
  ASSUME SwitchOK
  PROVE  IsFiniteSet(Threads) /\ IsFiniteSet(g_corr_to_ostid_map) /\ IsFiniteSet(InCallback)
  <1>1. IsFiniteSet(Threads) /\ MaxCalls \in Nat
    BY ConstantsAssumption
  <1>2. IsFiniteSet(Call)
    BY <1>1, FS_Interval DEF Call
  <1>3. g_corr_to_ostid_map \in SUBSET Call
    BY TypeParts DEF SwitchOK, Plain
  <1>4. InCallback \in SUBSET Threads
    BY DEF InCallback
  <1> QED
    BY <1>1, <1>2, <1>3, <1>4, FS_Subset

\* ClearCorrelations makes it true; a callback that returns takes its thread out
\* of InCallback as it makes its entry.
LEMMA FewNext ==
  ASSUME SwitchOK, FewInv, [Next]_vars
  PROVE  FewInv'
  <1>1. CASE ClearCorrelations
    <2>1. g_corr_to_ostid_map' = {} /\ InCallback' \in SUBSET Threads
      BY <1>1 DEF ClearCorrelations, InCallback
    <2>2. Cardinality(InCallback') \in Nat /\ Cardinality(InCallback') <= Cardinality(Threads)
      BY <2>1, FiniteParts, FS_Subset, FS_CardinalityType
    <2> QED
      BY <2>1, <2>2, FS_EmptySet DEF FewInv
  <1>2. ASSUME NEW t \in Threads, api_callback(t) PROVE FewInv'
    <2> DEFINE map == g_corr_to_ostid_map
    <2>1. InCallback' = InCallback \ {t} /\ t \in InCallback
      BY <1>2, TypeParts DEF api_callback, InCallback, SwitchOK, Plain
    <2>2. map' = map \cup {thread[t].call} /\ UNCHANGED <<failed, pc, g_cupti_enabled>>
      BY <1>2 DEF api_callback
    <2>3. Cardinality(InCallback') = Cardinality(InCallback) - 1
      BY <2>1, FiniteParts, FS_RemoveElement
    <2>4. Cardinality(map') = IF thread[t].call \in map THEN Cardinality(map) ELSE Cardinality(map) + 1
      BY <2>2, FiniteParts, FS_AddElement
    <2>5. /\ Cardinality(map) \in Nat /\ Cardinality(map') \in Nat
          /\ Cardinality(InCallback) \in Nat /\ Cardinality(Threads) \in Nat
      BY <2>2, FiniteParts, FS_AddElement, FS_CardinalityType
    <2> HIDE DEF map
    <2> QED
      BY <2>2, <2>3, <2>4, <2>5 DEF FewInv, map
  <1>3. ASSUME NEW t \in Threads, ApiEnter(t) \/ ApiExit(t) \/ flush_cupti_after_sync_api(t)
        PROVE  FewInv'
    <2>1. UNCHANGED <<g_corr_to_ostid_map, failed, pc, g_cupti_enabled>> \/ failed'
      BY <1>3 DEF ApiEnter, ApiExit, flush_cupti_after_sync_api, Cupti, cuptiActivityFlushAll
    <2>2. ASSUME ~failed, pc = "finish_disable" \/ ~g_cupti_enabled PROVE InCallback' = InCallback
      <3>1. thread \in [Threads -> ThreadState]
        BY TypeParts DEF SwitchOK, Plain
      <3>2. CASE ApiEnter(t)
        <4>1. thread[t].at = "out" /\ ~(subscribed /\ domains /\ g_cupti_enabled)
          BY <2>2, <3>2 DEF ApiEnter, SwitchOK, QuietInv
        <4>2. thread' = [thread EXCEPT ![t] = [at |-> "in", call |-> calls + 1, generation |-> 0]]
          BY <3>2, <4>1 DEF ApiEnter
        <4> QED
          BY <3>1, <4>1, <4>2 DEF InCallback
      <3>3. CASE ApiExit(t)
        BY <3>1, <3>3 DEF ApiExit, InCallback
      <3>4. CASE flush_cupti_after_sync_api(t)
        BY <3>4 DEF flush_cupti_after_sync_api, InCallback
      <3> QED
        BY <1>3, <3>2, <3>3, <3>4
    <2> QED
      BY <2>1, <2>2 DEF FewInv
  <1>4. ASSUME UNCHANGED <<g_corr_to_ostid_map, thread>>,
               ~failed' /\ (pc' = "finish_disable" \/ ~g_cupti_enabled')
                 => ~failed /\ (pc = "finish_disable" \/ ~g_cupti_enabled)
        PROVE  FewInv'
    BY <1>4 DEF FewInv, InCallback
  <1>5. CASE initCuptiTracer \/ handle_control_command
    <2>1. /\ UNCHANGED <<g_corr_to_ostid_map, thread, g_cupti_enabled>>
          /\ pc' = "finish_disable" => pc = "finish_disable"
          /\ failed => failed'
      BY <1>5 DEF initCuptiTracer, handle_control_command, cupti_enable_locked,
                  register_activity_callbacks_locked, cupti_disable_locked, Cupti, Free,
                  cuptiActivityFlushAll
    <2> QED
      BY <1>4, <2>1
  <1>6. CASE deinitCuptiTracer \/ stop_control_server \/ accept \/ recv \/ Answer \/ control_thread_main
    <2>1. /\ UNCHANGED <<g_corr_to_ostid_map, thread, g_cupti_enabled, failed>>
          /\ pc' = "finish_disable" => pc = "finish_disable"
      BY <1>6 DEF deinitCuptiTracer, stop_control_server, cupti_disable_locked, accept, recv,
                  Answer, control_thread_main, Serves
    <2> QED
      BY <1>4, <2>1
  <1>7. CASE cuptiSubscribe \/ EnableDomains \/ EnableActivities \/ cupti_flush_locked
               \/ DisableActivities \/ cuptiUnsubscribe \/ BufferFull
    <2>1. /\ UNCHANGED <<g_corr_to_ostid_map, thread, g_cupti_enabled>>
          /\ pc' = "finish_disable" => pc = "finish_disable"
          /\ failed => failed'
      <3>1. CASE cuptiSubscribe
        BY <3>1 DEF cuptiSubscribe, Cupti
      <3>2. CASE EnableDomains
        BY <3>2 DEF EnableDomains, Cupti
      <3>3. CASE EnableActivities
        BY <3>3 DEF EnableActivities, Cupti
      <3>4. CASE cupti_flush_locked
        BY <3>4 DEF cupti_flush_locked, Cupti, Hand, cuptiActivityFlushAll, Free
      <3>5. CASE DisableActivities
        BY <3>5 DEF DisableActivities, Cupti
      <3>6. CASE cuptiUnsubscribe
        BY <3>6 DEF cuptiUnsubscribe, Cupti
      <3>7. CASE BufferFull
        BY <3>7 DEF BufferFull, Cupti, Hand, cuptiActivityFlushAll, Free
      <3> QED
        BY <1>7, <3>1, <3>2, <3>3, <3>4, <3>5, <3>6, <3>7
    <2> QED
      BY <1>4, <2>1
  <1>8. CASE FinishEnable
    <2>1. /\ UNCHANGED <<g_corr_to_ostid_map, thread, failed>>
          /\ pc' # "finish_disable" /\ (g_cupti_enabled => g_cupti_enabled')
      BY <1>8 DEF FinishEnable
    <2> QED
      BY <1>4, <2>1
  <1>9. CASE FinishDisable
    <2>1. UNCHANGED <<g_corr_to_ostid_map, thread, failed>> /\ pc = "finish_disable"
      BY <1>9 DEF FinishDisable
    <2> QED
      BY <1>4, <2>1
  <1>10. CASE UNCHANGED vars
    <2>1. UNCHANGED <<g_corr_to_ostid_map, thread, failed, pc, g_cupti_enabled>>
      BY <1>10 DEF vars
    <2> QED
      BY <1>4, <2>1
  <1>11. CASE CompletionStep
    <2>1. UNCHANGED <<g_corr_to_ostid_map, thread, failed, pc, g_cupti_enabled>>
      BY <1>11, CompletionKeeps
    <2> QED
      BY <1>4, <2>1
  <1> QED
    BY <1>1, <1>2, <1>3, <1>5, <1>6, <1>7, <1>8, <1>9, <1>10, <1>11, Steps DEF ThreadStep

\* However often tracing is switched, the map holds no more entries than there
\* are threads while tracing is off.
THEOREM MapStaysSmall == Spec => []FewLeftBehind
  <1>1. Init => FewInv
    <2> SUFFICES ASSUME Init PROVE FewInv
      OBVIOUS
    <2>1. InCallback = {} /\ g_corr_to_ostid_map = {}
      BY DEF Init, InCallback
    <2>2. Cardinality(Threads) \in Nat
      BY ConstantsAssumption, FS_CardinalityType
    <2> QED
      BY <2>1, <2>2, FS_EmptySet DEF FewInv
  <1>2. SwitchOK /\ FewInv /\ [Next]_vars => FewInv'
    BY FewNext
  <1>3. SwitchOK /\ FewInv => FewLeftBehind
    <2> SUFFICES ASSUME SwitchOK, FewInv PROVE FewLeftBehind
      OBVIOUS
    <2>1. /\ Cardinality(Threads) \in Nat /\ Cardinality(InCallback) \in Nat
          /\ Cardinality(g_corr_to_ostid_map) \in Nat
      BY FiniteParts, FS_CardinalityType
    <2> QED
      BY <2>1 DEF FewInv, FewLeftBehind
  <1> QED
    BY <1>1, <1>2, <1>3, SwitchOKInv, PTL DEF Spec

=============================================================================
