----------------------- MODULE TargetDiscoveryProofs ------------------------
(***************************************************************************)
(* Proofs about TargetDiscovery, for any sets of threads and any size of   *)
(* the map, whether writes of the file fail or not.                        *)
(***************************************************************************)
EXTENDS TargetDiscovery, FiniteSetTheorems, TLAPS

USE DEF traced, writer, scanner

\* The two parts of TypeOK: what is true or false, and the rest.
Flags == write_failed \in BOOLEAN /\ uncleared \in BOOLEAN /\ monitor \in BOOLEAN

Plain ==
  /\ on \in SUBSET Threads
  /\ switches \in 0 .. MaxSwitches
  /\ announced \in SUBSET Threads
  /\ sending \in SUBSET Threads
  /\ departed \in SUBSET Workers
  /\ inflight \in SUBSET Threads
  /\ collector \in {"start", "recv", "persist", "write"}
  /\ known \in SUBSET Threads
  /\ target_file \in SUBSET (Threads \cup Strangers)
  /\ starts \in 0 .. MaxStarts
  /\ target_tid_map \in SUBSET (Threads \cup Strangers)
  /\ Cardinality(target_tid_map) <= Entries

\* Zenon deals with the flags, SMT with the rest.
LEMMA TypeParts == TypeOK <=> Flags /\ Plain
  BY Zenon DEF TypeOK, Flags, Plain

\* A scan keeps what the map holds, adds only what the file names, and respects
\* the map's size.
LEMMA ScanEffect ==
  ASSUME NEW map, NEW new \in Scan(map)
  PROVE  /\ map \subseteq new /\ new \subseteq map \cup target_file
         /\ Cardinality(new) <= Entries
  BY DEF Scan, Accepted

\* The initial states have the right type.
LEMMA TypeInit == Init => TypeOK
  <1> SUFFICES ASSUME Init PROVE TypeOK
    OBVIOUS
  <1>1. Flags
    BY Zenon DEF Init, Flags
  <1>2. Cardinality(target_tid_map) <= Entries
    BY FS_EmptySet, ConstantsAssumption DEF Init
  <1>3. Plain
    BY <1>2, ConstantsAssumption DEF Init, Plain
  <1> QED
    BY <1>1, <1>3, TypeParts

\* Every step keeps the flags.
LEMMA FlagsNext ==
  ASSUME Flags, [Next]_vars
  PROVE  Flags'
  BY Zenon DEF Flags, Next, vars, set_enabled, emit_thread_role, emit_worker_process_ready, Announce,
     send_event, handle_frames, TraceSender_emit, Depart, clear_target_file, open_target_file,
     persist_target_file, StartMonitor, auto_scan_worker_pid_file, StopMonitor

\* And the types of the other variables.
LEMMA PlainNext ==
  ASSUME Plain, [Next]_vars
  PROVE  Plain'
  <1> USE DEF Plain
  <1>0. MaxSwitches \in Nat /\ MaxStarts \in Nat /\ Entries \in Nat
    BY ConstantsAssumption
  <1>1. ASSUME NEW t \in Threads, set_enabled(t) PROVE Plain'
    BY <1>0, <1>1 DEF set_enabled
  <1>2. ASSUME NEW t \in Threads, Announce(t) PROVE Plain'
    BY <1>2 DEF Announce
  <1>3. ASSUME NEW t \in Threads, send_event(t) PROVE Plain'
    BY <1>3 DEF send_event, Send
  <1>4. ASSUME NEW t \in Threads, handle_frames(t) PROVE Plain'
    BY <1>4 DEF handle_frames
  <1>5. ASSUME NEW w \in Workers, TraceSender_emit(w) PROVE Plain'
    BY <1>5 DEF TraceSender_emit, Send, Threads
  <1>6. ASSUME NEW w \in Workers, Depart(w) PROVE Plain'
    BY <1>6 DEF Depart
  <1>7. CASE clear_target_file
    BY <1>7 DEF clear_target_file
  <1>8. CASE open_target_file
    BY <1>8 DEF open_target_file
  <1>9. CASE persist_target_file
    BY <1>9 DEF persist_target_file
  <1>10. CASE StartMonitor
    BY <1>0, <1>10, ScanEffect DEF StartMonitor
  <1>11. CASE auto_scan_worker_pid_file
    BY <1>11, ScanEffect DEF auto_scan_worker_pid_file
  <1>12. CASE StopMonitor
    BY <1>0, <1>12, FS_EmptySet DEF StopMonitor
  <1>13. CASE UNCHANGED vars
    BY <1>13 DEF vars
  <1> QED
    BY <1>1, <1>2, <1>3, <1>4, <1>5, <1>6, <1>7, <1>8, <1>9, <1>10, <1>11, <1>12, <1>13
       DEF Next, emit_thread_role, emit_worker_process_ready

\* The type invariant.
THEOREM TypeCorrect == Spec => []TypeOK
  <1>1. TypeOK /\ [Next]_vars => TypeOK'
    <2>1. (Flags /\ Plain)' => TypeOK'
      BY Zenon DEF TypeOK, Flags, Plain
    <2> QED
      BY <2>1, FlagsNext, PlainNext, TypeParts
  <1> QED
    BY <1>1, TypeInit, PTL DEF Spec

-----------------------------------------------------------------------------
(* The file. *)

\* Before the file is cleared nobody is known and nothing is watched; then it
\* names no stranger, and between two messages every known thread.
FileInv ==
  /\ collector = "start" => known = {} /\ ~monitor /\ target_tid_map = {}
  /\ collector # "start" /\ target_file \cap Strangers # {} => uncleared
  /\ target_tid_map \cap Strangers # {} => uncleared
  /\ collector = "recv" /\ ~write_failed => target_file = known

\* Every step keeps it.
LEMMA FileNext ==
  ASSUME Plain, FileInv, [Next]_vars
  PROVE  FileInv'
  <1> USE DEF FileInv
  <1>0. known \cap Strangers = {}
    BY ConstantsAssumption DEF Plain
  <1>1. ASSUME NEW t \in Threads, set_enabled(t) \/ Announce(t) \/ send_event(t) PROVE FileInv'
    BY <1>1 DEF set_enabled, Announce, send_event
  <1>2. ASSUME NEW t \in Threads, handle_frames(t) PROVE FileInv'
    BY <1>2 DEF handle_frames
  <1>3. ASSUME NEW w \in Workers, TraceSender_emit(w) \/ Depart(w) PROVE FileInv'
    BY <1>3 DEF TraceSender_emit, Depart
  <1>4. CASE clear_target_file
    BY <1>4 DEF clear_target_file
  <1>5. CASE open_target_file
    BY <1>5 DEF open_target_file
  <1>6. CASE persist_target_file
    BY <1>0, <1>6 DEF persist_target_file
  <1>7. CASE StartMonitor
    BY <1>7, ScanEffect DEF StartMonitor
  <1>8. CASE auto_scan_worker_pid_file
    BY <1>8, ScanEffect DEF auto_scan_worker_pid_file
  <1>9. CASE StopMonitor
    BY <1>9 DEF StopMonitor
  <1>10. CASE UNCHANGED vars
    BY <1>10 DEF vars
  <1> QED
    BY <1>1, <1>2, <1>3, <1>4, <1>5, <1>6, <1>7, <1>8, <1>9, <1>10
       DEF Next, emit_thread_role, emit_worker_process_ready

\* It is an invariant.
LEMMA FileInvariant == Spec => []FileInv
  <1>1. Init => FileInv
    BY DEF Init, FileInv
  <1>2. TypeOK /\ FileInv /\ [Next]_vars => FileInv'
    BY FileNext, TypeParts
  <1> QED
    BY <1>1, <1>2, TypeCorrect, PTL DEF Spec

\* No thread of a previous session is watched, unless clearing the file failed.
THEOREM StrangersUnwatched == Spec => []NoStranger
  <1>1. FileInv => NoStranger
    BY DEF FileInv, NoStranger
  <1> QED
    BY <1>1, FileInvariant, PTL

\* Between two messages the file names every known thread, unless the last
\* write failed.
THEOREM FileNamesAll == Spec => []FileIsComplete
  <1>1. FileInv => FileIsComplete
    BY DEF FileInv, FileIsComplete
  <1> QED
    BY <1>1, FileInvariant, PTL

=============================================================================
