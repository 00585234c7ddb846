------------------------ MODULE DispatchTraceProofs ------------------------
(***************************************************************************)
(* Proofs about DispatchTrace, for any requests, depth of the pipeline,    *)
(* steps and losses: what log_to_trace.py finds in the log is what the     *)
(* engine did.                                                             *)
(*                                                                         *)
(* The argument compares the list of open starts that log_to_trace keeps   *)
(* for a request with the batches of the engine that hold it.  OrderInv    *)
(* says in which order batches are formed and come back.  With the starts  *)
(* of a request all there (StartsInv) no two in its list have one key, so  *)
(* a ready event can only end its own start; ready events that were lost   *)
(* leave a start behind and nothing worse.  With all its events there      *)
(* (ExactInv) the list is the batches under way, in their order, and the   *)
(* dispatches are those that are over.  What the waits are then follows    *)
(* from the order alone.                                                   *)
(*                                                                         *)
(* Paired is a recursive function over the log; PairedMore, by induction   *)
(* over the length of the log, says what one more event does to it.        *)
(***************************************************************************)
EXTENDS DispatchTrace, SequenceTheorems, WellFoundedInduction, TLAPS

-----------------------------------------------------------------------------
(* Numbers and sequences. *)

\* A set of numbers that is not empty has a least one.
LEMMA LeastExists ==
  ASSUME NEW T, T \subseteq Nat, T # {}
  PROVE  \E x \in T : \A y \in T : x <= y
  <1> DEFINE R == OpToRel(<, Nat)
  <1>1. IsWellFoundedOn(R, Nat)
    BY NatLessThanWellFounded
  <1>2. \A x, y \in Nat : y < x => <<y, x>> \in R
    BY DEF OpToRel
  <1> HIDE DEF R
  <1>3. PICK x \in T : \A y \in T : ~ (<<y, x>> \in R)
    BY <1>1, WFMin
  <1>4. \A y \in T : ~ (y < x)
    BY <1>2, <1>3
  <1> QED
    BY <1>4

\* One that is bounded has a greatest one.
LEMMA GreatestExists ==
  ASSUME NEW T, T \subseteq Nat, T # {}, NEW m \in Nat, \A y \in T : y <= m
  PROVE  \E x \in T : \A y \in T : y <= x
  <1> DEFINE U == {m - y : y \in T}
  <1>1. U \subseteq Nat /\ U # {}
    <2>1. \A y \in T : m - y \in Nat
      OBVIOUS
    <2> QED
      BY <2>1
  <1> HIDE DEF U
  <1>2. PICK u \in U : \A v \in U : u <= v
    BY <1>1, LeastExists
  <1>3. PICK x \in T : u = m - x
    BY <1>2 DEF U
  <1>4. ASSUME NEW y \in T PROVE y <= x
    <2>1. m - x <= m - y
      BY <1>2, <1>3 DEF U
    <2> QED
      BY <2>1
  <1> QED
    BY <1>4

\* A set that holds 0, and with each number the next one, holds all numbers.
LEMMA SetInduction ==
  ASSUME NEW S, 0 \in S, \A n \in Nat : n \in S => n + 1 \in S
  PROVE  Nat \subseteq S
  <1> DEFINE T == Nat \ S
  <1> SUFFICES ASSUME T # {} PROVE FALSE
    OBVIOUS
  <1>1. PICK x \in T : \A y \in T : x <= y
    BY LeastExists
  <1>2. x \in Nat /\ x # 0 /\ x \notin S
    OBVIOUS
  <1>3. x - 1 \in Nat /\ ~ (x <= x - 1) /\ x - 1 + 1 = x
    BY <1>2
  <1>4. x - 1 \in S
    BY <1>1, <1>3
  <1> QED
    BY <1>2, <1>3, <1>4

\* What a sequence is after one is appended.
LEMMA AppendIs ==
  ASSUME NEW S, NEW s \in Seq(S), NEW e \in S
  PROVE  /\ Append(s, e) \in Seq(S) /\ Len(Append(s, e)) = Len(s) + 1 /\ Len(s) \in Nat
         /\ DOMAIN s = 1 .. Len(s) /\ DOMAIN Append(s, e) = 1 .. Len(s) + 1
         /\ \A i \in 1 .. Len(s) : Append(s, e)[i] = s[i]
         /\ Append(s, e)[Len(s) + 1] = e
  BY AppendProperties, LenProperties

\* What it holds then.
LEMMA AppendRange ==
  ASSUME NEW S, NEW s \in Seq(S), NEW e \in S
  PROVE  Range(Append(s, e)) = Range(s) \cup {e}
  <1> DEFINE more == Append(s, e)
  <1>1. /\ Len(s) \in Nat /\ DOMAIN s = 1 .. Len(s) /\ DOMAIN more = 1 .. Len(s) + 1
        /\ \A i \in 1 .. Len(s) : more[i] = s[i]
        /\ more[Len(s) + 1] = e
    BY AppendIs
  <1> HIDE DEF more
  <1>2. \A i \in DOMAIN more : more[i] = e \/ (i \in DOMAIN s /\ more[i] = s[i])
    BY <1>1
  <1>3. \A i \in DOMAIN s : i \in DOMAIN more /\ more[i] = s[i]
    BY <1>1
  <1>4. Len(s) + 1 \in DOMAIN more
    BY <1>1
  <1>5. Range(more) = Range(s) \cup {e}
    BY <1>1, <1>2, <1>3, <1>4 DEF Range
  <1> QED
    BY <1>5 DEF more

\* The elements of a sequence move up when the first is taken.
LEMMA TailIs ==
  ASSUME NEW S, NEW s \in Seq(S), s # <<>>
  PROVE  /\ Tail(s) \in Seq(S) /\ Head(s) \in S /\ Head(s) = s[1] /\ 1 \in DOMAIN s
         /\ Len(s) \in Nat \ {0} /\ DOMAIN s = 1 .. Len(s) /\ DOMAIN Tail(s) = 1 .. Len(s) - 1
         /\ \A i \in 1 .. Len(s) - 1 : Tail(s)[i] = s[i + 1]
  <1>1. Tail(s) \in Seq(S) /\ Head(s) \in S /\ Head(s) = s[1] /\ Len(Tail(s)) = Len(s) - 1
    BY HeadTailProperties
  <1>2. Len(s) \in Nat \ {0} /\ DOMAIN s = 1 .. Len(s)
    BY EmptySeq, LenProperties
  <1>3. DOMAIN Tail(s) = 1 .. Len(s) - 1
    BY <1>1, LenProperties
  <1>4. \A i \in 1 .. Len(Tail(s)) : Tail(s)[i] = s[i + 1]
    BY HeadTailProperties
  <1> QED
    BY <1>1, <1>2, <1>3, <1>4

\* Those after the one removed move up.
LEMMA RemoveIs ==
  ASSUME NEW S, NEW s \in Seq(S), NEW i \in DOMAIN s
  PROVE  /\ RemoveAt(s, i) \in Seq(S)
         /\ DOMAIN RemoveAt(s, i) = 1 .. Len(s) - 1
         /\ \A k \in 1 .. Len(s) - 1 : RemoveAt(s, i)[k] = IF k < i THEN s[k] ELSE s[k + 1]
  <1>1. Len(s) \in Nat /\ DOMAIN s = 1 .. Len(s) /\ i \in 1 .. Len(s) /\ \A k \in 1 .. Len(s) : s[k] \in S
    BY LenProperties, ElementOfSeq
  <1> DEFINE a == SubSeq(s, 1, i - 1)
             b == SubSeq(s, i + 1, Len(s))
  <1>2. /\ a \in Seq(S) /\ Len(a) = i - 1 /\ \A k \in 1 .. i - 1 : a[k] = s[k]
    <2>1. 1 \in Nat /\ i - 1 \in Nat /\ \A k \in 1 .. i - 1 : s[k] \in S
      BY <1>1
    <2>2. /\ a \in Seq(S) /\ Len(a) = (IF 1 <= i - 1 THEN i - 1 - 1 + 1 ELSE 0)
          /\ \A k \in 1 .. i - 1 - 1 + 1 : a[k] = s[1 + k - 1]
      BY <1>1, <2>1, SubSeqProperties
    <2>3. \A k \in 1 .. i - 1 : a[k] = s[k]
      <3>1. ASSUME NEW k \in 1 .. i - 1 PROVE k \in 1 .. i - 1 - 1 + 1 /\ 1 + k - 1 = k
        BY <1>1
      <3> QED
        BY <2>2, <3>1
    <2>4. Len(a) = i - 1
      BY <1>1, <2>2
    <2> QED
      BY <2>2, <2>3, <2>4
  <1>3. /\ b \in Seq(S) /\ Len(b) = Len(s) - i /\ \A k \in 1 .. Len(s) - i : b[k] = s[i + k]
    <2>1. i + 1 \in Nat /\ Len(s) \in Nat /\ \A k \in i + 1 .. Len(s) : s[k] \in S
      BY <1>1
    <2>2. /\ b \in Seq(S) /\ Len(b) = (IF i + 1 <= Len(s) THEN Len(s) - (i + 1) + 1 ELSE 0)
          /\ \A k \in 1 .. Len(s) - (i + 1) + 1 : b[k] = s[i + 1 + k - 1]
      BY <1>1, <2>1, SubSeqProperties
    <2>3. ASSUME NEW k \in 1 .. Len(s) - i PROVE b[k] = s[i + k]
      <3>1. k \in 1 .. Len(s) - (i + 1) + 1 /\ i + 1 + k - 1 = i + k
        BY <1>1
      <3> QED
        BY <2>2, <3>1
    <2>4. Len(b) = Len(s) - i
      BY <1>1, <2>2
    <2> QED
      BY <2>2, <2>3, <2>4
  <1> HIDE DEF a, b
  <1>4. /\ a \o b \in Seq(S) /\ Len(a \o b) = Len(a) + Len(b)
        /\ \A k \in 1 .. Len(a) + Len(b) : (a \o b)[k] = IF k <= Len(a) THEN a[k] ELSE b[k - Len(a)]
    BY <1>2, <1>3, ConcatProperties
  <1>5. DOMAIN (a \o b) = 1 .. Len(s) - 1
    <2>1. Len(a) + Len(b) = Len(s) - 1
      BY <1>1, <1>2, <1>3
    <2> QED
      BY <1>4, <2>1, LenProperties
  <1>6. ASSUME NEW k \in 1 .. Len(s) - 1
        PROVE  (a \o b)[k] = IF k < i THEN s[k] ELSE s[k + 1]
    <2>1. k \in 1 .. Len(a) + Len(b)
      BY <1>1, <1>2, <1>3
    <2>2. CASE k < i
      <3>1. k \in 1 .. i - 1 /\ k <= Len(a)
        BY <1>1, <1>2, <2>2
      <3> QED
        BY <1>2, <1>4, <2>1, <2>2, <3>1
    <2>3. CASE ~ (k < i)
      <3>1. k - (i - 1) \in 1 .. Len(s) - i /\ ~ (k <= Len(a)) /\ i + (k - (i - 1)) = k + 1
        BY <1>1, <1>2, <2>3
      <3>2. (a \o b)[k] = b[k - Len(a)]
        BY <1>4, <2>1, <3>1
      <3>3. b[k - (i - 1)] = s[k + 1]
        BY <1>3, <3>1
      <3> QED
        BY <1>2, <2>3, <3>2, <3>3
    <2> QED
      BY <2>2, <2>3
  <1>7. RemoveAt(s, i) = a \o b
    BY DEF RemoveAt, a, b
  <1> QED
    BY <1>4, <1>5, <1>6, <1>7

-----------------------------------------------------------------------------
(* The pairing of starts and ends. *)

\* One event of the recursion in Paired.
PairedStep(after, events, r, n) ==
  IF n = 0 THEN [starts |-> <<>>, dispatches |-> {}]
  ELSE IF r \in events[n].reqs THEN Pair(after[n - 1], events[n]) ELSE after[n - 1]

\* The recursion of Paired has a solution, so Paired is what it says.
LEMMA PairedDefined ==
  ASSUME NEW r, NEW events, Len(events) \in Nat
  PROVE  \E f : /\ f = [n \in 0 .. Len(events) |-> PairedStep(f, events, r, n)]
                /\ Paired(events, r) = f[Len(events)]
  <1> DEFINE G(f, m) == f = [n \in 0 .. m |-> PairedStep(f, events, r, n)]
             S == {m \in Nat : \E f : G(f, m)}
  <1>2. 0 \in S
    <2> DEFINE f == [n \in 0 .. 0 |-> [starts |-> <<>>, dispatches |-> {}]]
    <2>1. G(f, 0)
      BY DEF PairedStep
    <2> HIDE DEF f, G
    <2> QED
      BY <2>1
  <1>3. ASSUME NEW m \in Nat, m \in S PROVE m + 1 \in S
    <2>1. PICK f : G(f, m)
      BY <1>3
    <2> DEFINE g == [n \in 0 .. m + 1 |-> IF n = m + 1 THEN PairedStep(f, events, r, n) ELSE f[n]]
    <2>2. \A n \in 0 .. m + 1 : PairedStep(g, events, r, n) = PairedStep(f, events, r, n)
      BY DEF PairedStep
    <2>3. \A n \in 0 .. m + 1 : g[n] = PairedStep(g, events, r, n)
      BY <2>1, <2>2
    <2>4. G(g, m + 1)
      BY <2>3
    <2> HIDE DEF g, G
    <2> QED
      BY <2>4
  <1> HIDE DEF S
  <1>4. Len(events) \in S
    BY <1>2, <1>3, SetInduction
  <1> DEFINE H(f) == f = [n \in 0 .. Len(events) |-> PairedStep(f, events, r, n)]
  <1>5. Paired(events, r) = (CHOOSE f : H(f))[Len(events)]
    BY DEF Paired, PairedStep
  <1>6. \E f : H(f)
    BY <1>4 DEF S
  <1> HIDE DEF H
  <1> DEFINE f == CHOOSE f : H(f)
  <1>7. H(f)
    BY <1>6
  <1> HIDE DEF f
  <1> QED
    BY <1>5, <1>7 DEF H, f

\* With no event there is nothing.
LEMMA PairedNone ==
  ASSUME NEW r
  PROVE  Paired(<<>>, r) = [starts |-> <<>>, dispatches |-> {}]
  <1>1. Len(<<>>) = 0
    BY EmptySeq
  <1>2. PICK f : f = [n \in 0 .. 0 |-> PairedStep(f, <<>>, r, n)] /\ Paired(<<>>, r) = f[0]
    BY <1>1, PairedDefined
  <1> QED
    BY <1>2 DEF PairedStep

\* One more event is one more step.
LEMMA PairedMore ==
  ASSUME NEW r, NEW S, NEW events \in Seq(S), NEW event \in S
  PROVE  Paired(Append(events, event), r)
           = IF r \in event.reqs THEN Pair(Paired(events, r), event) ELSE Paired(events, r)
  <1> DEFINE more == Append(events, event)
             n == Len(events)
  <1>1. n \in Nat /\ Len(more) = n + 1 /\ (\A i \in 1 .. n : more[i] = events[i]) /\ more[n + 1] = event
    BY AppendIs
  <1> HIDE DEF more, n
  <1>2. PICK f : f = [k \in 0 .. n |-> PairedStep(f, events, r, k)] /\ Paired(events, r) = f[n]
    BY <1>1, PairedDefined DEF n
  <1>3. PICK g : g = [k \in 0 .. n + 1 |-> PairedStep(g, more, r, k)] /\ Paired(more, r) = g[n + 1]
    BY <1>1, PairedDefined
  <1>a. /\ \A k \in 0 .. n : f[k] = PairedStep(f, events, r, k)
        /\ \A k \in 0 .. n + 1 : g[k] = PairedStep(g, more, r, k)
    <2>1. \A k \in 0 .. n : f[k] = PairedStep(f, events, r, k)
      <3> DEFINE e(k) == PairedStep(f, events, r, k)
      <3>1. f = [k \in 0 .. n |-> e(k)]
        BY <1>2
      <3> HIDE DEF e
      <3>2. \A k \in 0 .. n : f[k] = e(k)
        BY <3>1
      <3> QED
        BY <3>2 DEF e
    <2>2. \A k \in 0 .. n + 1 : g[k] = PairedStep(g, more, r, k)
      <3> DEFINE e(k) == PairedStep(g, more, r, k)
      <3>1. g = [k \in 0 .. n + 1 |-> e(k)]
        BY <1>3
      <3> HIDE DEF e
      <3>2. \A k \in 0 .. n + 1 : g[k] = e(k)
        BY <3>1
      <3> QED
        BY <3>2 DEF e
    <2> QED
      BY <2>1, <2>2
  <1> DEFINE T == {m \in Nat : m <= n => g[m] = f[m]}
  <1>4. 0 \in T
    BY <1>1, <1>2, <1>3 DEF PairedStep
  <1>5. ASSUME NEW m \in Nat, m \in T PROVE m + 1 \in T
    <2> SUFFICES ASSUME m + 1 <= n PROVE g[m + 1] = f[m + 1]
      OBVIOUS
    <2>1. g[m] = f[m] /\ more[m + 1] = events[m + 1]
      BY <1>1, <1>5
    <2>2. g[m + 1] = PairedStep(g, more, r, m + 1) /\ f[m + 1] = PairedStep(f, events, r, m + 1)
      BY <1>1, <1>a
    <2>3. m + 1 # 0 /\ m + 1 - 1 = m
      OBVIOUS
    <2> QED
      BY <2>1, <2>2, <2>3 DEF PairedStep
  <1> HIDE DEF T
  <1>6. n \in T
    BY <1>1, <1>4, <1>5, SetInduction
  <1>7. g[n] = f[n]
    BY <1>1, <1>6 DEF T
  <1>8. g[n + 1] = PairedStep(g, more, r, n + 1) /\ n + 1 # 0 /\ n + 1 - 1 = n
    BY <1>1, <1>a
  <1> QED
    BY <1>1, <1>2, <1>3, <1>7, <1>8 DEF PairedStep, more

-----------------------------------------------------------------------------
(* Types. *)

Keys == UNION {[reqs -> Nat] : reqs \in SUBSET Requests}
Batch == {b \in [reqs : SUBSET Requests, start : Nat, key : Keys] : b.key \in [b.reqs -> Nat]}
Event == {e \in [type : {"req_enqueue_scheduler", "req_scheduler_out_rpc", "req_step_ready"},
                 ts : Nat, reqs : SUBSET Requests, key : Keys \cup {None}] :
            e.type # "req_enqueue_scheduler" => e.key \in Keys}
Start == [start : Nat, key : Keys]
Found == [starts : Seq(Start), dispatches : SUBSET [start : Nat, end : Nat]]

Shapes ==
  /\ clock \in Times
  /\ enqueued \in [Requests -> Times \cup {None}]
  /\ computed \in [Requests -> Nat]
  /\ under_way \in Seq(Batch)
  /\ log \in Seq(Event)
  /\ done \subseteq [reqs : SUBSET Requests, start : Nat, end : Nat]
  /\ \A r \in Requests : Paired(log, r) \in Found

\* Times are numbers, and None is not one of them.
LEMMA TimesAre == /\ MaxSteps \in Nat /\ Times = 0 .. MaxSteps /\ Times \subseteq Nat /\ None \notin Times
  BY ConstantsAssumption DEF Times

\* Which start a ready event ends: one with its key if there is one, and the
\* oldest if it has the key.
LEMMA PopIs ==
  ASSUME NEW starts \in Seq(Start), starts # <<>>, NEW key
  PROVE  LET i == pop_dispatch_start_for_ready(starts, key) IN
         /\ i \in DOMAIN starts
         /\ (\E j \in DOMAIN starts : starts[j].key = key) => starts[i].key = key
         /\ starts[1].key = key => i = 1
  <1> DEFINE same == {i \in DOMAIN starts : starts[i].key = key}
             i == pop_dispatch_start_for_ready(starts, key)
  <1>1. 1 \in DOMAIN starts /\ DOMAIN starts = 1 .. Len(starts) /\ Len(starts) \in Nat
    BY TailIs
  <1>2. i = IF same # {} THEN Min(same) ELSE 1
    BY DEF pop_dispatch_start_for_ready
  <1> HIDE DEF i
  <1>3. CASE same = {}
    BY <1>1, <1>2, <1>3 DEF i
  <1>4. CASE same # {}
    <2>1. same \subseteq Nat
      BY <1>1
    <2> HIDE DEF same
    <2>2. \E x \in same : \A y \in same : x <= y
      BY <1>4, <2>1, LeastExists
    <2>3. Min(same) \in same /\ \A y \in same : Min(same) <= y
      BY <2>2 DEF Min
    <2>4. i \in same /\ \A y \in same : i <= y
      BY <1>2, <1>4, <2>3
    <2>5. i \in DOMAIN starts /\ starts[i].key = key
      BY <2>4 DEF same
    <2>6. starts[1].key = key => i = 1
      <3> SUFFICES ASSUME starts[1].key = key PROVE i = 1
        OBVIOUS
      <3>1. 1 \in same
        BY <1>1 DEF same
      <3>2. i <= 1 /\ i \in Nat /\ 1 <= i
        BY <1>1, <2>4, <2>5, <3>1
      <3> QED
        BY <3>2
    <2> QED
      BY <2>5, <2>6 DEF i
  <1> QED
    BY <1>3, <1>4

\* A start is added.
LEMMA PairStart ==
  ASSUME NEW found \in Found, NEW event \in Event, event.type = "req_scheduler_out_rpc"
  PROVE  LET start == [start |-> event.ts, key |-> event.key] IN
         /\ Pair(found, event).starts = Append(found.starts, start)
         /\ Pair(found, event).dispatches = found.dispatches
         /\ start \in Start /\ Pair(found, event) \in Found
  <1> DEFINE start == [start |-> event.ts, key |-> event.key]
  <1>1. start \in Start
    BY DEF Event, Start
  <1>2. Pair(found, event) = [starts |-> Append(found.starts, start), dispatches |-> found.dispatches]
    BY DEF Pair
  <1>3. found.starts \in Seq(Start) /\ found.dispatches \in SUBSET [start : Nat, end : Nat]
    BY DEF Found
  <1> HIDE DEF start
  <1>4. Append(found.starts, start) \in Seq(Start)
    BY <1>1, <1>3, AppendIs
  <1> QED
    BY <1>1, <1>2, <1>3, <1>4 DEF Found, start

\* A start is removed, and is a dispatch with the end.
LEMMA PairReady ==
  ASSUME NEW found \in Found, NEW event \in Event, event.type = "req_step_ready", found.starts # <<>>
  PROVE  LET i == pop_dispatch_start_for_ready(found.starts, event.key) IN
         /\ Pair(found, event).starts = RemoveAt(found.starts, i)
         /\ Pair(found, event).dispatches
              = found.dispatches \cup {[start |-> found.starts[i].start, end |-> event.ts]}
         /\ Pair(found, event) \in Found
  <1> DEFINE i == pop_dispatch_start_for_ready(found.starts, event.key)
             dispatch == [start |-> found.starts[i].start, end |-> event.ts]
  <1>1. Pair(found, event)
          = [starts |-> RemoveAt(found.starts, i), dispatches |-> found.dispatches \cup {dispatch}]
    BY DEF Pair
  <1>2. found.starts \in Seq(Start) /\ found.dispatches \in SUBSET [start : Nat, end : Nat]
    BY DEF Found
  <1>3. i \in DOMAIN found.starts
    BY <1>2, PopIs
  <1> HIDE DEF i
  <1>4. RemoveAt(found.starts, i) \in Seq(Start)
    BY <1>2, <1>3, RemoveIs
  <1>5. found.starts[i] \in Start
    BY <1>2, <1>3, LenProperties, ElementOfSeq
  <1>6. dispatch \in [start : Nat, end : Nat]
    BY <1>5 DEF Start, Event
  <1> HIDE DEF dispatch
  <1> QED
    BY <1>1, <1>2, <1>4, <1>6 DEF Found, i, dispatch

\* Any other event changes nothing.
LEMMA PairOther ==
  ASSUME NEW found, NEW event,
         event.type = "req_enqueue_scheduler" \/ (event.type = "req_step_ready" /\ found.starts = <<>>)
  PROVE  Pair(found, event) = found
  BY DEF Pair

\* Every event leads from what was found to what is found.
LEMMA PairFound ==
  ASSUME NEW found \in Found, NEW event \in Event
  PROVE  Pair(found, event) \in Found
  <1>1. event.type \in {"req_enqueue_scheduler", "req_scheduler_out_rpc", "req_step_ready"}
    BY DEF Event
  <1> QED
    BY <1>1, PairStart, PairReady, PairOther

\* An event arrives, and is paired, or is lost.
LEMMA EmitDoes ==
  ASSUME Shapes, NEW event \in Event, Emit(event), NEW r \in Requests
  PROVE  \/ /\ log' \in Seq(Event) /\ lost' = lost /\ Range(log') = Range(log) \cup {event}
            /\ Paired(log', r) \in Found
            /\ Paired(log', r) = IF r \in event.reqs THEN Pair(Paired(log, r), event) ELSE Paired(log, r)
         \/ /\ log' = log /\ lost' = lost \cup {event}
  <1>1. log \in Seq(Event) /\ Paired(log, r) \in Found
    BY DEF Shapes
  <1>2. CASE log' = Append(log, event) /\ lost' = lost
    <2>1. log' \in Seq(Event)
      BY <1>1, <1>2, AppendIs
    <2>2. Range(log') = Range(log) \cup {event}
      BY <1>1, <1>2, AppendRange
    <2>3. Paired(log', r) = IF r \in event.reqs THEN Pair(Paired(log, r), event) ELSE Paired(log, r)
      BY <1>1, <1>2, PairedMore
    <2>4. Paired(log', r) \in Found
      BY <1>1, <2>3, PairFound
    <2> QED
      BY <1>2, <2>1, <2>2, <2>3, <2>4
  <1> QED
    BY <1>2 DEF Emit

\* A key is of the batch it was made for.
LEMMA KeyIs ==
  ASSUME Shapes, NEW reqs \in SUBSET Requests
  PROVE  /\ make_dispatch_key(reqs) \in [reqs -> Nat] /\ make_dispatch_key(reqs) \in Keys
         /\ \A r \in reqs : make_dispatch_key(reqs)[r] = computed[r]
  <1>1. \A r \in reqs : computed[r] \in Nat
    BY DEF Shapes
  <1>2. make_dispatch_key(reqs) \in [reqs -> Nat] /\ \A r \in reqs : make_dispatch_key(reqs)[r] = computed[r]
    BY <1>1 DEF make_dispatch_key
  <1> QED
    BY <1>2 DEF Keys

\* The event of Scheduler.add_request.
LEMMA EnqueueEvent ==
  ASSUME Shapes, NEW r \in Requests
  PROVE  [type |-> "req_enqueue_scheduler", ts |-> clock, reqs |-> {r}, key |-> None] \in Event
  BY TimesAre DEF Shapes, Event

\* The event of Executor.execute_model.
LEMMA StartEvent ==
  ASSUME Shapes, NEW reqs \in SUBSET Requests
  PROVE  [type |-> "req_scheduler_out_rpc", ts |-> clock, reqs |-> reqs, key |-> make_dispatch_key(reqs)] \in Event
  BY TimesAre, KeyIs DEF Shapes, Event

\* The event of Scheduler.update_from_output, of the oldest batch.
LEMMA ReadyEvent ==
  ASSUME Shapes, under_way # <<>>
  PROVE  /\ Head(under_way) \in Batch /\ Head(under_way) = under_way[1]
         /\ [type |-> "req_step_ready", ts |-> clock, reqs |-> Head(under_way).reqs, key |-> Head(under_way).key] \in Event
  <1>1. Head(under_way) \in Batch /\ Head(under_way) = under_way[1]
    BY TailIs DEF Shapes
  <1> QED
    BY <1>1, TimesAre DEF Shapes, Event, Batch

\* Every step keeps the types.
LEMMA ShapesNext ==
  ASSUME Shapes, [Next]_vars
  PROVE  Shapes'
  <1>a. ASSUME NEW event \in Event, Emit(event)
        PROVE  log' \in Seq(Event) /\ \A r \in Requests : Paired(log', r) \in Found
    <2>1. CASE log' = log
      BY <2>1 DEF Shapes
    <2>2. CASE log' = Append(log, event)
      <3>1. log' \in Seq(Event)
        BY <2>2, AppendIs DEF Shapes
      <3>2. ASSUME NEW r \in Requests PROVE Paired(log', r) \in Found
        <4>1. Paired(log', r) = IF r \in event.reqs THEN Pair(Paired(log, r), event) ELSE Paired(log, r)
          BY <2>2, PairedMore DEF Shapes
        <4>2. Paired(log, r) \in Found
          BY DEF Shapes
        <4> QED
          BY <4>1, <4>2, PairFound
      <3> QED
        BY <3>1, <3>2
    <2> QED
      BY <1>a, <2>1, <2>2 DEF Emit
  <1>b. ASSUME Tick PROVE clock' \in Times /\ clock' = clock + 1
    BY <1>b, TimesAre DEF Tick, Shapes
  <1>c. clock \in Nat
    BY TimesAre DEF Shapes
  <1>1. ASSUME NEW r \in Requests, add_request(r) PROVE Shapes'
    <2>1. enqueued' \in [Requests -> Times \cup {None}]
      BY <1>1 DEF Shapes, add_request
    <2>2. log' \in Seq(Event) /\ \A q \in Requests : Paired(log', q) \in Found
      BY <1>1, <1>a, EnqueueEvent DEF add_request
    <2>3. clock' \in Times /\ UNCHANGED <<computed, under_way, done>>
      BY <1>1, <1>b DEF add_request
    <2> QED
      BY <2>1, <2>2, <2>3 DEF Shapes
  <1>2. ASSUME NEW r \in Requests, Preempt(r) PROVE Shapes'
    <2>1. computed' \in [Requests -> Nat]
      BY <1>2 DEF Shapes, Preempt
    <2> QED
      BY <1>2, <2>1 DEF Shapes, Preempt
  <1>3. ASSUME NEW reqs \in SUBSET Requests \ {{}}, execute_model(reqs) PROVE Shapes'
    <2> DEFINE batch == [reqs |-> reqs, start |-> clock, key |-> make_dispatch_key(reqs)]
    <2>1. batch \in Batch
      BY <1>c, KeyIs DEF Batch
    <2>2. under_way' = Append(under_way, batch)
      BY <1>3 DEF execute_model
    <2> HIDE DEF batch
    <2>3. under_way' \in Seq(Batch)
      BY <2>1, <2>2, AppendIs DEF Shapes
    <2>4. log' \in Seq(Event) /\ \A q \in Requests : Paired(log', q) \in Found
      BY <1>3, <1>a, StartEvent DEF execute_model
    <2>5. computed' \in [Requests -> Nat]
      BY <1>3 DEF Shapes, execute_model
    <2>6. clock' \in Times /\ UNCHANGED <<enqueued, done>>
      BY <1>3, <1>b DEF execute_model
    <2> QED
      BY <2>3, <2>4, <2>5, <2>6 DEF Shapes
  <1>4. CASE update_from_output
    <2> DEFINE batch == Head(under_way)
    <2>1. /\ under_way # <<>> /\ under_way' = Tail(under_way)
          /\ done' = done \cup {[reqs |-> batch.reqs, start |-> batch.start, end |-> clock]}
      BY <1>4 DEF update_from_output
    <2>2. batch \in Batch /\ under_way' \in Seq(Batch)
      BY <2>1, TailIs DEF Shapes
    <2>3. log' \in Seq(Event) /\ \A q \in Requests : Paired(log', q) \in Found
      BY <1>4, <1>a, <2>1, ReadyEvent DEF update_from_output
    <2>4. clock' \in Times /\ UNCHANGED <<enqueued, computed>>
      BY <1>4, <1>b DEF update_from_output
    <2> HIDE DEF batch
    <2>5. [reqs |-> batch.reqs, start |-> batch.start, end |-> clock] \in [reqs : SUBSET Requests, start : Nat, end : Nat]
      BY <1>c, <2>2 DEF Batch
    <2>6. done' \subseteq [reqs : SUBSET Requests, start : Nat, end : Nat]
      BY <2>1, <2>5 DEF Shapes
    <2> QED
      BY <2>2, <2>3, <2>4, <2>6 DEF Shapes
  <1>5. CASE UNCHANGED vars
    BY <1>5 DEF vars, Shapes
  <1> QED
    BY <1>1, <1>2, <1>3, <1>4, <1>5 DEF Next

-----------------------------------------------------------------------------
(* The order of the batches. *)

\* Batches are formed one after the other, come back in that order, and hold
\* only requests that were queued before.
OrderInv ==
  /\ \A i \in DOMAIN under_way : under_way[i].start < clock
  /\ \A i, j \in DOMAIN under_way : i < j => under_way[i].start < under_way[j].start
  /\ \A d \in done : d.start < d.end /\ d.end < clock
  /\ \A d \in done, i \in DOMAIN under_way : d.start < under_way[i].start
  /\ \A d, e \in done : d.start < e.start => d.end < e.end
  /\ \A d, e \in done : d.start = e.start => d = e
  /\ \A r \in Requests : enqueued[r] # None => enqueued[r] < clock
  /\ \A i \in DOMAIN under_way : \A r \in under_way[i].reqs :
       enqueued[r] # None /\ enqueued[r] < under_way[i].start
  /\ \A d \in done : \A r \in d.reqs : enqueued[r] # None /\ enqueued[r] < d.start

\* All of these are numbers.
LEMMA NumbersAre ==
  ASSUME Shapes
  PROVE  /\ clock \in Nat
         /\ \A i \in DOMAIN under_way : i \in Nat /\ 1 <= i /\ under_way[i] \in Batch
              /\ under_way[i].start \in Nat /\ under_way[i].reqs \in SUBSET Requests
         /\ \A d \in done : d.start \in Nat /\ d.end \in Nat /\ d.reqs \in SUBSET Requests
         /\ \A r \in Requests : enqueued[r] # None => enqueued[r] \in Nat
  <1>1. clock \in Nat
    BY TimesAre DEF Shapes
  <1>2. DOMAIN under_way = 1 .. Len(under_way) /\ Len(under_way) \in Nat /\ \A i \in DOMAIN under_way : under_way[i] \in Batch
    BY LenProperties, ElementOfSeq DEF Shapes
  <1>3. \A b \in Batch : b.start \in Nat /\ b.reqs \in SUBSET Requests
    BY DEF Batch
  <1>4. \A d \in done : d.start \in Nat /\ d.end \in Nat /\ d.reqs \in SUBSET Requests
    BY DEF Shapes
  <1>5. \A r \in Requests : enqueued[r] # None => enqueued[r] \in Nat
    BY TimesAre DEF Shapes
  <1> QED
    BY <1>1, <1>2, <1>3, <1>4, <1>5

\* Every step keeps the order.
LEMMA OrderNext ==
  ASSUME Shapes, OrderInv, [Next]_vars
  PROVE  OrderInv'
  <1>1. ASSUME NEW r \in Requests, add_request(r) PROVE OrderInv'
    <2>1. /\ clock' = clock + 1 /\ enqueued[r] = None /\ enqueued' = [enqueued EXCEPT ![r] = clock]
          /\ UNCHANGED <<under_way, done>>
      BY <1>1 DEF add_request, Tick
    <2>2. \A q \in Requests : enqueued'[q] = IF q = r THEN clock ELSE enqueued[q]
      BY <2>1 DEF Shapes
    <2>3. /\ \A i \in DOMAIN under_way : r \notin under_way[i].reqs
          /\ \A d \in done : r \notin d.reqs
      BY <2>1 DEF OrderInv
    <2>4. \A q \in Requests : enqueued'[q] # None => enqueued'[q] < clock'
      BY <2>1, <2>2, NumbersAre DEF OrderInv
    <2>5. /\ \A i \in DOMAIN under_way : \A q \in under_way[i].reqs : enqueued'[q] = enqueued[q]
          /\ \A d \in done : \A q \in d.reqs : enqueued'[q] = enqueued[q]
      BY <2>2, <2>3, NumbersAre
    <2>6. /\ \A i \in DOMAIN under_way : under_way[i].start < clock'
          /\ \A d \in done : d.end < clock'
      BY <2>1, NumbersAre DEF OrderInv
    <2> QED
      BY <2>1, <2>4, <2>5, <2>6 DEF OrderInv
  <1>2. ASSUME NEW reqs \in SUBSET Requests \ {{}}, execute_model(reqs) PROVE OrderInv'
    <2> DEFINE batch == [reqs |-> reqs, start |-> clock, key |-> make_dispatch_key(reqs)]
    <2>1. /\ clock' = clock + 1 /\ (\A r \in reqs : enqueued[r] # None) /\ under_way' = Append(under_way, batch)
          /\ UNCHANGED <<enqueued, done>>
      BY <1>2 DEF execute_model, Tick
    <2>2. batch \in Batch /\ batch.start = clock /\ batch.reqs = reqs
      BY KeyIs, NumbersAre DEF Batch
    <2> HIDE DEF batch
    <2>3. /\ DOMAIN under_way = 1 .. Len(under_way) /\ DOMAIN under_way' = 1 .. Len(under_way) + 1 /\ Len(under_way) \in Nat
          /\ \A i \in DOMAIN under_way : under_way'[i] = under_way[i]
          /\ under_way'[Len(under_way) + 1] = batch
      BY <2>1, <2>2, AppendIs DEF Shapes
    <2>4. \A i \in DOMAIN under_way' :
            \/ i \in DOMAIN under_way /\ under_way'[i] = under_way[i]
            \/ i = Len(under_way) + 1 /\ under_way'[i] = batch /\ \A j \in DOMAIN under_way : j < i
      BY <2>3
    <2>5. /\ \A i \in DOMAIN under_way : under_way[i].start < clock
          /\ \A d \in done : d.start < clock /\ d.end < clock /\ d.start < d.end
          /\ \A r \in Requests : enqueued[r] # None => enqueued[r] < clock
      BY NumbersAre DEF OrderInv
    <2>6. \A i \in DOMAIN under_way' : under_way'[i].start < clock'
      BY <2>1, <2>2, <2>4, <2>5, NumbersAre
    <2>7. \A i, j \in DOMAIN under_way' : i < j => under_way'[i].start < under_way'[j].start
      <3> SUFFICES ASSUME NEW i \in DOMAIN under_way', NEW j \in DOMAIN under_way', i < j
                   PROVE  under_way'[i].start < under_way'[j].start
        OBVIOUS
      <3>1. i \in DOMAIN under_way /\ under_way'[i] = under_way[i]
        BY <2>3, <2>4
      <3>2. CASE j \in DOMAIN under_way
        BY <2>3, <3>1, <3>2 DEF OrderInv
      <3>3. CASE j = Len(under_way) + 1
        BY <2>2, <2>3, <2>5, <3>1, <3>3
      <3> QED
        BY <2>4, <3>2, <3>3
    <2>8. \A d \in done, i \in DOMAIN under_way' : d.start < under_way'[i].start
      BY <2>2, <2>4, <2>5 DEF OrderInv
    <2>9. \A i \in DOMAIN under_way' : \A r \in under_way'[i].reqs :
            enqueued[r] # None /\ enqueued[r] < under_way'[i].start
      BY <2>1, <2>2, <2>4, <2>5 DEF OrderInv
    <2>10. /\ \A d \in done : d.start < d.end /\ d.end < clock'
           /\ \A r \in Requests : enqueued[r] # None => enqueued[r] < clock'
      BY <2>1, <2>5, NumbersAre
    <2> QED
      BY <2>1, <2>6, <2>7, <2>8, <2>9, <2>10 DEF OrderInv
  <1>3. CASE update_from_output
    <2> DEFINE batch == Head(under_way)
               over == [reqs |-> batch.reqs, start |-> batch.start, end |-> clock]
    <2>1. /\ clock' = clock + 1 /\ under_way # <<>> /\ under_way' = Tail(under_way)
          /\ done' = done \cup {over} /\ UNCHANGED enqueued
      BY <1>3 DEF update_from_output, Tick
    <2>2. /\ batch = under_way[1] /\ 1 \in DOMAIN under_way
          /\ DOMAIN under_way = 1 .. Len(under_way) /\ DOMAIN under_way' = 1 .. Len(under_way) - 1 /\ Len(under_way) \in Nat
          /\ \A i \in DOMAIN under_way' : under_way'[i] = under_way[i + 1]
      BY <2>1, TailIs DEF Shapes
    <2>3. over.reqs = batch.reqs /\ over.start = batch.start /\ over.end = clock
      OBVIOUS
    <2> HIDE DEF batch, over
    <2>4. \A i \in DOMAIN under_way' : i + 1 \in DOMAIN under_way /\ 1 < i + 1 /\ i \in Nat
      BY <2>2
    <2>5. /\ \A d \in done : d.start < d.end /\ d.end < clock /\ d.start < over.start
          /\ over.start < clock /\ over.start \in Nat
          /\ \A i \in DOMAIN under_way' : over.start < under_way'[i].start /\ under_way'[i].start < clock
      BY <2>2, <2>3, <2>4, NumbersAre DEF OrderInv
    <2>6. \A i, j \in DOMAIN under_way' : i < j => under_way'[i].start < under_way'[j].start
      BY <2>2, <2>4 DEF OrderInv
    <2>7. /\ \A i \in DOMAIN under_way' : under_way'[i].start < clock'
          /\ \A d \in done' : d.start < d.end /\ d.end < clock'
      BY <2>1, <2>2, <2>3, <2>4, <2>5, NumbersAre
    <2>8. \A d \in done', i \in DOMAIN under_way' : d.start < under_way'[i].start
      BY <2>1, <2>2, <2>4, <2>5 DEF OrderInv
    <2>9. /\ \A d, e \in done' : d.start < e.start => d.end < e.end
          /\ \A d, e \in done' : d.start = e.start => d = e
      <3> SUFFICES ASSUME NEW d \in done', NEW e \in done'
                   PROVE  (d.start < e.start => d.end < e.end) /\ (d.start = e.start => d = e)
        OBVIOUS
      <3>1. CASE d \in done /\ e \in done
        BY <3>1 DEF OrderInv
      <3>2. CASE d \in done /\ e = over
        BY <2>3, <2>5, <3>2, NumbersAre
      <3>3. CASE d = over /\ e \in done
        BY <2>3, <2>5, <3>3, NumbersAre
      <3>4. CASE d = over /\ e = over
        BY <2>5, <3>4
      <3> QED
        BY <2>1, <3>1, <3>2, <3>3, <3>4
    <2>10. \A i \in DOMAIN under_way' : \A r \in under_way'[i].reqs :
             enqueued[r] # None /\ enqueued[r] < under_way'[i].start
      BY <2>2, <2>4 DEF OrderInv
    <2>11. \A d \in done' : \A r \in d.reqs : enqueued[r] # None /\ enqueued[r] < d.start
      BY <2>1, <2>2, <2>3 DEF OrderInv
    <2>12. \A r \in Requests : enqueued[r] # None => enqueued[r] < clock'
      BY <2>1, NumbersAre DEF OrderInv
    <2> QED
      BY <2>1, <2>6, <2>7, <2>8, <2>9, <2>10, <2>11, <2>12 DEF OrderInv
  <1>4. CASE UNCHANGED <<clock, enqueued, under_way, done>>
    BY <1>4 DEF OrderInv
  <1> QED
    BY <1>1, <1>2, <1>3, <1>4 DEF Next, Preempt, vars

\* Where the element at k was before the one at i was removed.
Before(k, i) == IF k < i THEN k ELSE k + 1

\* What is left of a sequence keeps its order.
LEMMA RemoveKeeps ==
  ASSUME NEW S, NEW s \in Seq(S), NEW i \in DOMAIN s
  PROVE  /\ \A k \in DOMAIN RemoveAt(s, i) :
              Before(k, i) \in DOMAIN s \ {i} /\ RemoveAt(s, i)[k] = s[Before(k, i)]
         /\ \A k, m \in DOMAIN RemoveAt(s, i) : Before(k, i) = Before(m, i) => k = m
         /\ \A m \in DOMAIN s \ {i} : \E k \in DOMAIN RemoveAt(s, i) : RemoveAt(s, i)[k] = s[m]
  <1>1. /\ DOMAIN s = 1 .. Len(s) /\ Len(s) \in Nat
        /\ DOMAIN RemoveAt(s, i) = 1 .. Len(s) - 1
        /\ \A k \in 1 .. Len(s) - 1 : RemoveAt(s, i)[k] = IF k < i THEN s[k] ELSE s[k + 1]
    BY RemoveIs, LenProperties
  <1> DEFINE t == RemoveAt(s, i)
  <1> HIDE DEF t
  <1>2. \A k \in DOMAIN t : Before(k, i) \in DOMAIN s \ {i} /\ t[k] = s[Before(k, i)]
    BY <1>1 DEF Before, t
  <1>3. \A k, m \in DOMAIN t : Before(k, i) = Before(m, i) => k = m
    BY <1>1 DEF Before, t
  <1>4. ASSUME NEW m \in DOMAIN s \ {i} PROVE \E k \in DOMAIN t : t[k] = s[m]
    <2>1. CASE m < i
      <3>1. m \in DOMAIN t /\ t[m] = s[m]
        BY <1>1, <2>1 DEF t
      <3> QED
        BY <3>1
    <2>2. CASE ~ (m < i)
      <3>1. m - 1 \in DOMAIN t /\ ~ (m - 1 < i) /\ m - 1 + 1 = m
        BY <1>1, <2>2 DEF t
      <3>2. t[m - 1] = s[m]
        BY <1>1, <3>1 DEF t
      <3> QED
        BY <3>1, <3>2
    <2> QED
      BY <2>1, <2>2
  <1> QED
    BY <1>2, <1>3, <1>4 DEF t

-----------------------------------------------------------------------------
(* With the starts of a request all there. *)

\* What the start event of a batch leaves in the list of open starts.
Opened(batch) == [start |-> batch.start, key |-> batch.key]

\* Every start still open was made before the request went on, so no two have
\* one key; those of the batches under way are among them; and each dispatch
\* found was one.
KeptStarts(r) ==
  /\ \A j \in DOMAIN Paired(log, r).starts :
       /\ r \in DOMAIN Paired(log, r).starts[j].key
       /\ Paired(log, r).starts[j].key[r] \in Nat
       /\ Paired(log, r).starts[j].key[r] < computed[r]
  /\ \A j, k \in DOMAIN Paired(log, r).starts :
       Paired(log, r).starts[j].key[r] = Paired(log, r).starts[k].key[r] => j = k
  /\ \A i \in DOMAIN under_way : r \in under_way[i].reqs =>
       \E j \in DOMAIN Paired(log, r).starts : Paired(log, r).starts[j] = Opened(under_way[i])
  /\ Paired(log, r).dispatches \subseteq Truly(r)

StartsInv ==
  \A r \in Requests \ preempted : LostOf(r, "req_scheduler_out_rpc") = {} => KeptStarts(r)

\* The dispatches grow by those of the batch that is over.
LEMMA TrulyGrows ==
  ASSUME Shapes, NEW r \in Requests, update_from_output
  PROVE  Truly(r)' = IF r \in Head(under_way).reqs
                     THEN Truly(r) \cup {[start |-> Head(under_way).start, end |-> clock]}
                     ELSE Truly(r)
  <1> DEFINE b == Head(under_way)
             over == [reqs |-> b.reqs, start |-> b.start, end |-> clock]
  <1>1. done' = done \cup {over}
    BY DEF update_from_output
  <1>2. over.reqs = b.reqs /\ over.start = b.start /\ over.end = clock
    OBVIOUS
  <1> HIDE DEF b, over
  <1>3. CASE r \in b.reqs
    <2>1. {x \in done' : r \in x.reqs} = {x \in done : r \in x.reqs} \cup {over}
      BY <1>1, <1>2, <1>3
    <2>2. Truly(r)' = {[start |-> d.start, end |-> d.end] : d \in {x \in done : r \in x.reqs} \cup {over}}
      BY <2>1 DEF Truly
    <2>3. Truly(r)' = Truly(r) \cup {[start |-> over.start, end |-> over.end]}
      BY <2>2 DEF Truly
    <2> QED
      BY <1>2, <1>3, <2>3 DEF b
  <1>4. CASE r \notin b.reqs
    <2>1. {x \in done' : r \in x.reqs} = {x \in done : r \in x.reqs}
      BY <1>1, <1>2, <1>4
    <2> QED
      BY <1>4, <2>1 DEF Truly, b
  <1> QED
    BY <1>3, <1>4

\* A step that touches neither the starts of a request nor how far it is, keeps
\* what is known of them.
LEMMA KeptStays ==
  ASSUME Shapes, NEW r \in Requests, KeptStarts(r), Paired(log', r) = Paired(log, r), computed'[r] = computed[r],
         \A i \in DOMAIN under_way' : r \in under_way'[i].reqs =>
            \E j \in DOMAIN under_way : r \in under_way[j].reqs /\ under_way'[i] = under_way[j],
         Truly(r) \subseteq Truly(r)'
  PROVE  KeptStarts(r)'
  <1>1. Paired(log, r)' = Paired(log, r)
    OBVIOUS
  <1>2. \A i \in DOMAIN under_way' : r \in under_way'[i].reqs =>
          \E j \in DOMAIN Paired(log, r).starts : Paired(log, r).starts[j] = Opened(under_way'[i])
    BY DEF KeptStarts
  <1>3. Paired(log, r).dispatches \subseteq Truly(r)'
    BY DEF KeptStarts
  <1> HIDE DEF Truly
  <1> QED
    BY <1>1, <1>2, <1>3 DEF KeptStarts

\* Every step keeps it.
LEMMA StartsNext ==
  ASSUME Shapes, OrderInv, StartsInv, [Next]_vars
  PROVE  StartsInv'
  <1> SUFFICES ASSUME NEW r \in Requests \ preempted', LostOf(r, "req_scheduler_out_rpc")' = {}
               PROVE  KeptStarts(r)'
    BY DEF StartsInv
  <1>a. preempted \subseteq preempted' /\ lost \subseteq lost'
    BY DEF Next, add_request, Preempt, execute_model, update_from_output, Emit, vars
  <1>b. r \in Requests \ preempted /\ LostOf(r, "req_scheduler_out_rpc") = {}
    BY <1>a DEF LostOf
  <1>c. KeptStarts(r)
    BY <1>b DEF StartsInv
  <1>d. Paired(log, r) \in Found /\ Paired(log, r).starts \in Seq(Start)
    BY <1>b DEF Shapes, Found
  <1>1. ASSUME NEW q \in Requests, add_request(q) PROVE KeptStarts(r)'
    <2> DEFINE event == [type |-> "req_enqueue_scheduler", ts |-> clock, reqs |-> {q}, key |-> None]
    <2>1. event \in Event /\ Emit(event) /\ event.type = "req_enqueue_scheduler"
      BY <1>1, EnqueueEvent DEF add_request
    <2> HIDE DEF event
    <2>2. Paired(log', r) = Paired(log, r)
      BY <1>b, <2>1, EmitDoes, PairOther
    <2>3. UNCHANGED <<computed, under_way, done>>
      BY <1>1 DEF add_request
    <2>4. Truly(r)' = Truly(r)
      BY <2>3 DEF Truly
    <2> QED
      BY <1>b, <1>c, <2>2, <2>3, <2>4, KeptStays
  <1>2. ASSUME NEW q \in Requests, Preempt(q) PROVE KeptStarts(r)'
    <2>1. q # r
      BY <1>2 DEF Preempt
    <2>2. computed'[r] = computed[r]
      BY <1>2, <2>1 DEF Preempt, Shapes
    <2>3. UNCHANGED <<under_way, done, log>>
      BY <1>2 DEF Preempt
    <2>4. Truly(r)' = Truly(r)
      BY <2>3 DEF Truly
    <2> QED
      BY <1>b, <1>c, <2>2, <2>3, <2>4, KeptStays
  <1>3. ASSUME NEW reqs \in SUBSET Requests \ {{}}, execute_model(reqs) PROVE KeptStarts(r)'
    <2> DEFINE key == make_dispatch_key(reqs)
               event == [type |-> "req_scheduler_out_rpc", ts |-> clock, reqs |-> reqs, key |-> key]
               batch == [reqs |-> reqs, start |-> clock, key |-> key]
    <2>1. /\ event \in Event /\ Emit(event) /\ event.type = "req_scheduler_out_rpc" /\ event.reqs = reqs
          /\ event.ts = clock /\ event.key = key
      BY <1>3, StartEvent DEF execute_model
    <2>2. key \in [reqs -> Nat] /\ \A q \in reqs : key[q] = computed[q]
      BY KeyIs
    <2>3. /\ batch \in Batch /\ batch.reqs = reqs /\ batch.start = clock /\ batch.key = key
          /\ under_way' = Append(under_way, batch)
      <3>1. batch \in Batch
        BY KeyIs, NumbersAre DEF Batch
      <3> QED
        BY <1>3, <3>1 DEF execute_model
    <2> HIDE DEF key, event, batch
    <2>4. /\ DOMAIN under_way = 1 .. Len(under_way) /\ DOMAIN under_way' = 1 .. Len(under_way) + 1 /\ Len(under_way) \in Nat
          /\ \A i \in DOMAIN under_way : under_way'[i] = under_way[i]
          /\ under_way'[Len(under_way) + 1] = batch
      BY <2>3, AppendIs DEF Shapes
    <2>5. \A i \in DOMAIN under_way' :
            \/ i \in DOMAIN under_way /\ under_way'[i] = under_way[i]
            \/ under_way'[i] = batch
      BY <2>4
    <2>6. computed'[r] = IF r \in reqs THEN computed[r] + 1 ELSE computed[r]
      BY <1>3, <1>b DEF execute_model
    <2>7. Truly(r)' = Truly(r)
      BY <1>3 DEF execute_model, Truly
    <2>8. CASE r \notin reqs
      <3>1. Paired(log', r) = Paired(log, r)
        BY <1>b, <2>1, <2>8, EmitDoes
      <3>2. \A i \in DOMAIN under_way' : r \in under_way'[i].reqs =>
              i \in DOMAIN under_way /\ under_way'[i] = under_way[i]
        BY <2>3, <2>5, <2>8
      <3> QED
        BY <1>b, <1>c, <2>6, <2>7, <2>8, <3>1, <3>2, KeptStays
    <2>9. CASE r \in reqs
      <3>1. event \notin lost'
        BY <2>1, <2>9 DEF LostOf
      <3>2. Paired(log', r) = Pair(Paired(log, r), event)
        BY <1>b, <2>1, <2>9, <3>1, EmitDoes
      <3> DEFINE start == [start |-> event.ts, key |-> event.key]
                 old == Paired(log, r).starts
                 new == Paired(log', r).starts
      <3>3. new = Append(old, start) /\ Paired(log', r).dispatches = Paired(log, r).dispatches /\ start \in Start
        BY <1>d, <2>1, <3>2, PairStart
      <3>4. start = Opened(batch) /\ start.key = key
        BY <2>1, <2>3 DEF Opened
      <3>b. /\ \A j \in DOMAIN old :
                 /\ r \in DOMAIN old[j].key
                 /\ old[j].key[r] \in Nat
                 /\ old[j].key[r] < computed[r]
            /\ \A j, k \in DOMAIN old : old[j].key[r] = old[k].key[r] => j = k
            /\ \A i \in DOMAIN under_way : r \in under_way[i].reqs =>
                 \E j \in DOMAIN old : old[j] = Opened(under_way[i])
            /\ Paired(log, r).dispatches \subseteq Truly(r)
        BY <1>c DEF KeptStarts
      <3> HIDE DEF start, old, new
      <3>5. /\ DOMAIN old = 1 .. Len(old) /\ DOMAIN new = 1 .. Len(old) + 1 /\ Len(old) \in Nat
            /\ \A j \in DOMAIN old : new[j] = old[j]
            /\ new[Len(old) + 1] = start
        <4>1. old \in Seq(Start)
          BY <1>d DEF old
        <4> QED
          BY <3>3, <4>1, AppendIs
      <3>6. \A j \in DOMAIN new : (j \in DOMAIN old /\ new[j] = old[j]) \/ (j = Len(old) + 1 /\ new[j] = start)
        BY <3>5
      <3>7. r \in DOMAIN start.key /\ start.key[r] = computed[r] /\ computed[r] \in Nat /\ computed'[r] = computed[r] + 1
        BY <1>b, <2>2, <2>6, <2>9, <3>4 DEF Shapes
      <3>8. \A j \in DOMAIN new : r \in DOMAIN new[j].key /\ new[j].key[r] \in Nat /\ new[j].key[r] < computed'[r]
        BY <3>6, <3>7, <3>b
      <3>9. \A j, k \in DOMAIN new : new[j].key[r] = new[k].key[r] => j = k
        <4> SUFFICES ASSUME NEW j \in DOMAIN new, NEW k \in DOMAIN new, new[j].key[r] = new[k].key[r] PROVE j = k
          OBVIOUS
        <4>1. CASE j \in DOMAIN old /\ new[j] = old[j] /\ k \in DOMAIN old /\ new[k] = old[k]
          BY <3>b, <4>1
        <4>2. CASE j \in DOMAIN old /\ new[j] = old[j] /\ new[k] = start
          BY <3>7, <3>b, <4>2
        <4>3. CASE new[j] = start /\ k \in DOMAIN old /\ new[k] = old[k]
          BY <3>7, <3>b, <4>3
        <4>4. CASE j = Len(old) + 1 /\ k = Len(old) + 1
          BY <4>4
        <4> QED
          BY <3>6, <4>1, <4>2, <4>3, <4>4
      <3>10. \A i \in DOMAIN under_way' : r \in under_way'[i].reqs =>
               \E j \in DOMAIN new : new[j] = Opened(under_way'[i])
        <4> SUFFICES ASSUME NEW i \in DOMAIN under_way', r \in under_way'[i].reqs
                     PROVE  \E j \in DOMAIN new : new[j] = Opened(under_way'[i])
          OBVIOUS
        <4>1. CASE i \in DOMAIN under_way /\ under_way'[i] = under_way[i]
          <5>1. PICK j \in DOMAIN old : old[j] = Opened(under_way[i])
            BY <3>b, <4>1
          <5>2. j \in DOMAIN new /\ new[j] = old[j]
            BY <3>5
          <5> QED
            BY <4>1, <5>1, <5>2
        <4>2. CASE under_way'[i] = batch
          <5>1. Len(old) + 1 \in DOMAIN new
            BY <3>5
          <5> QED
            BY <3>4, <3>5, <4>2, <5>1
        <4> QED
          BY <2>5, <4>1, <4>2
      <3>11. Paired(log', r).dispatches \subseteq Truly(r)'
        BY <2>7, <3>3, <3>b
      <3> HIDE DEF Truly
      <3> QED
        BY <3>8, <3>9, <3>10, <3>11 DEF KeptStarts, new
    <2> QED
      BY <2>8, <2>9
  <1>4. CASE update_from_output
    <2> DEFINE batch == Head(under_way)
               event == [type |-> "req_step_ready", ts |-> clock, reqs |-> batch.reqs, key |-> batch.key]
    <2>1. under_way # <<>> /\ under_way' = Tail(under_way) /\ UNCHANGED computed
      BY <1>4 DEF update_from_output
    <2>2. /\ event \in Event /\ Emit(event) /\ event.type = "req_step_ready" /\ event.reqs = batch.reqs
          /\ event.ts = clock /\ event.key = batch.key
      BY <1>4, <2>1, ReadyEvent DEF update_from_output
    <2>3. /\ batch = under_way[1] /\ 1 \in DOMAIN under_way
          /\ DOMAIN under_way = 1 .. Len(under_way) /\ DOMAIN under_way' = 1 .. Len(under_way) - 1 /\ Len(under_way) \in Nat
          /\ \A i \in DOMAIN under_way' : under_way'[i] = under_way[i + 1]
      BY <2>1, TailIs DEF Shapes
    <2>4. Truly(r)' = IF r \in batch.reqs THEN Truly(r) \cup {[start |-> batch.start, end |-> clock]} ELSE Truly(r)
      BY <1>4, <1>b, TrulyGrows
    <2> HIDE DEF batch, event
    <2>5. \A i \in DOMAIN under_way' : i + 1 \in DOMAIN under_way /\ under_way'[i] = under_way[i + 1] /\ 1 < i + 1
      BY <2>3
    <2>6. \A i \in DOMAIN under_way' : r \in under_way'[i].reqs =>
            \E j \in DOMAIN under_way : r \in under_way[j].reqs /\ under_way'[i] = under_way[j]
      BY <2>5
    <2>7. Truly(r) \subseteq Truly(r)'
      BY <2>4
    <2>8. CASE Paired(log', r) = Paired(log, r)
      BY <1>b, <1>c, <2>1, <2>6, <2>7, <2>8, KeptStays
    <2>9. CASE Paired(log', r) # Paired(log, r)
      <3> DEFINE old == Paired(log, r).starts
                 new == Paired(log', r).starts
                 p == pop_dispatch_start_for_ready(old, event.key)
      <3>1. r \in batch.reqs /\ Paired(log', r) = Pair(Paired(log, r), event)
        BY <1>b, <2>2, <2>9, EmitDoes
      <3>2. old # <<>>
        BY <2>2, <2>9, <3>1, PairOther
      <3>3. /\ new = RemoveAt(old, p)
            /\ Paired(log', r).dispatches = Paired(log, r).dispatches \cup {[start |-> old[p].start, end |-> clock]}
        BY <1>d, <2>2, <3>1, <3>2, PairReady
      <3>4. p \in DOMAIN old /\ ((\E j \in DOMAIN old : old[j].key = batch.key) => old[p].key = batch.key)
        BY <1>d, <2>2, <3>2, PopIs
      <3>5. old \in Seq(Start)
        BY <1>d
      <3>b. /\ \A j \in DOMAIN old :
                 /\ r \in DOMAIN old[j].key
                 /\ old[j].key[r] \in Nat
                 /\ old[j].key[r] < computed[r]
            /\ \A j, k \in DOMAIN old : old[j].key[r] = old[k].key[r] => j = k
            /\ \A i \in DOMAIN under_way : r \in under_way[i].reqs =>
                 \E j \in DOMAIN old : old[j] = Opened(under_way[i])
            /\ Paired(log, r).dispatches \subseteq Truly(r)
        BY <1>c DEF KeptStarts
      <3> HIDE DEF old, new, p
      <3>6. /\ \A k \in DOMAIN new : Before(k, p) \in DOMAIN old \ {p} /\ new[k] = old[Before(k, p)]
            /\ \A k, m \in DOMAIN new : Before(k, p) = Before(m, p) => k = m
            /\ \A m \in DOMAIN old \ {p} : \E k \in DOMAIN new : new[k] = old[m]
        BY <3>3, <3>4, <3>5, RemoveKeeps
      <3>7. old[p] = Opened(batch)
        <4>1. PICK j \in DOMAIN old : old[j] = Opened(batch)
          BY <2>3, <3>1, <3>b
        <4>2. old[j].key = batch.key
          BY <4>1 DEF Opened
        <4>3. old[p].key = batch.key
          BY <3>4, <4>2
        <4>4. p = j
          BY <3>4, <3>b, <4>2, <4>3
        <4> QED
          BY <4>1, <4>4
      <3>8. Paired(log', r).dispatches \subseteq Truly(r)'
        <4>1. old[p].start = batch.start
          BY <3>7 DEF Opened
        <4> QED
          BY <2>4, <3>1, <3>3, <3>b, <4>1
      <3>9. \A j \in DOMAIN new : r \in DOMAIN new[j].key /\ new[j].key[r] \in Nat /\ new[j].key[r] < computed'[r]
        BY <2>1, <3>6, <3>b
      <3>10. \A j, k \in DOMAIN new : new[j].key[r] = new[k].key[r] => j = k
        <4> SUFFICES ASSUME NEW j \in DOMAIN new, NEW k \in DOMAIN new, new[j].key[r] = new[k].key[r] PROVE j = k
          OBVIOUS
        <4>1. /\ Before(j, p) \in DOMAIN old /\ Before(k, p) \in DOMAIN old
              /\ old[Before(j, p)].key[r] = old[Before(k, p)].key[r]
          BY <3>6
        <4>2. Before(j, p) = Before(k, p)
          BY <3>b, <4>1
        <4> QED
          BY <3>6, <4>2
      <3>11. \A i \in DOMAIN under_way' : r \in under_way'[i].reqs =>
               \E j \in DOMAIN new : new[j] = Opened(under_way'[i])
        <4> SUFFICES ASSUME NEW i \in DOMAIN under_way', r \in under_way'[i].reqs
                     PROVE  \E j \in DOMAIN new : new[j] = Opened(under_way'[i])
          OBVIOUS
        <4>1. i + 1 \in DOMAIN under_way /\ under_way'[i] = under_way[i + 1] /\ 1 < i + 1
          BY <2>5
        <4>2. PICK m \in DOMAIN old : old[m] = Opened(under_way[i + 1])
          BY <3>b, <4>1
        <4>3. under_way[1].start < under_way[i + 1].start
          BY <2>3, <4>1 DEF OrderInv
        <4>4. m # p
          <5>1. old[m].start = under_way[i + 1].start /\ old[p].start = under_way[1].start
            BY <2>3, <3>7, <4>2 DEF Opened
          <5>2. under_way[1].start # under_way[i + 1].start
            BY <2>3, <4>1, <4>3, NumbersAre
          <5> QED
            BY <5>1, <5>2
        <4>5. PICK k \in DOMAIN new : new[k] = old[m]
          BY <3>6, <4>4
        <4> QED
          BY <4>1, <4>2, <4>5
      <3> HIDE DEF Truly
      <3> QED
        BY <3>8, <3>9, <3>10, <3>11 DEF KeptStarts, new
    <2> QED
      BY <2>8, <2>9
  <1>5. CASE UNCHANGED vars
    <2>1. UNCHANGED <<log, computed, under_way, done>>
      BY <1>5 DEF vars
    <2>2. Truly(r)' = Truly(r)
      BY <2>1 DEF Truly
    <2> QED
      BY <1>b, <1>c, <2>1, <2>2, KeptStays
  <1> QED
    BY <1>1, <1>2, <1>3, <1>4, <1>5 DEF Next

-----------------------------------------------------------------------------
(* With every event of a request there. *)

\* The starts still open are those of the batches under way, in their order;
\* the dispatches found are those that are over; and the request was queued
\* when it was.
Exact(r) ==
  /\ \A j, k \in DOMAIN Paired(log, r).starts :
       j < k => Paired(log, r).starts[j].start < Paired(log, r).starts[k].start
  /\ \A j \in DOMAIN Paired(log, r).starts : \E i \in DOMAIN under_way :
       r \in under_way[i].reqs /\ Paired(log, r).starts[j] = Opened(under_way[i])
  /\ \A i \in DOMAIN under_way : r \in under_way[i].reqs =>
       \E j \in DOMAIN Paired(log, r).starts : Paired(log, r).starts[j] = Opened(under_way[i])
  /\ Paired(log, r).dispatches = Truly(r)
  /\ {e.ts : e \in Enqueue(r)} = IF enqueued[r] = None THEN {} ELSE {enqueued[r]}

ExactInv == \A r \in Requests : {e \in lost : r \in e.reqs} = {} => Exact(r)

\* A step that leaves the starts of a request, and the batches with it, alone.
LEMMA ExactStays ==
  ASSUME Shapes, NEW r \in Requests, Exact(r), Paired(log', r) = Paired(log, r),
         \A i \in DOMAIN under_way' : r \in under_way'[i].reqs =>
            \E j \in DOMAIN under_way : r \in under_way[j].reqs /\ under_way'[i] = under_way[j],
         \A i \in DOMAIN under_way : r \in under_way[i].reqs =>
            \E j \in DOMAIN under_way' : r \in under_way'[j].reqs /\ under_way'[j] = under_way[i],
         Truly(r)' = Truly(r),
         {e.ts : e \in Enqueue(r)'} = IF enqueued'[r] = None THEN {} ELSE {enqueued'[r]}
  PROVE  Exact(r)'
  <1>1. Paired(log, r)' = Paired(log, r)
    OBVIOUS
  <1>2. \A i \in DOMAIN under_way' : r \in under_way'[i].reqs =>
          \E j \in DOMAIN Paired(log, r).starts : Paired(log, r).starts[j] = Opened(under_way'[i])
    BY DEF Exact
  <1>3. ASSUME NEW j \in DOMAIN Paired(log, r).starts
        PROVE  \E i \in DOMAIN under_way' :
                 r \in under_way'[i].reqs /\ Paired(log, r).starts[j] = Opened(under_way'[i])
    <2>1. PICK i \in DOMAIN under_way : r \in under_way[i].reqs /\ Paired(log, r).starts[j] = Opened(under_way[i])
      BY DEF Exact
    <2>2. PICK k \in DOMAIN under_way' : r \in under_way'[k].reqs /\ under_way'[k] = under_way[i]
      BY <2>1
    <2> QED
      BY <2>1, <2>2
  <1>4. Paired(log, r).dispatches = Truly(r)'
    BY DEF Exact
  <1>5. \A j, k \in DOMAIN Paired(log, r).starts :
          j < k => Paired(log, r).starts[j].start < Paired(log, r).starts[k].start
    BY DEF Exact
  <1> DEFINE found == Paired(log, r)
             times == {e.ts : e \in Enqueue(r)}
  <1>6. times' = IF enqueued'[r] = None THEN {} ELSE {enqueued'[r]}
    OBVIOUS
  <1>7. found' = found
    BY <1>1
  <1>8. Exact(r)' <=>
          /\ \A j, k \in DOMAIN found'.starts : j < k => found'.starts[j].start < found'.starts[k].start
          /\ \A j \in DOMAIN found'.starts : \E i \in DOMAIN under_way' :
               r \in under_way'[i].reqs /\ found'.starts[j] = Opened(under_way'[i])
          /\ \A i \in DOMAIN under_way' : r \in under_way'[i].reqs =>
               \E j \in DOMAIN found'.starts : found'.starts[j] = Opened(under_way'[i])
          /\ found'.dispatches = Truly(r)'
          /\ times' = IF enqueued'[r] = None THEN {} ELSE {enqueued'[r]}
    BY DEF Exact
  <1> HIDE DEF times
  <1> QED
    BY <1>2, <1>3, <1>4, <1>5, <1>6, <1>7, <1>8

\* Only an enqueue event of the request adds to when it was queued.
LEMMA EnqueueStays ==
  ASSUME NEW r \in Requests, NEW event \in Event,
         Range(log') = Range(log) \/ Range(log') = Range(log) \cup {event},
         event.type # "req_enqueue_scheduler" \/ r \notin event.reqs
  PROVE  Enqueue(r)' = Enqueue(r)
  BY DEF Enqueue

\* Every step keeps it.
LEMMA ExactNext ==
  ASSUME Shapes, OrderInv, ExactInv, [Next]_vars
  PROVE  ExactInv'
  <1> SUFFICES ASSUME NEW r \in Requests, {e \in lost' : r \in e.reqs} = {}
               PROVE  Exact(r)'
    BY DEF ExactInv
  <1>a. lost \subseteq lost'
    BY DEF Next, add_request, Preempt, execute_model, update_from_output, Emit, vars
  <1>c. Exact(r)
    BY <1>a DEF ExactInv
  <1>d. Paired(log, r) \in Found /\ Paired(log, r).starts \in Seq(Start)
    BY DEF Shapes, Found
  <1>e. {e.ts : e \in Enqueue(r)} = IF enqueued[r] = None THEN {} ELSE {enqueued[r]}
    BY <1>c DEF Exact
  <1>f. ASSUME NEW event \in Event, Emit(event), r \in event.reqs
        PROVE  Range(log') = Range(log) \cup {event} /\ Paired(log', r) = Pair(Paired(log, r), event)
    BY <1>f, EmitDoes
  <1>g. ASSUME NEW event \in Event, Emit(event), r \notin event.reqs
        PROVE  Paired(log', r) = Paired(log, r) /\ Enqueue(r)' = Enqueue(r)
    <2>1. Paired(log', r) = Paired(log, r) /\ (Range(log') = Range(log) \/ Range(log') = Range(log) \cup {event})
      BY <1>g, EmitDoes
    <2> QED
      BY <1>g, <2>1, EnqueueStays
  <1>1. ASSUME NEW q \in Requests, add_request(q) PROVE Exact(r)'
    <2> DEFINE event == [type |-> "req_enqueue_scheduler", ts |-> clock, reqs |-> {q}, key |-> None]
    <2>1. /\ event \in Event /\ Emit(event) /\ event.type = "req_enqueue_scheduler" /\ event.reqs = {q}
          /\ event.ts = clock
      BY <1>1, EnqueueEvent DEF add_request
    <2> HIDE DEF event
    <2>2. Paired(log', r) = Paired(log, r)
      BY <1>f, <1>g, <2>1, PairOther
    <2>3. UNCHANGED <<under_way, done>> /\ enqueued[q] = None /\ enqueued' = [enqueued EXCEPT ![q] = clock]
      BY <1>1 DEF add_request
    <2>4. Truly(r)' = Truly(r)
      BY <2>3 DEF Truly
    <2>5. {e.ts : e \in Enqueue(r)'} = IF enqueued'[r] = None THEN {} ELSE {enqueued'[r]}
      <3>1. CASE r = q
        <4>1. Range(log') = Range(log) \cup {event}
          BY <1>f, <2>1, <3>1
        <4>2. Enqueue(r)' = Enqueue(r) \cup {event}
          BY <2>1, <3>1, <4>1 DEF Enqueue
        <4>3. {e.ts : e \in Enqueue(r)} = {}
          BY <1>e, <2>3, <3>1
        <4>4. Enqueue(r)' = {event}
          BY <4>2, <4>3
        <4>5. enqueued'[r] = clock /\ clock # None
          BY <2>3, <3>1, TimesAre DEF Shapes
        <4> QED
          BY <2>1, <4>4, <4>5
      <3>2. CASE r # q
        <4>1. Enqueue(r)' = Enqueue(r)
          BY <1>g, <2>1, <3>2
        <4>2. enqueued'[r] = enqueued[r]
          BY <2>3, <3>2 DEF Shapes
        <4> QED
          BY <1>e, <4>1, <4>2
      <3> QED
        BY <3>1, <3>2
    <2> QED
      BY <1>c, <2>2, <2>3, <2>4, <2>5, ExactStays
  <1>2. CASE UNCHANGED <<enqueued, under_way, done, log>>
    <2>1. Truly(r)' = Truly(r) /\ Enqueue(r)' = Enqueue(r)
      BY <1>2 DEF Truly, Enqueue
    <2>2. {e.ts : e \in Enqueue(r)'} = IF enqueued'[r] = None THEN {} ELSE {enqueued'[r]}
      BY <1>2, <1>e, <2>1
    <2> QED
      BY <1>2, <1>c, <2>1, <2>2, ExactStays
  <1>3. ASSUME NEW reqs \in SUBSET Requests \ {{}}, execute_model(reqs) PROVE Exact(r)'
    <2> DEFINE key == make_dispatch_key(reqs)
               event == [type |-> "req_scheduler_out_rpc", ts |-> clock, reqs |-> reqs, key |-> key]
               batch == [reqs |-> reqs, start |-> clock, key |-> key]
    <2>1. /\ event \in Event /\ Emit(event) /\ event.type = "req_scheduler_out_rpc" /\ event.reqs = reqs
          /\ event.ts = clock /\ event.key = key
      BY <1>3, StartEvent DEF execute_model
    <2>3. /\ batch \in Batch /\ batch.reqs = reqs /\ batch.start = clock /\ batch.key = key
          /\ under_way' = Append(under_way, batch)
      <3>1. batch \in Batch
        BY KeyIs, NumbersAre DEF Batch
      <3> QED
        BY <1>3, <3>1 DEF execute_model
    <2> HIDE DEF key, event, batch
    <2>4. /\ DOMAIN under_way = 1 .. Len(under_way) /\ DOMAIN under_way' = 1 .. Len(under_way) + 1 /\ Len(under_way) \in Nat
          /\ \A i \in DOMAIN under_way : under_way'[i] = under_way[i]
          /\ under_way'[Len(under_way) + 1] = batch
      BY <2>3, AppendIs DEF Shapes
    <2>5. /\ \A i \in DOMAIN under_way' :
               \/ i \in DOMAIN under_way /\ under_way'[i] = under_way[i]
               \/ under_way'[i] = batch
          /\ \A i \in DOMAIN under_way : i \in DOMAIN under_way' /\ under_way'[i] = under_way[i]
          /\ Len(under_way) + 1 \in DOMAIN under_way'
      BY <2>4
    <2>6. UNCHANGED enqueued
      BY <1>3 DEF execute_model
    <2>7. Truly(r)' = Truly(r)
      BY <1>3 DEF execute_model, Truly
    <2>a. Enqueue(r)' = Enqueue(r)
      <3>1. CASE r \in reqs
        BY <1>f, <2>1, <3>1, EnqueueStays
      <3>2. CASE r \notin reqs
        BY <1>g, <2>1, <3>2
      <3> QED
        BY <3>1, <3>2
    <2>b. {e.ts : e \in Enqueue(r)'} = IF enqueued'[r] = None THEN {} ELSE {enqueued'[r]}
      BY <1>e, <2>6, <2>a
    <2>8. CASE r \notin reqs
      <3>1. Paired(log', r) = Paired(log, r)
        BY <1>g, <2>1, <2>8
      <3>2. \A i \in DOMAIN under_way' : r \in under_way'[i].reqs =>
              i \in DOMAIN under_way /\ under_way'[i] = under_way[i]
        BY <2>3, <2>5, <2>8
      <3> QED
        BY <1>c, <2>5, <2>7, <2>b, <3>1, <3>2, ExactStays
    <2>9. CASE r \in reqs
      <3>2. Paired(log', r) = Pair(Paired(log, r), event)
        BY <1>f, <2>1, <2>9
      <3> DEFINE start == [start |-> event.ts, key |-> event.key]
                 old == Paired(log, r).starts
                 new == Paired(log', r).starts
      <3>3. new = Append(old, start) /\ Paired(log', r).dispatches = Paired(log, r).dispatches /\ start \in Start
        BY <1>d, <2>1, <3>2, PairStart
      <3>4. start = Opened(batch) /\ start.start = clock
        BY <2>1, <2>3 DEF Opened
      <3>b. /\ \A j, k \in DOMAIN old : j < k => old[j].start < old[k].start
            /\ \A j \in DOMAIN old : \E i \in DOMAIN under_way : r \in under_way[i].reqs /\ old[j] = Opened(under_way[i])
            /\ \A i \in DOMAIN under_way : r \in under_way[i].reqs =>
                 \E j \in DOMAIN old : old[j] = Opened(under_way[i])
            /\ Paired(log, r).dispatches = Truly(r)
        BY <1>c DEF Exact
      <3>c. old \in Seq(Start)
        BY <1>d
      <3> HIDE DEF start, old, new
      <3>5. /\ DOMAIN old = 1 .. Len(old) /\ DOMAIN new = 1 .. Len(old) + 1 /\ Len(old) \in Nat
            /\ \A j \in DOMAIN old : new[j] = old[j]
            /\ new[Len(old) + 1] = start
        BY <3>3, <3>c, AppendIs
      <3>6. \A j \in DOMAIN new : (j \in DOMAIN old /\ new[j] = old[j]) \/ (j = Len(old) + 1 /\ new[j] = start)
        BY <3>5
      <3>7. \A j \in DOMAIN old : old[j].start < clock
        <4>1. \A i \in DOMAIN under_way : under_way[i].start < clock /\ Opened(under_way[i]).start = under_way[i].start
          BY DEF OrderInv, Opened
        <4> QED
          BY <3>b, <4>1
      <3>8. \A j, k \in DOMAIN new : j < k => new[j].start < new[k].start
        <4> SUFFICES ASSUME NEW j \in DOMAIN new, NEW k \in DOMAIN new, j < k PROVE new[j].start < new[k].start
          OBVIOUS
        <4>1. j \in DOMAIN old /\ new[j] = old[j]
          BY <3>5
        <4>2. CASE k \in DOMAIN old /\ new[k] = old[k]
          BY <3>b, <4>1, <4>2
        <4>3. CASE new[k] = start
          BY <3>4, <3>7, <4>1, <4>3
        <4> QED
          BY <3>6, <4>2, <4>3
      <3>9. \A j \in DOMAIN new : \E i \in DOMAIN under_way' : r \in under_way'[i].reqs /\ new[j] = Opened(under_way'[i])
        <4> SUFFICES ASSUME NEW j \in DOMAIN new
                     PROVE  \E i \in DOMAIN under_way' : r \in under_way'[i].reqs /\ new[j] = Opened(under_way'[i])
          OBVIOUS
        <4>1. CASE j \in DOMAIN old /\ new[j] = old[j]
          <5>1. PICK i \in DOMAIN under_way : r \in under_way[i].reqs /\ old[j] = Opened(under_way[i])
            BY <3>b, <4>1
          <5> QED
            BY <2>5, <4>1, <5>1
        <4>2. CASE new[j] = start
          BY <2>3, <2>4, <2>5, <2>9, <3>4, <4>2
        <4> QED
          BY <3>6, <4>1, <4>2
      <3>10. \A i \in DOMAIN under_way' : r \in under_way'[i].reqs =>
               \E j \in DOMAIN new : new[j] = Opened(under_way'[i])
        <4> SUFFICES ASSUME NEW i \in DOMAIN under_way', r \in under_way'[i].reqs
                     PROVE  \E j \in DOMAIN new : new[j] = Opened(under_way'[i])
          OBVIOUS
        <4>1. CASE i \in DOMAIN under_way /\ under_way'[i] = under_way[i]
          <5>1. PICK j \in DOMAIN old : old[j] = Opened(under_way[i])
            BY <3>b, <4>1
          <5>2. j \in DOMAIN new /\ new[j] = old[j]
            BY <3>5
          <5> QED
            BY <4>1, <5>1, <5>2
        <4>2. CASE under_way'[i] = batch
          <5>1. Len(old) + 1 \in DOMAIN new
            BY <3>5
          <5> QED
            BY <3>4, <3>5, <4>2, <5>1
        <4> QED
          BY <2>5, <4>1, <4>2
      <3>11. Paired(log', r).dispatches = Truly(r)'
        BY <2>7, <3>3, <3>b
      <3> HIDE DEF Truly
      <3> QED
        BY <2>b, <3>8, <3>9, <3>10, <3>11 DEF Exact, new
    <2> QED
      BY <2>8, <2>9
  <1>4. CASE update_from_output
    <2> DEFINE batch == Head(under_way)
               event == [type |-> "req_step_ready", ts |-> clock, reqs |-> batch.reqs, key |-> batch.key]
    <2>1. under_way # <<>> /\ under_way' = Tail(under_way) /\ UNCHANGED enqueued
      BY <1>4 DEF update_from_output
    <2>2. /\ event \in Event /\ Emit(event) /\ event.type = "req_step_ready" /\ event.reqs = batch.reqs
          /\ event.ts = clock /\ event.key = batch.key
      BY <1>4, <2>1, ReadyEvent DEF update_from_output
    <2>3. /\ batch = under_way[1] /\ 1 \in DOMAIN under_way
          /\ DOMAIN under_way = 1 .. Len(under_way) /\ DOMAIN under_way' = 1 .. Len(under_way) - 1 /\ Len(under_way) \in Nat
          /\ \A i \in DOMAIN under_way' : under_way'[i] = under_way[i + 1]
      BY <2>1, TailIs DEF Shapes
    <2>4. Truly(r)' = IF r \in batch.reqs THEN Truly(r) \cup {[start |-> batch.start, end |-> clock]} ELSE Truly(r)
      BY <1>4, TrulyGrows
    <2> HIDE DEF batch, event
    <2>5. /\ \A i \in DOMAIN under_way' : i + 1 \in DOMAIN under_way /\ under_way'[i] = under_way[i + 1] /\ 1 < i + 1
          /\ \A i \in DOMAIN under_way : i # 1 => i - 1 \in DOMAIN under_way' /\ under_way'[i - 1] = under_way[i]
      <3>1. \A i \in DOMAIN under_way : i # 1 => i - 1 \in DOMAIN under_way' /\ i - 1 + 1 = i
        BY <2>3
      <3> QED
        BY <2>3, <3>1
    <2>a. Enqueue(r)' = Enqueue(r)
      <3>1. CASE r \in batch.reqs
        BY <1>f, <2>2, <3>1, EnqueueStays
      <3>2. CASE r \notin batch.reqs
        BY <1>g, <2>2, <3>2
      <3> QED
        BY <3>1, <3>2
    <2>b. {e.ts : e \in Enqueue(r)'} = IF enqueued'[r] = None THEN {} ELSE {enqueued'[r]}
      BY <1>e, <2>1, <2>a
    <2>8. CASE r \notin batch.reqs
      <3>1. Paired(log', r) = Paired(log, r)
        BY <1>g, <2>2, <2>8
      <3>2. Truly(r)' = Truly(r)
        BY <2>4, <2>8
      <3>3. \A i \in DOMAIN under_way' : r \in under_way'[i].reqs =>
              \E j \in DOMAIN under_way : r \in under_way[j].reqs /\ under_way'[i] = under_way[j]
        BY <2>5
      <3>4. \A i \in DOMAIN under_way : r \in under_way[i].reqs =>
              \E j \in DOMAIN under_way' : r \in under_way'[j].reqs /\ under_way'[j] = under_way[i]
        BY <2>3, <2>5, <2>8
      <3> QED
        BY <1>c, <2>b, <3>1, <3>2, <3>3, <3>4, ExactStays
    <2>9. CASE r \in batch.reqs
      <3> DEFINE old == Paired(log, r).starts
                 new == Paired(log', r).starts
                 p == pop_dispatch_start_for_ready(old, event.key)
      <3>1. Paired(log', r) = Pair(Paired(log, r), event)
        BY <1>f, <2>2, <2>9
      <3>b. /\ \A j, k \in DOMAIN old : j < k => old[j].start < old[k].start
            /\ \A j \in DOMAIN old : \E i \in DOMAIN under_way : r \in under_way[i].reqs /\ old[j] = Opened(under_way[i])
            /\ \A i \in DOMAIN under_way : r \in under_way[i].reqs =>
                 \E j \in DOMAIN old : old[j] = Opened(under_way[i])
            /\ Paired(log, r).dispatches = Truly(r)
        BY <1>c DEF Exact
      <3>5. old \in Seq(Start)
        BY <1>d
      <3>2. PICK j1 \in DOMAIN old : old[j1] = Opened(batch)
        BY <2>3, <2>9, <3>b
      <3>6. old # <<>>
        BY <3>2, EmptySeq
      <3>7. 1 \in DOMAIN old /\ DOMAIN old = 1 .. Len(old) /\ Len(old) \in Nat
        BY <3>5, <3>6, TailIs
      <3>s. \A b : Opened(b).start = b.start /\ Opened(b).key = b.key
        BY DEF Opened
      <3>8. /\ new = RemoveAt(old, p)
            /\ Paired(log', r).dispatches = Paired(log, r).dispatches \cup {[start |-> old[p].start, end |-> clock]}
        BY <1>d, <2>2, <3>1, <3>6, PairReady
      <3>9. old[1].key = batch.key => p = 1
        BY <1>d, <2>2, <3>6, PopIs
      <3> HIDE DEF old, new, p
      <3>10. \A i \in DOMAIN under_way : i # 1 => under_way[1].start < under_way[i].start
        BY <2>3 DEF OrderInv
      <3>11. old[1] = Opened(batch)
        <4>1. PICK i \in DOMAIN under_way : r \in under_way[i].reqs /\ old[1] = Opened(under_way[i])
          BY <3>7, <3>b
        <4>2. CASE i = 1
          BY <2>3, <4>1, <4>2
        <4>3. CASE i # 1
          <5>1. under_way[1].start < under_way[i].start
            BY <3>10, <4>3
          <5>2. old[j1].start = under_way[1].start /\ old[1].start = under_way[i].start
            BY <2>3, <3>2, <3>s, <4>1
          <5>3. under_way[1].start \in Nat /\ under_way[i].start \in Nat
            BY <2>3, NumbersAre
          <5>4. j1 = 1 \/ 1 < j1
            BY <3>2, <3>7
          <5>5. j1 = 1 \/ old[1].start < old[j1].start
            BY <3>2, <3>7, <3>b, <5>4
          <5> QED
            BY <5>1, <5>2, <5>3, <5>5
        <4> QED
          BY <4>2, <4>3
      <3>12. p = 1
        BY <3>9, <3>11, <3>s
      <3>13. /\ DOMAIN new = 1 .. Len(old) - 1
             /\ \A k \in DOMAIN new : new[k] = old[k + 1] /\ k + 1 \in DOMAIN old /\ 1 < k + 1
             /\ \A k \in DOMAIN old : k # 1 => k - 1 \in DOMAIN new /\ new[k - 1] = old[k]
        <4>1. /\ DOMAIN new = 1 .. Len(old) - 1
              /\ \A k \in 1 .. Len(old) - 1 : new[k] = IF k < 1 THEN old[k] ELSE old[k + 1]
          BY <3>5, <3>7, <3>8, <3>12, RemoveIs
        <4>2. \A k \in DOMAIN new : new[k] = old[k + 1] /\ k + 1 \in DOMAIN old /\ 1 < k + 1
          BY <3>7, <4>1
        <4>3. \A k \in DOMAIN old : k # 1 => k - 1 \in DOMAIN new /\ k - 1 + 1 = k
          BY <3>7, <4>1
        <4> QED
          BY <4>1, <4>2, <4>3
      <3>14. \A j, k \in DOMAIN new : j < k => new[j].start < new[k].start
        <4>1. \A j, k \in DOMAIN new : j < k => j + 1 < k + 1
          BY <3>7, <3>13
        <4> QED
          BY <3>13, <3>b, <4>1
      <3>15. \A k \in DOMAIN new : old[1].start < new[k].start
        BY <3>7, <3>13, <3>b
      <3>16. \A j \in DOMAIN new : \E i \in DOMAIN under_way' : r \in under_way'[i].reqs /\ new[j] = Opened(under_way'[i])
        <4> SUFFICES ASSUME NEW j \in DOMAIN new
                     PROVE  \E i \in DOMAIN under_way' : r \in under_way'[i].reqs /\ new[j] = Opened(under_way'[i])
          OBVIOUS
        <4>1. PICK i \in DOMAIN under_way : r \in under_way[i].reqs /\ old[j + 1] = Opened(under_way[i])
          BY <3>13, <3>b
        <4>2. i # 1
          <5>1. old[1].start < old[j + 1].start
            BY <3>13, <3>15
          <5>2. old[1].start = under_way[1].start /\ old[j + 1].start = under_way[i].start
            BY <2>3, <3>11, <3>s, <4>1
          <5>3. under_way[1].start \in Nat
            BY <2>3, NumbersAre
          <5> QED
            BY <5>1, <5>2, <5>3
        <4>3. i - 1 \in DOMAIN under_way' /\ under_way'[i - 1] = under_way[i]
          BY <2>5, <4>2
        <4> QED
          BY <3>13, <4>1, <4>3
      <3>17. \A i \in DOMAIN under_way' : r \in under_way'[i].reqs =>
               \E j \in DOMAIN new : new[j] = Opened(under_way'[i])
        <4> SUFFICES ASSUME NEW i \in DOMAIN under_way', r \in under_way'[i].reqs
                     PROVE  \E j \in DOMAIN new : new[j] = Opened(under_way'[i])
          OBVIOUS
        <4>1. i + 1 \in DOMAIN under_way /\ under_way'[i] = under_way[i + 1] /\ i + 1 # 1
          BY <2>3, <2>5
        <4>2. PICK m \in DOMAIN old : old[m] = Opened(under_way[i + 1])
          BY <3>b, <4>1
        <4>3. m # 1
          <5>1. under_way[1].start < under_way[i + 1].start
            BY <3>10, <4>1
          <5>2. old[m].start = under_way[i + 1].start /\ old[1].start = under_way[1].start
            BY <2>3, <3>11, <3>s, <4>2
          <5>3. under_way[1].start \in Nat
            BY <2>3, NumbersAre
          <5> QED
            BY <5>1, <5>2, <5>3
        <4>4. m - 1 \in DOMAIN new /\ new[m - 1] = old[m]
          BY <3>13, <4>3
        <4> QED
          BY <4>1, <4>2, <4>4
      <3>18. Paired(log', r).dispatches = Truly(r)'
        <4>1. old[p].start = batch.start
          BY <3>11, <3>12, <3>s
        <4> QED
          BY <2>4, <2>9, <3>8, <3>b, <4>1
      <3> HIDE DEF Truly
      <3> QED
        BY <2>b, <3>14, <3>16, <3>17, <3>18 DEF Exact, new
    <2> QED
      BY <2>8, <2>9
  <1> QED
    BY <1>1, <1>2, <1>3, <1>4 DEF Next, Preempt, vars

-----------------------------------------------------------------------------
(* The theorems. *)

\* The inductive invariant.
Inv == Shapes /\ OrderInv /\ StartsInv /\ ExactInv

\* Nothing has happened yet.
LEMMA InvInit ==
  ASSUME Init
  PROVE  Inv
  <1>1. /\ clock = 0 /\ enqueued = [r \in Requests |-> None] /\ computed = [r \in Requests |-> 0]
        /\ under_way = <<>> /\ done = {} /\ log = <<>> /\ lost = {} /\ preempted = {}
    BY DEF Init
  <1>2. DOMAIN under_way = {} /\ under_way \in Seq(Batch)
    <2>1. \A i \in 1 .. 0 : FALSE
      OBVIOUS
    <2> QED
      BY <1>1, <2>1, EmptySeq, LenProperties
  <1>3. log \in Seq(Event) /\ Range(log) = {}
    <2>1. DOMAIN log = {}
      BY <1>1, <1>2
    <2> QED
      BY <1>1, <2>1, EmptySeq DEF Range
  <1>4. \A r \in Requests : Paired(log, r) = [starts |-> <<>>, dispatches |-> {}]
    BY <1>1, PairedNone
  <1>5. \A r \in Requests : /\ Paired(log, r).starts = <<>> /\ Paired(log, r).dispatches = {}
                            /\ DOMAIN Paired(log, r).starts = {}
    BY <1>1, <1>2, <1>4
  <1>6. \A r \in Requests : Paired(log, r) \in Found
    <2>1. <<>> \in Seq(Start)
      BY EmptySeq
    <2>2. {} \in SUBSET [start : Nat, end : Nat]
      OBVIOUS
    <2>3. [starts |-> <<>>, dispatches |-> {}] \in Found
      BY <2>1, <2>2 DEF Found
    <2> QED
      BY <1>4, <2>3
  <1>7. Shapes
    BY <1>1, <1>2, <1>3, <1>6, TimesAre DEF Shapes
  <1>8. OrderInv
    BY <1>1, <1>2 DEF OrderInv
  <1>9. StartsInv
    BY <1>2, <1>5 DEF StartsInv, KeptStarts
  <1>10. ExactInv
    <2>1. \A r \in Requests : Truly(r) = {} /\ Enqueue(r) = {}
      BY <1>1, <1>3 DEF Truly, Enqueue
    <2>2. \A r \in Requests : enqueued[r] = None
      BY <1>1
    <2> QED
      BY <1>2, <1>5, <2>1, <2>2 DEF ExactInv, Exact
  <1> QED
    BY <1>7, <1>8, <1>9, <1>10 DEF Inv

\* The invariant holds of every run.
LEMMA Invariant == Spec => []Inv
  <1>1. Init => Inv
    BY InvInit
  <1>2. Inv /\ [Next]_vars => Inv'
    BY ShapesNext, OrderNext, StartsNext, ExactNext DEF Inv
  <1> QED
    BY <1>1, <1>2, PTL DEF Spec

\* The dispatches of a request follow one another in the order of their starts,
\* after it was queued.
LEMMA TrulyIs ==
  ASSUME Shapes, OrderInv, NEW r \in Requests
  PROVE  /\ \A d \in Truly(r) : d.start \in Nat /\ d.end \in Nat /\ d.start < d.end /\ d.end <= MaxSteps
              /\ enqueued[r] # None /\ enqueued[r] \in Nat /\ enqueued[r] < d.start
         /\ \A d, e \in Truly(r) : d.start < e.start => d.end < e.end
         /\ \A d, e \in Truly(r) : d.start = e.start => d = e
  <1>1. ASSUME NEW d \in Truly(r)
        PROVE  \E x \in done : r \in x.reqs /\ d = [start |-> x.start, end |-> x.end]
                 /\ d.start = x.start /\ d.end = x.end
    BY DEF Truly
  <1>2. \A x \in done : x.start \in Nat /\ x.end \in Nat /\ x.start < x.end /\ x.end < clock
    BY NumbersAre DEF OrderInv
  <1>3. clock <= MaxSteps /\ clock \in Nat /\ MaxSteps \in Nat
    BY TimesAre DEF Shapes
  <1>4. \A x \in done : x.end <= MaxSteps
    BY <1>2, <1>3
  <1>5. \A d \in Truly(r) : d.start \in Nat /\ d.end \in Nat /\ d.start < d.end /\ d.end <= MaxSteps
    BY <1>1, <1>2, <1>4
  <1>6. \A d \in Truly(r) : enqueued[r] # None /\ enqueued[r] \in Nat /\ enqueued[r] < d.start
    BY <1>1, NumbersAre DEF OrderInv
  <1>7. \A d, e \in Truly(r) : d.start < e.start => d.end < e.end
    BY <1>1 DEF OrderInv
  <1>8. ASSUME NEW d \in Truly(r), NEW e \in Truly(r), d.start = e.start PROVE d = e
    <2>1. PICK x \in done : d = [start |-> x.start, end |-> x.end] /\ d.start = x.start
      BY <1>1
    <2>2. PICK y \in done : e = [start |-> y.start, end |-> y.end] /\ e.start = y.start
      BY <1>1
    <2>3. x = y
      BY <1>8, <2>1, <2>2 DEF OrderInv
    <2> QED
      BY <2>1, <2>2, <2>3
  <1> QED
    BY <1>5, <1>6, <1>7, <1>8

\* Whatever ready events are lost, a dispatch of the trace is one of the
\* request's: pop_dispatch_start_for_ready never joins the start of one batch
\* with the end of another, since no two starts still open have one key.
THEOREM DispatchesHonest == Spec => []DispatchesAreTrue
  <1>1. Inv => DispatchesAreTrue
    BY DEF Inv, StartsInv, KeptStarts, DispatchesAreTrue, req_dispatch_intervals
  <1> QED
    BY <1>1, Invariant, PTL

\* A wait ends no later than a dispatch begins, or begins no earlier than it ends.
LEMMA WaitsApart ==
  ASSUME Shapes, OrderInv, NEW r \in Requests, NEW D, D \subseteq Truly(r),
         NEW w \in EnqueueWait(r, D) \cup StepWaits(D), NEW d \in D
  PROVE  d.end <= w.start \/ w.end <= d.start
  <1>1. d.start \in Nat /\ d.end \in Nat
    BY TrulyIs
  <1>2. CASE w \in EnqueueWait(r, D)
    <2>1. PICK x \in D : (\A y \in D : x.start <= y.start) /\ w.end = x.start
      BY <1>2 DEF EnqueueWait
    <2> QED
      BY <2>1
  <1>3. CASE w \in StepWaits(D)
    <2>1. PICK p \in D \X D :
            /\ p[1].start < p[2].start /\ p[1].end < p[2].start
            /\ ~ \E x \in D : p[1].start < x.start /\ x.start < p[2].start
            /\ w = [start |-> p[1].end, end |-> p[2].start]
      BY <1>3 DEF StepWaits
    <2>2. p[1] \in D /\ p[2] \in D /\ w.start = p[1].end /\ w.end = p[2].start
      BY <2>1
    <2>3. /\ p[1].start \in Nat /\ p[1].end \in Nat /\ p[2].start \in Nat
          /\ d.start < p[1].start => d.end < p[1].end
          /\ d.start = p[1].start => d = p[1]
      BY <2>2, TrulyIs
    <2>4. CASE d.start < p[1].start
      BY <1>1, <2>2, <2>3, <2>4
    <2>5. CASE d.start = p[1].start
      BY <1>1, <2>2, <2>3, <2>5
    <2>6. CASE p[1].start < d.start
      BY <1>1, <2>1, <2>2, <2>3, <2>6
    <2> QED
      BY <1>1, <2>3, <2>4, <2>5, <2>6
  <1> QED
    BY <1>2, <1>3

\* "Keeps queue slices in the gaps between dispatch slices" (log_to_trace.py):
\* no wait of the trace overlaps a dispatch of the trace.
THEOREM WaitsHonest == Spec => []WaitsBetweenDispatches
  <1>1. ASSUME Inv PROVE WaitsBetweenDispatches
    <2> SUFFICES ASSUME NEW r \in Requests \ preempted, LostOf(r, "req_scheduler_out_rpc") = {},
                        NEW w \in queue_intervals(r), NEW d \in req_dispatch_intervals(r)
                 PROVE  d.end <= w.start \/ w.end <= d.start
      BY DEF WaitsBetweenDispatches
    <2>1. req_dispatch_intervals(r) \subseteq Truly(r)
      BY <1>1 DEF Inv, StartsInv, KeptStarts, req_dispatch_intervals
    <2>2. w \in EnqueueWait(r, req_dispatch_intervals(r)) \cup StepWaits(req_dispatch_intervals(r))
      BY DEF queue_intervals
    <2> HIDE DEF req_dispatch_intervals
    <2> QED
      BY <1>1, <2>1, <2>2, WaitsApart DEF Inv
  <1> QED
    BY <1>1, Invariant, PTL

\* A time that is in a wait is in no dispatch, and comes after the queueing and
\* before some dispatch.
LEMMA WaitsAreSound ==
  ASSUME Shapes, OrderInv, NEW r \in Requests, {e.ts : e \in Enqueue(r)} = {enqueued[r]},
         NEW w \in EnqueueWait(r, Truly(r)) \cup StepWaits(Truly(r)), NEW x \in Nat, During(x, w)
  PROVE  /\ enqueued[r] <= x
         /\ \A d \in Truly(r) : ~ During(x, d)
         /\ \E d \in Truly(r) : x < d.start
  <1> DEFINE D == Truly(r)
  <1>1. \A d \in D : d.end <= w.start \/ w.end <= d.start
    BY WaitsApart
  <1>2. w.start <= x /\ x < w.end
    BY DEF During
  <1>3. /\ enqueued[r] <= w.start
        /\ w.start \in Nat
        /\ \E d \in D : d.start = w.end
    <2>1. CASE w \in EnqueueWait(r, D)
      <3>1. PICK e \in Enqueue(r), d \in D : w.start = e.ts /\ w.end = d.start
        BY <2>1 DEF EnqueueWait
      <3>2. e.ts = enqueued[r] /\ enqueued[r] \in Nat
        BY TrulyIs
      <3> QED
        BY <3>1, <3>2
    <2>2. CASE w \in StepWaits(D)
      <3>1. PICK p \in D \X D : w.start = p[1].end /\ w.end = p[2].start
        BY <2>2 DEF StepWaits
      <3>2. p[1] \in D /\ p[2] \in D
        OBVIOUS
      <3> HIDE DEF D
      <3>3. enqueued[r] \in Nat /\ enqueued[r] < p[1].start /\ p[1].start < p[1].end /\ p[1].start \in Nat /\ p[1].end \in Nat
        BY <3>2, TrulyIs DEF D
      <3> QED
        BY <3>1, <3>2, <3>3
    <2> QED
      BY <2>1, <2>2
  <1>4. \A d \in D : d.start \in Nat /\ d.end \in Nat /\ enqueued[r] \in Nat
    BY TrulyIs
  <1> HIDE DEF D
  <1>5. enqueued[r] <= x
    BY <1>2, <1>3, <1>4
  <1>6. ASSUME NEW d \in D PROVE ~ During(x, d)
    <2>1. CASE d.end <= w.start
      BY <1>2, <1>3, <1>4, <2>1 DEF During
    <2>2. CASE w.end <= d.start
      BY <1>2, <1>3, <1>4, <2>2 DEF During
    <2> QED
      BY <1>1, <2>1, <2>2
  <1>7. \E d \in D : x < d.start
    BY <1>2, <1>3
  <1> QED
    BY <1>5, <1>6, <1>7 DEF D

\* A time after the queueing, before some dispatch and in none is in a wait.
LEMMA WaitsAreComplete ==
  ASSUME Shapes, OrderInv, NEW r \in Requests, {e.ts : e \in Enqueue(r)} = {enqueued[r]},
         NEW x \in Nat, enqueued[r] <= x,
         \A d \in Truly(r) : ~ During(x, d),
         \E d \in Truly(r) : x < d.start
  PROVE  \E w \in EnqueueWait(r, Truly(r)) \cup StepWaits(Truly(r)) : During(x, w)
  <1> DEFINE D == Truly(r)
             later == {d.start : d \in {y \in D : x < y.start}}
             earlier == {d.start : d \in {y \in D : y.start <= x}}
  <1>1. \A d \in D : d.start \in Nat /\ d.end \in Nat /\ d.start < d.end
    BY TrulyIs
  <1>2. \A d \in D : d.start <= x => d.end <= x
    <2>1. \A d \in D : d.start <= x => ~ (x < d.end)
      BY DEF During
    <2> QED
      BY <1>1, <2>1
  <1>3. \E d \in D : x < d.start
    OBVIOUS
  <1> HIDE DEF D
  <1>4. PICK next \in D : x < next.start /\ \A d \in D : x < d.start => next.start <= d.start
    <2>1. later \subseteq Nat /\ later # {}
      BY <1>1, <1>3
    <2> HIDE DEF later
    <2>2. PICK t \in later : \A u \in later : t <= u
      BY <2>1, LeastExists
    <2> QED
      BY <2>2 DEF later
  <1>5. CASE \A d \in D : x < d.start
    <2>1. \A d \in D : next.start <= d.start
      BY <1>4, <1>5
    <2>2. PICK e \in Enqueue(r) : e.ts = enqueued[r]
      OBVIOUS
    <2> DEFINE w == [start |-> e.ts, end |-> next.start]
    <2>3. w \in EnqueueWait(r, D)
      BY <1>4, <2>1 DEF EnqueueWait
    <2>4. During(x, w)
      BY <1>4, <2>2 DEF During
    <2> HIDE DEF w
    <2> QED
      BY <2>3, <2>4 DEF D
  <1>6. CASE \E d \in D : ~ (x < d.start)
    <2>1. earlier \subseteq Nat /\ earlier # {} /\ \A t \in earlier : t <= x
      BY <1>1, <1>6
    <2> HIDE DEF earlier
    <2>2. PICK t \in earlier : \A u \in earlier : u <= t
      BY <2>1, GreatestExists
    <2>3. PICK last \in D : last.start <= x /\ \A d \in D : d.start <= x => d.start <= last.start
      BY <2>2 DEF earlier
    <2>4. last.end <= x /\ last.start < next.start /\ last.end < next.start
      BY <1>1, <1>2, <1>4, <2>3
    <2>5. ~ \E d \in D : last.start < d.start /\ d.start < next.start
      <3> SUFFICES ASSUME NEW d \in D, last.start < d.start, d.start < next.start PROVE FALSE
        OBVIOUS
      <3>1. CASE d.start <= x
        BY <1>1, <2>3, <3>1
      <3>2. CASE x < d.start
        BY <1>1, <1>4, <3>2
      <3> QED
        BY <1>1, <3>1, <3>2
    <2> DEFINE w == [start |-> last.end, end |-> next.start]
               p == <<last, next>>
    <2>6. p \in D \X D /\ p[1] = last /\ p[2] = next
      OBVIOUS
    <2>7. w \in StepWaits(D)
      BY <2>4, <2>5, <2>6 DEF StepWaits
    <2>8. During(x, w)
      BY <1>4, <2>4 DEF During
    <2> HIDE DEF w, p
    <2> QED
      BY <2>7, <2>8 DEF D
  <1> QED
    BY <1>5, <1>6

\* If every event of a request arrives, log_to_trace shows its dispatches as
\* they were, and as waiting exactly the time in which it was in no batch,
\* though batches overlap and a request is preempted.
THEOREM TraceExact == Spec => []TraceIsExact
  <1>1. ASSUME Inv PROVE TraceIsExact
    <2> SUFFICES ASSUME NEW r \in Requests, {e \in lost : r \in e.reqs} = {}
                 PROVE  /\ req_dispatch_intervals(r) = Truly(r)
                        /\ Truly(r) # {} =>
                             \A x \in Times :
                               (\E w \in queue_intervals(r) : During(x, w)) <=>
                                 /\ enqueued[r] <= x
                                 /\ \A d \in Truly(r) : ~During(x, d)
                                 /\ \E d \in Truly(r) : x < d.start
      BY DEF TraceIsExact
    <2>1. Shapes /\ OrderInv /\ Exact(r)
      BY <1>1 DEF Inv, ExactInv
    <2>2. req_dispatch_intervals(r) = Truly(r)
      BY <2>1 DEF Exact, req_dispatch_intervals
    <2>3. queue_intervals(r) = EnqueueWait(r, Truly(r)) \cup StepWaits(Truly(r))
      BY <2>2 DEF queue_intervals
    <2>4. ASSUME Truly(r) # {}, NEW x \in Times
          PROVE  (\E w \in queue_intervals(r) : During(x, w)) <=>
                   /\ enqueued[r] <= x
                   /\ \A d \in Truly(r) : ~During(x, d)
                   /\ \E d \in Truly(r) : x < d.start
      <3>1. x \in Nat
        BY TimesAre
      <3>2. {e.ts : e \in Enqueue(r)} = {enqueued[r]}
        <4>1. enqueued[r] # None
          BY <2>1, <2>4, TrulyIs
        <4> QED
          BY <2>1, <4>1 DEF Exact
      <3>3. (\E w \in queue_intervals(r) : During(x, w)) =>
              /\ enqueued[r] <= x
              /\ \A d \in Truly(r) : ~During(x, d)
              /\ \E d \in Truly(r) : x < d.start
        BY <2>1, <2>3, <3>1, <3>2, WaitsAreSound
      <3>4. ASSUME enqueued[r] <= x, \A d \in Truly(r) : ~During(x, d), \E d \in Truly(r) : x < d.start
            PROVE  \E w \in queue_intervals(r) : During(x, w)
        BY <2>1, <2>3, <3>1, <3>2, <3>4, WaitsAreComplete
      <3> QED
        BY <3>3, <3>4
    <2> QED
      BY <2>2, <2>4
  <1> QED
    BY <1>1, Invariant, PTL

=============================================================================
