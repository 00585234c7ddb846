------------------------- MODULE OutputRoundsProofs -------------------------
(***************************************************************************)
(* Proofs about OutputRounds, for any number of requests and of messages,  *)
(* whatever batches they hold and in however large slices these are cut.   *)
(*                                                                         *)
(* The inductive invariant is Inv, below: the types, who is in the loop's  *)
(* queue, where the tasks are and what there is for them, the order of the *)
(* frames, the suffix sets of the slices left, and what the waits that are *)
(* not charged yet have delayed.  Each part is kept by every step, given   *)
(* the parts before it.                                                    *)
(***************************************************************************)
EXTENDS OutputRounds, SequenceTheorems, FiniteSetTheorems, WellFoundedInduction, TLAPS

USE DEF loop, tracing

\* Batches name each request once.
Distinct == {b \in Seq(Requests) : IsInjective(b)}

\* A set that holds 0, and with each number the next one, holds all numbers.
LEMMA SetInduction ==
  ASSUME NEW S, 0 \in S, \A n \in Nat : n \in S => n + 1 \in S
  PROVE  Nat \subseteq S
  <1> DEFINE R == OpToRel(<, Nat)
             T == Nat \ S
  <1> SUFFICES ASSUME T # {} PROVE FALSE
    OBVIOUS
  <1>1. IsWellFoundedOn(R, Nat)
    BY NatLessThanWellFounded
  <1>2. \A x, y \in Nat : y < x => <<y, x>> \in R
    BY DEF OpToRel
  <1> HIDE DEF R
  <1>3. PICK x \in T : \A y \in T : ~ (<<y, x>> \in R)
    BY <1>1, WFMin
  <1>4. x \in Nat /\ x # 0 /\ x \notin S
    OBVIOUS
  <1>5. x - 1 \in Nat /\ x - 1 < x
    BY <1>4
  <1>6. x - 1 \in S
    BY <1>2, <1>3, <1>4, <1>5
  <1> QED
    BY <1>4, <1>5, <1>6

\* The elements of a sequence move up when the first is taken.
LEMMA TailMoves ==
  ASSUME NEW S, NEW s \in Seq(S), s # <<>>
  PROVE  /\ Tail(s) \in Seq(S) /\ Head(s) \in S /\ Head(s) = s[1] /\ 1 \in DOMAIN s
         /\ \A i \in DOMAIN Tail(s) : i + 1 \in DOMAIN s /\ Tail(s)[i] = s[i + 1]
         /\ DOMAIN s \subseteq Nat \ {0} /\ DOMAIN Tail(s) \subseteq Nat \ {0}
  <1>1. Tail(s) \in Seq(S) /\ Head(s) \in S /\ Head(s) = s[1] /\ Len(Tail(s)) = Len(s) - 1
    BY HeadTailProperties
  <1>2. Len(s) \in Nat \ {0} /\ DOMAIN s = 1 .. Len(s)
    BY EmptySeq, LenProperties
  <1>3. DOMAIN Tail(s) = 1 .. Len(Tail(s))
    BY <1>1, LenProperties
  <1>4. \A i \in 1 .. Len(Tail(s)) : Tail(s)[i] = s[i + 1]
    BY HeadTailProperties
  <1> QED
    BY <1>1, <1>2, <1>3, <1>4

\* The others stay when one is appended.
LEMMA AppendMoves ==
  ASSUME NEW S, NEW s \in Seq(S), NEW e \in S
  PROVE  /\ Append(s, e) \in Seq(S)
         /\ \A i \in DOMAIN Append(s, e) :
              \/ i \in DOMAIN s /\ Append(s, e)[i] = s[i]
              \/ i \notin DOMAIN s /\ Append(s, e)[i] = e
                 /\ \A j \in DOMAIN s : j < i
         /\ \A i, j \in DOMAIN Append(s, e) : i \notin DOMAIN s /\ j \notin DOMAIN s => i = j
         /\ DOMAIN Append(s, e) \subseteq Nat \ {0}
  <1>1. /\ Append(s, e) \in Seq(S) /\ Len(Append(s, e)) = Len(s) + 1
        /\ \A i \in 1 .. Len(s) : Append(s, e)[i] = s[i]
        /\ Append(s, e)[Len(s) + 1] = e
    BY AppendProperties
  <1>2. Len(s) \in Nat /\ DOMAIN s = 1 .. Len(s)
    BY LenProperties
  <1>3. DOMAIN Append(s, e) = 1 .. Len(s) + 1
    BY <1>1, LenProperties
  <1> QED
    BY <1>1, <1>2, <1>3

\* What a sequence holds when one is appended.
LEMMA AppendHolds ==
  ASSUME NEW S, NEW s \in Seq(S), NEW e \in S
  PROVE  \A i \in DOMAIN Append(s, e) : Append(s, e)[i] = e \/ (i \in DOMAIN s /\ Append(s, e)[i] = s[i])
  <1> DEFINE more == Append(s, e)
  <1>1. \A i \in DOMAIN more :
          \/ i \in DOMAIN s /\ more[i] = s[i]
          \/ i \notin DOMAIN s /\ more[i] = e /\ \A j \in DOMAIN s : j < i
    BY AppendMoves
  <1> HIDE DEF more
  <1> QED
    BY <1>1 DEF more

\* The first stays the first when one is appended.
LEMMA FirstStays ==
  ASSUME NEW S, NEW s \in Seq(S), NEW e \in S
  PROVE  /\ Append(s, e) # <<>>
         /\ s = <<>> => Append(s, e)[1] = e
         /\ s # <<>> => Append(s, e)[1] = s[1]
  <1>1. /\ Len(Append(s, e)) = Len(s) + 1 /\ Len(s) \in Nat /\ Append(s, e)[Len(s) + 1] = e
        /\ \A i \in 1 .. Len(s) : Append(s, e)[i] = s[i]
        /\ Append(s, e) \in Seq(S)
    BY AppendProperties, LenProperties
  <1>2. Append(s, e) # <<>>
    <2> SUFFICES ASSUME Append(s, e) = <<>> PROVE FALSE
      OBVIOUS
    <2>1. Len(Append(s, e)) = 0
      BY EmptySeq
    <2> QED
      BY <1>1, <2>1
  <1>3. CASE s = <<>>
    <2>1. Len(s) = 0
      BY <1>3, EmptySeq
    <2> QED
      BY <1>1, <1>2, <1>3, <2>1
  <1>4. CASE s # <<>>
    <2>1. 1 \in 1 .. Len(s)
      BY <1>4, EmptySeq
    <2> QED
      BY <1>1, <1>2, <1>4, <2>1
  <1> QED
    BY <1>3, <1>4

\* A function on an initial segment of the naturals is a sequence.
LEMMA SegmentIsSeq ==
  ASSUME NEW S, NEW n \in Nat, NEW f \in [1 .. n -> S]
  PROVE  f \in Seq(S)
  <1>1. f \in UNION {[1 .. k -> S] : k \in Nat}
    BY Zenon
  <1> QED
    BY <1>1, SeqDef, Zenon

\* Division rounds down.
LEMMA Division ==
  ASSUME NEW a \in Nat, NEW c \in Nat \ {0}
  PROVE  /\ a \div c \in Nat
         /\ (a \div c) * c <= a
         /\ a < (a \div c) * c + c
  OBVIOUS

-----------------------------------------------------------------------------
(* Who waits in q.get(). *)

\* Whom of the first k requests of a batch there are, given whom before.
Waiting1(f, batch, k) ==
  IF k = 0 THEN <<>>
  ELSE IF pc[batch[k]] = "queue" THEN Append(f[k - 1], batch[k]) ELSE f[k - 1]

\* The recursion of Waiting has a solution, so Waiting is what it says.
LEMMA WaitingDefined ==
  ASSUME NEW batch \in Distinct
  PROVE  \E f : f = [k \in 0 .. Len(batch) |-> Waiting1(f, batch, k)] /\ Waiting(batch) = f[Len(batch)]
  <1>1. Len(batch) \in Nat
    BY LenProperties DEF Distinct
  <1> DEFINE G(f, m) == f = [k \in 0 .. m |-> Waiting1(f, batch, k)]
             S == {m \in Nat : \E f : G(f, m)}
  <1>2. 0 \in S
    <2> DEFINE f == [k \in 0 .. 0 |-> <<>>]
    <2>1. G(f, 0)
      BY DEF Waiting1
    <2> HIDE DEF f, G
    <2> QED
      BY <2>1
  <1>3. ASSUME NEW m \in Nat, m \in S PROVE m + 1 \in S
    <2>1. PICK f : G(f, m)
      BY <1>3
    <2> DEFINE g == [k \in 0 .. m + 1 |-> IF k = m + 1 THEN Waiting1(f, batch, k) ELSE f[k]]
    <2>2. \A k \in 0 .. m + 1 : Waiting1(g, batch, k) = Waiting1(f, batch, k)
      BY DEF Waiting1
    <2>3. \A k \in 0 .. m + 1 : g[k] = Waiting1(g, batch, k)
      BY <2>1, <2>2
    <2>4. G(g, m + 1)
      BY <2>3
    <2> HIDE DEF g, G
    <2> QED
      BY <2>4
  <1> HIDE DEF S
  <1>4. Len(batch) \in S
    BY <1>1, <1>2, <1>3, SetInduction
  <1> DEFINE H(f) == f = [k \in 0 .. Len(batch) |-> Waiting1(f, batch, k)]
  <1>5. Waiting(batch) = (CHOOSE f : H(f))[Len(batch)]
    BY DEF Waiting, Waiting1
  <1>6. \E f : H(f)
    BY <1>4 DEF S
  <1> HIDE DEF H
  <1> DEFINE f == CHOOSE f : H(f)
  <1>7. H(f)
    BY <1>6
  <1> HIDE DEF f
  <1> QED
    BY <1>5, <1>7 DEF H, f

\* The waiting requests of a batch, each of them once.
LEMMA WaitingIs ==
  ASSUME NEW batch \in Distinct
  PROVE  /\ Waiting(batch) \in Seq(Requests)
         /\ \A i \in DOMAIN Waiting(batch) : pc[Waiting(batch)[i]] = "queue"
         /\ \A i, j \in DOMAIN Waiting(batch) : Waiting(batch)[i] = Waiting(batch)[j] => i = j
  <1>1. PICK f : f = [k \in 0 .. Len(batch) |-> Waiting1(f, batch, k)] /\ Waiting(batch) = f[Len(batch)]
    BY WaitingDefined
  <1>2. /\ Len(batch) \in Nat /\ DOMAIN batch = 1 .. Len(batch)
        /\ \A k \in 1 .. Len(batch) : batch[k] \in Requests
        /\ \A i, j \in 1 .. Len(batch) : batch[i] = batch[j] => i = j
    BY LenProperties, ElementOfSeq DEF Distinct, IsInjective
  <1> DEFINE Good(s, m) ==
               /\ s \in Seq(Requests)
               /\ \A i \in DOMAIN s : pc[s[i]] = "queue" /\ \E k \in 1 .. m : s[i] = batch[k]
               /\ \A i, j \in DOMAIN s : s[i] = s[j] => i = j
             S == {m \in Nat : m <= Len(batch) => Good(f[m], m)}
  <1>3. 0 \in S
    <2>1. f[0] = <<>>
      BY <1>1, <1>2 DEF Waiting1
    <2>2. Good(<<>>, 0)
      OBVIOUS
    <2> HIDE DEF Good
    <2> QED
      BY <2>1, <2>2
  <1>4. ASSUME NEW m \in Nat, m \in S PROVE m + 1 \in S
    <2> SUFFICES ASSUME m + 1 <= Len(batch) PROVE Good(f[m + 1], m + 1)
      OBVIOUS
    <2> DEFINE s == f[m]
               r == batch[m + 1]
    <2>1. Good(s, m)
      BY <1>2, <1>4
    <2>2. f[m + 1] = IF pc[r] = "queue" THEN Append(s, r) ELSE s
      <3>1. m + 1 \in 0 .. Len(batch)
        BY <1>2
      <3>2. f[m + 1] = Waiting1(f, batch, m + 1)
        BY <1>1, <3>1
      <3>3. m + 1 # 0 /\ m + 1 - 1 = m
        OBVIOUS
      <3> QED
        BY <3>2, <3>3 DEF Waiting1
    <2>3. r \in Requests /\ \A k \in 1 .. m : batch[k] # r
      BY <1>2
    <2>4. CASE pc[r] # "queue"
      BY <2>1, <2>2, <2>4
    <2>5. CASE pc[r] = "queue"
      <3> HIDE DEF s, r
      <3>1. f[m + 1] = Append(s, r) /\ s \in Seq(Requests)
        BY <2>1, <2>2, <2>5
      <3>2. \A i \in DOMAIN Append(s, r) :
              \/ i \in DOMAIN s /\ Append(s, r)[i] = s[i]
              \/ i \notin DOMAIN s /\ Append(s, r)[i] = r /\ \A j \in DOMAIN s : j < i
        BY <2>3, <3>1, AppendMoves
      <3>3. Append(s, r) \in Seq(Requests) /\ DOMAIN Append(s, r) = 1 .. Len(s) + 1 /\ DOMAIN s = 1 .. Len(s)
        BY <2>3, <3>1, AppendProperties, LenProperties
      <3>4. \A i \in DOMAIN Append(s, r) :
              pc[Append(s, r)[i]] = "queue" /\ \E k \in 1 .. m + 1 : Append(s, r)[i] = batch[k]
        BY <2>1, <2>5, <3>2 DEF r
      <3>5. \A i, j \in DOMAIN Append(s, r) : Append(s, r)[i] = Append(s, r)[j] => i = j
        <4>1. \A i \in DOMAIN s : s[i] # r
          BY <2>1, <2>3
        <4>2. Len(s) \in Nat
          BY <3>1, LenProperties
        <4> QED
          BY <2>1, <3>2, <3>3, <4>1, <4>2
      <3> QED
        BY <3>1, <3>3, <3>4, <3>5
    <2> QED
      BY <2>4, <2>5
  <1> HIDE DEF S
  <1>5. Len(batch) \in S
    BY <1>2, <1>3, <1>4, SetInduction
  <1> QED
    BY <1>1, <1>2, <1>5 DEF S

-----------------------------------------------------------------------------
(* The slices of a batch. *)

\* A batch is cut into slices, at least one, that hold what it holds.
LEMMA CutIs ==
  ASSUME NEW batch \in Distinct
  PROVE  /\ chunk_output_handler_slices(batch) \in Seq(Distinct)
         /\ chunk_output_handler_slices(batch) # <<>>
         /\ UNION {Range(chunk_output_handler_slices(batch)[i]) :
                     i \in DOMAIN chunk_output_handler_slices(batch)} = Range(batch)
  <1> DEFINE parts == chunk_output_handler_slices(batch)
             L == Len(batch)
             n == (L + Chunk - 1) \div Chunk
             lo(i) == (i - 1) * Chunk + 1
             hi(i) == IF i * Chunk < L THEN i * Chunk ELSE L
  <1>1. L \in Nat /\ Chunk \in Nat \ {0} /\ DOMAIN batch = 1 .. L /\ \A k \in 1 .. L : batch[k] \in Requests
    BY ConstantsAssumption, LenProperties, ElementOfSeq DEF Distinct
  <1>2. \A i, j \in 1 .. L : batch[i] = batch[j] => i = j
    BY <1>1 DEF Distinct, IsInjective
  <1>3. CASE L <= Chunk
    <2>1. parts = <<batch>>
      BY <1>3 DEF chunk_output_handler_slices
    <2> QED
      BY <2>1
  <1>4. CASE L > Chunk
    <2>1. parts = [i \in 1 .. n |-> SubSeq(batch, lo(i), hi(i))]
      BY <1>1, <1>4 DEF chunk_output_handler_slices
    <2>2. n \in Nat /\ n >= 1
      BY <1>1, <1>4, Division
    <2>3. ASSUME NEW i \in 1 .. n
          PROVE  /\ lo(i) \in Nat \ {0} /\ hi(i) \in Nat /\ hi(i) <= L
      BY <1>1, <2>2
    <2> HIDE DEF n
    <2>4. ASSUME NEW i \in 1 .. n
          PROVE  /\ SubSeq(batch, lo(i), hi(i)) \in Distinct
                 /\ Range(SubSeq(batch, lo(i), hi(i))) = {batch[k] : k \in lo(i) .. hi(i)}
      <3> DEFINE a == lo(i)
                 b == hi(i)
                 s == SubSeq(batch, a, b)
      <3>1. a \in Nat \ {0} /\ b \in Nat /\ b <= L
        BY <2>3
      <3> HIDE DEF a, b
      <3>2. \A k \in a .. b : batch[k] \in Requests
        BY <1>1, <3>1
      <3>3. /\ s \in Seq(Requests) /\ Len(s) = (IF a <= b THEN b - a + 1 ELSE 0)
            /\ \A k \in 1 .. b - a + 1 : s[k] = batch[a + k - 1]
        BY <3>1, <3>2, SubSeqProperties
      <3> HIDE DEF s, L
      <3>4. DOMAIN s = 1 .. b - a + 1
        BY <3>1, <3>3, LenProperties
      <3>5. IsInjective(s)
        <4> SUFFICES ASSUME NEW x \in DOMAIN s, NEW y \in DOMAIN s, s[x] = s[y] PROVE x = y
          BY DEF IsInjective
        <4>1. a + x - 1 \in 1 .. L /\ a + y - 1 \in 1 .. L
          BY <1>1, <3>1, <3>4
        <4>2. batch[a + x - 1] = batch[a + y - 1]
          BY <3>3, <3>4
        <4>3. a + x - 1 = a + y - 1
          BY <1>2, <4>1, <4>2
        <4> QED
          BY <3>1, <3>4, <4>3
      <3>6. Range(s) = {batch[k] : k \in a .. b}
        <4>1. ASSUME NEW k \in a .. b PROVE k - a + 1 \in DOMAIN s /\ s[k - a + 1] = batch[k]
          BY <3>1, <3>3, <3>4
        <4>2. ASSUME NEW k \in DOMAIN s PROVE a + k - 1 \in a .. b /\ s[k] = batch[a + k - 1]
          BY <3>1, <3>3, <3>4
        <4> QED
          BY <4>1, <4>2 DEF Range
      <3> QED
        BY <3>3, <3>5, <3>6 DEF Distinct, s, a, b
    <2>5. parts \in [1 .. n -> Distinct]
      BY <2>1, <2>4
    <2>6. parts \in Seq(Distinct)
      BY <2>2, <2>5, SegmentIsSeq
    <2>7. parts # <<>>
      <3>1. 1 \in DOMAIN parts
        BY <2>2, <2>5
      <3> QED
        BY <3>1
    <2>8. ASSUME NEW k \in 1 .. L PROVE \E i \in 1 .. n : lo(i) <= k /\ k <= hi(i)
      <3> DEFINE q == (k - 1) \div Chunk
      <3>1. q \in Nat /\ q * Chunk <= k - 1 /\ k - 1 < q * Chunk + Chunk
        BY <1>1, Division
      <3>2. L + Chunk - 1 < n * Chunk + Chunk
        BY <1>1, Division DEF n
      <3> HIDE DEF q
      <3>3. (q + 1) * Chunk < (n + 1) * Chunk
        BY <1>1, <2>2, <3>1, <3>2
      <3>4. q < n
        BY <1>1, <2>2, <3>1, <3>3
      <3>5. q + 1 \in 1 .. n
        BY <2>2, <3>1, <3>4
      <3>6. lo(q + 1) = q * Chunk + 1
        BY <1>1, <3>1
      <3>7. hi(q + 1) = IF q * Chunk + Chunk < L THEN q * Chunk + Chunk ELSE L
        BY <1>1, <3>1
      <3>8. lo(q + 1) <= k /\ k <= hi(q + 1)
        BY <1>1, <3>1, <3>6, <3>7
      <3> QED
        BY <3>5, <3>8
    <2>9. UNION {Range(parts[i]) : i \in DOMAIN parts} = Range(batch)
      <3> HIDE DEF lo, hi, L, parts
      <3>1. \A i \in 1 .. n : Range(parts[i]) = {batch[k] : k \in lo(i) .. hi(i)}
        BY <2>1, <2>4
      <3>2. \A i \in 1 .. n : \A k \in lo(i) .. hi(i) : k \in 1 .. L
        BY <1>1, <2>3
      <3>3. DOMAIN parts = 1 .. n
        BY <2>5
      <3>4. Range(batch) = {batch[k] : k \in 1 .. L}
        BY <1>1 DEF Range
      <3>5. ASSUME NEW k \in 1 .. L PROVE \E i \in 1 .. n : k \in lo(i) .. hi(i)
        BY <1>1, <2>3, <2>8
      <3> QED
        BY <3>1, <3>2, <3>3, <3>4, <3>5
    <2> QED
      BY <2>6, <2>7, <2>9
  <1> QED
    BY <1>1, <1>3, <1>4

-----------------------------------------------------------------------------
(* Types. *)

\* What the queue of batches and the slices left of a round consist of.
Piece == [frame : Frames, batch : Distinct]
Callback == [task : Tasks, tracked : BOOLEAN, delayed : SUBSET Output]
Places == {"waits", "recv", "get", "slice", "abort", "sending", "sent", "queue", "yield", "runs"}

\* Every variable but enabled, which is true or false.
Shapes ==
  /\ switches \in 0 .. MaxSwitches /\ sent \in 0 .. MaxFrames
  /\ socket \in Seq(Message)
  /\ outputs_queue \in Seq(Piece) /\ slices \in Seq(Piece)
  /\ ready \in Seq(Callback)
  /\ running \in Tasks \cup {None}
  /\ pc \in [Tasks -> Places]
  /\ pending \in [OutputTasks -> Seq(SUBSET Output)]
  /\ round \in [suffix : Seq(SUBSET Requests), next : Nat]
  /\ collector \in [Requests -> [frames : SUBSET Frames, since : Frames \cup {None}]]
  /\ pc["handler"] = "slice" => slices # <<>>

\* The tasks are apart.
LEMMA TasksAre ==
  /\ "handler" \in Tasks /\ "socket" \in Tasks /\ Requests \subseteq Tasks
  /\ OutputTasks = {"socket", "handler"} /\ Tasks = OutputTasks \cup Requests
  /\ \A r \in Requests : r # "handler" /\ r # "socket" /\ r # None
  /\ None \notin Tasks
  BY ConstantsAssumption DEF Tasks, OutputTasks

\* A message becomes a piece.
LEMMA MessagesAre ==
  ASSUME NEW message \in Message
  PROVE  /\ [frame |-> message.frame, batch |-> message.batch] \in Piece
         /\ message.frame \in Frames /\ message.batch \in Distinct
  BY ConstantsAssumption DEF Message, Piece, Distinct

\* The outputs of a piece.
LEMMA OutsAre ==
  ASSUME NEW piece \in Piece
  PROVE  Outs(piece.frame, piece.batch) \subseteq Output
  <1>1. piece.frame \in Frames /\ piece.batch \in Seq(Requests)
    BY DEF Piece, Distinct
  <1>2. Range(piece.batch) \subseteq Requests
    BY <1>1, RangeOfSeq
  <1> QED
    BY <1>1, <1>2 DEF Outs, Output

\* The outputs of several.
LEMMA AllOutsAre ==
  ASSUME NEW s \in Seq(Piece), NEW q \in Seq(Piece)
  PROVE  UNION {Outs(x.frame, x.batch) : x \in Range(s) \cup Range(q)} \subseteq Output
  <1>1. Range(s) \subseteq Piece /\ Range(q) \subseteq Piece
    BY RangeOfSeq
  <1> QED
    BY <1>1, OutsAre

\* A callback.
LEMMA ScheduledIs ==
  ASSUME enabled \in BOOLEAN, NEW t \in Tasks, NEW w \in SUBSET Output
  PROVE  /\ Scheduled(t, w) \in Callback
         /\ Scheduled(t, w).task = t /\ Scheduled(t, w).delayed = w
  BY DEF Scheduled, Callback

\* One more callback.
LEMMA OneMore ==
  ASSUME enabled \in BOOLEAN, NEW callbacks \in Seq(Callback), NEW t \in Tasks, NEW w \in SUBSET Output
  PROVE  Append(callbacks, Scheduled(t, w)) \in Seq(Callback)
  <1>1. Scheduled(t, w) \in Callback
    BY ScheduledIs
  <1> QED
    BY <1>1, AppendProperties

\* The wakeups of the waiting requests.
LEMMA WakeupsAre ==
  ASSUME enabled \in BOOLEAN, NEW batch \in Distinct, NEW wakeups,
         wakeups = [i \in DOMAIN Waiting(batch) |-> Scheduled(Waiting(batch)[i], {})]
  PROVE  /\ wakeups \in Seq(Callback) /\ DOMAIN wakeups = DOMAIN Waiting(batch)
         /\ \A i \in DOMAIN wakeups :
              /\ wakeups[i].task = Waiting(batch)[i] /\ wakeups[i].delayed = {}
              /\ wakeups[i].task \in Requests
  <1>1. Waiting(batch) \in Seq(Requests)
    BY WaitingIs
  <1> DEFINE W == Waiting(batch)
  <1> HIDE DEF W
  <1>2. Len(W) \in Nat /\ DOMAIN W = 1 .. Len(W) /\ \A i \in DOMAIN W : W[i] \in Requests
    BY <1>1, LenProperties, ElementOfSeq DEF W
  <1>3. \A i \in DOMAIN W : /\ Scheduled(W[i], {}) \in Callback
                            /\ Scheduled(W[i], {}).task = W[i] /\ Scheduled(W[i], {}).delayed = {}
    BY <1>2, TasksAre, ScheduledIs
  <1>4. wakeups = [i \in 1 .. Len(W) |-> Scheduled(W[i], {})]
    BY <1>2 DEF W
  <1>5. wakeups \in [1 .. Len(W) -> Callback]
    BY <1>2, <1>3, <1>4
  <1>6. wakeups \in Seq(Callback)
    BY <1>2, <1>5, SegmentIsSeq
  <1> QED
    BY <1>2, <1>3, <1>4, <1>6 DEF W

\* The suffix sets of a round.
LEMMA SuffixesAre ==
  ASSUME NEW parts \in Seq(Distinct)
  PROVE  /\ build_output_handler_suffix_req_ids(parts) \in Seq(SUBSET Requests)
         /\ DOMAIN build_output_handler_suffix_req_ids(parts) = DOMAIN parts
  <1>1. Len(parts) \in Nat /\ DOMAIN parts = 1 .. Len(parts) /\ \A i \in DOMAIN parts : parts[i] \in Seq(Requests)
    BY LenProperties, ElementOfSeq DEF Distinct
  <1>2. \A i \in DOMAIN parts : Range(parts[i]) \subseteq Requests
    BY <1>1, RangeOfSeq
  <1>3. ASSUME NEW i \in 1 .. Len(parts)
        PROVE  UNION {Range(parts[j]) : j \in i .. Len(parts)} \in SUBSET Requests
    <2>1. \A j \in i .. Len(parts) : j \in DOMAIN parts
      BY <1>1
    <2> QED
      BY <1>2, <2>1
  <1>4. build_output_handler_suffix_req_ids(parts) \in [1 .. Len(parts) -> SUBSET Requests]
    BY <1>1, <1>3 DEF build_output_handler_suffix_req_ids
  <1> QED
    BY <1>1, <1>4, SegmentIsSeq

\* The initial state has the types.
LEMMA ShapesInit == Init => Shapes /\ enabled \in BOOLEAN
  <1> SUFFICES ASSUME Init PROVE Shapes /\ enabled \in BOOLEAN
    OBVIOUS
  <1>1. enabled \in BOOLEAN
    BY Zenon DEF Init
  <1>2. socket \in Seq(Message) /\ outputs_queue \in Seq(Piece) /\ slices \in Seq(Piece) /\ ready \in Seq(Callback)
    BY DEF Init
  <1>3. pc \in [Tasks -> Places] /\ pc["handler"] = "waits"
    BY DEF Init, Tasks, OutputTasks, Places
  <1>4. pending \in [OutputTasks -> Seq(SUBSET Output)]
    BY DEF Init
  <1>5. round \in [suffix : Seq(SUBSET Requests), next : Nat]
    BY DEF Init, NoRound
  <1>6. running \in Tasks \cup {None} /\ sent \in 0 .. MaxFrames /\ switches \in 0 .. MaxSwitches
    BY ConstantsAssumption DEF Init
  <1>7. collector \in [Requests -> [frames : SUBSET Frames, since : Frames \cup {None}]]
    BY DEF Init
  <1> QED
    BY <1>1, <1>2, <1>3, <1>4, <1>5, <1>6, <1>7 DEF Shapes

\* A flush empties the waits of one task.
LEMMA FlushShapes ==
  ASSUME Shapes, NEW t \in OutputTasks, NEW frame, NEW charged, Flush(t, frame, charged)
  PROVE  /\ pending' \in [OutputTasks -> Seq(SUBSET Output)]
         /\ pending'[t] = <<>> /\ \A u \in OutputTasks \ {t} : pending'[u] = pending[u]
  <1>1. pending' = [pending EXCEPT ![t] = <<>>]
    BY DEF Flush
  <1> QED
    BY <1>1 DEF Shapes

\* Every step keeps the types.
LEMMA ShapesNext ==
  ASSUME Shapes, enabled \in BOOLEAN, [Next]_vars
  PROVE  Shapes' /\ enabled' \in BOOLEAN
  <1> USE DEF Shapes
  <1>0. "handler" \in Tasks /\ "socket" \in Tasks /\ Requests \subseteq Tasks /\ Requests \cap {"handler", "socket"} = {}
    BY TasksAre
  <1>a. {"waits", "recv", "get", "slice", "abort", "sending", "sent", "queue", "yield", "runs"} \subseteq Places
    BY DEF Places
  <1>b. MaxFrames \in Nat /\ MaxSwitches \in Nat
    BY ConstantsAssumption
  <1>1. CASE RunNext
    <2>1. /\ ready # <<>> /\ running' = Head(ready).task /\ ready' = Tail(ready)
          /\ pending' = [t \in OutputTasks |->
                           IF t = running' /\ Head(ready).tracked
                           THEN Append(pending[t], Head(ready).delayed) ELSE pending[t]]
          /\ UNCHANGED <<tracing, sent, socket, outputs_queue, pc, slices, round, collector>>
      BY <1>1 DEF RunNext
    <2>2. Head(ready) \in Callback /\ ready' \in Seq(Callback)
      BY <2>1, HeadTailProperties
    <2>3. Head(ready).task \in Tasks /\ Head(ready).delayed \in SUBSET Output
      BY <2>2 DEF Callback
    <2>4. ASSUME NEW t \in OutputTasks PROVE Append(pending[t], Head(ready).delayed) \in Seq(SUBSET Output)
      BY <2>3, AppendProperties
    <2>5. pending' \in [OutputTasks -> Seq(SUBSET Output)]
      BY <2>1, <2>4
    <2> QED
      BY <2>1, <2>2, <2>3, <2>5
  <1>2. CASE set_enabled
    <2>1. enabled' \in BOOLEAN
      BY <1>2, Zenon DEF set_enabled
    <2>2. switches' \in 0 .. MaxSwitches
      BY <1>2, <1>b DEF set_enabled
    <2> QED
      BY <1>2, <2>1, <2>2 DEF set_enabled
  <1>3. ASSUME NEW message \in Message, Engine(message) PROVE Shapes' /\ enabled' \in BOOLEAN
    <2>1. /\ sent < MaxFrames /\ sent' = sent + 1 /\ message.frame = sent' /\ socket' = Append(socket, message)
          /\ UNCHANGED <<tracing, outputs_queue, running, slices, pending, round, collector>>
          /\ \/ /\ pc' = [pc EXCEPT !["socket"] = "recv"]
                /\ ready' = Append(ready, Scheduled("socket", Outs(sent', message.batch)))
             \/ UNCHANGED <<pc, ready>>
      BY <1>3 DEF Engine
    <2>2. socket' \in Seq(Message)
      BY <2>1, AppendProperties
    <2>3. sent' \in 0 .. MaxFrames
      BY <1>b, <2>1
    <2>4. pc' \in [Tasks -> Places] /\ pc'["handler"] = pc["handler"]
      BY <1>0, <1>a, <2>1
    <2>5. Outs(sent', message.batch) \in SUBSET Output
      <3>1. Outs(message.frame, message.batch) \subseteq Output
        <4> DEFINE piece == [frame |-> message.frame, batch |-> message.batch]
        <4>1. piece \in Piece /\ piece.frame = message.frame /\ piece.batch = message.batch
          BY MessagesAre
        <4> HIDE DEF piece
        <4> QED
          BY <4>1, OutsAre
      <3> QED
        BY <2>1, <3>1
    <2>6. ready' \in Seq(Callback)
      <3>1. CASE UNCHANGED ready
        BY <3>1
      <3>2. CASE ready' = Append(ready, Scheduled("socket", Outs(sent', message.batch)))
        <4> DEFINE outs == Outs(sent', message.batch)
        <4> HIDE DEF outs
        <4>1. ready \in Seq(Callback) /\ outs \in SUBSET Output
          BY <2>5 DEF outs
        <4>2. Append(ready, Scheduled("socket", outs)) \in Seq(Callback)
          BY <1>0, <4>1, OneMore
        <4> QED
          BY <3>2, <4>2 DEF outs
      <3> QED
        BY <2>1, <3>1, <3>2
    <2> QED
      BY <2>1, <2>2, <2>3, <2>4, <2>6
  <1>4. CASE process_outputs_socket
    <2> DEFINE message == Head(socket)
               queued == [frame |-> message.frame, batch |-> message.batch]
    <2>1. /\ socket # <<>> /\ socket' = Tail(socket)
          /\ UNCHANGED <<tracing, sent, running, slices, round, collector>>
          /\ \/ Put(message)
             \/ UNCHANGED <<outputs_queue, pc, ready>>
          /\ \/ UNCHANGED pending
             \/ Flush("socket", message.frame, Range(message.batch))
      BY <1>4 DEF process_outputs_socket
    <2>2. socket' \in Seq(Message) /\ message \in Message
      BY <2>1, HeadTailProperties
    <2>3. queued \in Piece /\ queued.frame = message.frame /\ queued.batch = message.batch
      BY <2>2, MessagesAre
    <2> HIDE DEF queued, message
    <2>4. Put(message) =>
            /\ outputs_queue' = Append(outputs_queue, queued)
            /\ \/ /\ pc' = [pc EXCEPT !["handler"] = "get"]
                  /\ ready' = Append(ready, Scheduled("handler", Outs(message.frame, message.batch)))
               \/ UNCHANGED <<pc, ready>>
      BY DEF Put, queued
    <2>5. outputs_queue' \in Seq(Piece)
      <3>1. outputs_queue' = Append(outputs_queue, queued) \/ outputs_queue' = outputs_queue
        BY <2>1, <2>4
      <3>2. outputs_queue \in Seq(Piece)
        OBVIOUS
      <3> HIDE DEF Shapes
      <3> QED
        BY <2>3, <3>1, <3>2, AppendProperties
    <2>6. pc' \in [Tasks -> Places] /\ (pc'["handler"] = "slice" => pc["handler"] = "slice")
      <3>1. pc' = [pc EXCEPT !["handler"] = "get"] \/ pc' = pc
        BY <2>1, <2>4
      <3>2. pc \in [Tasks -> Places]
        OBVIOUS
      <3> HIDE DEF Shapes
      <3> QED
        BY <1>0, <1>a, <3>1, <3>2
    <2>7. Outs(message.frame, message.batch) \in SUBSET Output
      BY <2>3, OutsAre
    <2>8. ready' \in Seq(Callback)
      <3> DEFINE outs == Outs(message.frame, message.batch)
      <3>1. ready' = Append(ready, Scheduled("handler", outs)) \/ ready' = ready
        BY <2>1, <2>4
      <3>2. ready \in Seq(Callback) /\ outs \in SUBSET Output
        BY <2>7
      <3> HIDE DEF Shapes, outs
      <3>3. Append(ready, Scheduled("handler", outs)) \in Seq(Callback)
        BY <1>0, <3>2, OneMore
      <3> QED
        BY <3>1, <3>2, <3>3
    <2>9. pending' \in [OutputTasks -> Seq(SUBSET Output)]
      BY <2>1, TasksAre, FlushShapes
    <2> QED
      BY <2>1, <2>2, <2>5, <2>6, <2>8, <2>9
  <1>5. CASE set_output_handler_round_slices
    <2> DEFINE first == Head(outputs_queue)
               parts == chunk_output_handler_slices(first.batch)
    <2>1. /\ outputs_queue # <<>> /\ outputs_queue' = Tail(outputs_queue)
          /\ slices' = [i \in DOMAIN parts |-> [frame |-> first.frame, batch |-> parts[i]]]
          /\ round' = [suffix |-> build_output_handler_suffix_req_ids(parts), next |-> 1]
          /\ pc' = [pc EXCEPT !["handler"] = "slice"]
          /\ UNCHANGED <<tracing, sent, socket, ready, running, pending, collector>>
      BY <1>5 DEF set_output_handler_round_slices
    <2>2. outputs_queue' \in Seq(Piece) /\ first \in Piece
      BY <2>1, HeadTailProperties
    <2>3. first.frame \in Frames /\ first.batch \in Distinct
      BY <2>2 DEF Piece
    <2>4. parts \in Seq(Distinct) /\ parts # <<>>
      BY <2>3, CutIs
    <2> HIDE DEF parts, first
    <2>5. Len(parts) \in Nat /\ DOMAIN parts = 1 .. Len(parts) /\ \A i \in DOMAIN parts : parts[i] \in Distinct
      BY <2>4, LenProperties, ElementOfSeq
    <2>6. slices' \in [1 .. Len(parts) -> Piece]
      BY <2>1, <2>3, <2>5 DEF Piece
    <2>7. slices' \in Seq(Piece) /\ slices' # <<>>
      <3>1. Len(parts) # 0
        BY <2>4, EmptySeq
      <3>2. slices' \in Seq(Piece)
        BY <2>5, <2>6, SegmentIsSeq
      <3>3. 1 \in DOMAIN slices'
        BY <2>5, <2>6, <3>1
      <3> QED
        BY <3>2, <3>3
    <2>8. round' \in [suffix : Seq(SUBSET Requests), next : Nat]
      BY <2>1, <2>4, SuffixesAre
    <2>9. pc' \in [Tasks -> Places]
      BY <1>a, <2>1
    <2> QED
      BY <2>1, <2>2, <2>7, <2>8, <2>9
  <1>6. CASE process_outputs
    <2> DEFINE slice == Head(slices)
               woken == Waiting(slice.batch)
               wakeups == [i \in DOMAIN woken |-> Scheduled(woken[i], {})]
    <2>1. /\ running = "handler" /\ pc["handler"] = "slice"
          /\ Flush("handler", slice.frame, SchedReqIds)
          /\ round' = [suffix |-> round.suffix, next |-> round.next + 1]
          /\ collector' = queue_put(slice.batch, slice.frame)
          /\ slices' = Tail(slices)
          /\ pc' = [t \in Tasks |-> IF t = "handler" THEN "abort"
                                    ELSE IF t \in Range(woken) THEN "runs" ELSE pc[t]]
          /\ UNCHANGED <<tracing, sent, socket, outputs_queue>>
          /\ \/ ready' = ready \o wakeups /\ UNCHANGED running
             \/ ready' = Append(ready \o wakeups, Scheduled("handler", AtHandler')) /\ running' = None
      BY <1>6 DEF process_outputs
    <2>2. slices # <<>>
      BY <2>1
    <2>3. slices' \in Seq(Piece) /\ slice \in Piece
      BY <2>1, <2>2, HeadTailProperties
    <2>4. slice.frame \in Frames /\ slice.batch \in Distinct
      BY <2>3 DEF Piece
    <2>5. wakeups \in Seq(Callback)
      BY <2>4, WakeupsAre
    <2>6. ready \o wakeups \in Seq(Callback)
      BY <2>5, ConcatProperties
    <2>7. AtHandler' \in SUBSET Output
      BY <2>1, <2>3, AllOutsAre DEF AtHandler
    <2> HIDE DEF slice, woken, wakeups
    <2>8. ready' \in Seq(Callback)
      <3> DEFINE all == ready \o wakeups
                 left == AtHandler'
      <3>1. ready' = all \/ ready' = Append(all, Scheduled("handler", left))
        BY <2>1
      <3>2. all \in Seq(Callback) /\ left \in SUBSET Output
        BY <2>6, <2>7
      <3> HIDE DEF Shapes, all, left
      <3>3. Append(all, Scheduled("handler", left)) \in Seq(Callback)
        BY <1>0, <3>2, OneMore
      <3> QED
        BY <3>1, <3>2, <3>3
    <2>9. collector' \in [Requests -> [frames : SUBSET Frames, since : Frames \cup {None}]]
      BY <2>1, <2>4 DEF queue_put
    <2>10. pc' \in [Tasks -> Places] /\ pc'["handler"] = "abort"
      BY <1>0, <1>a, <2>1
    <2>11. round' \in [suffix : Seq(SUBSET Requests), next : Nat]
      BY <2>1
    <2>12. pending' \in [OutputTasks -> Seq(SUBSET Output)]
      BY <2>1, TasksAre, FlushShapes
    <2> QED
      BY <2>1, <2>3, <2>8, <2>9, <2>10, <2>11, <2>12
  <1>7. CASE HandlerGoesOn
    <2>1. round' \in [suffix : Seq(SUBSET Requests), next : Nat]
      BY <1>7 DEF HandlerGoesOn, NoRound
    <2>2. pc' \in [Tasks -> Places] /\ (pc'["handler"] = "slice" => slices # <<>>)
      BY <1>0, <1>a, <1>7 DEF HandlerGoesOn
    <2> QED
      BY <1>7, <2>1, <2>2 DEF HandlerGoesOn
  <1>8. CASE SocketWaits \/ HandlerWaits \/ abort_requests_async
    <2>1. pc' \in [Tasks -> Places] /\ (pc'["handler"] = "slice" => pc["handler"] = "slice")
      <3>1. PICK t \in OutputTasks, at \in Places \ {"slice"} : pc' = [pc EXCEPT ![t] = at]
        BY <1>a, <1>8, TasksAre DEF SocketWaits, HandlerWaits, abort_requests_async
      <3>2. t \in Tasks
        BY TasksAre
      <3> QED
        BY <1>0, <3>1, <3>2
    <2> QED
      BY <1>8, <2>1 DEF SocketWaits, HandlerWaits, abort_requests_async
  <1>9. CASE AbortSent
    <2>1. pc' \in [Tasks -> Places] /\ pc'["handler"] = "sent"
      BY <1>0, <1>a, <1>9 DEF AbortSent
    <2>2. AtHandler \in SUBSET Output
      BY AllOutsAre DEF AtHandler
    <2>3. ready' \in Seq(Callback)
      BY <1>0, <1>9, <2>2, ScheduledIs, AppendProperties DEF AbortSent
    <2> QED
      BY <1>9, <2>1, <2>3 DEF AbortSent
  <1>10. ASSUME NEW r \in Requests, generate(r) PROVE Shapes' /\ enabled' \in BOOLEAN
    <2>1. collector' \in [Requests -> [frames : SUBSET Frames, since : Frames \cup {None}]]
      BY <1>10 DEF generate
    <2>2. PICK at \in {"queue", "yield"} : pc' = [pc EXCEPT ![r] = at]
      BY <1>10 DEF generate
    <2>3. pc' \in [Tasks -> Places] /\ pc'["handler"] = pc["handler"]
      BY <1>0, <1>a, <2>2
    <2> QED
      BY <1>10, <2>1, <2>3 DEF generate
  <1>11. ASSUME NEW r \in Requests, CallerReturns(r) PROVE Shapes' /\ enabled' \in BOOLEAN
    <2>1. pc' \in [Tasks -> Places] /\ pc'["handler"] = pc["handler"]
      BY <1>0, <1>a, <1>11 DEF CallerReturns
    <2>2. ready' \in Seq(Callback)
      <3>1. {} \in SUBSET Output /\ r \in Tasks
        BY <1>0
      <3> QED
        BY <1>11, <3>1, ScheduledIs, AppendProperties DEF CallerReturns
    <2> QED
      BY <1>11, <2>1, <2>2 DEF CallerReturns
  <1>12. CASE UNCHANGED vars
    BY <1>12 DEF vars
  <1> QED
    BY <1>1, <1>2, <1>3, <1>4, <1>5, <1>6, <1>7, <1>8, <1>9, <1>10, <1>11, <1>12 DEF Next

-----------------------------------------------------------------------------
(* The event loop. *)

Suspended == {"waits", "queue", "yield", "sending"}

\* A task that is not suspended runs, or one callback of it is queued.
Orderly(queue, run, at) ==
  /\ \A i, j \in DOMAIN queue : queue[i].task = queue[j].task => i = j
  /\ \A i \in DOMAIN queue : queue[i].task # run /\ at[queue[i].task] \notin Suspended
  /\ \A t \in Tasks : at[t] \notin Suspended => t = run \/ \E i \in DOMAIN queue : queue[i].task = t
  /\ run # None => run \in Tasks /\ at[run] \notin Suspended

LoopInv == Orderly(ready, running, pc)

\* A queue of callbacks by its positions.
LEMMA CallbacksAre ==
  ASSUME NEW queue \in Seq(Callback)
  PROVE  /\ Len(queue) \in Nat /\ DOMAIN queue = 1 .. Len(queue)
         /\ \A i \in DOMAIN queue : queue[i] \in Callback /\ queue[i].task \in Tasks
  <1>1. Len(queue) \in Nat /\ DOMAIN queue = 1 .. Len(queue)
    BY LenProperties
  <1>2. \A i \in DOMAIN queue : queue[i] \in Callback
    BY <1>1, ElementOfSeq
  <1>3. \A c \in Callback : c.task \in Tasks
    BY DEF Callback
  <1> QED
    BY <1>1, <1>2, <1>3

\* The first callback runs.
LEMMA FirstRuns ==
  ASSUME NEW queue \in Seq(Callback), NEW at \in [Tasks -> Places], queue # <<>>, Orderly(queue, None, at)
  PROVE  Orderly(Tail(queue), Head(queue).task, at)
  <1>1. /\ Tail(queue) \in Seq(Callback) /\ Head(queue) = queue[1] /\ 1 \in DOMAIN queue
        /\ \A i \in DOMAIN Tail(queue) : i + 1 \in DOMAIN queue /\ Tail(queue)[i] = queue[i + 1]
        /\ DOMAIN queue \subseteq Nat \ {0} /\ DOMAIN Tail(queue) \subseteq Nat \ {0}
    BY TailMoves
  <1>2. /\ Len(queue) \in Nat /\ DOMAIN queue = 1 .. Len(queue)
        /\ \A i \in DOMAIN queue : queue[i].task \in Tasks
    BY CallbacksAre
  <1>3. DOMAIN Tail(queue) = 1 .. Len(queue) - 1
    BY <1>1, <1>2, CallbacksAre, HeadTailProperties
  <1> DEFINE rest == Tail(queue)
             first == Head(queue)
  <1> HIDE DEF rest, first
  <1>4. \A i, j \in DOMAIN rest : rest[i].task = rest[j].task => i = j
    <2> SUFFICES ASSUME NEW i \in DOMAIN rest, NEW j \in DOMAIN rest, rest[i].task = rest[j].task PROVE i = j
      OBVIOUS
    <2>1. i + 1 = j + 1
      BY <1>1 DEF rest, Orderly
    <2> QED
      BY <1>1, <2>1 DEF rest
  <1>5. \A i \in DOMAIN rest : rest[i].task # first.task /\ at[rest[i].task] \notin Suspended
    <2> SUFFICES ASSUME NEW i \in DOMAIN rest PROVE rest[i].task # first.task /\ at[rest[i].task] \notin Suspended
      OBVIOUS
    <2>1. i + 1 # 1 /\ i + 1 \in DOMAIN queue /\ rest[i] = queue[i + 1]
      BY <1>1 DEF rest
    <2> QED
      BY <1>1, <2>1 DEF first, Orderly
  <1>6. ASSUME NEW t \in Tasks, at[t] \notin Suspended
        PROVE  t = first.task \/ \E i \in DOMAIN rest : rest[i].task = t
    <2>1. t # None
      BY TasksAre
    <2>2. PICK i \in DOMAIN queue : queue[i].task = t
      BY <1>6, <2>1 DEF Orderly
    <2>3. CASE i = 1
      BY <1>1, <2>2, <2>3 DEF first
    <2>4. CASE i # 1
      <3>1. i - 1 \in DOMAIN rest
        BY <1>2, <1>3, <2>4 DEF rest
      <3>2. rest[i - 1] = queue[i - 1 + 1] /\ i - 1 + 1 = i
        BY <1>1, <1>2, <3>1 DEF rest
      <3> QED
        BY <2>2, <3>1, <3>2
    <2> QED
      BY <2>3, <2>4
  <1>7. first.task \in Tasks /\ at[first.task] \notin Suspended
    BY <1>1, <1>2 DEF first, Orderly
  <1>8. Orderly(rest, first.task, at)
    BY <1>4, <1>5, <1>6, <1>7 DEF Orderly
  <1> QED
    BY <1>8 DEF rest, first

\* The task that runs is suspended.
LEMMA RunningSuspends ==
  ASSUME NEW queue \in Seq(Callback), NEW at \in [Tasks -> Places], NEW run \in Tasks, NEW to \in Suspended,
         Orderly(queue, run, at)
  PROVE  Orderly(queue, None, [at EXCEPT ![run] = to])
  <1>1. \A i \in DOMAIN queue : queue[i].task \in Tasks
    BY CallbacksAre
  <1> QED
    BY <1>1, TasksAre DEF Orderly

\* The task that runs goes on.
LEMMA RunningMoves ==
  ASSUME NEW queue \in Seq(Callback), NEW at \in [Tasks -> Places], NEW run \in Tasks, NEW to \in Places \ Suspended,
         Orderly(queue, run, at)
  PROVE  Orderly(queue, run, [at EXCEPT ![run] = to])
  <1>1. \A i \in DOMAIN queue : queue[i].task \in Tasks
    BY CallbacksAre
  <1> QED
    BY <1>1, TasksAre DEF Orderly

\* A suspended task is woken.
LEMMA SuspendedWakes ==
  ASSUME NEW queue \in Seq(Callback), NEW at \in [Tasks -> Places], NEW run, NEW c \in Callback,
         NEW to \in Places \ Suspended, Orderly(queue, run, at), at[c.task] \in Suspended
  PROVE  Orderly(Append(queue, c), run, [at EXCEPT ![c.task] = to])
  <1>1. /\ \A i \in DOMAIN Append(queue, c) :
             \/ i \in DOMAIN queue /\ Append(queue, c)[i] = queue[i]
             \/ i \notin DOMAIN queue /\ Append(queue, c)[i] = c
        /\ DOMAIN queue = 1 .. Len(queue) /\ DOMAIN Append(queue, c) = 1 .. Len(queue) + 1
        /\ Append(queue, c)[Len(queue) + 1] = c /\ Len(queue) \in Nat
        /\ \A i \in DOMAIN queue : Append(queue, c)[i] = queue[i]
    BY AppendMoves, AppendProperties, LenProperties
  <1>2. c.task \in Tasks /\ c.task # None /\ \A i \in DOMAIN queue : queue[i].task \in Tasks /\ queue[i].task # c.task
    BY CallbacksAre, TasksAre DEF Callback, Orderly
  <1> DEFINE more == Append(queue, c)
             now == [at EXCEPT ![c.task] = to]
  <1>3. \A t \in Tasks : now[t] = IF t = c.task THEN to ELSE at[t]
    OBVIOUS
  <1>4. \A i, j \in DOMAIN more : more[i].task = more[j].task => i = j
    BY <1>1, <1>2 DEF Orderly
  <1>5. run # c.task
    BY <1>2 DEF Orderly
  <1> HIDE DEF now
  <1>6. \A i \in DOMAIN more : more[i].task # run /\ now[more[i].task] \notin Suspended
    BY <1>1, <1>2, <1>3, <1>5 DEF Orderly
  <1>7. \A t \in Tasks : now[t] \notin Suspended => t = run \/ \E i \in DOMAIN more : more[i].task = t
    <2> SUFFICES ASSUME NEW t \in Tasks, now[t] \notin Suspended PROVE t = run \/ \E i \in DOMAIN more : more[i].task = t
      OBVIOUS
    <2>1. CASE t = c.task
      <3>1. Len(queue) + 1 \in DOMAIN more /\ more[Len(queue) + 1].task = t
        BY <1>1, <2>1
      <3> QED
        BY <3>1
    <2>2. CASE t # c.task
      <3>1. t = run \/ \E i \in DOMAIN queue : queue[i].task = t
        BY <1>3, <2>2 DEF Orderly
      <3> QED
        BY <1>1, <3>1
    <2> QED
      BY <2>1, <2>2
  <1>8. run # None => run \in Tasks /\ now[run] \notin Suspended
    BY <1>3, <1>5 DEF Orderly
  <1>9. Orderly(more, run, now)
    BY <1>4, <1>6, <1>7, <1>8 DEF Orderly
  <1> QED
    BY <1>9 DEF now

\* Several suspended tasks are woken.
LEMMA AllWake ==
  ASSUME NEW queue \in Seq(Callback), NEW at \in [Tasks -> Places], NEW run, NEW w \in Seq(Callback),
         NEW now \in [Tasks -> Places], Orderly(queue, run, at),
         \A i, j \in DOMAIN w : w[i].task = w[j].task => i = j,
         \A i \in DOMAIN w : at[w[i].task] \in Suspended,
         \A t \in Tasks : now[t] \notin Suspended <=> at[t] \notin Suspended \/ \E i \in DOMAIN w : w[i].task = t
  PROVE  Orderly(queue \o w, run, now)
  <1> DEFINE n == Len(queue)
             all == queue \o w
  <1>1. /\ n \in Nat /\ Len(w) \in Nat /\ DOMAIN queue = 1 .. n /\ DOMAIN w = 1 .. Len(w)
        /\ DOMAIN all = 1 .. n + Len(w)
        /\ \A i \in DOMAIN all : all[i] = IF i <= n THEN queue[i] ELSE w[i - n]
    BY LenProperties, ConcatProperties
  <1> HIDE DEF all, n
  <1>2. /\ \A i \in DOMAIN queue : i \in DOMAIN all /\ all[i] = queue[i]
        /\ \A i \in DOMAIN w : n + i \in DOMAIN all /\ all[n + i] = w[i]
    <2>1. ASSUME NEW i \in DOMAIN w PROVE n + i \in DOMAIN all /\ ~ (n + i <= n) /\ (n + i) - n = i
      BY <1>1
    <2>2. ASSUME NEW i \in DOMAIN w PROVE all[n + i] = w[i]
      BY <1>1, <2>1
    <2> QED
      BY <1>1, <2>1, <2>2
  <1>3. \A i \in DOMAIN all :
          \/ i \in DOMAIN queue /\ all[i] = queue[i]
          \/ i - n \in DOMAIN w /\ all[i] = w[i - n] /\ i = n + (i - n)
    BY <1>1
  <1>4. /\ \A i \in DOMAIN queue : queue[i].task \in Tasks
        /\ \A i \in DOMAIN w : w[i].task \in Tasks
    BY CallbacksAre
  <1>5. \A i \in DOMAIN queue, j \in DOMAIN w : queue[i].task # w[j].task
    BY <1>4 DEF Orderly
  <1>6. \A i, j \in DOMAIN all : all[i].task = all[j].task => i = j
    <2> SUFFICES ASSUME NEW i \in DOMAIN all, NEW j \in DOMAIN all, all[i].task = all[j].task PROVE i = j
      OBVIOUS
    <2>1. CASE i \in DOMAIN queue /\ all[i] = queue[i]
      BY <1>3, <1>5, <2>1 DEF Orderly
    <2>2. CASE i - n \in DOMAIN w /\ all[i] = w[i - n] /\ i = n + (i - n)
      <3>1. j - n \in DOMAIN w /\ all[j] = w[j - n] /\ j = n + (j - n)
        BY <1>3, <1>5, <2>2
      <3>2. i - n = j - n
        BY <2>2, <3>1
      <3> QED
        BY <2>2, <3>1, <3>2
    <2> QED
      BY <1>3, <2>1, <2>2
  <1>7. \A i \in DOMAIN w : w[i].task # run
    BY TasksAre, <1>4 DEF Orderly
  <1>8. \A i \in DOMAIN all : all[i].task # run /\ now[all[i].task] \notin Suspended
    BY <1>3, <1>4, <1>7 DEF Orderly
  <1>9. \A t \in Tasks : now[t] \notin Suspended => t = run \/ \E i \in DOMAIN all : all[i].task = t
    <2> SUFFICES ASSUME NEW t \in Tasks, now[t] \notin Suspended PROVE t = run \/ \E i \in DOMAIN all : all[i].task = t
      OBVIOUS
    <2>1. t = run \/ (\E i \in DOMAIN queue : queue[i].task = t) \/ (\E i \in DOMAIN w : w[i].task = t)
      BY DEF Orderly
    <2> QED
      BY <1>2, <2>1
  <1>10. run # None => run \in Tasks /\ now[run] \notin Suspended
    BY DEF Orderly
  <1>11. Orderly(all, run, now)
    BY <1>6, <1>8, <1>9, <1>10 DEF Orderly
  <1> QED
    BY <1>11 DEF all

\* The task that runs lets others run: its callback is the last.
LEMMA RunningYields ==
  ASSUME NEW queue \in Seq(Callback), NEW at \in [Tasks -> Places], NEW c \in Callback, Orderly(queue, c.task, at)
  PROVE  Orderly(Append(queue, c), None, at)
  <1>1. /\ \A i \in DOMAIN Append(queue, c) :
             \/ i \in DOMAIN queue /\ Append(queue, c)[i] = queue[i]
             \/ i \notin DOMAIN queue /\ Append(queue, c)[i] = c
        /\ DOMAIN queue = 1 .. Len(queue) /\ DOMAIN Append(queue, c) = 1 .. Len(queue) + 1
        /\ Append(queue, c)[Len(queue) + 1] = c /\ Len(queue) \in Nat
        /\ \A i \in DOMAIN queue : Append(queue, c)[i] = queue[i]
    BY AppendMoves, AppendProperties, LenProperties
  <1>2. c.task \in Tasks /\ c.task # None /\ \A i \in DOMAIN queue : queue[i].task \in Tasks /\ queue[i].task # c.task /\ queue[i].task # None
    BY CallbacksAre, TasksAre DEF Callback, Orderly
  <1> DEFINE more == Append(queue, c)
  <1>3. \A i, j \in DOMAIN more : more[i].task = more[j].task => i = j
    BY <1>1, <1>2 DEF Orderly
  <1>4. \A i \in DOMAIN more : more[i].task # None /\ at[more[i].task] \notin Suspended
    BY <1>1, <1>2 DEF Orderly
  <1>5. \A t \in Tasks : at[t] \notin Suspended => \E i \in DOMAIN more : more[i].task = t
    <2> SUFFICES ASSUME NEW t \in Tasks, at[t] \notin Suspended PROVE \E i \in DOMAIN more : more[i].task = t
      OBVIOUS
    <2>1. t = c.task \/ \E i \in DOMAIN queue : queue[i].task = t
      BY DEF Orderly
    <2>2. Len(queue) + 1 \in DOMAIN more /\ more[Len(queue) + 1].task = c.task
      BY <1>1
    <2> QED
      BY <1>1, <2>1, <2>2
  <1> QED
    BY <1>3, <1>4, <1>5 DEF Orderly

\* What is to be known of the places in every step.
LEMMA PlacesAre ==
  /\ {"recv", "get", "slice", "abort", "sent", "runs"} \subseteq Places \ Suspended
  /\ Suspended = {"waits", "queue", "yield", "sending"} /\ Suspended \subseteq Places
  BY DEF Places, Suspended

\* The outputs of a message, and those at the handler, are outputs.
LEMMA DelayedAre ==
  ASSUME Shapes
  PROVE  /\ AtHandler \in SUBSET Output
         /\ \A message \in Message : Outs(message.frame, message.batch) \in SUBSET Output
  <1>1. AtHandler \in SUBSET Output
    BY AllOutsAre DEF AtHandler, Shapes
  <1>2. ASSUME NEW message \in Message PROVE Outs(message.frame, message.batch) \in SUBSET Output
    <2> DEFINE piece == [frame |-> message.frame, batch |-> message.batch]
    <2>1. piece \in Piece /\ piece.frame = message.frame /\ piece.batch = message.batch
      BY MessagesAre
    <2> HIDE DEF piece
    <2> QED
      BY <2>1, OutsAre
  <1> QED
    BY <1>1, <1>2

\* Between two slices the loop is as with all requests woken, and the handler
\* runs on, or its callback is the last.
LEMMA SliceLoop ==
  ASSUME Shapes, enabled \in BOOLEAN, LoopInv, process_outputs
  PROVE  LoopInv'
  <1> DEFINE slice == Head(slices)
             woken == Waiting(slice.batch)
             wakeups == [i \in DOMAIN woken |-> Scheduled(woken[i], {})]
  <1>1. /\ running = "handler" /\ pc["handler"] = "slice"
        /\ slices' = Tail(slices)
        /\ pc' = [t \in Tasks |-> IF t = "handler" THEN "abort"
                                  ELSE IF t \in Range(woken) THEN "runs" ELSE pc[t]]
        /\ UNCHANGED <<tracing, outputs_queue>>
        /\ \/ ready' = ready \o wakeups /\ UNCHANGED running
           \/ ready' = Append(ready \o wakeups, Scheduled("handler", AtHandler')) /\ running' = None
    BY DEF process_outputs
  <1>2. slices # <<>>
    BY <1>1 DEF Shapes
  <1>3. slices' \in Seq(Piece) /\ slice \in Piece
    BY <1>1, <1>2, HeadTailProperties DEF Shapes
  <1>4. slice.batch \in Distinct
    BY <1>3 DEF Piece
  <1>5. /\ wakeups \in Seq(Callback) /\ DOMAIN wakeups = DOMAIN woken
        /\ \A i \in DOMAIN wakeups : wakeups[i].task = woken[i] /\ wakeups[i].task \in Requests
    BY <1>4, WakeupsAre
  <1>6. /\ woken \in Seq(Requests) /\ \A i \in DOMAIN woken : pc[woken[i]] = "queue"
        /\ \A i, j \in DOMAIN woken : woken[i] = woken[j] => i = j
    BY <1>4, WaitingIs
  <1> HIDE DEF slice, woken, wakeups
  <1>7. AtHandler' \in SUBSET Output
    <2>1. outputs_queue' \in Seq(Piece)
      BY <1>1 DEF Shapes
    <2> QED
      BY <1>3, <2>1, AllOutsAre DEF AtHandler
  <1> DEFINE left == AtHandler'
             now == pc'
             all == ready \o wakeups
  <1>8. ready \in Seq(Callback) /\ pc \in [Tasks -> Places] /\ left \in SUBSET Output
    BY <1>7 DEF Shapes
  <1>9. now \in [Tasks -> Places] /\ now["handler"] = "abort"
    BY <1>1, <1>8, PlacesAre, TasksAre
  <1>10. \A t \in Tasks : now[t] \notin Suspended <=> pc[t] \notin Suspended \/ \E i \in DOMAIN wakeups : wakeups[i].task = t
    <2> SUFFICES ASSUME NEW t \in Tasks
                 PROVE  now[t] \notin Suspended <=> pc[t] \notin Suspended \/ \E i \in DOMAIN wakeups : wakeups[i].task = t
      OBVIOUS
    <2>1. t \in Range(woken) <=> \E i \in DOMAIN wakeups : wakeups[i].task = t
      BY <1>5 DEF Range
    <2>2. CASE t = "handler"
      BY <1>1, <1>9, <2>2, PlacesAre
    <2>3. CASE t # "handler" /\ t \in Range(woken)
      <3>1. now[t] = "runs"
        BY <1>1, <2>3
      <3> QED
        BY <2>1, <2>3, <3>1, PlacesAre
    <2>4. CASE t # "handler" /\ t \notin Range(woken)
      <3>1. now[t] = pc[t]
        BY <1>1, <2>4
      <3> QED
        BY <2>1, <2>4, <3>1
    <2> QED
      BY <2>2, <2>3, <2>4
  <1> HIDE DEF now, left
  <1>11. \A i \in DOMAIN wakeups : pc[wakeups[i].task] \in Suspended
    BY <1>5, <1>6, PlacesAre
  <1>12. \A i, j \in DOMAIN wakeups : wakeups[i].task = wakeups[j].task => i = j
    BY <1>5, <1>6
  <1>13. all \in Seq(Callback)
    BY <1>5, <1>8, ConcatProperties
  <1>14. Orderly(all, "handler", now)
    <2>1. Orderly(ready, "handler", pc)
      BY <1>1 DEF LoopInv
    <2> QED
      BY <1>5, <1>8, <1>9, <1>10, <1>11, <1>12, <2>1, AllWake
  <1> HIDE DEF all
  <1>15. Orderly(Append(all, Scheduled("handler", left)), None, now)
    <2>1. Scheduled("handler", left) \in Callback /\ Scheduled("handler", left).task = "handler"
      BY <1>8, TasksAre, ScheduledIs
    <2> QED
      BY <1>9, <1>13, <1>14, <2>1, RunningYields
  <1> QED
    BY <1>1, <1>14, <1>15 DEF LoopInv, all, left, now

\* In every step one task runs, is suspended or is woken, as the loop needs it.
LEMMA LoopNext ==
  ASSUME Shapes, enabled \in BOOLEAN, LoopInv, [Next]_vars
  PROVE  LoopInv'
  <1>1. ready \in Seq(Callback) /\ pc \in [Tasks -> Places]
    BY DEF Shapes
  <1>2. CASE RunNext
    <2>1. Orderly(ready, None, pc)
      BY <1>2 DEF LoopInv, RunNext
    <2> QED
      BY <1>1, <1>2, <2>1, FirstRuns DEF LoopInv, RunNext
  <1>3. ASSUME NEW t \in Tasks, NEW w \in SUBSET Output, NEW to \in Places \ Suspended, pc[t] \in Suspended,
               ready' = Append(ready, Scheduled(t, w)), pc' = [pc EXCEPT ![t] = to], UNCHANGED running
        PROVE  LoopInv'
    <2>1. Scheduled(t, w) \in Callback /\ Scheduled(t, w).task = t
      BY ScheduledIs
    <2> DEFINE c == Scheduled(t, w)
    <2> HIDE DEF c
    <2>2. Orderly(Append(ready, c), running, [pc EXCEPT ![c.task] = to])
      BY <1>1, <1>3, <2>1, SuspendedWakes DEF LoopInv, c
    <2> QED
      BY <1>3, <2>1, <2>2 DEF LoopInv, c
  <1>4. ASSUME NEW t \in Tasks, NEW to \in Suspended, running = t, pc' = [pc EXCEPT ![t] = to],
               running' = None, UNCHANGED ready
        PROVE  LoopInv'
    BY <1>1, <1>4, RunningSuspends DEF LoopInv
  <1>5. ASSUME running = "handler", NEW to \in Places \ Suspended, pc' = [pc EXCEPT !["handler"] = to],
               UNCHANGED <<ready, running>>
        PROVE  LoopInv'
    BY <1>1, <1>5, RunningMoves, TasksAre DEF LoopInv
  <1>6. CASE UNCHANGED loop
    BY <1>6 DEF LoopInv
  <1>7. ASSUME NEW message \in Message, Engine(message) PROVE LoopInv'
    <2>1. CASE pc["socket"] = "waits"
      <3>1. /\ ready' = Append(ready, Scheduled("socket", Outs(message.frame, message.batch)))
            /\ pc' = [pc EXCEPT !["socket"] = "recv"] /\ UNCHANGED running
        BY <1>7, <2>1 DEF Engine
      <3>2. Outs(message.frame, message.batch) \in SUBSET Output
        BY DelayedAre
      <3>3. pc["socket"] \in Suspended
        BY <2>1, PlacesAre
      <3> QED
        BY <1>3, <3>1, <3>2, <3>3, TasksAre, PlacesAre
    <2>2. CASE pc["socket"] # "waits"
      BY <1>6, <1>7, <2>2 DEF Engine
    <2> QED
      BY <2>1, <2>2
  <1>8. CASE process_outputs_socket
    <2> DEFINE message == Head(socket)
    <2>1. socket # <<>> /\ UNCHANGED running /\ (Put(message) \/ UNCHANGED <<outputs_queue, pc, ready>>)
      BY <1>8 DEF process_outputs_socket
    <2>2. message \in Message
      BY <2>1, HeadTailProperties DEF Shapes
    <2> HIDE DEF message
    <2>3. CASE Put(message) /\ pc["handler"] = "waits"
      <3>1. /\ ready' = Append(ready, Scheduled("handler", Outs(message.frame, message.batch)))
            /\ pc' = [pc EXCEPT !["handler"] = "get"]
        BY <2>3 DEF Put
      <3>2. Outs(message.frame, message.batch) \in SUBSET Output
        BY <2>2, DelayedAre
      <3>3. pc["handler"] \in Suspended
        BY <2>3, PlacesAre
      <3> QED
        BY <1>3, <2>1, <3>1, <3>2, <3>3, TasksAre, PlacesAre
    <2>4. CASE ~ (Put(message) /\ pc["handler"] = "waits")
      BY <1>6, <2>1, <2>4 DEF Put
    <2> QED
      BY <2>3, <2>4
  <1>9. CASE SocketWaits \/ HandlerWaits \/ abort_requests_async
    BY <1>4, <1>9, TasksAre, PlacesAre DEF SocketWaits, HandlerWaits, abort_requests_async
  <1>10. CASE set_output_handler_round_slices
    BY <1>5, <1>10, PlacesAre DEF set_output_handler_round_slices
  <1>11. CASE HandlerGoesOn
    BY <1>5, <1>11, PlacesAre DEF HandlerGoesOn
  <1>12. CASE process_outputs
    BY <1>12, SliceLoop
  <1>13. CASE AbortSent
    BY <1>3, <1>13, TasksAre, PlacesAre, DelayedAre DEF AbortSent
  <1>14. ASSUME NEW r \in Requests, generate(r) PROVE LoopInv'
    <2>1. PICK at \in {"queue", "yield"} : pc' = [pc EXCEPT ![r] = at]
      BY <1>14 DEF generate
    <2> QED
      BY <1>4, <1>14, <2>1, TasksAre, PlacesAre DEF generate
  <1>15. ASSUME NEW r \in Requests, CallerReturns(r) PROVE LoopInv'
    <2>1. {} \in SUBSET Output
      OBVIOUS
    <2> QED
      BY <1>3, <1>15, <2>1, TasksAre, PlacesAre DEF CallerReturns
  <1>16. CASE set_enabled
    BY <1>6, <1>16 DEF set_enabled
  <1>17. CASE UNCHANGED vars
    BY <1>6, <1>17 DEF vars
  <1> QED
    BY <1>2, <1>7, <1>8, <1>9, <1>10, <1>11, <1>12, <1>13, <1>14, <1>15, <1>16, <1>17 DEF Next

\* At first every task is suspended.
LEMMA LoopInit == Init => LoopInv
  BY DEF Init, LoopInv, Orderly, Suspended, Tasks, OutputTasks

\* How often a task is queued.
LEMMA QueuedOnce ==
  ASSUME Shapes, LoopInv, NEW t \in Tasks
  PROVE  Cardinality({i \in DOMAIN ready : ready[i].task = t}) + (IF running = t THEN 1 ELSE 0)
           = IF pc[t] \in Suspended THEN 0 ELSE 1
  <1> DEFINE Q == {i \in DOMAIN ready : ready[i].task = t}
             n == Cardinality(Q)
  <1> SUFFICES n + (IF running = t THEN 1 ELSE 0) = IF pc[t] \in Suspended THEN 0 ELSE 1
    OBVIOUS
  <1>1. t # None
    BY TasksAre
  <1>2. CASE \E i : i \in Q
    <2>1. PICK i : i \in Q
      BY <1>2
    <2>2. Q = {i}
      BY <2>1 DEF LoopInv, Orderly
    <2>3. running # t /\ pc[t] \notin Suspended
      BY <2>1 DEF LoopInv, Orderly
    <2>4. n = 1
      BY <2>2, FS_Singleton
    <2> HIDE DEF n
    <2> QED
      BY <2>3, <2>4
  <1>3. CASE ~ \E i : i \in Q
    <2>1. Q = {}
      BY <1>3
    <2>2. n = 0
      BY <2>1, FS_EmptySet
    <2>3. running = t <=> pc[t] \notin Suspended
      BY <1>1, <1>3 DEF LoopInv, Orderly
    <2> HIDE DEF n
    <2> QED
      BY <2>2, <2>3
  <1> QED
    BY <1>2, <1>3

-----------------------------------------------------------------------------
(* The order of the frames, and the time from which an output is ready. *)

\* Frames stay in order on their way from the socket to the requests.
InOrder ==
  /\ \A i \in DOMAIN socket : socket[i].frame <= sent
  /\ \A i, j \in DOMAIN socket : i < j => socket[i].frame < socket[j].frame
  /\ \A i \in DOMAIN outputs_queue : outputs_queue[i].frame <= sent
  /\ \A i \in DOMAIN outputs_queue, j \in DOMAIN socket : outputs_queue[i].frame < socket[j].frame
  /\ \A i, j \in DOMAIN outputs_queue : i < j => outputs_queue[i].frame < outputs_queue[j].frame
  /\ \A i \in DOMAIN slices : slices[i].frame <= sent
  /\ \A i \in DOMAIN slices, j \in DOMAIN socket : slices[i].frame < socket[j].frame
  /\ \A i \in DOMAIN slices, j \in DOMAIN outputs_queue : slices[i].frame < outputs_queue[j].frame
  /\ \A i, j \in DOMAIN slices : slices[i].frame = slices[j].frame

\* What a request has not taken came before all that.
Earlier ==
  \A r \in Requests : \A frame \in collector[r].frames :
    /\ frame <= sent
    /\ \A i \in DOMAIN socket : frame <= socket[i].frame
    /\ \A i \in DOMAIN outputs_queue : frame <= outputs_queue[i].frame
    /\ \A i \in DOMAIN slices : frame <= slices[i].frame

WaitsInv == InOrder /\ Earlier /\ QueueWaitsAreTrue

\* Positions and frames are numbers.
LEMMA Numbers ==
  ASSUME Shapes
  PROVE  /\ sent \in Nat
         /\ \A i \in DOMAIN socket : i \in Nat /\ socket[i].frame \in Nat
         /\ \A i \in DOMAIN outputs_queue : i \in Nat /\ outputs_queue[i].frame \in Nat
         /\ \A i \in DOMAIN slices : i \in Nat /\ slices[i].frame \in Nat
         /\ \A r \in Requests : \A frame \in collector[r].frames : frame \in Nat
  <1>1. Frames \subseteq Nat
    BY ConstantsAssumption DEF Frames
  <1>2. \A i \in DOMAIN socket : i \in Nat /\ socket[i] \in Message
    BY ElementOfSeq, LenProperties DEF Shapes
  <1>3. \A i \in DOMAIN outputs_queue : i \in Nat /\ outputs_queue[i] \in Piece
    BY ElementOfSeq, LenProperties DEF Shapes
  <1>5. \A i \in DOMAIN slices : i \in Nat /\ slices[i] \in Piece
    BY ElementOfSeq, LenProperties DEF Shapes
  <1>6. \A r \in Requests : collector[r].frames \subseteq Frames
    BY DEF Shapes
  <1>7. sent \in Nat
    BY ConstantsAssumption DEF Shapes
  <1>8. /\ \A message \in Message : message.frame \in Frames
        /\ \A piece \in Piece : piece.frame \in Frames
    BY MessagesAre DEF Piece
  <1> QED
    BY <1>1, <1>2, <1>3, <1>5, <1>6, <1>7, <1>8

\* A new message carries the largest frame so far.
LEMMA EngineWaits ==
  ASSUME Shapes, WaitsInv, NEW message \in Message, Engine(message)
  PROVE  WaitsInv'
  <1>1. /\ sent' = sent + 1 /\ message.frame = sent + 1 /\ socket' = Append(socket, message)
        /\ UNCHANGED <<outputs_queue, slices, collector>>
    BY DEF Engine
  <1>2. \A i \in DOMAIN socket' :
          \/ i \in DOMAIN socket /\ socket'[i] = socket[i]
          \/ i \notin DOMAIN socket /\ socket'[i] = message /\ \A j \in DOMAIN socket : j < i
    BY <1>1, AppendMoves DEF Shapes
  <1>3. DOMAIN socket' \subseteq Nat
    BY <1>1, AppendMoves DEF Shapes
  <1>4. InOrder'
    BY <1>1, <1>2, <1>3, Numbers DEF WaitsInv, InOrder
  <1>5. Earlier'
    BY <1>1, <1>2, Numbers DEF WaitsInv, InOrder, Earlier
  <1> QED
    BY <1>1, <1>4, <1>5 DEF WaitsInv, QueueWaitsAreTrue

\* The first message of the socket comes before the others and after the queue.
LEMMA SocketWaitsKept ==
  ASSUME Shapes, WaitsInv, process_outputs_socket
  PROVE  WaitsInv'
  <1> DEFINE first == Head(socket)
             queued == [frame |-> first.frame, batch |-> first.batch]
  <1>1. /\ socket # <<>> /\ socket' = Tail(socket)
        /\ outputs_queue' = Append(outputs_queue, queued) \/ outputs_queue' = outputs_queue
        /\ UNCHANGED <<sent, slices, collector>>
    BY DEF process_outputs_socket, Put
  <1>2. /\ first \in Message /\ first = socket[1] /\ 1 \in DOMAIN socket
        /\ \A i \in DOMAIN socket' : i \in Nat /\ 1 < i + 1 /\ i + 1 \in DOMAIN socket /\ socket'[i] = socket[i + 1]
    BY <1>1, TailMoves DEF Shapes
  <1>3. \A i \in DOMAIN socket : 1 <= i
    BY <1>1, TailMoves DEF Shapes
  <1>4. queued \in Piece /\ queued.frame = socket[1].frame
    BY <1>2, MessagesAre
  <1> HIDE DEF queued, first
  <1>5. \A i \in DOMAIN outputs_queue' :
          \/ i \in DOMAIN outputs_queue /\ outputs_queue'[i] = outputs_queue[i]
          \/ /\ i \notin DOMAIN outputs_queue /\ outputs_queue'[i] = queued
             /\ \A j \in DOMAIN outputs_queue : j < i
    <2>1. outputs_queue \in Seq(Piece)
      BY DEF Shapes
    <2>2. CASE outputs_queue' = Append(outputs_queue, queued)
      BY <1>4, <2>1, <2>2, AppendMoves
    <2>3. CASE outputs_queue' = outputs_queue
      BY <2>3
    <2> QED
      BY <1>1, <2>2, <2>3
  <1>6. /\ \A i \in DOMAIN outputs_queue' : i \in Nat
        /\ \A i, j \in DOMAIN outputs_queue' :
             i \notin DOMAIN outputs_queue /\ j \notin DOMAIN outputs_queue => i = j
    <2>1. outputs_queue \in Seq(Piece) /\ \A i \in DOMAIN outputs_queue : i \in Nat
      BY Numbers DEF Shapes
    <2>2. CASE outputs_queue' = Append(outputs_queue, queued)
      <3> DEFINE more == Append(outputs_queue, queued)
      <3>1. /\ DOMAIN more \subseteq Nat \ {0}
            /\ \A i, j \in DOMAIN more :
                 i \notin DOMAIN outputs_queue /\ j \notin DOMAIN outputs_queue => i = j
        BY <1>4, <2>1, AppendMoves
      <3> HIDE DEF more
      <3> QED
        BY <2>2, <3>1 DEF more
    <2>3. CASE outputs_queue' = outputs_queue
      BY <2>1, <2>3
    <2> QED
      BY <1>1, <2>2, <2>3
  <1>7. InOrder'
    <2>1. /\ \A i \in DOMAIN socket' : socket'[i].frame <= sent'
          /\ \A i, j \in DOMAIN socket' : i < j => socket'[i].frame < socket'[j].frame
      BY <1>1, <1>2, Numbers DEF WaitsInv, InOrder
    <2>2. \A i \in DOMAIN socket' : socket[1].frame < socket'[i].frame
      BY <1>2, <1>3, Numbers DEF WaitsInv, InOrder
    <2>3. /\ \A i \in DOMAIN outputs_queue' : outputs_queue'[i].frame <= sent'
          /\ \A i \in DOMAIN outputs_queue', j \in DOMAIN socket' :
               outputs_queue'[i].frame < socket'[j].frame
      BY <1>1, <1>2, <1>4, <1>5, <2>2, Numbers DEF WaitsInv, InOrder
    <2>4. \A i, j \in DOMAIN outputs_queue' :
            i < j => outputs_queue'[i].frame < outputs_queue'[j].frame
      BY <1>2, <1>4, <1>5, <1>6, Numbers DEF WaitsInv, InOrder
    <2>5. /\ \A i \in DOMAIN slices' : slices'[i].frame <= sent'
          /\ \A i \in DOMAIN slices', j \in DOMAIN socket' : slices'[i].frame < socket'[j].frame
          /\ \A i \in DOMAIN slices', j \in DOMAIN outputs_queue' :
               slices'[i].frame < outputs_queue'[j].frame
          /\ \A i, j \in DOMAIN slices' : slices'[i].frame = slices'[j].frame
      BY <1>1, <1>2, <1>4, <1>5 DEF WaitsInv, InOrder
    <2> QED
      BY <2>1, <2>3, <2>4, <2>5 DEF InOrder
  <1>8. Earlier'
    BY <1>1, <1>2, <1>4, <1>5 DEF WaitsInv, Earlier
  <1> QED
    BY <1>1, <1>7, <1>8 DEF WaitsInv, QueueWaitsAreTrue

\* The slices of a round all carry the frame of its batch.
LEMMA RoundWaits ==
  ASSUME Shapes, WaitsInv, set_output_handler_round_slices
  PROVE  WaitsInv'
  <1> DEFINE first == Head(outputs_queue)
             parts == chunk_output_handler_slices(first.batch)
  <1>1. /\ outputs_queue # <<>> /\ outputs_queue' = Tail(outputs_queue)
        /\ slices' = [i \in DOMAIN parts |-> [frame |-> first.frame, batch |-> parts[i]]]
        /\ UNCHANGED <<sent, socket, collector>>
    BY DEF set_output_handler_round_slices
  <1>2. /\ first = outputs_queue[1] /\ 1 \in DOMAIN outputs_queue
        /\ \A i \in DOMAIN outputs_queue' :
             i \in Nat /\ 1 < i + 1 /\ i + 1 \in DOMAIN outputs_queue /\ outputs_queue'[i] = outputs_queue[i + 1]
    BY <1>1, TailMoves DEF Shapes
  <1>3. \A i \in DOMAIN outputs_queue : 1 <= i
    BY <1>1, TailMoves DEF Shapes
  <1>4. \A i \in DOMAIN slices' : slices'[i].frame = outputs_queue[1].frame
    BY <1>1, <1>2
  <1> HIDE DEF first, parts
  <1>5. \A i \in DOMAIN outputs_queue' : outputs_queue[1].frame < outputs_queue'[i].frame
    BY <1>2, <1>3, Numbers DEF WaitsInv, InOrder
  <1>6. InOrder'
    <2>1. /\ \A i \in DOMAIN socket' : socket'[i].frame <= sent'
          /\ \A i, j \in DOMAIN socket' : i < j => socket'[i].frame < socket'[j].frame
      BY <1>1 DEF WaitsInv, InOrder
    <2>2. /\ \A i \in DOMAIN outputs_queue' : outputs_queue'[i].frame <= sent'
          /\ \A i \in DOMAIN outputs_queue', j \in DOMAIN socket' :
               outputs_queue'[i].frame < socket'[j].frame
          /\ \A i, j \in DOMAIN outputs_queue' :
               i < j => outputs_queue'[i].frame < outputs_queue'[j].frame
      BY <1>1, <1>2 DEF WaitsInv, InOrder
    <2>3. /\ \A i \in DOMAIN slices' : slices'[i].frame <= sent'
          /\ \A i \in DOMAIN slices', j \in DOMAIN socket' : slices'[i].frame < socket'[j].frame
          /\ \A i \in DOMAIN slices', j \in DOMAIN outputs_queue' :
               slices'[i].frame < outputs_queue'[j].frame
          /\ \A i, j \in DOMAIN slices' : slices'[i].frame = slices'[j].frame
      BY <1>1, <1>2, <1>4, <1>5 DEF WaitsInv, InOrder
    <2> QED
      BY <2>1, <2>2, <2>3 DEF InOrder
  <1>7. Earlier'
    BY <1>1, <1>2, <1>4 DEF WaitsInv, Earlier
  <1> QED
    BY <1>1, <1>6, <1>7 DEF WaitsInv, QueueWaitsAreTrue

\* What is put into a collector comes after all it holds, so the time kept is
\* that of the first; and it comes before all that is still on its way.
LEMMA SliceWaits ==
  ASSUME Shapes, WaitsInv, process_outputs
  PROVE  WaitsInv'
  <1> DEFINE slice == Head(slices)
             frame == slice.frame
  <1>1. /\ slices # <<>> /\ slices' = Tail(slices) /\ collector' = queue_put(slice.batch, slice.frame)
        /\ UNCHANGED <<sent, socket, outputs_queue>>
    BY DEF process_outputs, Shapes
  <1>2. /\ frame = slices[1].frame /\ 1 \in DOMAIN slices
        /\ \A i \in DOMAIN slices' : i + 1 \in DOMAIN slices /\ slices'[i] = slices[i + 1]
    BY <1>1, TailMoves DEF Shapes
  <1>3. InOrder'
    BY <1>1, <1>2 DEF WaitsInv, InOrder
  <1>4. /\ frame \in Nat /\ frame <= sent
        /\ \A i \in DOMAIN socket' : frame <= socket'[i].frame
        /\ \A i \in DOMAIN outputs_queue' : frame <= outputs_queue'[i].frame
        /\ \A i \in DOMAIN slices' : frame <= slices'[i].frame
        /\ \A r \in Requests : \A other \in collector[r].frames : other <= frame
    BY <1>1, <1>2, Numbers DEF WaitsInv, InOrder, Earlier
  <1>5. \A r \in Requests :
          \/ collector'[r] = collector[r]
          \/ collector'[r] = [frames |-> collector[r].frames \cup {frame},
                              since  |-> IF collector[r].frames = {} THEN frame ELSE collector[r].since]
    BY <1>1 DEF queue_put
  <1> HIDE DEF slice, frame
  <1>6. \A r \in Requests : \A other \in collector'[r].frames :
          other \in collector[r].frames \/ other = frame
    <2> SUFFICES ASSUME NEW r \in Requests
                 PROVE  \A other \in collector'[r].frames :
                          other \in collector[r].frames \/ other = frame
      OBVIOUS
    <2> DEFINE since == IF collector[r].frames = {} THEN frame ELSE collector[r].since
    <2>1. CASE collector'[r] = collector[r]
      BY <2>1
    <2>2. CASE collector'[r] = [frames |-> collector[r].frames \cup {frame}, since |-> since]
      <3> HIDE DEF since
      <3>1. collector'[r].frames = collector[r].frames \cup {frame}
        BY <2>2
      <3> QED
        BY <3>1
    <2> QED
      BY <1>5, <2>1, <2>2
  <1>7. Earlier'
    BY <1>1, <1>2, <1>4, <1>6 DEF WaitsInv, Earlier
  <1>8. QueueWaitsAreTrue'
    <2> SUFFICES ASSUME NEW r \in Requests
                 PROVE  IF collector'[r].frames = {} THEN collector'[r].since = None
                        ELSE /\ collector'[r].since \in collector'[r].frames
                             /\ \A other \in collector'[r].frames : collector'[r].since <= other
      BY DEF QueueWaitsAreTrue
    <2>1. CASE collector'[r] = collector[r]
      BY <2>1 DEF WaitsInv, QueueWaitsAreTrue
    <2>2. CASE /\ collector'[r] = [frames |-> collector[r].frames \cup {frame}, since |-> frame]
               /\ collector[r].frames = {}
      BY <1>4, <2>2
    <2>3. CASE /\ collector'[r] = [frames |-> collector[r].frames \cup {frame},
                                   since |-> collector[r].since]
               /\ collector[r].frames # {}
      BY <1>4, <2>3 DEF WaitsInv, QueueWaitsAreTrue
    <2> QED
      BY <1>5, <2>1, <2>2, <2>3
  <1> QED
    BY <1>3, <1>7, <1>8 DEF WaitsInv

\* Taking what is there leaves nothing and no time.
LEMMA GenerateWaits ==
  ASSUME Shapes, WaitsInv, NEW r \in Requests, generate(r)
  PROVE  WaitsInv'
  <1> DEFINE empty == [frames |-> {}, since |-> None]
  <1>1. collector' = [collector EXCEPT ![r] = empty] /\ UNCHANGED <<sent, socket, outputs_queue, slices>>
    BY DEF generate
  <1>2. \A q \in Requests : collector'[q] = collector[q] \/ collector'[q] = empty
    BY <1>1 DEF Shapes
  <1>3. empty.frames = {} /\ empty.since = None
    OBVIOUS
  <1> HIDE DEF empty
  <1>4. InOrder'
    BY <1>1 DEF WaitsInv, InOrder
  <1>5. Earlier'
    BY <1>1, <1>2, <1>3 DEF WaitsInv, Earlier
  <1>6. QueueWaitsAreTrue'
    BY <1>2, <1>3 DEF WaitsInv, QueueWaitsAreTrue
  <1> QED
    BY <1>4, <1>5, <1>6 DEF WaitsInv

\* Every step keeps the order; the others touch neither a queue nor a collector.
LEMMA WaitsNext ==
  ASSUME Shapes, WaitsInv, [Next]_vars
  PROVE  WaitsInv'
  <1>1. CASE UNCHANGED <<sent, socket, outputs_queue, slices, collector>>
    BY <1>1 DEF WaitsInv, InOrder, Earlier, QueueWaitsAreTrue
  <1>2. \/ UNCHANGED <<sent, socket, outputs_queue, slices, collector>>
        \/ \E message \in Message : Engine(message)
        \/ process_outputs_socket \/ set_output_handler_round_slices \/ process_outputs
        \/ \E r \in Requests : generate(r)
    BY DEF Next, vars, RunNext, set_enabled, SocketWaits, HandlerWaits, HandlerGoesOn,
           abort_requests_async, AbortSent, CallerReturns
  <1> QED
    BY <1>1, <1>2, EngineWaits, SocketWaitsKept, RoundWaits, SliceWaits, GenerateWaits

-----------------------------------------------------------------------------
(* Where the tasks are. *)

\* Where each task may be, and what there is for it there.
PlacesInv ==
  /\ pc["socket"] \in {"waits", "recv"}
  /\ pc["handler"] \in {"waits", "get", "slice", "abort", "sending", "sent"}
  /\ \A r \in Requests : pc[r] \in {"queue", "yield", "runs"}
  /\ pc["socket"] = "waits" => socket = <<>>
  /\ pc["handler"] = "waits" => outputs_queue = <<>>
  /\ pc["handler"] \in {"waits", "get"} => slices = <<>>
  /\ \A i \in DOMAIN socket : socket[i].batch # <<>> => socket[i].kind = "none"

\* Every step keeps the places.
LEMMA PlacesNext ==
  ASSUME Shapes, enabled \in BOOLEAN, LoopInv, PlacesInv, [Next]_vars
  PROVE  PlacesInv'
  <1>0. /\ pc \in [Tasks -> Places] /\ "handler" \in Tasks /\ "socket" \in Tasks
        /\ \A r \in Requests : r \in Tasks /\ r # "handler" /\ r # "socket"
    BY TasksAre DEF Shapes
  <1>1. CASE UNCHANGED <<pc, socket, outputs_queue, slices>>
    BY <1>1 DEF PlacesInv
  <1>2. CASE RunNext \/ set_enabled \/ UNCHANGED vars
    BY <1>1, <1>2 DEF RunNext, set_enabled, vars
  <1>3. ASSUME NEW message \in Message, Engine(message) PROVE PlacesInv'
    <2>1. /\ socket' = Append(socket, message) /\ UNCHANGED <<outputs_queue, slices>>
          /\ message.batch # <<>> => message.kind = "none"
          /\ IF pc["socket"] = "waits" THEN pc' = [pc EXCEPT !["socket"] = "recv"] ELSE pc' = pc
      BY <1>3 DEF Engine
    <2>2. pc'["socket"] = "recv" /\ \A t \in Tasks : t # "socket" => pc'[t] = pc[t]
      BY <1>0, <2>1 DEF PlacesInv
    <2>3. \A i \in DOMAIN socket' : socket'[i] = message \/ (i \in DOMAIN socket /\ socket'[i] = socket[i])
      <3>1. socket \in Seq(Message)
        BY DEF Shapes
      <3>2. \A i \in DOMAIN Append(socket, message) :
              Append(socket, message)[i] = message \/ (i \in DOMAIN socket /\ Append(socket, message)[i] = socket[i])
        BY <3>1, AppendHolds
      <3> QED
        BY <2>1, <3>2
    <2>4. \A i \in DOMAIN socket' : socket'[i].batch # <<>> => socket'[i].kind = "none"
      BY <2>1, <2>3 DEF PlacesInv
    <2> QED
      BY <1>0, <2>1, <2>2, <2>4 DEF PlacesInv
  <1>4. CASE SocketWaits
    <2>1. socket = <<>> /\ pc' = [pc EXCEPT !["socket"] = "waits"] /\ UNCHANGED <<socket, outputs_queue, slices>>
      BY <1>4 DEF SocketWaits
    <2>2. pc'["socket"] = "waits" /\ \A t \in Tasks : t # "socket" => pc'[t] = pc[t]
      BY <1>0, <2>1
    <2> QED
      BY <1>0, <2>1, <2>2 DEF PlacesInv
  <1>5. CASE process_outputs_socket
    <2>1. /\ running = "socket" /\ socket # <<>> /\ socket' = Tail(socket) /\ UNCHANGED slices
          /\ IF pc["handler"] = "waits"
             THEN pc' = [pc EXCEPT !["handler"] = "get"] \/ UNCHANGED <<outputs_queue, pc>>
             ELSE pc' = pc
      BY <1>5 DEF process_outputs_socket, Put
    <2>2. pc["socket"] # "waits"
      BY <2>1, TasksAre DEF LoopInv, Orderly, Suspended
    <2>3. \A t \in Tasks : t # "handler" => pc'[t] = pc[t]
      BY <1>0, <2>1
    <2>4. \/ pc["handler"] = "waits" /\ pc'["handler"] = "get"
          \/ pc'["handler"] = pc["handler"] /\ (pc["handler"] = "waits" => UNCHANGED outputs_queue)
      BY <1>0, <2>1
    <2>5. \A i \in DOMAIN socket' : i + 1 \in DOMAIN socket /\ socket'[i] = socket[i + 1]
      BY <2>1, TailMoves DEF Shapes
    <2>6. \A i \in DOMAIN socket' : socket'[i].batch # <<>> => socket'[i].kind = "none"
      BY <2>5 DEF PlacesInv
    <2> QED
      BY <1>0, <2>1, <2>2, <2>3, <2>4, <2>6 DEF PlacesInv
  <1>6. CASE HandlerWaits
    <2>1. /\ pc["handler"] = "get" /\ outputs_queue = <<>> /\ pc' = [pc EXCEPT !["handler"] = "waits"]
          /\ UNCHANGED <<socket, outputs_queue, slices>>
      BY <1>6 DEF HandlerWaits
    <2>2. pc'["handler"] = "waits" /\ \A t \in Tasks : t # "handler" => pc'[t] = pc[t]
      BY <1>0, <2>1
    <2> QED
      BY <1>0, <2>1, <2>2 DEF PlacesInv
  <1>7. CASE set_output_handler_round_slices
    <2>1. pc' = [pc EXCEPT !["handler"] = "slice"] /\ UNCHANGED socket
      BY <1>7 DEF set_output_handler_round_slices
    <2>2. pc'["handler"] = "slice" /\ \A t \in Tasks : t # "handler" => pc'[t] = pc[t]
      BY <1>0, <2>1
    <2> QED
      BY <1>0, <2>1, <2>2 DEF PlacesInv
  <1>8. CASE process_outputs
    <2> DEFINE woken == Waiting(Head(slices).batch)
    <2>1. /\ pc["handler"] = "slice" /\ slices # <<>>
          /\ pc' = [t \in Tasks |-> IF t = "handler" THEN "abort"
                                    ELSE IF t \in Range(woken) THEN "runs" ELSE pc[t]]
          /\ UNCHANGED <<socket, outputs_queue>>
      BY <1>8 DEF process_outputs, Shapes
    <2>2. Head(slices) \in Piece
      BY <2>1, HeadTailProperties DEF Shapes
    <2>3. Head(slices).batch \in Distinct
      BY <2>2 DEF Piece
    <2>4. Range(woken) \subseteq Requests
      BY <2>3, WaitingIs, RangeOfSeq
    <2> HIDE DEF woken
    <2>5. pc'["handler"] = "abort"
      BY <1>0, <2>1
    <2>6. pc'["socket"] = pc["socket"]
      BY <1>0, <2>1, <2>4
    <2>7. \A r \in Requests : pc'[r] = "runs" \/ pc'[r] = pc[r]
      BY <1>0, <2>1
    <2> QED
      BY <2>1, <2>5, <2>6, <2>7 DEF PlacesInv
  <1>9. CASE HandlerGoesOn
    <2>1. /\ pc' = [pc EXCEPT !["handler"] = IF slices # <<>> THEN "slice" ELSE "get"]
          /\ UNCHANGED <<socket, outputs_queue, slices>>
      BY <1>9 DEF HandlerGoesOn
    <2>2. /\ pc'["handler"] = IF slices # <<>> THEN "slice" ELSE "get"
          /\ \A t \in Tasks : t # "handler" => pc'[t] = pc[t]
      BY <1>0, <2>1
    <2> QED
      BY <1>0, <2>1, <2>2 DEF PlacesInv
  <1>10. CASE abort_requests_async \/ AbortSent
    <2>1. /\ \E at \in {"sending", "sent"} : pc' = [pc EXCEPT !["handler"] = at]
          /\ UNCHANGED <<socket, outputs_queue, slices>>
      BY <1>10 DEF abort_requests_async, AbortSent
    <2>2. pc'["handler"] \in {"sending", "sent"} /\ \A t \in Tasks : t # "handler" => pc'[t] = pc[t]
      BY <1>0, <2>1
    <2> QED
      BY <1>0, <2>1, <2>2 DEF PlacesInv
  <1>11. ASSUME NEW r \in Requests, generate(r) \/ CallerReturns(r) PROVE PlacesInv'
    <2>1. /\ \E at \in {"queue", "yield", "runs"} : pc' = [pc EXCEPT ![r] = at]
          /\ UNCHANGED <<socket, outputs_queue, slices>>
      BY <1>11 DEF generate, CallerReturns
    <2>2. /\ pc'["handler"] = pc["handler"] /\ pc'["socket"] = pc["socket"]
          /\ \A q \in Requests : pc'[q] = pc[q] \/ pc'[q] \in {"queue", "yield", "runs"}
      BY <1>0, <2>1
    <2> QED
      BY <2>1, <2>2 DEF PlacesInv
  <1> QED
    BY <1>2, <1>3, <1>4, <1>5, <1>6, <1>7, <1>8, <1>9, <1>10, <1>11 DEF Next

\* At first both output tasks wait and there is nothing for them.
LEMMA PlacesInit == Init => PlacesInv
  <1> SUFFICES ASSUME Init PROVE PlacesInv
    OBVIOUS
  <1>1. /\ pc = [t \in Tasks |-> IF t \in OutputTasks THEN "waits" ELSE "queue"]
        /\ socket = <<>> /\ outputs_queue = <<>> /\ slices = <<>>
    BY DEF Init
  <1>2. pc["socket"] = "waits" /\ pc["handler"] = "waits" /\ \A r \in Requests : pc[r] = "queue"
    BY <1>1, TasksAre
  <1> QED
    BY <1>1, <1>2 DEF PlacesInv

-----------------------------------------------------------------------------
(* The requests a round still has to hand on. *)

\* The requests in the slices from the k-th on.
LeftOf(parts, k) == UNION {Range(parts[j].batch) : j \in k .. Len(parts)}

\* The suffix sets noted for the slices left are the requests in them.
RoundInv ==
  \A k \in DOMAIN slices :
    /\ round.next + k - 1 \in DOMAIN round.suffix
    /\ round.suffix[round.next + k - 1] = LeftOf(slices, k)

\* Without the first, the k-th slice is the one after.
LEMMA LeftOfTail ==
  ASSUME NEW s \in Seq(Piece), s # <<>>, NEW k \in DOMAIN Tail(s)
  PROVE  LeftOf(Tail(s), k) = LeftOf(s, k + 1)
  <1>1. /\ \A i \in DOMAIN Tail(s) : i + 1 \in DOMAIN s /\ Tail(s)[i] = s[i + 1]
        /\ Len(s) \in Nat /\ DOMAIN s = 1 .. Len(s) /\ DOMAIN Tail(s) = 1 .. Len(s) - 1
        /\ Len(Tail(s)) = Len(s) - 1
    BY TailMoves, LenProperties, HeadTailProperties
  <1> DEFINE rest == Tail(s)
  <1> HIDE DEF rest
  <1>2. ASSUME NEW j \in k .. Len(rest) PROVE j + 1 \in k + 1 .. Len(s) /\ rest[j] = s[j + 1]
    BY <1>1 DEF rest
  <1>3. ASSUME NEW j \in k + 1 .. Len(s) PROVE j - 1 \in k .. Len(rest) /\ rest[j - 1] = s[j]
    <2>1. j - 1 \in k .. Len(rest) /\ (j - 1) + 1 = j
      BY <1>1 DEF rest
    <2> QED
      BY <1>2, <2>1
  <1>4. LeftOf(rest, k) = LeftOf(s, k + 1)
    BY <1>2, <1>3 DEF LeftOf
  <1> QED
    BY <1>4 DEF rest

\* Every step keeps the suffix sets with the slices they are for.
LEMMA RoundNext ==
  ASSUME Shapes, RoundInv, [Next]_vars
  PROVE  RoundInv'
  <1>1. CASE UNCHANGED <<round, slices>>
    BY <1>1 DEF RoundInv
  <1>2. CASE slices' = <<>>
    <2>1. DOMAIN slices' = {}
      BY <1>2
    <2> QED
      BY <2>1 DEF RoundInv
  <1>3. CASE set_output_handler_round_slices
    <2> DEFINE first == Head(outputs_queue)
               parts == chunk_output_handler_slices(first.batch)
    <2>1. /\ outputs_queue # <<>>
          /\ slices' = [i \in DOMAIN parts |-> [frame |-> first.frame, batch |-> parts[i]]]
          /\ round' = [suffix |-> build_output_handler_suffix_req_ids(parts), next |-> 1]
      BY <1>3 DEF set_output_handler_round_slices
    <2>2. first \in Piece
      BY <2>1, HeadTailProperties DEF Shapes
    <2>3. parts \in Seq(Distinct)
      BY <2>2, CutIs DEF Piece
    <2> HIDE DEF parts, first
    <2>4. Len(parts) \in Nat /\ DOMAIN parts = 1 .. Len(parts)
      BY <2>3, LenProperties
    <2>5. DOMAIN slices' = DOMAIN parts /\ Len(slices') = Len(parts) /\ \A j \in DOMAIN parts : slices'[j].batch = parts[j]
      BY <2>1, <2>4
    <2>6. /\ round'.next = 1 /\ DOMAIN round'.suffix = DOMAIN parts
          /\ \A k \in DOMAIN parts : round'.suffix[k] = UNION {Range(parts[j]) : j \in k .. Len(parts)}
      <3>1. round'.next = 1 /\ round'.suffix = build_output_handler_suffix_req_ids(parts)
        BY <2>1
      <3> QED
        BY <3>1 DEF build_output_handler_suffix_req_ids
    <2>7. ASSUME NEW k \in DOMAIN slices'
          PROVE  round'.next + k - 1 \in DOMAIN round'.suffix /\ round'.suffix[round'.next + k - 1] = LeftOf(slices', k)
      <3>1. round'.next + k - 1 = k
        BY <2>4, <2>5, <2>6
      <3>2. \A j \in k .. Len(parts) : slices'[j].batch = parts[j]
        BY <2>4, <2>5
      <3>3. LeftOf(slices', k) = UNION {Range(parts[j]) : j \in k .. Len(parts)}
        BY <2>5, <3>2 DEF LeftOf
      <3> QED
        BY <2>5, <2>6, <3>1, <3>3
    <2> QED
      BY <2>7 DEF RoundInv
  <1>4. CASE process_outputs
    <2>1. slices # <<>> /\ slices' = Tail(slices) /\ round' = [suffix |-> round.suffix, next |-> round.next + 1]
      BY <1>4 DEF process_outputs, Shapes
    <2>2. round'.suffix = round.suffix /\ round'.next = round.next + 1 /\ round.next \in Nat
      BY <2>1 DEF Shapes
    <2>3. ASSUME NEW k \in DOMAIN slices'
          PROVE  round'.next + k - 1 \in DOMAIN round'.suffix /\ round'.suffix[round'.next + k - 1] = LeftOf(slices', k)
      <3>1. k \in Nat /\ k + 1 \in DOMAIN slices
        BY <2>1, TailMoves DEF Shapes
      <3>2. LeftOf(slices', k) = LeftOf(slices, k + 1)
        BY <2>1, LeftOfTail DEF Shapes
      <3>3. round'.next + k - 1 = round.next + (k + 1) - 1
        BY <2>2, <3>1
      <3> QED
        BY <2>2, <3>1, <3>2, <3>3 DEF RoundInv
    <2> QED
      BY <2>3 DEF RoundInv
  <1>5. \/ UNCHANGED <<round, slices>> \/ slices' = <<>>
        \/ set_output_handler_round_slices \/ process_outputs
    BY DEF Next, vars, RunNext, set_enabled, Engine, SocketWaits, process_outputs_socket, HandlerWaits,
           HandlerGoesOn, abort_requests_async, AbortSent, generate, CallerReturns
  <1> QED
    BY <1>1, <1>2, <1>3, <1>4, <1>5

\* What the waits before the next slice are charged to.
LEMMA SchedReqIdsAre ==
  ASSUME Shapes, RoundInv, slices # <<>>
  PROVE  SchedReqIds = LeftOf(slices, 1)
  <1>1. 1 \in DOMAIN slices
    BY TailMoves DEF Shapes
  <1>2. round.next \in Nat
    BY DEF Shapes
  <1>3. round.next + 1 - 1 = round.next
    BY <1>2
  <1> QED
    BY <1>1, <1>3 DEF RoundInv, SchedReqIds

-----------------------------------------------------------------------------
(* The waits and the outputs they delay. *)

\* The waits of a task: those kept, and those of its callbacks in the queue.
Held(kept, queue, t) ==
  Range(kept[t]) \cup {queue[i].delayed : i \in {k \in DOMAIN queue : queue[k].task = t}}

\* What a wait delayed of one frame.
Part(w, frame) == {o \in w : o[1] = frame}

\* A wait of the handler that delayed anything delayed all that is left of the
\* round, and with no round all of the next batch.
Owed(parts, queue, w) ==
  /\ parts # <<>> => Part(w, parts[1].frame) = {parts[1].frame} \X LeftOf(parts, 1)
  /\ parts = <<>> => /\ queue # <<>>
                     /\ Part(w, queue[1].frame) = Outs(queue[1].frame, queue[1].batch)

\* A wait of the socket task that delayed anything delayed the first message.
SocketOwed(messages, w) ==
  messages # <<>> /\ w = Outs(messages[1].frame, messages[1].batch)

\* The callback that runs leaves its wait to the task.
LEMMA HeldRuns ==
  ASSUME NEW queue \in Seq(Callback), queue # <<>>, NEW t, NEW kept, NEW now, NEW S, kept[t] \in Seq(S),
         Head(queue).delayed \in S,
         \/ now[t] = kept[t]
         \/ Head(queue).task = t /\ now[t] = Append(kept[t], Head(queue).delayed)
  PROVE  Held(now, Tail(queue), t) \subseteq Held(kept, queue, t)
  <1> DEFINE rest == Tail(queue)
             d == Head(queue).delayed
  <1>1. /\ 1 \in DOMAIN queue /\ Head(queue) = queue[1]
        /\ \A i \in DOMAIN rest : i + 1 \in DOMAIN queue /\ rest[i] = queue[i + 1]
    BY TailMoves
  <1> HIDE DEF rest
  <1>2. ASSUME NEW i \in DOMAIN rest, rest[i].task = t PROVE rest[i].delayed \in Held(kept, queue, t)
    BY <1>1, <1>2 DEF Held
  <1>3. Head(queue).task = t => d \in Held(kept, queue, t)
    BY <1>1 DEF Held
  <1>4. Range(now[t]) \subseteq Held(kept, queue, t)
    <2>1. CASE now[t] = kept[t]
      BY <2>1 DEF Held
    <2>2. CASE Head(queue).task = t /\ now[t] = Append(kept[t], d)
      <3> DEFINE s == kept[t]
      <3>1. s \in Seq(S) /\ d \in S
        OBVIOUS
      <3> HIDE DEF s, d
      <3>2. \A i \in DOMAIN Append(s, d) : Append(s, d)[i] = d \/ (i \in DOMAIN s /\ Append(s, d)[i] = s[i])
        BY <3>1, AppendHolds
      <3>3. Range(Append(s, d)) \subseteq Range(s) \cup {d}
        BY <3>2 DEF Range
      <3> QED
        BY <1>3, <2>2, <3>3 DEF Held, s
    <2> QED
      BY <2>1, <2>2
  <1> QED
    BY <1>2, <1>4 DEF Held, rest

\* One more callback adds its wait to those of its task.
LEMMA HeldMore ==
  ASSUME NEW queue \in Seq(Callback), NEW c \in Callback, NEW kept, NEW t
  PROVE  \A w \in Held(kept, Append(queue, c), t) : w \in Held(kept, queue, t) \/ (c.task = t /\ w = c.delayed)
  <1>1. \A i \in DOMAIN Append(queue, c) :
          Append(queue, c)[i] = c \/ (i \in DOMAIN queue /\ Append(queue, c)[i] = queue[i])
    BY AppendHolds
  <1> DEFINE more == Append(queue, c)
  <1> HIDE DEF more
  <1>2. ASSUME NEW i \in DOMAIN more, more[i].task = t
        PROVE  more[i].delayed \in Held(kept, queue, t) \/ (c.task = t /\ more[i].delayed = c.delayed)
    BY <1>1, <1>2 DEF Held, more
  <1> QED
    BY <1>2 DEF Held, more

\* Callbacks of other tasks add none.
LEMMA HeldOthers ==
  ASSUME NEW queue \in Seq(Callback), NEW w \in Seq(Callback), NEW kept, NEW t, \A i \in DOMAIN w : w[i].task # t
  PROVE  Held(kept, queue \o w, t) \subseteq Held(kept, queue, t)
  <1> DEFINE all == queue \o w
  <1>1. \A i \in DOMAIN all : (i \in DOMAIN queue /\ all[i] = queue[i]) \/ (\E j \in DOMAIN w : all[i] = w[j])
    <2>1. /\ Len(queue) \in Nat /\ Len(w) \in Nat /\ DOMAIN queue = 1 .. Len(queue) /\ DOMAIN w = 1 .. Len(w)
          /\ DOMAIN all = 1 .. Len(queue) + Len(w)
          /\ \A i \in DOMAIN all : all[i] = IF i <= Len(queue) THEN queue[i] ELSE w[i - Len(queue)]
      BY LenProperties, ConcatProperties
    <2> HIDE DEF all
    <2>2. ASSUME NEW i \in DOMAIN all, ~ (i <= Len(queue)) PROVE i - Len(queue) \in DOMAIN w /\ all[i] = w[i - Len(queue)]
      BY <2>1, <2>2
    <2> QED
      BY <2>1, <2>2
  <1> HIDE DEF all
  <1> QED
    BY <1>1 DEF Held, all

\* A task that runs has no callback in the queue.
LEMMA HeldFlushed ==
  ASSUME NEW queue \in Seq(Callback), NEW kept, NEW t, NEW at, Orderly(queue, t, at), kept[t] = <<>>
  PROVE  Held(kept, queue, t) = {}
  <1>1. Range(kept[t]) = {}
    BY DEF Range
  <1>2. \A i \in DOMAIN queue : queue[i].task # t
    BY DEF Orderly
  <1> QED
    BY <1>1, <1>2 DEF Held

\* All that is at the handler: of the first frame, the slices left or else the
\* first batch, as all other batches are of later frames.
LEMMA AllIsOwed ==
  ASSUME NEW parts \in Seq(Piece), NEW queue \in Seq(Piece),
         \A i, j \in DOMAIN parts : parts[i].frame = parts[j].frame,
         \A i \in DOMAIN parts, j \in DOMAIN queue : parts[i].frame < queue[j].frame,
         \A i, j \in DOMAIN queue : i < j => queue[i].frame < queue[j].frame,
         NEW w, w = UNION {Outs(s.frame, s.batch) : s \in Range(parts) \cup Range(queue)}, w # {}
  PROVE  Owed(parts, queue, w)
  <1>0. /\ \A i \in DOMAIN parts : parts[i] \in Piece /\ i \in Nat
        /\ \A i \in DOMAIN queue : queue[i] \in Piece /\ i \in Nat /\ 1 <= i
        /\ Len(parts) \in Nat /\ DOMAIN parts = 1 .. Len(parts)
    BY LenProperties, ElementOfSeq
  <1>a. \A piece \in Piece : piece.frame \in Nat
    BY ConstantsAssumption DEF Piece, Frames
  <1>b. \A i \in DOMAIN parts : parts[i].frame \in Nat
    BY <1>0, <1>a
  <1>c. \A i \in DOMAIN queue : queue[i].frame \in Nat
    BY <1>0, <1>a
  <1>1. \A o : o \in w <=> \/ \E i \in DOMAIN parts : o \in Outs(parts[i].frame, parts[i].batch)
                           \/ \E i \in DOMAIN queue : o \in Outs(queue[i].frame, queue[i].batch)
    BY DEF Range
  <1>2. CASE parts # <<>>
    <2> DEFINE f == parts[1].frame
    <2>1. 1 \in DOMAIN parts
      BY <1>2, TailMoves
    <2>2. f \in Nat
      BY <1>b, <2>1
    <2>3. ASSUME NEW o \in w, o[1] = f PROVE o \in {f} \X LeftOf(parts, 1)
      <3>1. ASSUME NEW i \in DOMAIN queue, o \in Outs(queue[i].frame, queue[i].batch) PROVE FALSE
        <4>1. o[1] = queue[i].frame
          BY <3>1 DEF Outs
        <4>2. f < queue[i].frame
          BY <2>1
        <4> QED
          BY <1>c, <2>2, <2>3, <4>1, <4>2
      <3>2. PICK i \in DOMAIN parts : o \in Outs(parts[i].frame, parts[i].batch)
        BY <1>1, <3>1
      <3>3. parts[i].frame = f
        BY <2>1
      <3>4. Range(parts[i].batch) \subseteq LeftOf(parts, 1)
        BY <1>0 DEF LeftOf
      <3> QED
        BY <3>2, <3>3, <3>4 DEF Outs
    <2>4. ASSUME NEW o \in {f} \X LeftOf(parts, 1) PROVE o \in w /\ o[1] = f
      <3>1. PICK i \in 1 .. Len(parts) : o[2] \in Range(parts[i].batch)
        BY DEF LeftOf
      <3>2. i \in DOMAIN parts /\ parts[i].frame = f
        BY <1>0, <2>1, <3>1
      <3>3. o \in {f} \X Range(parts[i].batch)
        BY <3>1
      <3> QED
        BY <1>1, <3>2, <3>3 DEF Outs
    <2> QED
      BY <1>2, <2>3, <2>4 DEF Owed, Part
  <1>3. CASE parts = <<>>
    <2>1. DOMAIN parts = {}
      BY <1>3
    <2>2. queue # <<>>
      <3>1. PICK o : o \in w
        OBVIOUS
      <3>2. DOMAIN queue # {}
        BY <1>1, <2>1, <3>1
      <3> QED
        BY <3>2
    <2>3. 1 \in DOMAIN queue
      BY <2>2, TailMoves
    <2> DEFINE f == queue[1].frame
    <2>4. f \in Nat
      BY <1>c, <2>3
    <2>5. ASSUME NEW o \in w, o[1] = f PROVE o \in Outs(f, queue[1].batch)
      <3>1. PICK i \in DOMAIN queue : o \in Outs(queue[i].frame, queue[i].batch)
        BY <1>1, <2>1
      <3>2. queue[i].frame = f
        BY <2>5, <3>1 DEF Outs
      <3>3. i = 1
        <4>1. ~ (queue[1].frame < queue[i].frame)
          BY <2>4, <3>2
        <4>2. ~ (1 < i)
          BY <2>3, <4>1
        <4> QED
          BY <1>0, <4>2
      <3> QED
        BY <3>1, <3>3
    <2>6. ASSUME NEW o \in Outs(f, queue[1].batch) PROVE o \in w /\ o[1] = f
      BY <1>1, <2>3 DEF Outs
    <2>7. Part(w, f) = Outs(f, queue[1].batch)
      BY <2>5, <2>6 DEF Part
    <2> QED
      BY <1>3, <2>2, <2>7 DEF Owed
  <1> QED
    BY <1>2, <1>3

\* What handing on a slice does to the waits and to the queue of callbacks.
LEMMA SliceDoes ==
  ASSUME Shapes, enabled \in BOOLEAN, process_outputs
  PROVE  /\ running = "handler" /\ slices # <<>> /\ slices' = Tail(slices) /\ slices' \in Seq(Piece)
         /\ socket' = socket /\ outputs_queue' = outputs_queue /\ enabled' = enabled
         /\ pending'["handler"] = <<>> /\ pending'["socket"] = pending["socket"]
         /\ AtHandler' \in SUBSET Output
         /\ \E w \in Seq(Callback) :
              /\ \A i \in DOMAIN w : w[i].task \in Requests
              /\ \/ ready' = ready \o w
                 \/ ready' = Append(ready \o w, Scheduled("handler", AtHandler'))
  <1> DEFINE slice == Head(slices)
             woken == Waiting(slice.batch)
             wakeups == [i \in DOMAIN woken |-> Scheduled(woken[i], {})]
  <1>1. /\ running = "handler" /\ pc["handler"] = "slice" /\ slices' = Tail(slices)
        /\ Flush("handler", slice.frame, SchedReqIds)
        /\ UNCHANGED <<tracing, socket, outputs_queue>>
        /\ \/ ready' = ready \o wakeups
           \/ ready' = Append(ready \o wakeups, Scheduled("handler", AtHandler'))
    BY DEF process_outputs
  <1>2. slices # <<>>
    BY <1>1 DEF Shapes
  <1>3. slices' \in Seq(Piece) /\ slice \in Piece
    BY <1>1, <1>2, HeadTailProperties DEF Shapes
  <1>4. slice.batch \in Distinct
    BY <1>3 DEF Piece
  <1>5. wakeups \in Seq(Callback) /\ \A i \in DOMAIN wakeups : wakeups[i].task \in Requests
    BY <1>4, WakeupsAre
  <1> HIDE DEF slice, woken, wakeups
  <1>6. AtHandler' \in SUBSET Output
    <2>1. outputs_queue' \in Seq(Piece)
      BY <1>1 DEF Shapes
    <2> QED
      BY <1>3, <2>1, AllOutsAre DEF AtHandler
  <1>7. pending'["handler"] = <<>> /\ pending'["socket"] = pending["socket"]
    BY <1>1, FlushShapes, TasksAre
  <1> QED
    BY <1>1, <1>2, <1>3, <1>5, <1>6, <1>7

\* A step that runs a callback adds nothing to the waits.
LEMMA HeldRunNext ==
  ASSUME Shapes, RunNext, NEW t \in OutputTasks
  PROVE  Held(pending', ready', t) \subseteq Held(pending, ready, t)
  <1> DEFINE first == Head(ready)
  <1>1. /\ ready # <<>> /\ running' = first.task /\ ready' = Tail(ready)
        /\ pending' = [u \in OutputTasks |->
                         IF u = running' /\ first.tracked THEN Append(pending[u], first.delayed) ELSE pending[u]]
    BY DEF RunNext
  <1>2. first \in Callback
    BY <1>1, HeadTailProperties DEF Shapes
  <1>3. first.delayed \in SUBSET Output
    BY <1>2 DEF Callback
  <1>4. pending[t] \in Seq(SUBSET Output)
    BY DEF Shapes
  <1>5. pending'[t] = pending[t] \/ (first.task = t /\ pending'[t] = Append(pending[t], first.delayed))
    BY <1>1
  <1>6. ready \in Seq(Callback)
    BY DEF Shapes
  <1> HIDE DEF Shapes
  <1> QED
    BY <1>1, <1>3, <1>4, <1>5, <1>6, HeldRuns

\* A step that wakes another task adds nothing to the waits of this one.
LEMMA HeldKept ==
  ASSUME Shapes, enabled \in BOOLEAN, NEW t \in OutputTasks, pending'[t] = pending[t],
         \/ ready' = ready
         \/ \E u \in Tasks \ {t}, d \in SUBSET Output : ready' = Append(ready, Scheduled(u, d))
  PROVE  Held(pending', ready', t) \subseteq Held(pending, ready, t)
  <1>1. \A queue : Held(pending', queue, t) = Held(pending, queue, t)
    BY DEF Held
  <1>2. CASE ready' = ready
    BY <1>1, <1>2
  <1>3. ASSUME NEW u \in Tasks \ {t}, NEW d \in SUBSET Output, ready' = Append(ready, Scheduled(u, d))
        PROVE  Held(pending', ready', t) \subseteq Held(pending, ready, t)
    <2> DEFINE c == Scheduled(u, d)
    <2>1. c \in Callback /\ c.task # t
      BY ScheduledIs
    <2>2. ready \in Seq(Callback) /\ ready' = Append(ready, c)
      BY <1>3 DEF Shapes
    <2> HIDE DEF c
    <2>3. \A w \in Held(pending, Append(ready, c), t) : w \in Held(pending, ready, t)
      BY <2>1, <2>2, HeldMore
    <2> QED
      BY <1>1, <2>2, <2>3
  <1> QED
    BY <1>2, <1>3

-----------------------------------------------------------------------------
(* The waits of the socket task. *)

SocketCharge == \A w \in Held(pending, ready, "socket") : w # {} => SocketOwed(socket, w)

\* A message that wakes the socket task is the first; the others come after it.
LEMMA EngineSocketCharge ==
  ASSUME Shapes, enabled \in BOOLEAN, PlacesInv, SocketCharge, NEW message \in Message, Engine(message)
  PROVE  SocketCharge'
  <1>1. /\ message.frame = sent' /\ socket' = Append(socket, message) /\ pending' = pending
        /\ IF pc["socket"] = "waits"
           THEN ready' = Append(ready, Scheduled("socket", Outs(sent', message.batch)))
           ELSE ready' = ready
    BY DEF Engine
  <1> DEFINE outs == Outs(message.frame, message.batch)
             c == Scheduled("socket", outs)
  <1>2. outs \in SUBSET Output
    BY DelayedAre
  <1>3. c \in Callback /\ c.delayed = outs
    BY <1>2, TasksAre, ScheduledIs
  <1>4. ready \in Seq(Callback) /\ socket \in Seq(Message)
    BY DEF Shapes
  <1>5. socket' # <<>> /\ (socket = <<>> => socket'[1] = message) /\ (socket # <<>> => socket'[1] = socket[1])
    BY <1>1, <1>4, FirstStays
  <1> HIDE DEF outs, c
  <1>6. \A w \in Held(pending, ready, "socket") : w # {} => SocketOwed(socket', w)
    BY <1>5 DEF SocketCharge, SocketOwed
  <1>7. CASE pc["socket"] = "waits"
    <2>1. socket = <<>>
      BY <1>7 DEF PlacesInv
    <2>2. SocketOwed(socket', outs)
      BY <1>5, <2>1 DEF SocketOwed, outs
    <2>3. ready' = Append(ready, c)
      BY <1>1, <1>7 DEF c, outs
    <2>4. \A w \in Held(pending, Append(ready, c), "socket") : w \in Held(pending, ready, "socket") \/ w = outs
      BY <1>3, <1>4, HeldMore
    <2> QED
      BY <1>1, <1>6, <2>2, <2>3, <2>4 DEF SocketCharge
  <1>8. CASE pc["socket"] # "waits"
    BY <1>1, <1>6, <1>8 DEF SocketCharge
  <1> QED
    BY <1>7, <1>8

\* What the task does with a message, to the waits.
LEMMA SocketDoes ==
  ASSUME Shapes, enabled \in BOOLEAN, process_outputs_socket
  PROVE  /\ Head(socket) \in Message /\ Head(socket) = socket[1] /\ 1 \in DOMAIN socket
         /\ Head(socket).kind # "utility" => pending'["socket"] = <<>>
         /\ Head(socket).kind = "utility" => pending'["socket"] = pending["socket"]
         /\ pending'["handler"] = pending["handler"]
         /\ \/ ready' = ready /\ outputs_queue' = outputs_queue
            \/ Put(Head(socket))
         /\ \/ ready' = ready
            \/ \E u \in Tasks \ {"socket"}, d \in SUBSET Output : ready' = Append(ready, Scheduled(u, d))
  <1> DEFINE message == Head(socket)
  <1>1. /\ socket # <<>>
        /\ IF message.kind = "utility" THEN UNCHANGED pending
           ELSE Flush("socket", message.frame, Range(message.batch))
        /\ Put(message) \/ UNCHANGED <<outputs_queue, pc, ready>>
    BY DEF process_outputs_socket
  <1>2. message \in Message /\ message = socket[1] /\ 1 \in DOMAIN socket
    BY <1>1, TailMoves DEF Shapes
  <1>3. Outs(message.frame, message.batch) \in SUBSET Output
    BY <1>2, DelayedAre
  <1> HIDE DEF message
  <1>6. /\ message.kind # "utility" => pending'["socket"] = <<>>
        /\ message.kind = "utility" => pending'["socket"] = pending["socket"]
        /\ pending'["handler"] = pending["handler"]
    <2>1. CASE message.kind = "utility"
      BY <1>1, <2>1
    <2>2. CASE message.kind # "utility"
      <3>1. Flush("socket", message.frame, Range(message.batch))
        BY <1>1, <2>2
      <3>2. pending'["socket"] = <<>> /\ pending'["handler"] = pending["handler"]
        BY <3>1, FlushShapes, TasksAre
      <3> QED
        BY <2>2, <3>2
    <2> QED
      BY <2>1, <2>2
  <1>7. \/ ready' = ready
        \/ \E u \in Tasks \ {"socket"}, d \in SUBSET Output : ready' = Append(ready, Scheduled(u, d))
    <2>1. "handler" \in Tasks \ {"socket"}
      BY TasksAre
    <2>2. ready' = ready \/ ready' = Append(ready, Scheduled("handler", Outs(message.frame, message.batch)))
      BY <1>1 DEF Put
    <2> QED
      BY <1>3, <2>1, <2>2
  <1> QED
    BY <1>1, <1>2, <1>6, <1>7 DEF message

\* The message is taken and its waits are gone, unless it held no output: then
\* they delayed nothing.
LEMMA TakenSocketCharge ==
  ASSUME Shapes, enabled \in BOOLEAN, LoopInv, PlacesInv, SocketCharge, process_outputs_socket
  PROVE  SocketCharge'
  <1>1. running = "socket" /\ running' = running
    BY DEF process_outputs_socket
  <1>2. CASE socket[1].kind # "utility"
    <2>1. pending'["socket"] = <<>>
      BY <1>2, SocketDoes
    <2>2. Orderly(ready, "socket", pc) /\ ready \in Seq(Callback)
      BY <1>1 DEF LoopInv, Shapes
    <2>3. Held(pending', ready, "socket") = {}
      BY <2>1, <2>2, HeldFlushed
    <2>4. Held(pending', ready', "socket") = {}
      <3>1. CASE ready' = ready
        BY <2>3, <3>1
      <3>2. ASSUME NEW u \in Tasks \ {"socket"}, NEW d \in SUBSET Output, ready' = Append(ready, Scheduled(u, d))
            PROVE  Held(pending', ready', "socket") = {}
        <4> DEFINE c == Scheduled(u, d)
        <4>1. c \in Callback /\ c.task # "socket"
          BY ScheduledIs
        <4>2. ready \in Seq(Callback) /\ ready' = Append(ready, c)
          BY <3>2 DEF Shapes
        <4> HIDE DEF c
        <4>3. \A w \in Held(pending', Append(ready, c), "socket") : w \in Held(pending', ready, "socket")
          BY <4>1, <4>2, HeldMore
        <4> QED
          BY <2>3, <4>2, <4>3
      <3> QED
        BY <3>1, <3>2, SocketDoes
    <2> QED
      BY <2>4 DEF SocketCharge
  <1>3. CASE socket[1].kind = "utility"
    <2>1. pending'["socket"] = pending["socket"]
      BY <1>3, SocketDoes
    <2>2. Held(pending', ready', "socket") \subseteq Held(pending, ready, "socket")
      BY <2>1, SocketDoes, TasksAre, HeldKept
    <2>3. 1 \in DOMAIN socket
      BY SocketDoes
    <2>4. socket[1].batch = <<>>
      BY <1>3, <2>3 DEF PlacesInv
    <2>5. Outs(socket[1].frame, socket[1].batch) = {}
      BY <2>4 DEF Outs, Range
    <2>6. \A w \in Held(pending, ready, "socket") : w = {}
      BY <2>5 DEF SocketCharge, SocketOwed
    <2> QED
      BY <2>2, <2>6 DEF SocketCharge
  <1> QED
    BY <1>2, <1>3

\* A wait of the socket task that delayed anything delayed the first message.
LEMMA SocketChargeNext ==
  ASSUME Shapes, enabled \in BOOLEAN, LoopInv, PlacesInv, SocketCharge, [Next]_vars
  PROVE  SocketCharge'
  <1>1. CASE /\ socket' = socket
             /\ Held(pending', ready', "socket") \subseteq Held(pending, ready, "socket")
    BY <1>1 DEF SocketCharge
  <1>2. "socket" \in OutputTasks /\ "handler" \in Tasks \ {"socket"} /\ Requests \subseteq Tasks \ {"socket"}
    BY TasksAre
  <1>3. CASE RunNext
    BY <1>1, <1>2, <1>3, HeldRunNext DEF RunNext
  <1>4. CASE process_outputs
    <2>1. PICK w \in Seq(Callback) :
              /\ \A i \in DOMAIN w : w[i].task \in Requests
              /\ \/ ready' = ready \o w
                 \/ ready' = Append(ready \o w, Scheduled("handler", AtHandler'))
      BY <1>4, SliceDoes
    <2> DEFINE all == ready \o w
               c == Scheduled("handler", AtHandler')
    <2>2. ready \in Seq(Callback)
      BY DEF Shapes
    <2>3. \A i \in DOMAIN w : w[i].task # "socket"
      BY <2>1, TasksAre
    <2>4. all \in Seq(Callback)
      BY <2>2, ConcatProperties
    <2>5. \A queue : Held(pending', queue, "socket") = Held(pending, queue, "socket")
      BY <1>4, SliceDoes DEF Held
    <2>6. Held(pending, all, "socket") \subseteq Held(pending, ready, "socket")
      BY <2>2, <2>3, HeldOthers
    <2>7. c \in Callback /\ c.task # "socket"
      BY <1>4, SliceDoes, ScheduledIs, TasksAre
    <2> HIDE DEF all, c
    <2>8. \A x \in Held(pending, Append(all, c), "socket") : x \in Held(pending, all, "socket")
      BY <2>4, <2>7, HeldMore
    <2>9. Held(pending', ready', "socket") \subseteq Held(pending, ready, "socket")
      BY <2>1, <2>5, <2>6, <2>8 DEF all, c
    <2>10. socket' = socket
      BY <1>4, SliceDoes
    <2> QED
      BY <1>1, <2>9, <2>10
  <1>5. CASE AbortSent
    BY <1>1, <1>2, <1>5, DelayedAre, HeldKept DEF AbortSent
  <1>6. ASSUME NEW r \in Requests, CallerReturns(r) PROVE SocketCharge'
    <2>1. {} \in SUBSET Output
      OBVIOUS
    <2> QED
      BY <1>1, <1>2, <1>6, <2>1, HeldKept DEF CallerReturns
  <1>7. CASE UNCHANGED <<socket, pending, ready>>
    BY <1>7 DEF SocketCharge
  <1>8. \/ RunNext \/ (\E message \in Message : Engine(message)) \/ process_outputs_socket \/ process_outputs
        \/ AbortSent \/ (\E r \in Requests : CallerReturns(r)) \/ UNCHANGED <<socket, pending, ready>>
    BY DEF Next, vars, set_enabled, SocketWaits, HandlerWaits, set_output_handler_round_slices,
           HandlerGoesOn, abort_requests_async, generate
  <1> QED
    BY <1>3, <1>4, <1>5, <1>6, <1>7, <1>8, EngineSocketCharge, TakenSocketCharge

-----------------------------------------------------------------------------
(* The waits of the handler. *)

HandlerCharge == \A w \in Held(pending, ready, "handler") : w # {} => Owed(slices, outputs_queue, w)

\* A batch that wakes the handler is the first; the others come after it.
LEMMA PutHandlerCharge ==
  ASSUME Shapes, enabled \in BOOLEAN, PlacesInv, HandlerCharge, process_outputs_socket
  PROVE  HandlerCharge'
  <1> DEFINE message == Head(socket)
             queued == [frame |-> message.frame, batch |-> message.batch]
             outs == Outs(message.frame, message.batch)
             c == Scheduled("handler", outs)
  <1>1. /\ message \in Message /\ pending'["handler"] = pending["handler"] /\ slices' = slices
        /\ (ready' = ready /\ outputs_queue' = outputs_queue) \/ Put(message)
    BY SocketDoes DEF process_outputs_socket
  <1>2. queued \in Piece /\ queued.frame = message.frame /\ queued.batch = message.batch
    BY <1>1, MessagesAre
  <1>3. outs \in SUBSET Output
    BY <1>1, DelayedAre
  <1>4. c \in Callback /\ c.delayed = outs
    BY <1>3, TasksAre, ScheduledIs
  <1>5. ready \in Seq(Callback) /\ outputs_queue \in Seq(Piece)
    BY DEF Shapes
  <1>6. Put(message) => /\ outputs_queue' = Append(outputs_queue, queued)
                        /\ IF pc["handler"] = "waits" THEN ready' = Append(ready, c) ELSE ready' = ready
    BY DEF Put
  <1>7. \A queue : Held(pending', queue, "handler") = Held(pending, queue, "handler")
    BY <1>1 DEF Held
  <1>8. outs = Outs(queued.frame, queued.batch) /\ Part(outs, queued.frame) = outs
    BY <1>2 DEF Outs, Part
  <1> HIDE DEF message, queued, outs, c
  <1>9. CASE ready' = ready /\ outputs_queue' = outputs_queue
    BY <1>1, <1>7, <1>9 DEF HandlerCharge
  <1>10. CASE Put(message)
    <2>1. /\ outputs_queue' # <<>>
          /\ outputs_queue = <<>> => outputs_queue'[1] = queued
          /\ outputs_queue # <<>> => outputs_queue'[1] = outputs_queue[1]
      BY <1>2, <1>5, <1>6, <1>10, FirstStays
    <2>2. \A w : Owed(slices, outputs_queue, w) => Owed(slices, outputs_queue', w)
      BY <2>1 DEF Owed
    <2>3. \A w \in Held(pending, ready, "handler") : w # {} => Owed(slices', outputs_queue', w)
      BY <1>1, <2>2 DEF HandlerCharge
    <2>4. CASE pc["handler"] = "waits"
      <3>1. outputs_queue = <<>> /\ slices = <<>>
        BY <2>4 DEF PlacesInv
      <3>2. Owed(slices', outputs_queue', outs)
        BY <1>1, <1>8, <2>1, <3>1 DEF Owed
      <3>3. \A w \in Held(pending, Append(ready, c), "handler") : w \in Held(pending, ready, "handler") \/ w = outs
        BY <1>4, <1>5, HeldMore
      <3> QED
        BY <1>6, <1>7, <1>10, <2>3, <2>4, <3>2, <3>3 DEF HandlerCharge
    <2>5. CASE pc["handler"] # "waits"
      BY <1>6, <1>7, <1>10, <2>3, <2>5 DEF HandlerCharge
    <2> QED
      BY <2>4, <2>5
  <1> QED
    BY <1>1, <1>9, <1>10

\* The first batch becomes the round: what it delayed is left of the round.
LEMMA RoundHandlerCharge ==
  ASSUME Shapes, PlacesInv, HandlerCharge, set_output_handler_round_slices
  PROVE  HandlerCharge'
  <1> DEFINE first == Head(outputs_queue)
             parts == chunk_output_handler_slices(first.batch)
  <1>1. /\ pc["handler"] = "get" /\ outputs_queue # <<>>
        /\ slices' = [i \in DOMAIN parts |-> [frame |-> first.frame, batch |-> parts[i]]]
        /\ UNCHANGED <<ready, pending>>
    BY DEF set_output_handler_round_slices
  <1>2. first \in Piece /\ first = outputs_queue[1]
    BY <1>1, TailMoves DEF Shapes
  <1>3. /\ parts \in Seq(Distinct) /\ parts # <<>>
        /\ UNION {Range(parts[i]) : i \in DOMAIN parts} = Range(first.batch)
    BY <1>2, CutIs DEF Piece
  <1> HIDE DEF parts, first
  <1>4. Len(parts) \in Nat \ {0} /\ DOMAIN parts = 1 .. Len(parts)
    BY <1>3, LenProperties, EmptySeq
  <1>5. /\ DOMAIN slices' = DOMAIN parts /\ Len(slices') = Len(parts)
        /\ \A j \in DOMAIN parts : slices'[j].batch = parts[j] /\ slices'[j].frame = first.frame
    BY <1>1, <1>4
  <1>6. slices' # <<>> /\ slices'[1].frame = first.frame
    BY <1>4, <1>5
  <1>7. LeftOf(slices', 1) = Range(first.batch)
    <2>1. \A j \in 1 .. Len(slices') : slices'[j].batch = parts[j]
      BY <1>4, <1>5
    <2>2. LeftOf(slices', 1) = UNION {Range(parts[j]) : j \in DOMAIN parts}
      BY <1>4, <1>5, <2>1 DEF LeftOf
    <2> QED
      BY <1>3, <2>2
  <1>8. ASSUME NEW w \in Held(pending, ready, "handler"), w # {} PROVE Owed(slices', outputs_queue', w)
    <2>1. slices = <<>>
      BY <1>1 DEF PlacesInv
    <2>2. Part(w, first.frame) = Outs(first.frame, first.batch)
      BY <1>2, <1>8, <2>1 DEF HandlerCharge, Owed
    <2> QED
      BY <1>6, <1>7, <2>2 DEF Owed, Outs
  <1> QED
    BY <1>1, <1>8 DEF HandlerCharge

\* The waits of the slice are gone; the new one, if there is one, delays all
\* that is left.
LEMMA SliceHandlerCharge ==
  ASSUME Shapes, enabled \in BOOLEAN, Shapes', InOrder', LoopInv, process_outputs
  PROVE  HandlerCharge'
  <1>1. PICK w \in Seq(Callback) :
            /\ \A i \in DOMAIN w : w[i].task \in Requests
            /\ \/ ready' = ready \o w
               \/ ready' = Append(ready \o w, Scheduled("handler", AtHandler'))
    BY SliceDoes
  <1> DEFINE all == ready \o w
             left == AtHandler'
             c == Scheduled("handler", left)
  <1>2. ready \in Seq(Callback) /\ pending'["handler"] = <<>> /\ left \in SUBSET Output
    BY SliceDoes DEF Shapes
  <1>3. \A i \in DOMAIN w : w[i].task # "handler"
    BY <1>1, TasksAre
  <1>4. all \in Seq(Callback)
    BY <1>2, ConcatProperties
  <1>5. Orderly(ready, "handler", pc)
    BY SliceDoes DEF LoopInv
  <1>6. Held(pending', ready, "handler") = {}
    BY <1>2, <1>5, HeldFlushed
  <1>7. Held(pending', all, "handler") = {}
    BY <1>2, <1>3, <1>6, HeldOthers
  <1>8. c \in Callback /\ c.delayed = left
    BY <1>2, ScheduledIs, TasksAre
  <1>9. left # {} => Owed(slices', outputs_queue', left)
    <2>1. slices' \in Seq(Piece) /\ outputs_queue' \in Seq(Piece)
      BY DEF Shapes
    <2> DEFINE parts == slices'
               queue == outputs_queue'
    <2>2. left = UNION {Outs(s.frame, s.batch) : s \in Range(parts) \cup Range(queue)}
      BY DEF AtHandler
    <2>3. /\ \A i, j \in DOMAIN parts : parts[i].frame = parts[j].frame
          /\ \A i \in DOMAIN parts, j \in DOMAIN queue : parts[i].frame < queue[j].frame
          /\ \A i, j \in DOMAIN queue : i < j => queue[i].frame < queue[j].frame
      BY DEF InOrder
    <2> HIDE DEF left, parts, queue
    <2>4. parts \in Seq(Piece) /\ queue \in Seq(Piece)
      BY <2>1 DEF parts, queue
    <2>5. left # {} => Owed(parts, queue, left)
      BY <2>2, <2>3, <2>4, AllIsOwed
    <2> QED
      BY <2>5 DEF parts, queue
  <1> HIDE DEF all, c, left
  <1>10. \A x \in Held(pending', Append(all, c), "handler") : x = left
    BY <1>4, <1>7, <1>8, HeldMore
  <1>11. ready' = all \/ ready' = Append(all, c)
    BY <1>1 DEF all, c, left
  <1> QED
    BY <1>7, <1>9, <1>10, <1>11 DEF HandlerCharge

\* The handler that comes back from sending was delayed with all that is there.
LEMMA SentHandlerCharge ==
  ASSUME Shapes, enabled \in BOOLEAN, InOrder, HandlerCharge, AbortSent
  PROVE  HandlerCharge'
  <1> DEFINE c == Scheduled("handler", AtHandler)
  <1>1. ready' = Append(ready, c) /\ UNCHANGED <<outputs_queue, slices, pending>>
    BY DEF AbortSent
  <1>2. c \in Callback /\ c.delayed = AtHandler
    BY DelayedAre, TasksAre, ScheduledIs
  <1>3. ready \in Seq(Callback) /\ slices \in Seq(Piece) /\ outputs_queue \in Seq(Piece)
    BY DEF Shapes
  <1>4. AtHandler # {} => Owed(slices, outputs_queue, AtHandler)
    <2> DEFINE left == AtHandler
    <2>1. left = UNION {Outs(s.frame, s.batch) : s \in Range(slices) \cup Range(outputs_queue)}
      BY DEF AtHandler
    <2>2. /\ \A i, j \in DOMAIN slices : slices[i].frame = slices[j].frame
          /\ \A i \in DOMAIN slices, j \in DOMAIN outputs_queue : slices[i].frame < outputs_queue[j].frame
          /\ \A i, j \in DOMAIN outputs_queue : i < j => outputs_queue[i].frame < outputs_queue[j].frame
      BY DEF InOrder
    <2> HIDE DEF left
    <2>3. left # {} => Owed(slices, outputs_queue, left)
      BY <1>3, <2>1, <2>2, AllIsOwed
    <2> QED
      BY <2>3 DEF left
  <1> HIDE DEF c
  <1>5. \A x \in Held(pending, Append(ready, c), "handler") : x \in Held(pending, ready, "handler") \/ x = AtHandler
    BY <1>2, <1>3, HeldMore
  <1>6. \A x \in Held(pending', ready', "handler") : x # {} => Owed(slices, outputs_queue, x)
    BY <1>1, <1>4, <1>5 DEF HandlerCharge
  <1> QED
    BY <1>1, <1>6 DEF HandlerCharge

\* A wait of the handler that delayed anything delayed all that is left of the
\* round, or else the next batch.
LEMMA HandlerChargeNext ==
  ASSUME Shapes, enabled \in BOOLEAN, Shapes', LoopInv, PlacesInv, InOrder, InOrder', HandlerCharge, [Next]_vars
  PROVE  HandlerCharge'
  <1>1. CASE /\ UNCHANGED <<slices, outputs_queue>>
             /\ Held(pending', ready', "handler") \subseteq Held(pending, ready, "handler")
    BY <1>1 DEF HandlerCharge
  <1>2. "handler" \in OutputTasks /\ "socket" \in Tasks \ {"handler"} /\ Requests \subseteq Tasks \ {"handler"}
    BY TasksAre
  <1>3. CASE RunNext
    BY <1>1, <1>2, <1>3, HeldRunNext DEF RunNext
  <1>4. ASSUME NEW message \in Message, Engine(message) PROVE HandlerCharge'
    <2>1. Outs(message.frame, message.batch) \in SUBSET Output
      BY DelayedAre
    <2>2. /\ UNCHANGED <<slices, outputs_queue, pending>>
          /\ ready' = ready \/ ready' = Append(ready, Scheduled("socket", Outs(message.frame, message.batch)))
      BY <1>4 DEF Engine
    <2> QED
      BY <1>1, <1>2, <2>1, <2>2, HeldKept
  <1>5. ASSUME NEW r \in Requests, CallerReturns(r) PROVE HandlerCharge'
    <2>1. {} \in SUBSET Output
      OBVIOUS
    <2> QED
      BY <1>1, <1>2, <1>5, <2>1, HeldKept DEF CallerReturns
  <1>6. CASE UNCHANGED <<slices, outputs_queue, pending, ready>>
    BY <1>6 DEF HandlerCharge
  <1>7. \/ RunNext \/ (\E message \in Message : Engine(message)) \/ process_outputs_socket \/ process_outputs
        \/ set_output_handler_round_slices \/ AbortSent \/ (\E r \in Requests : CallerReturns(r))
        \/ UNCHANGED <<slices, outputs_queue, pending, ready>>
    BY DEF Next, vars, set_enabled, SocketWaits, HandlerWaits, HandlerGoesOn, abort_requests_async, generate
  <1> QED
    BY <1>3, <1>4, <1>5, <1>6, <1>7, PutHandlerCharge, RoundHandlerCharge, SliceHandlerCharge, SentHandlerCharge

-----------------------------------------------------------------------------
(* The invariant, and what follows from it. *)

\* The inductive invariant.
Inv ==
  /\ Shapes /\ enabled \in BOOLEAN
  /\ LoopInv /\ PlacesInv /\ WaitsInv /\ RoundInv /\ SocketCharge /\ HandlerCharge

\* It holds in every reachable state.
LEMMA Invariant == Spec => []Inv
  <1>1. Init => Inv
    <2> SUFFICES ASSUME Init PROVE Inv
      OBVIOUS
    <2>1. Shapes /\ enabled \in BOOLEAN
      BY ShapesInit
    <2>2. LoopInv /\ PlacesInv
      BY LoopInit, PlacesInit
    <2>3. WaitsInv
      BY DEF Init, WaitsInv, InOrder, Earlier, QueueWaitsAreTrue
    <2>4. RoundInv
      BY DEF Init, RoundInv
    <2>5. /\ Held(pending, ready, "socket") = {}
          /\ Held(pending, ready, "handler") = {}
      BY TasksAre DEF Init, Held, Range
    <2> QED
      BY <2>1, <2>2, <2>3, <2>4, <2>5 DEF Inv, SocketCharge, HandlerCharge
  <1>2. Inv /\ [Next]_vars => Inv'
    <2> SUFFICES ASSUME Inv, [Next]_vars PROVE Inv'
      OBVIOUS
    <2>1. /\ Shapes /\ enabled \in BOOLEAN
          /\ LoopInv /\ PlacesInv /\ WaitsInv /\ RoundInv /\ SocketCharge /\ HandlerCharge
      BY DEF Inv
    <2>2. Shapes' /\ enabled' \in BOOLEAN
      BY <2>1, ShapesNext
    <2>3. LoopInv' /\ PlacesInv' /\ RoundInv'
      BY <2>1, LoopNext, PlacesNext, RoundNext
    <2>4. WaitsInv' /\ InOrder /\ InOrder'
      BY <2>1, WaitsNext DEF WaitsInv
    <2>5. SocketCharge' /\ HandlerCharge'
      BY <2>1, <2>2, <2>4, SocketChargeNext, HandlerChargeNext
    <2> QED
      BY <2>2, <2>3, <2>4, <2>5 DEF Inv
  <1> QED
    BY <1>1, <1>2, PTL DEF Spec

\* Every variable has its type, and a task that is not suspended runs or is
\* queued exactly once.
THEOREM TypeCorrect == Spec => []TypeOK
  <1>1. Inv => TypeOK
    <2> SUFFICES ASSUME Inv PROVE TypeOK
      OBVIOUS
    <2>0. Shapes /\ LoopInv /\ enabled \in BOOLEAN
      BY DEF Inv
    <2>1. Range(outputs_queue) \cup Range(slices) \subseteq [frame : Frames, batch : Seq(Requests)]
      <3>1. Range(outputs_queue) \subseteq Piece /\ Range(slices) \subseteq Piece
        BY <2>0, RangeOfSeq DEF Shapes
      <3>2. Piece \subseteq [frame : Frames, batch : Seq(Requests)]
        BY DEF Piece, Distinct
      <3> QED
        BY <3>1, <3>2
    <2>2. \A t \in Tasks :
            Cardinality({i \in DOMAIN ready : ready[i].task = t}) + (IF running = t THEN 1 ELSE 0)
              = IF pc[t] \in {"waits", "queue", "yield", "sending"} THEN 0 ELSE 1
      BY <2>0, QueuedOnce DEF Suspended
    <2>3. round.suffix \in Seq(SUBSET Requests) /\ round.next \in Nat
      BY <2>0 DEF Shapes
    <2> QED
      BY <2>0, <2>1, <2>2, <2>3 DEF TypeOK, Shapes, Callback
  <1> QED
    BY <1>1, Invariant, PTL

\* The time from which a request's output counts as ready is that of the first
\* one it has not taken, however its batches are cut, queued and merged.
THEOREM QueueWaitsHonest == Spec => []QueueWaitsAreTrue
  <1>1. Inv => QueueWaitsAreTrue
    BY DEF Inv, WaitsInv
  <1> QED
    BY <1>1, Invariant, PTL

\* The requests of outputs.
LEMMA ReqsOf ==
  ASSUME NEW frame, NEW rs
  PROVE  Reqs({frame} \X rs) = rs
  <1>1. ASSUME NEW r \in rs PROVE r \in Reqs({frame} \X rs)
    <2>1. <<frame, r>> \in {frame} \X rs /\ <<frame, r>>[2] = r
      OBVIOUS
    <2> QED
      BY <2>1 DEF Reqs
  <1>2. ASSUME NEW r \in Reqs({frame} \X rs) PROVE r \in rs
    BY DEF Reqs
  <1> QED
    BY <1>1, <1>2

\* What a task reports, its waits being as they are owed, is true.
LEMMA FlushIsTrue ==
  ASSUME NEW t \in OutputTasks, NEW frame, NEW charged, Flush(t, frame, charged),
         \A w \in Range(pending[t]) : w # {} => Part(w, frame) = {frame} \X charged
  PROVE  ChargesAreTrue'
  <1> SUFFICES ASSUME NEW report \in reports', report.delayed # {}
               PROVE  report.charged = Reqs({o \in report.delayed : o[1] = report.frame})
    BY DEF ChargesAreTrue
  <1>1. PICK w \in Range(pending[t]) : report = [task |-> t, frame |-> frame, delayed |-> w, charged |-> charged]
    BY DEF Flush
  <1>2. report.delayed = w /\ report.frame = frame /\ report.charged = charged
    BY <1>1
  <1>3. Part(w, frame) = {frame} \X charged
    BY <1>2
  <1>4. {o \in report.delayed : o[1] = report.frame} = {frame} \X charged
    BY <1>2, <1>3 DEF Part
  <1> QED
    BY <1>2, <1>4, ReqsOf

\* A wait of an output task is charged to exactly the requests whose outputs of
\* that frame it held up, however tasks interleave and tracing is switched.
THEOREM ChargesHonest == Spec => []ChargesAreTrue
  <1>1. Init => ChargesAreTrue
    BY DEF Init, ChargesAreTrue
  <1>2. Inv /\ ChargesAreTrue /\ [Next]_vars => ChargesAreTrue'
    <2> SUFFICES ASSUME Inv, ChargesAreTrue, [Next]_vars PROVE ChargesAreTrue'
      OBVIOUS
    <2>1. Shapes /\ RoundInv /\ SocketCharge /\ HandlerCharge /\ enabled \in BOOLEAN
      BY DEF Inv
    <2>2. CASE reports' = {}
      BY <2>2 DEF ChargesAreTrue
    <2>3. CASE process_outputs_socket
      <3> DEFINE message == Head(socket)
      <3>1. message = socket[1]
        BY <2>1, <2>3, SocketDoes
      <3>2. CASE Flush("socket", message.frame, Range(message.batch))
        <4>1. \A w \in Range(pending["socket"]) : w # {} => w = {message.frame} \X Range(message.batch)
          BY <2>1, <3>1 DEF SocketCharge, SocketOwed, Held, Outs
        <4> HIDE DEF message
        <4>2. \A w \in Range(pending["socket"]) : w # {} => Part(w, message.frame) = {message.frame} \X Range(message.batch)
          BY <4>1 DEF Part
        <4> QED
          BY <3>2, <4>2, TasksAre, FlushIsTrue
      <3> QED
        BY <2>2, <2>3, <3>2 DEF process_outputs_socket
    <2>4. CASE process_outputs
      <3>1. Flush("handler", Head(slices).frame, SchedReqIds) /\ slices # <<>>
        BY <2>1, <2>4 DEF process_outputs, Shapes
      <3>2. Head(slices) = slices[1]
        BY <2>1, <3>1, TailMoves DEF Shapes
      <3>3. SchedReqIds = LeftOf(slices, 1)
        BY <2>1, <3>1, SchedReqIdsAre
      <3>4. \A w \in Range(pending["handler"]) :
              w # {} => Part(w, slices[1].frame) = {slices[1].frame} \X LeftOf(slices, 1)
        BY <2>1, <3>1 DEF HandlerCharge, Owed, Held
      <3> QED
        BY <3>1, <3>2, <3>3, <3>4, TasksAre, FlushIsTrue
    <2>5. CASE UNCHANGED vars
      BY <2>5 DEF vars, ChargesAreTrue
    <2>6. reports' = {} \/ process_outputs_socket \/ process_outputs \/ UNCHANGED vars
      BY DEF Next, RunNext, set_enabled, Engine, SocketWaits, HandlerWaits, set_output_handler_round_slices,
             HandlerGoesOn, abort_requests_async, AbortSent, generate, CallerReturns
    <2> QED
      BY <2>2, <2>3, <2>4, <2>5, <2>6
  <1> QED
    BY <1>1, <1>2, Invariant, PTL DEF Spec

\* With tracing on, what is flushed is reported, unless no request is charged.
LEMMA FlushReports ==
  ASSUME Shapes, NEW t \in OutputTasks, NEW frame, NEW charged, Flush(t, frame, charged), enabled = TRUE,
         NEW u \in OutputTasks, NEW w \in Range(pending[u])
  PROVE  \/ w \in Range(pending'[u])
         \/ \E report \in reports' : report.task = u /\ report.delayed = w
         \/ u = t /\ charged = {}
  <1>1. CASE u # t
    <2>1. pending'[u] = pending[u]
      BY <1>1, FlushShapes
    <2> QED
      BY <2>1
  <1>2. CASE u = t /\ charged # {}
    <2> DEFINE report == [task |-> t, frame |-> frame, delayed |-> w, charged |-> charged]
    <2>1. report \in reports'
      BY <1>2 DEF Flush
    <2>2. report.task = u /\ report.delayed = w
      BY <1>2
    <2> HIDE DEF report
    <2> QED
      BY <2>1, <2>2
  <1> QED
    BY <1>1, <1>2

\* As long as tracing is on, no wait of an output task is lost: it is kept until
\* it is reported, or until a message without outputs is at hand.
THEOREM NoWaitLost == Spec => WaitsAreReported
  <1>1. Inv /\ [Next]_vars =>
          [enabled =>
             \A t \in OutputTasks : \A w \in Range(pending[t]) :
               \/ w \in Range(pending'[t])
               \/ \E report \in reports' : report.task = t /\ report.delayed = w
               \/ t = "socket" /\ Head(socket).batch = <<>>
               \/ t = "handler" /\ Head(slices).batch = <<>>]_vars
    <2> SUFFICES ASSUME Inv, Next, enabled, NEW t \in OutputTasks, NEW w \in Range(pending[t])
                 PROVE  \/ w \in Range(pending'[t])
                        \/ \E report \in reports' : report.task = t /\ report.delayed = w
                        \/ t = "socket" /\ Head(socket).batch = <<>>
                        \/ t = "handler" /\ Head(slices).batch = <<>>
      OBVIOUS
    <2>1. Shapes /\ RoundInv /\ enabled \in BOOLEAN
      BY DEF Inv
    <2>a. enabled = TRUE
      OBVIOUS
    <2>2. CASE pending' = pending
      BY <2>2
    <2>3. CASE RunNext
      <3> DEFINE first == Head(ready)
      <3>1. pending'[t] = pending[t] \/ pending'[t] = Append(pending[t], first.delayed)
        BY <2>3 DEF RunNext
      <3>2. first \in Callback
        BY <2>1, <2>3, HeadTailProperties DEF RunNext, Shapes
      <3>3. first.delayed \in SUBSET Output /\ pending[t] \in Seq(SUBSET Output)
        BY <2>1, <3>2 DEF Callback, Shapes
      <3>4. ASSUME NEW s \in Seq(SUBSET Output), NEW d \in SUBSET Output PROVE Range(s) \subseteq Range(Append(s, d))
        <4>1. /\ DOMAIN s = 1 .. Len(s) /\ Len(s) \in Nat /\ DOMAIN Append(s, d) = 1 .. Len(s) + 1
              /\ \A i \in 1 .. Len(s) : Append(s, d)[i] = s[i]
          BY LenProperties, AppendProperties
        <4>2. \A i \in DOMAIN s : i \in DOMAIN Append(s, d) /\ Append(s, d)[i] = s[i]
          BY <4>1
        <4> QED
          BY <4>2 DEF Range
      <3> HIDE DEF first
      <3> QED
        BY <3>1, <3>3, <3>4
    <2>4. CASE process_outputs_socket /\ pending' # pending
      <3> DEFINE message == Head(socket)
      <3>1. Flush("socket", message.frame, Range(message.batch))
        BY <2>4 DEF process_outputs_socket
      <3>2. message \in Message
        BY <2>1, <2>4, SocketDoes
      <3>3. message.batch \in Seq(Requests)
        BY <3>2, MessagesAre DEF Distinct
      <3>4. Range(message.batch) = {} => message.batch = <<>>
        <4> DEFINE b == message.batch
        <4>1. b \in Seq(Requests)
          BY <3>3
        <4> HIDE DEF b
        <4>2. b # <<>> => 1 \in DOMAIN b
          BY <4>1, TailMoves
        <4>3. Range(b) = {} => b = <<>>
          BY <4>2 DEF Range
        <4> QED
          BY <4>3 DEF b
      <3> HIDE DEF message
      <3>5. \/ w \in Range(pending'[t])
            \/ \E report \in reports' : report.task = t /\ report.delayed = w
            \/ t = "socket" /\ Range(message.batch) = {}
        BY <2>1, <2>a, <3>1, TasksAre, FlushReports
      <3> QED
        BY <3>4, <3>5 DEF message
    <2>5. CASE process_outputs
      <3>1. Flush("handler", Head(slices).frame, SchedReqIds) /\ slices # <<>>
        BY <2>1, <2>5 DEF process_outputs, Shapes
      <3>2. Head(slices) = slices[1] /\ slices[1] \in Piece /\ 1 \in 1 .. Len(slices)
        BY <2>1, <3>1, TailMoves, LenProperties DEF Shapes
      <3>3. SchedReqIds = LeftOf(slices, 1)
        BY <2>1, <3>1, SchedReqIdsAre
      <3>4. SchedReqIds = {} => Head(slices).batch = <<>>
        <4> DEFINE b == slices[1].batch
        <4>1. b \in Seq(Requests)
          BY <3>2 DEF Piece, Distinct
        <4>2. Range(b) \subseteq LeftOf(slices, 1)
          BY <3>2 DEF LeftOf
        <4> HIDE DEF b
        <4>3. b # <<>> => 1 \in DOMAIN b
          BY <4>1, TailMoves
        <4>4. Range(b) = {} => b = <<>>
          BY <4>3 DEF Range
        <4> QED
          BY <3>2, <3>3, <4>2, <4>4 DEF b
      <3>5. \/ w \in Range(pending'[t])
            \/ \E report \in reports' : report.task = t /\ report.delayed = w
            \/ t = "handler" /\ SchedReqIds = {}
        BY <2>1, <2>a, <3>1, TasksAre, FlushReports
      <3> QED
        BY <3>4, <3>5
    <2>6. pending' = pending \/ RunNext \/ process_outputs_socket \/ process_outputs
      BY DEF Next, set_enabled, Engine, SocketWaits, HandlerWaits, set_output_handler_round_slices,
             HandlerGoesOn, abort_requests_async, AbortSent, generate, CallerReturns
    <2> QED
      BY <2>2, <2>3, <2>4, <2>5, <2>6
  <1> QED
    BY <1>1, Invariant, PTL DEF Spec, WaitsAreReported

=============================================================================
