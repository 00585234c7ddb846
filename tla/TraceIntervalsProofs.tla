------------------------ MODULE TraceIntervalsProofs ------------------------
(***************************************************************************)
(* What the interval algorithms of perfetto/log_to_trace.py return, for    *)
(* any number of intervals, any time stamps and any window.                *)
(*                                                                         *)
(* The algorithms are folds over finite sets.  Each fold is shown to have  *)
(* the recursive equation the code's loop has (MergeDefined, SumDefined,   *)
(* LanesDefined), and a property of what it returns then follows by        *)
(* induction over the subsets of what it is given (SubsetInduction), the   *)
(* latest interval taken last.  Good and Laid are the loop invariants of   *)
(* merge_intervals and of assign_non_overlapping_lanes.                    *)
(***************************************************************************)
EXTENDS TraceIntervals, FiniteSetTheorems, SequenceTheorems, WellFoundedInduction, TLAPS

-----------------------------------------------------------------------------
(* Numbers and finite sets. *)

\* A set of numbers that is not empty has a least one.
LEMMA LeastExists ==
  ASSUME NEW T, T \subseteq Nat, T # {}
  PROVE  \E x \in T : \A y \in T : x <= y
  <1> DEFINE R == OpToRel(<, Nat)
  <1>1. IsWellFoundedOn(R, Nat)
    BY NatLessThanWellFounded
  <1>2. \A x, y \in Nat : y < x => <<y, x>> \in R
    BY DEF OpToRel
  <1> HIDE DEF R
  <1>3. PICK x \in T : \A y \in T : ~ (<<y, x>> \in R)
    BY <1>1, WFMin
  <1>4. \A y \in T : ~ (y < x)
    BY <1>2, <1>3
  <1> QED
    BY <1>4

\* One that is bounded has a greatest one.
LEMMA GreatestExists ==
  ASSUME NEW T, T \subseteq Nat, T # {}, NEW m \in Nat, \A y \in T : y <= m
  PROVE  \E x \in T : \A y \in T : y <= x
  <1> DEFINE U == {m - y : y \in T}
  <1>1. U \subseteq Nat /\ U # {}
    <2>1. \A y \in T : m - y \in Nat
      OBVIOUS
    <2> QED
      BY <2>1
  <1> HIDE DEF U
  <1>2. PICK u \in U : \A v \in U : u <= v
    BY <1>1, LeastExists
  <1>3. PICK x \in T : u = m - x
    BY <1>2 DEF U
  <1>4. ASSUME NEW y \in T PROVE y <= x
    <2>1. m - x <= m - y
      BY <1>2, <1>3 DEF U
    <2> QED
      BY <2>1
  <1> QED
    BY <1>4

\* A set that holds 0, and with each number the next one, holds all numbers.
LEMMA SetInduction ==
  ASSUME NEW S, 0 \in S, \A n \in Nat : n \in S => n + 1 \in S
  PROVE  Nat \subseteq S
  <1> DEFINE T == Nat \ S
  <1> SUFFICES ASSUME T # {} PROVE FALSE
    OBVIOUS
  <1>1. PICK x \in T : \A y \in T : x <= y
    BY LeastExists
  <1>2. x \in Nat /\ x # 0 /\ x \notin S
    OBVIOUS
  <1>3. x - 1 \in Nat /\ ~ (x <= x - 1) /\ x - 1 + 1 = x
    BY <1>2
  <1>4. x - 1 \in S
    BY <1>1, <1>3
  <1> QED
    BY <1>2, <1>3, <1>4

\* The greater and the smaller of two numbers.
LEMMA MaxMin ==
  ASSUME NEW a \in Int, NEW b \in Int
  PROVE  Max({a, b}) = (IF a > b THEN a ELSE b) /\ Min({a, b}) = (IF a < b THEN a ELSE b)
  <1>1. Max({a, b}) = IF a > b THEN a ELSE b
    <2>1. \E x \in {a, b} : \A y \in {a, b} : x >= y
      OBVIOUS
    <2>2. Max({a, b}) \in {a, b} /\ \A y \in {a, b} : Max({a, b}) >= y
      BY <2>1 DEF Max
    <2> QED
      BY <2>2
  <1>2. Min({a, b}) = IF a < b THEN a ELSE b
    <2>1. \E x \in {a, b} : \A y \in {a, b} : x =< y
      OBVIOUS
    <2>2. Min({a, b}) \in {a, b} /\ \A y \in {a, b} : Min({a, b}) =< y
      BY <2>1 DEF Min
    <2> QED
      BY <2>2
  <1> QED
    BY <1>1, <1>2

\* The least of a set of numbers, and the greatest of one that is bounded.
LEMMA MinOf ==
  ASSUME NEW T, T \subseteq Nat, T # {}
  PROVE  Min(T) \in T /\ \A y \in T : Min(T) <= y
  <1>1. \E x \in T : \A y \in T : x <= y
    BY LeastExists
  <1> QED
    BY <1>1 DEF Min

\* The greatest of a set of numbers that is bounded.
LEMMA MaxOf ==
  ASSUME NEW T, T \subseteq Nat, T # {}, NEW m \in Nat, \A y \in T : y <= m
  PROVE  Max(T) \in T /\ \A y \in T : y <= Max(T)
  <1>1. \E x \in T : \A y \in T : y <= x
    BY GreatestExists
  <1>2. \E x \in T : \A y \in T : x >= y
    BY <1>1
  <1> QED
    BY <1>2 DEF Max

\* What holds of the empty set, and of a set when it holds of all sets with one
\* element less, holds of every finite set.
LEMMA SubsetInduction ==
  ASSUME NEW S, IsFiniteSet(S), NEW P, {} \in P,
         \A T \in SUBSET S : T # {} /\ (\A x \in T : T \ {x} \in P) => T \in P
  PROVE  SUBSET S \subseteq P
  <1> DEFINE N == {n \in Nat : \A T \in SUBSET S : Cardinality(T) = n => T \in P}
  <1>1. \A T \in SUBSET S : IsFiniteSet(T) /\ Cardinality(T) \in Nat
    BY FS_Subset, FS_CardinalityType
  <1>2. 0 \in N
    BY <1>1, FS_EmptySet
  <1>3. ASSUME NEW n \in Nat, n \in N PROVE n + 1 \in N
    <2> SUFFICES ASSUME NEW T \in SUBSET S, Cardinality(T) = n + 1 PROVE T \in P
      OBVIOUS
    <2>1. T # {}
      BY <1>1, FS_EmptySet
    <2>2. ASSUME NEW x \in T PROVE T \ {x} \in P
      <3>1. Cardinality(T \ {x}) = Cardinality(T) - 1
        BY <1>1, FS_RemoveElement
      <3>2. Cardinality(T \ {x}) = n
        BY <3>1
      <3> QED
        BY <1>3, <3>2
    <2> QED
      BY <2>1, <2>2
  <1> HIDE DEF N
  <1>4. Nat \subseteq N
    BY <1>2, <1>3, SetInduction
  <1> QED
    BY <1>1, <1>4 DEF N

-----------------------------------------------------------------------------
(* The folds. *)

\* One step of the recursion in merge_intervals.
MergeStep(f, T) == IF T = {} THEN <<>> ELSE Absorb(f[T \ {Latest(T)}], Latest(T))

\* What the recursion needs of Latest.
LEMMA LatestIs ==
  ASSUME NEW T, IsFiniteSet(T), T # {}, \A iv \in T : iv.start \in Nat /\ iv.end \in Nat
  PROVE  Latest(T) \in T /\ \A iv \in T : iv.start <= Latest(T).start
  <1> DEFINE P == {U \in SUBSET T : U # {} => \E x \in U : \A y \in U : ~Earlier(x, y)}
  <1>1. {} \in P
    OBVIOUS
  <1>2. ASSUME NEW U \in SUBSET T, U # {}, \A x \in U : U \ {x} \in P PROVE U \in P
    <2>1. PICK x \in U : TRUE
      BY <1>2
    <2>2. CASE U \ {x} = {}
      <3>1. \A y \in U : y = x
        BY <2>2
      <3>2. ~Earlier(x, x)
        BY DEF Earlier
      <3> QED
        BY <2>1, <3>1, <3>2
    <2>3. CASE U \ {x} # {}
      <3>1. PICK m \in U \ {x} : \A y \in U \ {x} : ~Earlier(m, y)
        BY <1>2, <2>1, <2>3
      <3>2. CASE ~Earlier(m, x)
        BY <2>1, <3>1, <3>2
      <3>3. CASE Earlier(m, x)
        <4>1. \A y \in U : ~Earlier(x, y)
          <5> SUFFICES ASSUME NEW y \in U, Earlier(x, y) PROVE FALSE
            OBVIOUS
          <5>1. y # x
            BY DEF Earlier
          <5>2. ~Earlier(m, y)
            BY <3>1, <5>1
          <5> QED
            BY <2>1, <3>1, <3>3, <5>2 DEF Earlier
        <4> QED
          BY <2>1, <4>1
      <3> QED
        BY <3>2, <3>3
    <2> QED
      BY <2>2, <2>3
  <1> HIDE DEF P
  <1>3. T \in P
    BY <1>1, <1>2, SubsetInduction
  <1>4. \E x \in T : \A y \in T : ~Earlier(x, y)
    BY <1>3 DEF P
  <1>5. Latest(T) \in T /\ \A y \in T : ~Earlier(Latest(T), y)
    BY <1>4 DEF Latest
  <1> QED
    BY <1>5 DEF Earlier

\* The recursion has a solution, so merge_intervals is what it says.
LEMMA MergeDefined ==
  ASSUME NEW S, IsFiniteSet(S), \A iv \in S : iv.start \in Nat /\ iv.end \in Nat
  PROVE  \E f : /\ f = [T \in SUBSET S |-> MergeStep(f, T)]
                /\ merge_intervals(S) = f[S]
  <1> DEFINE D(n) == {T \in SUBSET S : Cardinality(T) <= n}
             G(f, n) == f = [T \in D(n) |-> MergeStep(f, T)]
             N == {n \in Nat : \E f : G(f, n)}
  <1>1. \A T \in SUBSET S : IsFiniteSet(T) /\ Cardinality(T) \in Nat /\ Cardinality(T) <= Cardinality(S)
    BY FS_Subset, FS_CardinalityType
  <1>2. \A T \in SUBSET S : T # {} => /\ Latest(T) \in T /\ T \ {Latest(T)} \in SUBSET S
                                      /\ Cardinality(T \ {Latest(T)}) = Cardinality(T) - 1
    <2> SUFFICES ASSUME NEW T \in SUBSET S, T # {}
                 PROVE  /\ Latest(T) \in T /\ T \ {Latest(T)} \in SUBSET S
                        /\ Cardinality(T \ {Latest(T)}) = Cardinality(T) - 1
      OBVIOUS
    <2>1. Latest(T) \in T
      BY <1>1, LatestIs
    <2> QED
      BY <1>1, <2>1, FS_RemoveElement
  <1>3. 0 \in N
    <2> DEFINE f == [T \in D(0) |-> <<>>]
    <2>1. \A T \in D(0) : T = {}
      BY <1>1, FS_EmptySet
    <2>2. \A T \in D(0) : MergeStep(f, T) = <<>>
      BY <2>1 DEF MergeStep
    <2> HIDE DEF D
    <2>3. G(f, 0)
      BY <2>2
    <2> HIDE DEF f, G
    <2> QED
      BY <2>3
  <1>4. ASSUME NEW n \in Nat, n \in N PROVE n + 1 \in N
    <2>1. PICK f : G(f, n)
      BY <1>4
    <2> DEFINE g == [T \in D(n + 1) |-> MergeStep(f, T)]
    <2>2. \A T \in D(n) : T \in D(n + 1)
      BY <1>1
    <2>3. \A T \in D(n + 1) : T # {} => T \ {Latest(T)} \in D(n)
      BY <1>1, <1>2
    <2> HIDE DEF D
    <2>4. \A T \in D(n) : f[T] = MergeStep(f, T)
      <3> DEFINE e(T) == MergeStep(f, T)
      <3>1. f = [T \in D(n) |-> e(T)]
        BY <2>1
      <3> HIDE DEF e
      <3>2. \A T \in D(n) : f[T] = e(T)
        BY <3>1
      <3> QED
        BY <3>2 DEF e
    <2>5. \A T \in D(n) : g[T] = f[T]
      BY <2>2, <2>4
    <2>6. \A T \in D(n + 1) : MergeStep(f, T) = MergeStep(g, T)
      BY <2>3, <2>5 DEF MergeStep
    <2>7. G(g, n + 1)
      BY <2>6
    <2> HIDE DEF g, G
    <2> QED
      BY <2>7
  <1> HIDE DEF N
  <1>5. Cardinality(S) \in N
    BY <1>1, <1>3, <1>4, SetInduction
  <1> DEFINE H(f) == f = [T \in SUBSET S |-> MergeStep(f, T)]
  <1>6. D(Cardinality(S)) = SUBSET S
    BY <1>1
  <1>7. \E f : H(f)
    BY <1>5, <1>6 DEF N
  <1>8. merge_intervals(S) = (CHOOSE f : H(f))[S]
    BY DEF merge_intervals, MapThenFoldSet, MergeStep
  <1> HIDE DEF H
  <1> DEFINE f == CHOOSE f : H(f)
  <1>9. H(f)
    BY <1>7
  <1> HIDE DEF f
  <1> QED
    BY <1>8, <1>9 DEF H, f

-----------------------------------------------------------------------------
(* Merging. *)

\* Intervals whose ends are time stamps.
Timed(ivs) == \A iv \in ivs : iv.start \in Times /\ iv.end \in Times

Pair == [start : Times, end : Times]

\* What the merged intervals are to those they come from.
Good(merged, ivs) ==
  /\ merged \in Seq(Pair)
  /\ \A i \in DOMAIN merged : merged[i].start < merged[i].end
  /\ \A i \in DOMAIN merged \ {1} : merged[i - 1].end < merged[i].start
  /\ \A x \in Times : (\E i \in DOMAIN merged : x \in Points(merged[i])) <=> (\E iv \in ivs : x \in Points(iv))
  /\ \A i \in DOMAIN merged : \E iv \in ivs : merged[i].start = iv.start

\* Time stamps are numbers.
LEMMA TimesAre == MaxTime \in Nat /\ Times = 0 .. MaxTime /\ Times \subseteq Nat
  BY ConstantsAssumption DEF Times

\* The last of a sequence of pairs may be replaced.
LEMMA ReplaceLast ==
  ASSUME NEW S, NEW s \in Seq(S), Len(s) # 0, NEW e \in S
  PROVE  LET t == [s EXCEPT ![Len(s)] = e] IN
         /\ t \in Seq(S) /\ DOMAIN t = DOMAIN s /\ DOMAIN s = 1 .. Len(s) /\ Len(s) \in Nat \ {0}
         /\ t[Len(s)] = e /\ \A i \in DOMAIN s : i # Len(s) => t[i] = s[i]
  <1>1. DOMAIN s = 1 .. Len(s) /\ Len(s) \in Nat \ {0} /\ \A i \in 1 .. Len(s) : s[i] \in S
    BY LenProperties, ElementOfSeq
  <1> DEFINE t == [s EXCEPT ![Len(s)] = e]
  <1>2. t \in Seq(S)
    BY ExceptSeq, <1>1
  <1>3. s = [i \in 1 .. Len(s) |-> s[i]]
    BY <1>1
  <1>4. DOMAIN t = DOMAIN s /\ t[Len(s)] = e /\ \A i \in DOMAIN s : i # Len(s) => t[i] = s[i]
    BY <1>1
  <1> QED
    BY <1>1, <1>2, <1>4

\* What a sequence is after one is appended.
LEMMA AppendIs ==
  ASSUME NEW S, NEW s \in Seq(S), NEW e \in S
  PROVE  /\ Append(s, e) \in Seq(S) /\ Len(s) \in Nat
         /\ DOMAIN s = 1 .. Len(s) /\ DOMAIN Append(s, e) = 1 .. Len(s) + 1
         /\ \A i \in 1 .. Len(s) : Append(s, e)[i] = s[i]
         /\ Append(s, e)[Len(s) + 1] = e
  BY AppendProperties, LenProperties

\* The next interval in order is absorbed.
LEMMA AbsorbGood ==
  ASSUME NEW T, NEW iv, NEW merged, Good(merged, T),
         iv.start \in Times, iv.end \in Times, \A other \in T : other.start <= iv.start
  PROVE  Good(Absorb(merged, iv), T \cup {iv})
  <1> DEFINE n == Len(merged)
             new == Absorb(merged, iv)
  <1>1. /\ merged \in Seq(Pair) /\ DOMAIN merged = 1 .. n /\ n \in Nat
        /\ \A i \in DOMAIN merged : merged[i] \in Pair /\ merged[i].start \in Times /\ merged[i].end \in Times
    <2>1. merged \in Seq(Pair)
      BY DEF Good
    <2>2. DOMAIN merged = 1 .. n /\ n \in Nat /\ \A i \in DOMAIN merged : merged[i] \in Pair
      BY <2>1, LenProperties, ElementOfSeq
    <2> QED
      BY <2>1, <2>2 DEF Pair
  <1>2. /\ \A i \in DOMAIN merged : merged[i].start < merged[i].end
        /\ \A i \in DOMAIN merged \ {1} : merged[i - 1].end < merged[i].start
        /\ \A x \in Times : (\E i \in DOMAIN merged : x \in Points(merged[i])) <=> (\E j \in T : x \in Points(j))
        /\ \A i \in DOMAIN merged : \E j \in T : merged[i].start = j.start
    BY DEF Good
  <1>3. \A i \in DOMAIN merged : merged[i].start <= iv.start
    BY <1>2
  <1>4. CASE Length(iv) = 0
    <2>1. iv.end <= iv.start
      BY <1>4, TimesAre DEF Length
    <2>2. \A x \in Times : x \notin Points(iv)
      BY <2>1, TimesAre DEF Points
    <2>3. new = merged
      BY <1>4 DEF Absorb
    <2>4. \A x \in Times : (\E i \in DOMAIN merged : x \in Points(merged[i])) <=> (\E j \in T \cup {iv} : x \in Points(j))
      BY <1>2, <2>2
    <2> QED
      BY <1>1, <1>2, <2>3, <2>4 DEF Good
  <1>5. CASE Length(iv) # 0
    <2> DEFINE e == [start |-> iv.start, end |-> iv.end]
    <2>1. iv.start < iv.end
      BY <1>5, TimesAre DEF Length
    <2>2. e \in Pair /\ e.start = iv.start /\ e.end = iv.end
      BY DEF Pair
    <2>3. \A x \in Times : x \in Points(e) <=> x \in Points(iv)
      BY <2>2 DEF Points
    <2>4. CASE n = 0 \/ iv.start > merged[n].end
      <3>1. new = Append(merged, e)
        BY <1>5, <2>4 DEF Absorb
      <3> HIDE DEF new, n, e
      <3>2. /\ new \in Seq(Pair) /\ DOMAIN new = 1 .. n + 1
            /\ \A i \in DOMAIN merged : new[i] = merged[i]
            /\ new[n + 1] = e
        BY <1>1, <2>2, <3>1, AppendIs DEF n
      <3>3. \A i \in DOMAIN new : i = n + 1 \/ (i \in DOMAIN merged /\ new[i] = merged[i])
        BY <1>1, <3>2
      <3>4. \A i \in DOMAIN new : new[i].start < new[i].end
        BY <1>2, <2>1, <2>2, <3>2, <3>3
      <3>5. ASSUME NEW i \in DOMAIN new \ {1} PROVE new[i - 1].end < new[i].start
        <4>1. i - 1 \in DOMAIN merged /\ new[i - 1] = merged[i - 1]
          BY <1>1, <3>2
        <4>2. CASE i = n + 1
          <5>1. i - 1 = n /\ n # 0
            BY <1>1, <4>1, <4>2
          <5> QED
            BY <1>1, <2>2, <2>4, <3>2, <4>1, <4>2, <5>1, TimesAre
        <4>3. CASE i \in DOMAIN merged /\ new[i] = merged[i]
          BY <1>2, <4>1, <4>3
        <4> QED
          BY <3>3, <4>2, <4>3
      <3>6. ASSUME NEW x \in Times
            PROVE  (\E i \in DOMAIN new : x \in Points(new[i])) <=> (\E j \in T \cup {iv} : x \in Points(j))
        <4>1. n + 1 \in DOMAIN new /\ \A i \in DOMAIN merged : i \in DOMAIN new
          BY <1>1, <3>2
        <4>2. (\E i \in DOMAIN new : x \in Points(new[i]))
                <=> (x \in Points(e) \/ \E i \in DOMAIN merged : x \in Points(merged[i]))
          BY <3>2, <3>3, <4>1
        <4> QED
          BY <1>2, <2>3, <4>2
      <3>7. \A i \in DOMAIN new : \E j \in T \cup {iv} : new[i].start = j.start
        BY <1>2, <2>2, <3>2, <3>3
      <3> QED
        BY <3>2, <3>4, <3>5, <3>6, <3>7 DEF Good, new
    <2>5. CASE ~ (n = 0 \/ iv.start > merged[n].end)
      <3> DEFINE last == [start |-> merged[n].start, end |-> Max({merged[n].end, iv.end})]
      <3>1. n \in DOMAIN merged /\ n # 0 /\ iv.start <= merged[n].end /\ merged[n].start <= iv.start
        BY <1>1, <1>3, <2>5, TimesAre
      <3>2. new = [merged EXCEPT ![n] = last]
        BY <1>5, <2>5 DEF Absorb
      <3>3. Max({merged[n].end, iv.end}) = IF merged[n].end > iv.end THEN merged[n].end ELSE iv.end
        BY <1>1, <3>1, TimesAre, MaxMin
      <3>4. /\ last \in Pair /\ last.start = merged[n].start
            /\ last.end = IF merged[n].end > iv.end THEN merged[n].end ELSE iv.end
        BY <1>1, <3>1, <3>3 DEF Pair
      <3> HIDE DEF new, n, e, last
      <3>5. /\ new \in Seq(Pair) /\ DOMAIN new = DOMAIN merged /\ new[n] = last
            /\ \A i \in DOMAIN merged : i # n => new[i] = merged[i]
        BY <1>1, <3>1, <3>2, <3>4, ReplaceLast DEF n
      <3>a. last.start < last.end /\ merged[n].end <= last.end
        BY <1>1, <1>2, <3>1, <3>4, TimesAre
      <3>6. \A i \in DOMAIN new : new[i].start = merged[i].start /\ new[i].start < new[i].end
        BY <1>2, <3>4, <3>5, <3>a
      <3>7. ASSUME NEW i \in DOMAIN new \ {1} PROVE new[i - 1].end < new[i].start
        <4>1. i - 1 \in DOMAIN merged /\ i - 1 # n
          BY <1>1, <3>5
        <4> QED
          BY <1>2, <3>5, <3>6, <4>1
      <3>8. ASSUME NEW x \in Times
            PROVE  x \in Points(last) <=> (x \in Points(merged[n]) \/ x \in Points(iv))
        BY <1>1, <1>2, <2>1, <3>1, <3>4, TimesAre DEF Points
      <3>9. ASSUME NEW x \in Times
            PROVE  (\E i \in DOMAIN new : x \in Points(new[i])) <=> (\E j \in T \cup {iv} : x \in Points(j))
        <4>1. (\E i \in DOMAIN new : x \in Points(new[i]))
                <=> (x \in Points(last) \/ \E i \in DOMAIN merged : i # n /\ x \in Points(merged[i]))
          BY <3>1, <3>5
        <4>2. (\E i \in DOMAIN new : x \in Points(new[i]))
                <=> (x \in Points(iv) \/ \E i \in DOMAIN merged : x \in Points(merged[i]))
          BY <3>1, <3>8, <4>1
        <4> QED
          BY <1>2, <4>2
      <3>10. \A i \in DOMAIN new : \E j \in T \cup {iv} : new[i].start = j.start
        BY <1>2, <3>5, <3>6
      <3> QED
        BY <3>5, <3>6, <3>7, <3>9, <3>10 DEF Good, new
    <2> QED
      BY <2>4, <2>5
  <1> QED
    BY <1>4, <1>5

\* merge_intervals keeps every point and no other, in intervals that neither
\* overlap nor touch.
LEMMA MergeGood ==
  ASSUME NEW ivs, IsFiniteSet(ivs), Timed(ivs)
  PROVE  Good(merge_intervals(ivs), ivs)
  <1>1. \A iv \in ivs : iv.start \in Nat /\ iv.end \in Nat
    BY TimesAre DEF Timed
  <1>2. PICK f : f = [T \in SUBSET ivs |-> MergeStep(f, T)] /\ merge_intervals(ivs) = f[ivs]
    BY <1>1, MergeDefined
  <1>3. \A T \in SUBSET ivs : f[T] = MergeStep(f, T)
    <2> DEFINE e(T) == MergeStep(f, T)
    <2>1. f = [T \in SUBSET ivs |-> e(T)]
      BY <1>2
    <2> HIDE DEF e
    <2>2. \A T \in SUBSET ivs : f[T] = e(T)
      BY <2>1
    <2> QED
      BY <2>2 DEF e
  <1> DEFINE P == {T \in SUBSET ivs : Good(f[T], T)}
  <1>4. {} \in P
    <2>1. f[{}] = <<>>
      BY <1>3 DEF MergeStep
    <2>2. <<>> \in Seq(Pair) /\ DOMAIN <<>> = {}
      <3>1. \A i \in 1 .. 0 : FALSE
        OBVIOUS
      <3> QED
        BY <3>1, EmptySeq, LenProperties
    <2>3. Good(<<>>, {})
      BY <2>2 DEF Good
    <2> QED
      BY <2>1, <2>3
  <1>5. ASSUME NEW T \in SUBSET ivs, T # {}, \A x \in T : T \ {x} \in P PROVE T \in P
    <2>1. IsFiniteSet(T)
      BY FS_Subset
    <2>2. Latest(T) \in T /\ \A iv \in T : iv.start <= Latest(T).start
      BY <1>1, <1>5, <2>1, LatestIs
    <2>3. f[T] = Absorb(f[T \ {Latest(T)}], Latest(T))
      BY <1>3, <1>5 DEF MergeStep
    <2>4. Good(f[T \ {Latest(T)}], T \ {Latest(T)})
      BY <1>5, <2>2
    <2>5. Latest(T).start \in Times /\ Latest(T).end \in Times
      BY <2>2 DEF Timed
    <2>6. Good(f[T], (T \ {Latest(T)}) \cup {Latest(T)})
      BY <2>2, <2>3, <2>4, <2>5, AbsorbGood
    <2>7. (T \ {Latest(T)}) \cup {Latest(T)} = T
      BY <2>2
    <2> QED
      BY <2>6, <2>7
  <1> HIDE DEF P
  <1>6. ivs \in P
    BY <1>4, <1>5, SubsetInduction
  <1> QED
    BY <1>2, <1>6 DEF P

\* The merged intervals come one after the other.
LEMMA MergedOrdered ==
  ASSUME NEW ivs, NEW merged, Good(merged, ivs)
  PROVE  /\ merged \in Seq(Pair) /\ DOMAIN merged = 1 .. Len(merged) /\ Len(merged) \in Nat
         /\ \A i \in DOMAIN merged : merged[i] \in Pair /\ merged[i].start \in Times /\ merged[i].end \in Times
         /\ \A i, j \in DOMAIN merged : i < j => merged[i].end < merged[j].start
  <1>1. /\ merged \in Seq(Pair) /\ DOMAIN merged = 1 .. Len(merged) /\ Len(merged) \in Nat
        /\ \A i \in DOMAIN merged : merged[i] \in Pair /\ merged[i].start \in Times /\ merged[i].end \in Times
    <2>1. merged \in Seq(Pair)
      BY DEF Good
    <2>2. DOMAIN merged = 1 .. Len(merged) /\ Len(merged) \in Nat /\ \A i \in DOMAIN merged : merged[i] \in Pair
      BY <2>1, LenProperties, ElementOfSeq
    <2> QED
      BY <2>1, <2>2 DEF Pair
  <1> DEFINE N == {n \in Nat : \A i, j \in DOMAIN merged : i < j /\ j <= n => merged[i].end < merged[j].start}
  <1>2. 0 \in N
    BY <1>1
  <1>3. ASSUME NEW n \in Nat, n \in N PROVE n + 1 \in N
    <2> SUFFICES ASSUME NEW i \in DOMAIN merged, NEW j \in DOMAIN merged, i < j, j <= n + 1
                 PROVE  merged[i].end < merged[j].start
      OBVIOUS
    <2>1. CASE j <= n
      BY <1>3, <2>1
    <2>2. CASE j = n + 1
      <3>1. j - 1 \in DOMAIN merged /\ j - 1 <= n /\ (i = j - 1 \/ i < j - 1) /\ j # 1
        BY <1>1, <2>2
      <3>2. merged[j - 1].end < merged[j].start /\ merged[j - 1].start < merged[j - 1].end
        BY <3>1 DEF Good
      <3>3. i = j - 1 \/ merged[i].end < merged[j - 1].start
        BY <1>3, <3>1
      <3> QED
        BY <1>1, <3>1, <3>2, <3>3, TimesAre
    <2> QED
      BY <1>1, <2>1, <2>2
  <1> HIDE DEF N
  <1>4. Len(merged) \in N
    BY <1>1, <1>2, <1>3, SetInduction
  <1> QED
    BY <1>1, <1>4 DEF N

\* A point of a set of intervals is a point of one of them.
LEMMA PointIn ==
  ASSUME NEW ivs
  PROVE  PointsOf(ivs) \subseteq Times /\ \A x : x \in PointsOf(ivs) <=> \E iv \in ivs : x \in Points(iv)
  BY DEF PointsOf, Points

\* What the points of the merged intervals are, and what their ends are.
LEMMA MergedIs ==
  ASSUME NEW ivs, IsFiniteSet(ivs), Timed(ivs)
  PROVE  LET merged == merge_intervals(ivs) IN
         /\ PointsOf(Range(merged)) = PointsOf(ivs)
         /\ IsFiniteSet(Range(merged)) /\ Timed(Range(merged))
         /\ \A a, b \in Range(merged) : a # b => Points(a) \cap Points(b) = {}
  <1> DEFINE merged == merge_intervals(ivs)
  <1>1. Good(merged, ivs)
    BY MergeGood
  <1> HIDE DEF merged
  <1>2. /\ merged \in Seq(Pair) /\ DOMAIN merged = 1 .. Len(merged) /\ Len(merged) \in Nat
        /\ \A i \in DOMAIN merged : merged[i].start \in Times /\ merged[i].end \in Times
        /\ \A i, j \in DOMAIN merged : i < j => merged[i].end < merged[j].start
    BY <1>1, MergedOrdered
  <1>3. \A a : a \in Range(merged) <=> \E i \in DOMAIN merged : a = merged[i]
    BY DEF Range
  <1>4. PointsOf(Range(merged)) = PointsOf(ivs)
    <2>1. \A x \in Times : (\E i \in DOMAIN merged : x \in Points(merged[i])) <=> (\E iv \in ivs : x \in Points(iv))
      BY <1>1 DEF Good
    <2>2. \A x \in Times : x \in PointsOf(Range(merged)) <=> x \in PointsOf(ivs)
      BY <1>3, <2>1, PointIn
    <2> QED
      BY <2>2, PointIn
  <1>5. IsFiniteSet(Range(merged))
    <2>1. merged \in Surjection(1 .. Len(merged), Range(merged))
      BY <1>2, <1>3 DEF Surjection
    <2>2. IsFiniteSet(1 .. Len(merged))
      BY <1>2, FS_Interval
    <2> QED
      BY <2>1, <2>2, FS_Surjection
  <1>6. Timed(Range(merged))
    BY <1>2, <1>3 DEF Timed
  <1>7. ASSUME NEW a \in Range(merged), NEW b \in Range(merged), a # b
        PROVE  Points(a) \cap Points(b) = {}
    <2>1. PICK i \in DOMAIN merged : a = merged[i]
      BY <1>3
    <2>2. PICK j \in DOMAIN merged : b = merged[j]
      BY <1>3
    <2>3. i < j \/ j < i
      BY <1>2, <1>7, <2>1, <2>2
    <2>4. a.end < b.start \/ b.end < a.start
      BY <1>2, <2>1, <2>2, <2>3
    <2>5. a.end \in Nat /\ b.end \in Nat /\ a.start \in Nat /\ b.start \in Nat
      BY <1>2, <2>1, <2>2, TimesAre
    <2> QED
      BY <2>4, <2>5, TimesAre DEF Points
  <1> QED
    BY <1>4, <1>5, <1>6, <1>7 DEF merged

-----------------------------------------------------------------------------
(* Adding up. *)

\* An interval has as many points as it is long.
LEMMA PointsCount ==
  ASSUME NEW iv, iv.start \in Times, iv.end \in Times
  PROVE  IsFiniteSet(Points(iv)) /\ Cardinality(Points(iv)) = Length(iv) /\ Length(iv) \in Nat
  <1>1. iv.start \in Nat /\ iv.end \in Nat /\ iv.end <= MaxTime
    BY TimesAre
  <1>2. Points(iv) = iv.start .. iv.end - 1
    BY <1>1, TimesAre DEF Points
  <1>3. /\ IsFiniteSet(iv.start .. iv.end - 1)
        /\ Cardinality(iv.start .. iv.end - 1)
             = IF iv.start > iv.end - 1 THEN 0 ELSE (iv.end - 1) - iv.start + 1
    <2> DEFINE b == iv.end - 1
    <2>1. b \in Int /\ iv.start \in Int
      BY <1>1
    <2> HIDE DEF b
    <2>2. IsFiniteSet(iv.start .. b) /\ Cardinality(iv.start .. b) = IF iv.start > b THEN 0 ELSE b - iv.start + 1
      BY <2>1, FS_Interval
    <2> QED
      BY <2>2 DEF b
  <1>4. Length(iv) \in Nat /\ Length(iv) = IF iv.start > iv.end - 1 THEN 0 ELSE (iv.end - 1) - iv.start + 1
    BY <1>1 DEF Length
  <1> QED
    BY <1>2, <1>3, <1>4

\* One step of the recursion in sum_interval_pairs.
AnyOf(T) == CHOOSE x \in T : TRUE
SumStep(f, T) == IF T = {} THEN 0 ELSE Length(AnyOf(T)) + f[T \ {AnyOf(T)}]

\* The recursion has a solution, so sum_interval_pairs is what it says.
LEMMA SumDefined ==
  ASSUME NEW S, IsFiniteSet(S)
  PROVE  \E f : /\ f = [T \in SUBSET S |-> SumStep(f, T)]
                /\ sum_interval_pairs(S) = f[S]
  <1> DEFINE D(n) == {T \in SUBSET S : Cardinality(T) <= n}
             G(f, n) == f = [T \in D(n) |-> SumStep(f, T)]
             N == {n \in Nat : \E f : G(f, n)}
  <1>1. \A T \in SUBSET S : IsFiniteSet(T) /\ Cardinality(T) \in Nat /\ Cardinality(T) <= Cardinality(S)
    BY FS_Subset, FS_CardinalityType
  <1>2. \A T \in SUBSET S : T # {} => /\ AnyOf(T) \in T /\ T \ {AnyOf(T)} \in SUBSET S
                                      /\ Cardinality(T \ {AnyOf(T)}) = Cardinality(T) - 1
    <2> SUFFICES ASSUME NEW T \in SUBSET S, T # {}
                 PROVE  /\ AnyOf(T) \in T /\ T \ {AnyOf(T)} \in SUBSET S
                        /\ Cardinality(T \ {AnyOf(T)}) = Cardinality(T) - 1
      OBVIOUS
    <2>1. AnyOf(T) \in T
      BY DEF AnyOf
    <2> QED
      BY <1>1, <2>1, FS_RemoveElement
  <1>3. 0 \in N
    <2> DEFINE f == [T \in D(0) |-> 0]
    <2>1. \A T \in D(0) : T = {}
      BY <1>1, FS_EmptySet
    <2>2. \A T \in D(0) : SumStep(f, T) = 0
      BY <2>1 DEF SumStep
    <2> HIDE DEF D
    <2>3. G(f, 0)
      BY <2>2
    <2> HIDE DEF f, G
    <2> QED
      BY <2>3
  <1>4. ASSUME NEW n \in Nat, n \in N PROVE n + 1 \in N
    <2>1. PICK f : G(f, n)
      BY <1>4
    <2> DEFINE g == [T \in D(n + 1) |-> SumStep(f, T)]
    <2>2. \A T \in D(n) : T \in D(n + 1)
      BY <1>1
    <2>3. \A T \in D(n + 1) : T # {} => T \ {AnyOf(T)} \in D(n)
      BY <1>1, <1>2
    <2> HIDE DEF D
    <2>4. \A T \in D(n) : f[T] = SumStep(f, T)
      <3> DEFINE e(T) == SumStep(f, T)
      <3>1. f = [T \in D(n) |-> e(T)]
        BY <2>1
      <3> HIDE DEF e
      <3>2. \A T \in D(n) : f[T] = e(T)
        BY <3>1
      <3> QED
        BY <3>2 DEF e
    <2>5. \A T \in D(n) : g[T] = f[T]
      BY <2>2, <2>4
    <2>6. \A T \in D(n + 1) : SumStep(f, T) = SumStep(g, T)
      BY <2>3, <2>5 DEF SumStep
    <2>7. G(g, n + 1)
      BY <2>6
    <2> HIDE DEF g, G
    <2> QED
      BY <2>7
  <1> HIDE DEF N
  <1>5. Cardinality(S) \in N
    BY <1>1, <1>3, <1>4, SetInduction
  <1> DEFINE H(f) == f = [T \in SUBSET S |-> SumStep(f, T)]
  <1>6. D(Cardinality(S)) = SUBSET S
    BY <1>1
  <1>7. \E f : H(f)
    BY <1>5, <1>6 DEF N
  <1>8. sum_interval_pairs(S) = (CHOOSE f : H(f))[S]
    BY DEF sum_interval_pairs, MapThenSumSet, MapThenFoldSet, SumStep, AnyOf
  <1> HIDE DEF H
  <1> DEFINE f == CHOOSE f : H(f)
  <1>9. H(f)
    BY <1>7
  <1> HIDE DEF f
  <1> QED
    BY <1>8, <1>9 DEF H, f

\* The lengths of intervals that are apart add up to the number of their points.
LEMMA SumIs ==
  ASSUME NEW S, IsFiniteSet(S), Timed(S), \A a, b \in S : a # b => Points(a) \cap Points(b) = {}
  PROVE  IsFiniteSet(PointsOf(S)) /\ sum_interval_pairs(S) = Cardinality(PointsOf(S))
  <1>1. PICK f : f = [T \in SUBSET S |-> SumStep(f, T)] /\ sum_interval_pairs(S) = f[S]
    BY SumDefined
  <1>2. \A T \in SUBSET S : f[T] = SumStep(f, T)
    <2> DEFINE e(T) == SumStep(f, T)
    <2>1. f = [T \in SUBSET S |-> e(T)]
      BY <1>1
    <2> HIDE DEF e
    <2>2. \A T \in SUBSET S : f[T] = e(T)
      BY <2>1
    <2> QED
      BY <2>2 DEF e
  <1> DEFINE P == {T \in SUBSET S : IsFiniteSet(PointsOf(T)) /\ f[T] = Cardinality(PointsOf(T))}
  <1>3. {} \in P
    <2>1. f[{}] = 0
      BY <1>2 DEF SumStep
    <2>2. PointsOf({}) = {}
      BY DEF PointsOf
    <2> QED
      BY <2>1, <2>2, FS_EmptySet
  <1>4. ASSUME NEW T \in SUBSET S, T # {}, \A x \in T : T \ {x} \in P PROVE T \in P
    <2> DEFINE x == AnyOf(T)
               rest == T \ {x}
    <2>1. x \in T
      BY <1>4 DEF AnyOf
    <2>2. f[T] = Length(x) + f[rest]
      BY <1>2, <1>4 DEF SumStep
    <2>3. IsFiniteSet(PointsOf(rest)) /\ f[rest] = Cardinality(PointsOf(rest))
      BY <1>4, <2>1
    <2>4. IsFiniteSet(Points(x)) /\ Cardinality(Points(x)) = Length(x) /\ Length(x) \in Nat
      BY <2>1, PointsCount DEF Timed
    <2>5. PointsOf(T) = Points(x) \cup PointsOf(rest)
      BY <2>1 DEF PointsOf
    <2>6. Points(x) \cap PointsOf(rest) = {}
      <3>1. \A b \in rest : Points(x) \cap Points(b) = {}
        BY <2>1
      <3> HIDE DEF x, rest
      <3>2. \A y : y \in PointsOf(rest) <=> \E iv \in rest : y \in Points(iv)
        BY PointIn
      <3> QED
        BY <3>1, <3>2
    <2> HIDE DEF x, rest
    <2>7. /\ IsFiniteSet(PointsOf(T))
          /\ Cardinality(PointsOf(T)) = Cardinality(Points(x)) + Cardinality(PointsOf(rest)) - Cardinality({})
      BY <2>3, <2>4, <2>5, <2>6, FS_Union
    <2>8. Cardinality({}) = 0 /\ Cardinality(PointsOf(rest)) \in Nat
      BY <2>3, FS_EmptySet, FS_CardinalityType
    <2> QED
      BY <2>2, <2>3, <2>4, <2>7, <2>8
  <1> HIDE DEF P
  <1>5. S \in P
    BY <1>3, <1>4, SubsetInduction
  <1> QED
    BY <1>1, <1>5 DEF P

\* So the merged intervals add up to the points of those they come from.
LEMMA MergedSum ==
  ASSUME NEW ivs, IsFiniteSet(ivs), Timed(ivs)
  PROVE  /\ IsFiniteSet(PointsOf(ivs))
         /\ sum_interval_pairs(Range(merge_intervals(ivs))) = Cardinality(PointsOf(ivs))
  BY MergedIs, SumIs

-----------------------------------------------------------------------------
(* Clipping. *)

\* The image of a finite set is finite.
LEMMA ImageFinite ==
  ASSUME NEW S, IsFiniteSet(S), NEW g, DOMAIN g = S, g = [x \in S |-> g[x]]
  PROVE  IsFiniteSet({g[x] : x \in S})
  <1>1. g \in Surjection(S, {g[x] : x \in S})
    BY DEF Surjection
  <1> QED
    BY <1>1, FS_Surjection

\* What is left of an interval in a window are its points there.
LEMMA ClipIs ==
  ASSUME NEW iv, iv.start \in Times, iv.end \in Times, NEW w, w.start \in Times, w.end \in Times
  PROVE  /\ Clip(iv, w).start = (IF iv.start > w.start THEN iv.start ELSE w.start)
         /\ Clip(iv, w).end = (IF iv.end < w.end THEN iv.end ELSE w.end)
         /\ Clip(iv, w).start \in Times /\ Clip(iv, w).end \in Times
         /\ Points(Clip(iv, w)) = Points(iv) \cap Points(w)
         /\ Meets(iv, w) <=> Points(iv) \cap Points(w) # {}
         /\ Meets(iv, w) <=> Clip(iv, w).start < Clip(iv, w).end
  <1>1. iv.start \in Int /\ iv.end \in Int /\ w.start \in Int /\ w.end \in Int
    BY TimesAre
  <1>2. /\ Clip(iv, w).start = (IF iv.start > w.start THEN iv.start ELSE w.start)
        /\ Clip(iv, w).end = (IF iv.end < w.end THEN iv.end ELSE w.end)
    BY <1>1, MaxMin DEF Clip
  <1>3. Clip(iv, w).start \in Times /\ Clip(iv, w).end \in Times
    BY <1>2
  <1> DEFINE c == Clip(iv, w)
  <1> HIDE DEF c
  <1>4. c.start \in Nat /\ c.end \in Nat
    BY <1>3, TimesAre DEF c
  <1>5. Points(c) = Points(iv) \cap Points(w)
    BY <1>1, <1>2, TimesAre DEF Points, c
  <1>6. Length(c) > 0 <=> c.start < c.end
    BY <1>4 DEF Length
  <1>7. Length(iv) > 0 <=> iv.start < iv.end
    BY <1>1 DEF Length
  <1>8. c.start < c.end => c.start \in Points(c)
    BY <1>3, <1>4 DEF Points, c
  <1>9. \A x \in Points(c) : c.start < c.end /\ iv.start < iv.end
    BY <1>1, <1>2, <1>4, <1>5, TimesAre DEF Points, c
  <1>10. Meets(iv, w) <=> Points(c) # {}
    BY <1>5, <1>6, <1>7, <1>8, <1>9 DEF Meets, c
  <1>11. Meets(iv, w) <=> c.start < c.end
    BY <1>8, <1>9, <1>10
  <1> QED
    BY <1>2, <1>3, <1>5, <1>10, <1>11 DEF c

\* The same for a set of intervals.
LEMMA ClippedIs ==
  ASSUME NEW ivs, Timed(ivs), NEW w, w.start \in Times, w.end \in Times
  PROVE  /\ Timed(clip_interval(ivs, w))
         /\ PointsOf(clip_interval(ivs, w)) = PointsOf(ivs) \cap Points(w)
         /\ IsFiniteSet(ivs) => IsFiniteSet(clip_interval(ivs, w))
  <1>1. Timed(clip_interval(ivs, w))
    BY ClipIs DEF Timed, clip_interval
  <1>2. PointsOf(clip_interval(ivs, w)) = PointsOf(ivs) \cap Points(w)
    <2>1. ASSUME NEW x
          PROVE  (\E c \in clip_interval(ivs, w) : x \in Points(c)) <=> (\E iv \in ivs : x \in Points(iv)) /\ x \in Points(w)
      <3>1. (\E c \in clip_interval(ivs, w) : x \in Points(c))
              <=> \E iv \in ivs : Meets(iv, w) /\ x \in Points(Clip(iv, w))
        BY DEF clip_interval
      <3>2. \A iv \in ivs : Meets(iv, w) /\ x \in Points(Clip(iv, w)) <=> x \in Points(iv) /\ x \in Points(w)
        BY ClipIs DEF Timed
      <3> QED
        BY <3>1, <3>2
    <2>2. \A x : x \in PointsOf(clip_interval(ivs, w)) <=> x \in PointsOf(ivs) \cap Points(w)
      BY <2>1, PointIn
    <2> HIDE DEF PointsOf
    <2> QED
      BY <2>2
  <1>3. ASSUME IsFiniteSet(ivs) PROVE IsFiniteSet(clip_interval(ivs, w))
    <2> DEFINE S == {x \in ivs : Meets(x, w)}
               g == [x \in S |-> Clip(x, w)]
    <2>1. IsFiniteSet(S)
      BY <1>3, FS_Subset
    <2>2. IsFiniteSet({g[x] : x \in S})
      BY <2>1, ImageFinite
    <2>3. {g[x] : x \in S} = clip_interval(ivs, w)
      BY DEF clip_interval
    <2> QED
      BY <2>2, <2>3
  <1> QED
    BY <1>1, <1>2, <1>3

-----------------------------------------------------------------------------
(* The invariant. *)

\* The log holds intervals, and the window is one.
Shapes == items \in Seq(Item) /\ window \in Windows

\* It holds of every run.
LEMMA Invariant == Spec => []Shapes
  <1>1. Init => Shapes
    <2>1. <<>> \in Seq(Item)
      BY EmptySeq
    <2> QED
      BY <2>1 DEF Init, Shapes
  <1>2. Shapes /\ [AddItem]_<<items, window>> => Shapes'
    <2> SUFFICES ASSUME Shapes, [AddItem]_<<items, window>> PROVE Shapes'
      OBVIOUS
    <2>1. CASE AddItem
      <3>1. PICK it \in Item : items' = Append(items, it)
        BY <2>1 DEF AddItem
      <3>2. items' \in Seq(Item)
        BY <3>1, AppendIs DEF Shapes
      <3> QED
        BY <2>1, <3>2 DEF AddItem, Shapes
    <2>2. CASE UNCHANGED <<items, window>>
      BY <2>2 DEF Shapes
    <2> QED
      BY <2>1, <2>2
  <1> QED
    BY <1>1, <1>2, PTL DEF Spec

\* The intervals of the log are finitely many and have time stamps as ends.
LEMMA ItemsAre ==
  ASSUME Shapes
  PROVE  /\ IsFiniteSet(Range(items)) /\ Timed(Range(items))
         /\ \A it \in Range(items) : it \in Item
         /\ window.start \in Times /\ window.end \in Times /\ window.start < window.end
  <1>1. DOMAIN items = 1 .. Len(items) /\ Len(items) \in Nat /\ \A i \in DOMAIN items : items[i] \in Item
    BY LenProperties, ElementOfSeq DEF Shapes
  <1>2. \A it \in Range(items) : it \in Item
    BY <1>1 DEF Range
  <1>3. \A it \in Item : it.start \in Times /\ it.end \in Times
    BY ConstantsAssumption DEF Item
  <1>4. Timed(Range(items))
    BY <1>2, <1>3 DEF Timed
  <1>5. IsFiniteSet(Range(items))
    <2>1. items = [i \in 1 .. Len(items) |-> items[i]]
      BY <1>1 DEF Shapes
    <2>2. items \in Surjection(1 .. Len(items), Range(items))
      BY <1>1, <2>1 DEF Surjection, Range
    <2>3. IsFiniteSet(1 .. Len(items))
      BY <1>1, FS_Interval
    <2> QED
      BY <2>2, <2>3, FS_Surjection
  <1>6. window.start \in Times /\ window.end \in Times /\ window.start < window.end
    BY ConstantsAssumption DEF Shapes
  <1> QED
    BY <1>2, <1>4, <1>5, <1>6

\* A part of the log is as well.
LEMMA PartOfItems ==
  ASSUME Shapes, NEW S, S \subseteq Range(items)
  PROVE  IsFiniteSet(S) /\ Timed(S)
  BY ItemsAre, FS_Subset DEF Timed

\* merge_intervals keeps every point and no other, and leaves intervals that
\* neither overlap nor touch, for any intervals.
THEOREM MergedExact == Spec => []MergedIsUnion
  <1>1. ASSUME Shapes PROVE MergedIsUnion
    <2> DEFINE merged == merge_intervals(Range(items))
    <2>1. Good(merged, Range(items))
      BY <1>1, ItemsAre, MergeGood
    <2>2. PointsOf(Range(merged)) = PointsOf(Range(items))
      BY <1>1, ItemsAre, MergedIs
    <2> HIDE DEF merged
    <2>3. /\ \A i \in DOMAIN merged : merged[i].start < merged[i].end
          /\ \A i \in DOMAIN merged \ {1} : merged[i - 1].end < merged[i].start
      BY <2>1 DEF Good
    <2> QED
      BY <2>2, <2>3 DEF MergedIsUnion, merged
  <1> QED
    BY <1>1, Invariant, PTL

\* uncovered_interval_ns is the time of the window that no interval covers.
THEOREM UncoveredExact == Spec => []UncoveredIsRest
  <1>1. ASSUME Shapes PROVE UncoveredIsRest
    <2> DEFINE ivs == Range(items)
               clipped == clip_interval(ivs, window)
               covered == sum_interval_pairs(Range(merge_intervals(clipped)))
    <2>1. /\ IsFiniteSet(ivs) /\ Timed(ivs)
          /\ window.start \in Times /\ window.end \in Times /\ window.start < window.end
      BY <1>1, ItemsAre
    <2> HIDE DEF ivs
    <2>2. /\ Timed(clipped) /\ IsFiniteSet(clipped)
          /\ PointsOf(clipped) = PointsOf(ivs) \cap Points(window)
      BY <2>1, ClippedIs
    <2> HIDE DEF clipped
    <2>3. covered = Cardinality(PointsOf(ivs) \cap Points(window))
      BY <2>2, MergedSum
    <2>4. IsFiniteSet(Points(window)) /\ Cardinality(Points(window)) = Length(window) /\ Length(window) \in Nat
      BY <2>1, PointsCount
    <2>5. /\ Cardinality(Points(window) \ PointsOf(ivs))
               = Cardinality(Points(window)) - Cardinality(Points(window) \cap PointsOf(ivs))
          /\ IsFiniteSet(Points(window) \ PointsOf(ivs))
      BY <2>4, FS_Difference
    <2>6. Points(window) \cap PointsOf(ivs) = PointsOf(ivs) \cap Points(window)
      OBVIOUS
    <2>7. /\ Cardinality(Points(window) \ PointsOf(ivs)) \in Nat
          /\ Cardinality(Points(window) \cap PointsOf(ivs)) \in Nat
      BY <2>4, <2>5, FS_CardinalityType, FS_Intersection
    <2>8. uncovered_interval_ns(window, ivs) = IF Length(window) > covered THEN Length(window) - covered ELSE 0
      BY DEF uncovered_interval_ns, clipped
    <2> HIDE DEF covered
    <2>9. uncovered_interval_ns(window, ivs) = Cardinality(Points(window) \ PointsOf(ivs))
      BY <2>3, <2>4, <2>5, <2>6, <2>7, <2>8
    <2> QED
      BY <2>9 DEF UncoveredIsRest, ivs
  <1> QED
    BY <1>1, Invariant, PTL

\* The delay charged to a request is the time during which it was in a step
\* while some worker was delayed, however many were.
THEOREM OsDelayExact == Spec => []OsDelayIsWallTime
  <1>1. ASSUME Shapes PROVE OsDelayIsWallTime
    <2> DEFINE steps == {it \in Range(items) : it.kind = Step}
               delays == Range(items) \ steps
               windows == Range(merge_intervals(steps))
               raw == raw_req_os_intervals(steps, delays)
    <2>1. IsFiniteSet(steps) /\ Timed(steps) /\ IsFiniteSet(delays) /\ Timed(delays)
      BY <1>1, PartOfItems
    <2> HIDE DEF steps, delays
    <2>2. PointsOf(windows) = PointsOf(steps) /\ IsFiniteSet(windows) /\ Timed(windows)
      BY <2>1, MergedIs
    <2>3. raw = UNION {clip_interval(delays, w) : w \in windows}
      BY DEF raw_req_os_intervals
    <2> HIDE DEF windows, raw
    <2>4. \A w \in windows :
            /\ Timed(clip_interval(delays, w)) /\ IsFiniteSet(clip_interval(delays, w))
            /\ PointsOf(clip_interval(delays, w)) = PointsOf(delays) \cap Points(w)
      BY <2>1, <2>2, ClippedIs DEF Timed
    <2>5. Timed(raw)
      BY <2>3, <2>4 DEF Timed
    <2>6. IsFiniteSet(raw)
      <3> DEFINE g == [w \in windows |-> clip_interval(delays, w)]
      <3>1. IsFiniteSet({g[w] : w \in windows})
        BY <2>2, ImageFinite
      <3>2. {g[w] : w \in windows} = {clip_interval(delays, w) : w \in windows}
        OBVIOUS
      <3>3. \A T \in {clip_interval(delays, w) : w \in windows} : IsFiniteSet(T)
        BY <2>4
      <3> QED
        BY <2>3, <3>1, <3>2, <3>3, FS_UNION
    <2>7. PointsOf(raw) = PointsOf(steps) \cap PointsOf(delays)
      <3>1. ASSUME NEW x PROVE x \in PointsOf(raw) <=> x \in PointsOf(steps) /\ x \in PointsOf(delays)
        <4>1. x \in PointsOf(raw) <=> \E w \in windows : x \in PointsOf(clip_interval(delays, w))
          BY <2>3, PointIn
        <4>2. x \in PointsOf(raw) <=> \E w \in windows : x \in PointsOf(delays) /\ x \in Points(w)
          BY <2>4, <4>1
        <4>3. x \in PointsOf(windows) <=> \E w \in windows : x \in Points(w)
          BY PointIn
        <4> QED
          BY <2>2, <4>2, <4>3
      <3> QED
        BY <3>1
    <2>8. req_os_latency(steps, delays) = Cardinality(PointsOf(steps) \cap PointsOf(delays))
      BY <2>5, <2>6, <2>7, MergedSum DEF req_os_latency, raw
    <2> QED
      BY <2>8 DEF OsDelayIsWallTime, steps, delays
  <1> QED
    BY <1>1, Invariant, PTL

-----------------------------------------------------------------------------
(* The time of a dispatch. *)

\* The kinds of the intervals that go on at x.
KindsAt(ivs, x) == {iv.kind : iv \in {y \in ivs : x \in Points(y)}}

\* The boundaries of the segments.
Boundaries(ivs, w) ==
  {w.start, w.end} \cup {Clip(iv, w).start : iv \in {y \in ivs : Meets(y, w)}}
                   \cup {Clip(iv, w).end : iv \in {y \in ivs : Meets(y, w)}}

\* All boundaries lie in the window, and each point of it between two that
\* follow each other.
LEMMA BoundariesAre ==
  ASSUME NEW ivs, Timed(ivs), NEW w, w.start \in Times, w.end \in Times, w.start < w.end
  PROVE  /\ \A b \in Boundaries(ivs, w) : b \in Nat /\ b \in Times /\ w.start <= b /\ b <= w.end
         /\ \A x \in Points(w) : \E p \in Adjacent(Boundaries(ivs, w)) : p[1] <= x /\ x < p[2]
  <1> DEFINE B == Boundaries(ivs, w)
  <1>1. w.start \in Nat /\ w.end \in Nat /\ w.start \in B /\ w.end \in B
    BY TimesAre DEF Boundaries
  <1>2. ASSUME NEW b \in B PROVE b \in Nat /\ b \in Times /\ w.start <= b /\ b <= w.end
    <2>1. CASE b = w.start \/ b = w.end
      BY <1>1, <2>1
    <2>2. ASSUME NEW iv \in ivs, Meets(iv, w), b = Clip(iv, w).start \/ b = Clip(iv, w).end
          PROVE  b \in Nat /\ b \in Times /\ w.start <= b /\ b <= w.end
      <3>1. iv.start \in Times /\ iv.end \in Times
        BY DEF Timed
      <3> DEFINE c == Clip(iv, w)
      <3>2. /\ c.start = (IF iv.start > w.start THEN iv.start ELSE w.start)
            /\ c.end = (IF iv.end < w.end THEN iv.end ELSE w.end)
            /\ c.start \in Times /\ c.end \in Times /\ c.start < c.end
        BY <2>2, <3>1, ClipIs
      <3> HIDE DEF c
      <3>3. /\ c.start \in Nat /\ c.end \in Nat /\ w.start <= c.start /\ c.end <= w.end
            /\ w.start <= c.end /\ c.start <= w.end
        BY <1>1, <3>1, <3>2, TimesAre
      <3> QED
        BY <2>2, <3>2, <3>3 DEF c
    <2> QED
      BY <2>1, <2>2 DEF Boundaries
  <1> HIDE DEF B
  <1>3. ASSUME NEW x \in Points(w) PROVE \E p \in Adjacent(B) : p[1] <= x /\ x < p[2]
    <2>1. x \in Nat /\ w.start <= x /\ x < w.end
      BY TimesAre DEF Points
    <2> DEFINE below == {b \in B : b <= x}
               above == {b \in B : x < b}
    <2>2. below \subseteq Nat /\ below # {} /\ above \subseteq Nat /\ above # {} /\ \A b \in below : b <= x
      BY <1>1, <1>2, <2>1
    <2> HIDE DEF below, above
    <2>3. PICK lo \in below : \A b \in below : b <= lo
      BY <2>1, <2>2, GreatestExists
    <2>4. PICK hi \in above : \A b \in above : hi <= b
      BY <2>2, LeastExists
    <2>5. lo \in B /\ hi \in B /\ lo <= x /\ x < hi /\ lo \in Nat /\ hi \in Nat
      BY <1>2, <2>3, <2>4 DEF below, above
    <2>6. ASSUME NEW n \in B PROVE ~ (lo < n /\ n < hi)
      <3>1. n \in Nat
        BY <1>2
      <3>2. CASE n <= x
        BY <2>3, <2>5, <3>1, <3>2 DEF below
      <3>3. CASE x < n
        BY <2>4, <2>5, <3>1, <3>3 DEF above
      <3> QED
        BY <2>1, <3>1, <3>2, <3>3
    <2> DEFINE p == <<lo, hi>>
    <2>7. p \in B \X B /\ p[1] = lo /\ p[2] = hi
      BY <2>5
    <2>8. p[1] < p[2] /\ ~ \E n \in B : p[1] < n /\ n < p[2]
      BY <2>1, <2>5, <2>6, <2>7
    <2>9. p \in Adjacent(B)
      BY <2>7, <2>8 DEF Adjacent
    <2> QED
      BY <2>5, <2>7, <2>9
  <1> QED
    BY <1>2, <1>3 DEF B

\* What goes on in a segment goes on at each of its points.
LEMMA GoingOnIs ==
  ASSUME NEW ivs, Timed(ivs), NEW w, w.start \in Times, w.end \in Times, w.start < w.end,
         NEW p \in Adjacent(Boundaries(ivs, w)), NEW x \in Points(w), p[1] <= x, x < p[2]
  PROVE  {iv \in {y \in ivs : Meets(y, w)} : Clip(iv, w).start < p[2] /\ Clip(iv, w).end > p[1]}
           = {y \in ivs : x \in Points(y)}
  <1> DEFINE B == Boundaries(ivs, w)
  <1>1. /\ p[1] \in B /\ p[2] \in B /\ p[1] \in Nat /\ p[2] \in Nat
        /\ \A n \in B : n \in Nat /\ ~ (p[1] < n /\ n < p[2])
    <2>1. p[1] \in B /\ p[2] \in B /\ \A n \in B : ~ (p[1] < n /\ n < p[2])
      BY DEF Adjacent
    <2>2. \A n \in B : n \in Nat
      BY BoundariesAre
    <2> QED
      BY <2>1, <2>2
  <1>2. x \in Nat /\ x \in Times
    BY TimesAre DEF Points
  <1>3. ASSUME NEW iv \in ivs
        PROVE  Meets(iv, w) /\ Clip(iv, w).start < p[2] /\ Clip(iv, w).end > p[1] <=> x \in Points(iv)
    <2> DEFINE c == Clip(iv, w)
    <2>1. iv.start \in Times /\ iv.end \in Times
      BY DEF Timed
    <2>2. /\ Points(c) = Points(iv) \cap Points(w)
          /\ Meets(iv, w) <=> Points(iv) \cap Points(w) # {}
          /\ c.start \in Times /\ c.end \in Times
      BY <2>1, ClipIs
    <2>3. Meets(iv, w) => c.start \in B /\ c.end \in B
      BY DEF Boundaries
    <2> HIDE DEF c, B
    <2>4. x \in Points(c) <=> c.start <= x /\ x < c.end
      BY <1>2 DEF Points
    <2>5. ASSUME Meets(iv, w), c.start < p[2], c.end > p[1] PROVE x \in Points(iv)
      <3>1. c.start <= p[1] /\ p[2] <= c.end
        BY <1>1, <2>3, <2>5
      <3>2. c.start <= x /\ x < c.end
        BY <1>1, <1>2, <2>2, <3>1, TimesAre
      <3> QED
        BY <2>2, <2>4, <3>2
    <2>6. ASSUME x \in Points(iv) PROVE Meets(iv, w) /\ c.start < p[2] /\ c.end > p[1]
      <3>1. x \in Points(c) /\ Meets(iv, w)
        BY <2>2, <2>6
      <3>2. c.start < p[2] /\ c.end > p[1]
        BY <1>1, <1>2, <2>2, <2>4, <3>1, TimesAre
      <3> QED
        BY <3>1, <3>2
    <2> QED
      BY <2>5, <2>6 DEF c
  <1> QED
    BY <1>3

\* attribute_wall_components divides the window without gap or overlap, and
\* charges each point by what goes on at it.
LEMMA DivisionIs ==
  ASSUME NEW ivs, Timed(ivs), NEW w, w.start \in Times, w.end \in Times, w.start < w.end
  PROVE  LET segments == attribute_wall_components(ivs, w) IN
         /\ \A segment \in segments : w.start <= segment.start /\ segment.end <= w.end
         /\ \A x \in Points(w) : \E segment \in segments :
              /\ x \in Points(segment)
              /\ \A other \in segments : x \in Points(other) => other = segment
              /\ segment.component = IF \A y \in Points(w) : KindsAt(ivs, y) = {} THEN "other_compute"
                                     ELSE Charged(KindsAt(ivs, x))
  <1> DEFINE segments == attribute_wall_components(ivs, w)
             clipped == {iv \in ivs : Meets(iv, w)}
             B == Boundaries(ivs, w)
             GoingOn(start, end) == {iv \in clipped : Clip(iv, w).start < end /\ Clip(iv, w).end > start}
             Segment(p) == [start |-> p[1], end |-> p[2],
                            component |-> Charged({iv.kind : iv \in GoingOn(p[1], p[2])})]
  <1>1. segments = IF clipped = {}
                   THEN {[start |-> w.start, end |-> w.end, component |-> "other_compute"]}
                   ELSE {Segment(p) : p \in Adjacent(B)}
    BY DEF attribute_wall_components, Boundaries
  <1>2. clipped = {} <=> \A y \in Points(w) : KindsAt(ivs, y) = {}
    <2>1. \A iv \in ivs : Meets(iv, w) <=> Points(iv) \cap Points(w) # {}
      BY ClipIs DEF Timed
    <2>2. \A y : KindsAt(ivs, y) = {} <=> \A iv \in ivs : y \notin Points(iv)
      BY DEF KindsAt
    <2> QED
      BY <2>1, <2>2
  <1>3. CASE clipped = {}
    <2> DEFINE whole == [start |-> w.start, end |-> w.end, component |-> "other_compute"]
    <2>1. segments = {whole} /\ whole.start = w.start /\ whole.end = w.end /\ whole.component = "other_compute"
      BY <1>1, <1>3
    <2> HIDE DEF whole, segments
    <2>2. \A x \in Points(w) : x \in Points(whole)
      BY <2>1 DEF Points
    <2>3. w.start <= whole.start /\ whole.end <= w.end
      BY <2>1, TimesAre
    <2>4. \A y \in Points(w) : KindsAt(ivs, y) = {}
      BY <1>2, <1>3
    <2>5. ASSUME NEW x \in Points(w)
          PROVE  \E segment \in segments :
              /\ x \in Points(segment)
              /\ \A other \in segments : x \in Points(other) => other = segment
              /\ segment.component = IF \A y \in Points(w) : KindsAt(ivs, y) = {} THEN "other_compute"
                                     ELSE Charged(KindsAt(ivs, x))
      BY <2>1, <2>2, <2>4
    <2> QED
      BY <2>1, <2>3, <2>5 DEF segments
  <1>4. CASE clipped # {}
    <2>1. /\ segments = {Segment(p) : p \in Adjacent(B)}
          /\ \A p : Segment(p).start = p[1] /\ Segment(p).end = p[2]
               /\ Segment(p).component = Charged({iv.kind : iv \in GoingOn(p[1], p[2])})
      BY <1>1, <1>4
    <2>2. /\ \A b \in B : b \in Nat /\ b \in Times /\ w.start <= b /\ b <= w.end
          /\ \A x \in Points(w) : \E p \in Adjacent(B) : p[1] <= x /\ x < p[2]
      BY BoundariesAre
    <2>3. \A p \in Adjacent(B) : /\ p[1] \in B /\ p[2] \in B /\ p = <<p[1], p[2]>>
                                 /\ \A n \in B : ~ (p[1] < n /\ n < p[2])
      BY DEF Adjacent
    <2>4. \A p \in Adjacent(B), x \in Points(w) : p[1] <= x /\ x < p[2] =>
            GoingOn(p[1], p[2]) = {y \in ivs : x \in Points(y)}
      BY GoingOnIs
    <2> HIDE DEF segments, clipped, B, GoingOn, Segment
    <2>5. \A segment \in segments : w.start <= segment.start /\ segment.end <= w.end
      BY <2>1, <2>2, <2>3
    <2>6. ASSUME NEW x \in Points(w)
          PROVE  \E segment \in segments :
              /\ x \in Points(segment)
              /\ \A other \in segments : x \in Points(other) => other = segment
              /\ segment.component = IF \A y \in Points(w) : KindsAt(ivs, y) = {} THEN "other_compute"
                                     ELSE Charged(KindsAt(ivs, x))
      <3>1. x \in Nat /\ x \in Times
        BY TimesAre DEF Points
      <3>2. PICK p \in Adjacent(B) : p[1] <= x /\ x < p[2]
        BY <2>2
      <3>3. \A q : x \in Points(Segment(q)) <=> q[1] <= x /\ x < q[2]
        BY <2>1, <3>1 DEF Points
      <3>4. ASSUME NEW q \in Adjacent(B), q[1] <= x, x < q[2] PROVE q = p
        <4>1. p[1] \in Nat /\ p[2] \in Nat /\ q[1] \in Nat /\ q[2] \in Nat
          BY <2>2, <2>3
        <4>2. ~ (p[1] < q[1] /\ q[1] < p[2]) /\ ~ (q[1] < p[1] /\ p[1] < q[2])
          BY <2>3
        <4>3. ~ (p[1] < q[2] /\ q[2] < p[2]) /\ ~ (q[1] < p[2] /\ p[2] < q[2])
          BY <2>3
        <4>4. q[1] = p[1] /\ q[2] = p[2]
          BY <3>1, <3>2, <3>4, <4>1, <4>2, <4>3
        <4>5. q = <<q[1], q[2]>> /\ p = <<p[1], p[2]>>
          BY <2>3
        <4> QED
          BY <4>4, <4>5
      <3>5. \A other \in segments : x \in Points(other) => other = Segment(p)
        BY <2>1, <3>3, <3>4
      <3>6. Segment(p).component = Charged(KindsAt(ivs, x))
        BY <2>1, <2>4, <3>2 DEF KindsAt
      <3>7. ~ \A y \in Points(w) : KindsAt(ivs, y) = {}
        BY <1>2, <1>4
      <3>8. Segment(p) \in segments /\ x \in Points(Segment(p))
        BY <2>1, <3>2, <3>3
      <3> QED
        BY <3>5, <3>6, <3>7, <3>8
    <2> QED
      BY <2>5, <2>6 DEF segments
  <1> QED
    BY <1>3, <1>4

\* The intervals of a stage are some of the log.
LEMMA OfIs ==
  ASSUME Shapes, NEW s, NEW k
  PROVE  IsFiniteSet(Of(items, s, k)) /\ Timed(Of(items, s, k))
  BY PartOfItems DEF Of

\* The points of the window at which a stage ran a step.
Steps(s) == PointsOf(Of(items, s, Step)) \cap Points(window)

\* What a stage did at a point of the window.
Doing(y) == {c \in Components : \E s \in Stages : y \in PointsOf(Of(items, s, c))}

\* The phases have time stamps, and go on where their stage did what they say.
LEMMA PhasesAre ==
  ASSUME Shapes
  PROVE  /\ Timed(Phases(items, window))
         /\ \A x \in Points(window) : KindsAt(Phases(items, window), x) = Doing(x)
  <1> DEFINE M(s, c) == Range(merge_intervals(clip_interval(Of(items, s, c), window)))
             Phase(iv, c) == [start |-> iv.start, end |-> iv.end, kind |-> c]
             phases == Phases(items, window)
  <1>1. ASSUME NEW s, NEW c
        PROVE  Timed(M(s, c)) /\ PointsOf(M(s, c)) = PointsOf(Of(items, s, c)) \cap Points(window)
    <2>1. IsFiniteSet(Of(items, s, c)) /\ Timed(Of(items, s, c))
      BY OfIs
    <2>2. window.start \in Times /\ window.end \in Times
      BY ItemsAre
    <2> DEFINE clipped == clip_interval(Of(items, s, c), window)
    <2>3. /\ IsFiniteSet(clipped) /\ Timed(clipped)
          /\ PointsOf(clipped) = PointsOf(Of(items, s, c)) \cap Points(window)
      BY <2>1, <2>2, ClippedIs
    <2> HIDE DEF clipped
    <2>4. Timed(Range(merge_intervals(clipped))) /\ PointsOf(Range(merge_intervals(clipped))) = PointsOf(clipped)
      BY <2>3, MergedIs
    <2> QED
      BY <2>3, <2>4 DEF clipped
  <1>2. phases = UNION {{Phase(iv, c) : iv \in M(s, c)} : s \in Stages, c \in Components}
    BY DEF Phases
  <1>3. \A iv, c : /\ Phase(iv, c).start = iv.start /\ Phase(iv, c).end = iv.end /\ Phase(iv, c).kind = c
                   /\ Points(Phase(iv, c)) = Points(iv)
    BY DEF Points
  <1> HIDE DEF M, Phase, phases
  <1>4. \A ph : ph \in phases <=> \E s \in Stages, c \in Components : \E iv \in M(s, c) : ph = Phase(iv, c)
    <2> DEFINE PhasesOf(s, c) == {Phase(iv, c) : iv \in M(s, c)}
    <2>1. phases = UNION {PhasesOf(s, c) : s \in Stages, c \in Components}
      BY <1>2
    <2>2. \A ph, s, c : ph \in PhasesOf(s, c) <=> \E iv \in M(s, c) : ph = Phase(iv, c)
      OBVIOUS
    <2> HIDE DEF PhasesOf
    <2>3. \A ph : ph \in phases <=> \E s \in Stages, c \in Components : ph \in PhasesOf(s, c)
      BY <2>1
    <2> QED
      BY <2>2, <2>3
  <1>5. Timed(phases)
    BY <1>1, <1>3, <1>4 DEF Timed
  <1>6. ASSUME NEW x \in Points(window) PROVE KindsAt(phases, x) = Doing(x)
    <2>1. ASSUME NEW c PROVE c \in KindsAt(phases, x) <=> c \in Doing(x)
      <3>1. c \in KindsAt(phases, x) <=> \E ph \in phases : x \in Points(ph) /\ ph.kind = c
        BY DEF KindsAt
      <3>2. c \in KindsAt(phases, x) <=> c \in Components /\ \E s \in Stages : \E iv \in M(s, c) : x \in Points(iv)
        <4>1. ASSUME NEW ph \in phases, x \in Points(ph), ph.kind = c
              PROVE  c \in Components /\ \E s \in Stages : \E iv \in M(s, c) : x \in Points(iv)
          BY <1>3, <1>4, <4>1
        <4>2. ASSUME c \in Components, NEW s \in Stages, NEW iv \in M(s, c), x \in Points(iv)
              PROVE  \E ph \in phases : x \in Points(ph) /\ ph.kind = c
          <5>1. Phase(iv, c) \in phases
            BY <1>4, <4>2
          <5> QED
            BY <1>3, <4>2, <5>1
        <4> QED
          BY <3>1, <4>1, <4>2
      <3>3. \A s : (\E iv \in M(s, c) : x \in Points(iv)) <=> x \in PointsOf(Of(items, s, c))
        BY <1>1, PointIn
      <3> QED
        BY <3>2, <3>3 DEF Doing
    <2>2. \A y \in KindsAt(phases, x) : y \in Doing(x)
      BY <2>1
    <2> QED
      BY <2>1
  <1> QED
    BY <1>5, <1>6 DEF phases

\* A stage is active when it ran a step in the window, and its window is over,
\* or has not begun, when all its steps are over or to come.
LEMMA StageWindowIs ==
  ASSUME Shapes
  PROVE  /\ Active(items, window) = {s \in Stages : Steps(s) # {}}
         /\ \A s \in Active(items, window) :
              LET w == StageWindow(items, s, window) IN
              /\ w.start \in Times /\ w.end \in Times
              /\ \A x \in Times : /\ w.end <= x <=> \A y \in Steps(s) : y < x
                                  /\ x < w.start <=> \A y \in Steps(s) : x < y
  <1> DEFINE C(s) == clip_interval(Of(items, s, Step), window)
  <1>1. window.start \in Times /\ window.end \in Times
    BY ItemsAre
  <1>2. ASSUME NEW s
        PROVE  /\ Timed(C(s)) /\ PointsOf(C(s)) = Steps(s)
               /\ \A iv \in C(s) : iv.start < iv.end
    <2>1. Timed(Of(items, s, Step))
      BY OfIs
    <2>2. Timed(C(s)) /\ PointsOf(C(s)) = Steps(s)
      BY <1>1, <2>1, ClippedIs DEF Steps
    <2>3. ASSUME NEW iv \in C(s) PROVE iv.start < iv.end
      <3>1. PICK it \in Of(items, s, Step) : Meets(it, window) /\ iv = Clip(it, window)
        BY DEF clip_interval
      <3>2. it.start \in Times /\ it.end \in Times
        BY <2>1 DEF Timed
      <3> QED
        BY <1>1, <3>1, <3>2, ClipIs
    <2> QED
      BY <2>2, <2>3
  <1> HIDE DEF C
  <1>3. ASSUME NEW s PROVE \A x : x \in Steps(s) <=> \E iv \in C(s) : x \in Points(iv)
    BY <1>2, PointIn
  <1>4. ASSUME NEW s PROVE \A iv \in C(s) : /\ iv.start \in Nat /\ iv.end \in Nat /\ iv.end \in Times
                                            /\ iv.start \in Times /\ iv.start < iv.end /\ iv.end - 1 \in Times
                                            /\ iv.start \in Points(iv) /\ iv.end - 1 \in Points(iv)
    BY <1>2, TimesAre DEF Timed, Points
  <1>5. ASSUME NEW s PROVE C(s) # {} <=> Steps(s) # {}
    BY <1>3, <1>4
  <1>6. Active(items, window) = {s \in Stages : Steps(s) # {}}
    BY <1>5 DEF Active, C
  <1>7. ASSUME NEW s \in Active(items, window), NEW w, w = StageWindow(items, s, window)
        PROVE  /\ w.start \in Times /\ w.end \in Times
               /\ \A x \in Times : /\ w.end <= x <=> \A y \in Steps(s) : y < x
                                   /\ x < w.start <=> \A y \in Steps(s) : x < y
    <2> DEFINE starts == {iv.start : iv \in C(s)}
               ends == {iv.end : iv \in C(s)}
    <2>1. w.start = Min(starts) /\ w.end = Max(ends)
      BY <1>7 DEF StageWindow, C
    <2>2. C(s) # {}
      BY DEF Active, C
    <2>3. starts \subseteq Nat /\ starts # {} /\ ends \subseteq Nat /\ ends # {} /\ \A y \in ends : y <= MaxTime
      BY <1>4, <2>2, TimesAre
    <2>4. /\ \A iv \in C(s) : iv.start \in starts /\ iv.end \in ends
          /\ \A y \in starts : \E iv \in C(s) : y = iv.start
          /\ \A y \in ends : \E iv \in C(s) : y = iv.end
      OBVIOUS
    <2> HIDE DEF starts, ends
    <2>5. w.start \in starts /\ \A y \in starts : w.start <= y
      BY <2>1, <2>3, MinOf
    <2>6. w.end \in ends /\ \A y \in ends : y <= w.end
      BY <2>1, <2>3, TimesAre, MaxOf
    <2>7. PICK first \in C(s) : w.start = first.start
      BY <2>4, <2>5
    <2>8. PICK last \in C(s) : w.end = last.end
      BY <2>4, <2>6
    <2>9. /\ w.start \in Times /\ w.end \in Times /\ w.start \in Nat /\ w.end \in Nat
          /\ w.start \in Steps(s) /\ w.end - 1 \in Steps(s)
      BY <1>3, <1>4, <2>7, <2>8
    <2>10. ASSUME NEW y \in Steps(s) PROVE y \in Nat /\ w.start <= y /\ y < w.end
      <3>1. PICK iv \in C(s) : y \in Points(iv)
        BY <1>3
      <3>2. y \in Nat /\ iv.start <= y /\ y < iv.end
        BY <3>1, TimesAre DEF Points
      <3>3. w.start <= iv.start /\ iv.end <= w.end /\ iv.start \in Nat /\ iv.end \in Nat
        BY <1>4, <2>4, <2>5, <2>6
      <3> QED
        BY <2>9, <3>2, <3>3
    <2>11. ASSUME NEW x \in Times PROVE w.end <= x <=> \A y \in Steps(s) : y < x
      <3>1. x \in Nat
        BY TimesAre
      <3>2. ASSUME w.end <= x, NEW y \in Steps(s) PROVE y < x
        BY <2>9, <2>10, <3>1, <3>2
      <3>3. ASSUME \A y \in Steps(s) : y < x PROVE w.end <= x
        <4>1. w.end - 1 < x
          BY <2>9, <3>3
        <4> QED
          BY <2>9, <3>1, <4>1
      <3> QED
        BY <3>2, <3>3
    <2>12. ASSUME NEW x \in Times PROVE x < w.start <=> \A y \in Steps(s) : x < y
      <3>1. x \in Nat
        BY TimesAre
      <3>2. ASSUME x < w.start, NEW y \in Steps(s) PROVE x < y
        BY <2>9, <2>10, <3>1, <3>2
      <3> QED
        BY <2>9, <3>2
    <2> QED
      BY <2>9, <2>11, <2>12
  <1> QED
    BY <1>6, <1>7

\* The gaps have time stamps, and go on between two stages.
LEMMA GapsAre ==
  ASSUME Shapes
  PROVE  /\ Timed(Gaps(items, window))
         /\ \A gap \in Gaps(items, window) : gap.kind = "pp_gap"
         /\ \A x \in Times : Between(x) <=> \E gap \in Gaps(items, window) : x \in Points(gap)
  <1> DEFINE active == Active(items, window)
             W(s) == StageWindow(items, s, window)
             Gap(p) == [start |-> W(p[1]).end, end |-> W(p[2]).start, kind |-> "pp_gap"]
             gaps == Gaps(items, window)
  <1>1. /\ active = {s \in Stages : Steps(s) # {}}
        /\ \A s \in active :
             /\ W(s).start \in Times /\ W(s).end \in Times
             /\ \A x \in Times : /\ W(s).end <= x <=> \A y \in Steps(s) : y < x
                                 /\ x < W(s).start <=> \A y \in Steps(s) : x < y
    BY StageWindowIs
  <1>2. \A x : Between(x) <=> \E p \in Adjacent({s \in Stages : Steps(s) # {}}) :
                 (\A y \in Steps(p[1]) : y < x) /\ (\A y \in Steps(p[2]) : x < y)
    BY DEF Between, Steps
  <1>3. gaps = {gap \in {Gap(p) : p \in Adjacent(active)} : Length(gap) > 0}
    BY DEF Gaps
  <1>4. \A p : Gap(p).start = W(p[1]).end /\ Gap(p).end = W(p[2]).start /\ Gap(p).kind = "pp_gap"
    OBVIOUS
  <1>5. \A p \in Adjacent(active) : p[1] \in active /\ p[2] \in active
    BY DEF Adjacent
  <1> HIDE DEF active, W, Gap, gaps
  <1>6. \A p \in Adjacent(active) : Gap(p).start \in Times /\ Gap(p).end \in Times
    BY <1>1, <1>4, <1>5
  <1>7. \A gap \in gaps : \E p \in Adjacent(active) : gap = Gap(p)
    BY <1>3
  <1>8. Timed(gaps) /\ \A gap \in gaps : gap.kind = "pp_gap"
    BY <1>4, <1>6, <1>7 DEF Timed
  <1>9. ASSUME NEW x \in Times, NEW p \in Adjacent(active)
        PROVE  x \in Points(Gap(p)) <=> (\A y \in Steps(p[1]) : y < x) /\ (\A y \in Steps(p[2]) : x < y)
    <2>1. x \in Points(Gap(p)) <=> W(p[1]).end <= x /\ x < W(p[2]).start
      BY <1>4 DEF Points
    <2> QED
      BY <1>1, <1>5, <2>1
  <1>10. ASSUME NEW x \in Times, NEW p \in Adjacent(active), x \in Points(Gap(p)) PROVE Gap(p) \in gaps
    <2>1. Length(Gap(p)) > 0
      <3>1. /\ Gap(p).start \in Nat /\ Gap(p).end \in Nat /\ x \in Nat
            /\ Gap(p).start <= x /\ x < Gap(p).end
        BY <1>6, <1>10, TimesAre DEF Points
      <3>2. Gap(p).end > Gap(p).start /\ Gap(p).end - Gap(p).start > 0
        BY <3>1
      <3> QED
        BY <3>2 DEF Length
    <2> QED
      BY <1>3, <2>1
  <1>11. ASSUME NEW x \in Times PROVE Between(x) <=> \E gap \in gaps : x \in Points(gap)
    <2>1. Between(x) <=> \E p \in Adjacent(active) : x \in Points(Gap(p))
      BY <1>1, <1>2, <1>9
    <2> QED
      BY <1>7, <1>10, <2>1
  <1> QED
    BY <1>8, <1>11 DEF gaps

\* A gap is charged before what the stages do.
LEMMA GapFirst ==
  ASSUME NEW A, A \subseteq Components
  PROVE  Charged(A \cup {"pp_gap"}) = "pp_gap"
  <1> DEFINE active == A \cup {"pp_gap"}
  <1>1. /\ \A c \in Components : c # "pp_gap" /\ Priority[c] \in Nat /\ Priority[c] > 0
        /\ Priority["pp_gap"] = 0
    BY ConstantsAssumption DEF Priority
  <1>2. \A d \in active : Priority["pp_gap"] <= Priority[d]
    BY <1>1
  <1>3. \A c \in active : c # "pp_gap" => ~ (Priority[c] <= Priority["pp_gap"])
    BY <1>1
  <1>4. Charged(active) = CHOOSE c \in active : \A d \in active : Priority[c] <= Priority[d]
    BY DEF Charged
  <1>5. "pp_gap" \in active
    OBVIOUS
  <1> HIDE DEF active
  <1>6. Charged(active) \in active /\ \A d \in active : Priority[Charged(active)] <= Priority[d]
    BY <1>2, <1>4, <1>5
  <1>7. Charged(active) = "pp_gap"
    BY <1>3, <1>5, <1>6
  <1> QED
    BY <1>7 DEF active

\* What goes on at a point of the window is what the log says.
LEMMA KindsAre ==
  ASSUME Shapes, NEW ivs, ivs = Phases(items, window) \cup Gaps(items, window)
  PROVE  /\ Timed(ivs)
         /\ \A x \in Points(window) : KindsAt(ivs, x) = Doing(x) \cup (IF Between(x) THEN {"pp_gap"} ELSE {})
  <1>1. Timed(ivs)
    BY PhasesAre, GapsAre DEF Timed
  <1>2. ASSUME NEW x \in Points(window)
        PROVE  KindsAt(ivs, x) = Doing(x) \cup (IF Between(x) THEN {"pp_gap"} ELSE {})
    <2>1. KindsAt(ivs, x) = KindsAt(Phases(items, window), x) \cup KindsAt(Gaps(items, window), x)
      BY DEF KindsAt
    <2>2. KindsAt(Phases(items, window), x) = Doing(x)
      BY PhasesAre
    <2>3. x \in Times
      BY DEF Points
    <2>4. KindsAt(Gaps(items, window), x) = IF Between(x) THEN {"pp_gap"} ELSE {}
      <3> DEFINE gaps == Gaps(items, window)
      <3>1. /\ \A gap \in gaps : gap.kind = "pp_gap"
            /\ Between(x) <=> \E gap \in gaps : x \in Points(gap)
        BY <2>3, GapsAre
      <3> HIDE DEF gaps
      <3>2. \A k : k \in KindsAt(gaps, x) <=> \E gap \in gaps : x \in Points(gap) /\ gap.kind = k
        BY DEF KindsAt
      <3>3. CASE Between(x)
        <4>1. \A k : k \in KindsAt(gaps, x) <=> k = "pp_gap"
          BY <3>1, <3>2, <3>3
        <4>2. KindsAt(gaps, x) = {"pp_gap"}
          BY <4>1
        <4> QED
          BY <3>3, <4>2 DEF gaps
      <3>4. CASE ~ Between(x)
        <4>1. \A k : k \notin KindsAt(gaps, x)
          BY <3>1, <3>2, <3>4
        <4>2. KindsAt(gaps, x) = {}
          BY <4>1
        <4> QED
          BY <3>4, <4>2 DEF gaps
      <3> QED
        BY <3>3, <3>4
    <2> QED
      BY <2>1, <2>2, <2>4
  <1> QED
    BY <1>1, <1>2

\* The breakdown of a dispatch divides its window without gap or overlap, and
\* charges each point once, to what the log says of it.
THEOREM WallTimeExact == Spec => []WallTimeIsDivided
  <1>1. ASSUME Shapes PROVE WallTimeIsDivided
    <2> DEFINE ivs == Phases(items, window) \cup Gaps(items, window)
               segments == build_pp_gap_dispatch_breakdown(items, window)
    <2>1. /\ Timed(ivs)
          /\ \A x \in Points(window) : KindsAt(ivs, x) = Doing(x) \cup (IF Between(x) THEN {"pp_gap"} ELSE {})
      BY <1>1, KindsAre
    <2>2. window.start \in Times /\ window.end \in Times /\ window.start < window.end
      BY <1>1, ItemsAre
    <2>3. segments = attribute_wall_components(ivs, window)
      BY DEF build_pp_gap_dispatch_breakdown
    <2> HIDE DEF ivs, segments
    <2>4. /\ \A segment \in segments : window.start <= segment.start /\ segment.end <= window.end
          /\ \A x \in Points(window) : \E segment \in segments :
               /\ x \in Points(segment)
               /\ \A other \in segments : x \in Points(other) => other = segment
               /\ segment.component = IF \A y \in Points(window) : KindsAt(ivs, y) = {} THEN "other_compute"
                                      ELSE Charged(KindsAt(ivs, x))
      BY <2>1, <2>2, <2>3, DivisionIs
    <2>5. \A y \in Points(window) : KindsAt(ivs, y) = {} <=> (~Between(y) /\ Doing(y) = {})
      BY <2>1
    <2>6. \A x \in Points(window) : Between(x) => Charged(KindsAt(ivs, x)) = "pp_gap"
      <3>1. \A x : Doing(x) \subseteq Components
        BY DEF Doing
      <3> QED
        BY <2>1, <3>1, GapFirst
    <2>7. \A x \in Points(window) : ~Between(x) => KindsAt(ivs, x) = Doing(x)
      BY <2>1
    <2>8. \A x : Expected(x) = IF \A y \in Points(window) : ~Between(y) /\ Doing(y) = {} THEN "other_compute"
                               ELSE IF Between(x) THEN "pp_gap" ELSE Charged(Doing(x))
      BY DEF Expected, Doing
    <2>9. ASSUME NEW x \in Points(window)
          PROVE  Expected(x) = IF \A y \in Points(window) : KindsAt(ivs, y) = {} THEN "other_compute"
                               ELSE Charged(KindsAt(ivs, x))
      <3>1. CASE \A y \in Points(window) : KindsAt(ivs, y) = {}
        BY <2>5, <2>8, <3>1
      <3>2. CASE ~ \A y \in Points(window) : KindsAt(ivs, y) = {}
        <4>1. Expected(x) = IF Between(x) THEN "pp_gap" ELSE Charged(Doing(x))
          BY <2>5, <2>8, <3>2
        <4>2. CASE Between(x)
          BY <2>6, <3>2, <4>1, <4>2
        <4>3. CASE ~Between(x)
          BY <2>7, <3>2, <4>1, <4>3
        <4> QED
          BY <4>2, <4>3
      <3> QED
        BY <3>1, <3>2
    <2>10. \A x \in Points(window) : \E segment \in segments :
             /\ x \in Points(segment)
             /\ \A other \in segments : x \in Points(other) => other = segment
             /\ segment.component = Expected(x)
      BY <2>4, <2>9
    <2> QED
      BY <2>4, <2>10 DEF WallTimeIsDivided, segments
  <1> QED
    BY <1>1, Invariant, PTL

-----------------------------------------------------------------------------
(* Lanes. *)

\* The interval that is placed last, and one step of the recursion in
\* assign_non_overlapping_lanes.
LastOf(ivs, T) == CHOOSE i \in T : \A j \in T : ~Before(ivs, i, j)
NoLanes(ivs) == [ends |-> <<>>, lane |-> [i \in DOMAIN ivs |-> 0]]
PlaceStep(ivs, f, T) ==
  IF T = {} THEN NoLanes(ivs) ELSE Place(ivs, f[T \ {LastOf(ivs, T)}], LastOf(ivs, T))

\* A sequence of intervals whose ends are time stamps.
Listed(ivs) ==
  /\ DOMAIN ivs \subseteq Nat /\ IsFiniteSet(DOMAIN ivs)
  /\ \A i \in DOMAIN ivs : ivs[i].start \in Times /\ ivs[i].end \in Times

\* The log is one.
LEMMA ItemsListed ==
  ASSUME Shapes
  PROVE  Listed(items)
  <1>1. DOMAIN items = 1 .. Len(items) /\ Len(items) \in Nat
    BY LenProperties DEF Shapes
  <1>2. IsFiniteSet(DOMAIN items) /\ DOMAIN items \subseteq Nat
    BY <1>1, FS_Interval
  <1>3. \A i \in DOMAIN items : items[i] \in Range(items)
    BY DEF Range
  <1> QED
    BY <1>2, <1>3, ItemsAre DEF Listed, Timed

\* What the recursion needs of LastOf.
LEMMA LastIs ==
  ASSUME NEW ivs, Listed(ivs), NEW T \in SUBSET DOMAIN ivs, T # {}
  PROVE  LastOf(ivs, T) \in T /\ \A j \in T : ivs[j].start <= ivs[LastOf(ivs, T)].start
  <1> DEFINE P == {U \in SUBSET T : U # {} => \E x \in U : \A y \in U : ~Before(ivs, x, y)}
  <1>1. \A i \in T : i \in Nat /\ ivs[i].start \in Nat /\ ivs[i].end \in Nat
    BY TimesAre DEF Listed
  <1>2. {} \in P
    OBVIOUS
  <1>3. ASSUME NEW U \in SUBSET T, U # {}, \A x \in U : U \ {x} \in P PROVE U \in P
    <2>1. PICK x \in U : TRUE
      BY <1>3
    <2>2. ~Before(ivs, x, x)
      BY <1>1 DEF Before, Earlier
    <2>3. CASE U \ {x} = {}
      BY <2>1, <2>2, <2>3
    <2>4. CASE U \ {x} # {}
      <3>1. PICK m \in U \ {x} : \A y \in U \ {x} : ~Before(ivs, m, y)
        BY <1>3, <2>1, <2>4
      <3>2. CASE ~Before(ivs, m, x)
        BY <2>1, <3>1, <3>2
      <3>3. CASE Before(ivs, m, x)
        <4>1. \A y \in U : ~Before(ivs, x, y)
          <5> SUFFICES ASSUME NEW y \in U, Before(ivs, x, y) PROVE FALSE
            OBVIOUS
          <5>1. ~Before(ivs, m, y)
            BY <2>2, <3>1
          <5> QED
            BY <1>1, <2>1, <3>1, <3>3, <5>1 DEF Before, Earlier
        <4> QED
          BY <2>1, <4>1
      <3> QED
        BY <3>2, <3>3
    <2> QED
      BY <2>3, <2>4
  <1> HIDE DEF P
  <1>4. IsFiniteSet(T)
    BY FS_Subset DEF Listed
  <1>5. T \in P
    BY <1>2, <1>3, <1>4, SubsetInduction
  <1>6. \E x \in T : \A y \in T : ~Before(ivs, x, y)
    BY <1>5 DEF P
  <1>7. LastOf(ivs, T) \in T /\ \A y \in T : ~Before(ivs, LastOf(ivs, T), y)
    BY <1>6 DEF LastOf
  <1> QED
    BY <1>1, <1>7 DEF Before, Earlier

\* The recursion has a solution, so assign_non_overlapping_lanes is what it says.
LEMMA LanesDefined ==
  ASSUME NEW ivs, Listed(ivs)
  PROVE  \E f : /\ f = [T \in SUBSET DOMAIN ivs |-> PlaceStep(ivs, f, T)]
                /\ assign_non_overlapping_lanes(ivs) = f[DOMAIN ivs]
  <1> DEFINE S == DOMAIN ivs
             Last(T) == LastOf(ivs, T)
             D(n) == {T \in SUBSET S : Cardinality(T) <= n}
             G(f, n) == f = [T \in D(n) |-> PlaceStep(ivs, f, T)]
             N == {n \in Nat : \E f : G(f, n)}
  <1>0. IsFiniteSet(S)
    BY DEF Listed
  <1>1. \A T \in SUBSET S : IsFiniteSet(T) /\ Cardinality(T) \in Nat /\ Cardinality(T) <= Cardinality(S)
    BY <1>0, FS_Subset, FS_CardinalityType
  <1>2. \A T \in SUBSET S : T # {} => /\ Last(T) \in T /\ T \ {Last(T)} \in SUBSET S
                                      /\ Cardinality(T \ {Last(T)}) = Cardinality(T) - 1
    <2> SUFFICES ASSUME NEW T \in SUBSET S, T # {}
                 PROVE  /\ Last(T) \in T /\ T \ {Last(T)} \in SUBSET S
                        /\ Cardinality(T \ {Last(T)}) = Cardinality(T) - 1
      OBVIOUS
    <2>1. Last(T) \in T
      BY LastIs
    <2> HIDE DEF Last
    <2> QED
      BY <1>1, <2>1, FS_RemoveElement
  <1> HIDE DEF S
  <1>3. 0 \in N
    <2> DEFINE f == [T \in D(0) |-> NoLanes(ivs)]
    <2>1. \A T \in D(0) : T = {}
      BY <1>1, FS_EmptySet
    <2>2. \A T \in D(0) : PlaceStep(ivs, f, T) = NoLanes(ivs)
      BY <2>1 DEF PlaceStep
    <2> HIDE DEF D
    <2>3. G(f, 0)
      BY <2>2
    <2> HIDE DEF f, G
    <2> QED
      BY <2>3
  <1>4. ASSUME NEW n \in Nat, n \in N PROVE n + 1 \in N
    <2>1. PICK f : G(f, n)
      BY <1>4
    <2> DEFINE g == [T \in D(n + 1) |-> PlaceStep(ivs, f, T)]
    <2>2. \A T \in D(n) : T \in D(n + 1)
      BY <1>1
    <2>3. \A T \in D(n + 1) : T # {} => T \ {Last(T)} \in D(n)
      BY <1>1, <1>2
    <2> HIDE DEF D
    <2>4. \A T \in D(n) : f[T] = PlaceStep(ivs, f, T)
      <3> DEFINE e(T) == PlaceStep(ivs, f, T)
      <3>1. f = [T \in D(n) |-> e(T)]
        BY <2>1
      <3> HIDE DEF e
      <3>2. \A T \in D(n) : f[T] = e(T)
        BY <3>1
      <3> QED
        BY <3>2 DEF e
    <2>5. \A T \in D(n) : g[T] = f[T]
      BY <2>2, <2>4
    <2>6. \A T \in D(n + 1) : PlaceStep(ivs, f, T) = PlaceStep(ivs, g, T)
      BY <2>3, <2>5 DEF PlaceStep
    <2>7. G(g, n + 1)
      BY <2>6
    <2> HIDE DEF g, G
    <2> QED
      BY <2>7
  <1> HIDE DEF N
  <1>5. Cardinality(S) \in N
    BY <1>0, <1>1, <1>3, <1>4, SetInduction, FS_CardinalityType
  <1> DEFINE H(f) == f = [T \in SUBSET S |-> PlaceStep(ivs, f, T)]
  <1>6. D(Cardinality(S)) = SUBSET S
    BY <1>1
  <1>7. \E f : H(f)
    BY <1>5, <1>6 DEF N
  <1>8. assign_non_overlapping_lanes(ivs) = (CHOOSE f : H(f))[S]
    BY DEF assign_non_overlapping_lanes, MapThenFoldSet, PlaceStep, LastOf, NoLanes, S
  <1> HIDE DEF H
  <1> DEFINE f == CHOOSE f : H(f)
  <1>9. H(f)
    BY <1>7
  <1> HIDE DEF f
  <1> QED
    BY <1>8, <1>9 DEF H, f, S

\* The intervals of T that go on at x.
At(ivs, T, x) == {i \in T : x \in Points(ivs[i])}

\* What holds when the intervals of T have been placed: each lies in a lane that
\* ends no earlier, those of a lane do not overlap, each lane was opened for
\* one of them, and at some moment as many go on as there are lanes.
Laid(ivs, T, acc) ==
  /\ acc.ends \in Seq(Nat) /\ acc.lane \in [DOMAIN ivs -> Nat]
  /\ \A i \in T : Length(ivs[i]) # 0 =>
       acc.lane[i] + 1 \in DOMAIN acc.ends /\ ivs[i].end <= acc.ends[acc.lane[i] + 1]
  /\ \A i, j \in T : (i # j /\ acc.lane[i] = acc.lane[j]) => Points(ivs[i]) \cap Points(ivs[j]) = {}
  /\ \A l \in DOMAIN acc.ends : \E i \in T :
       Length(ivs[i]) # 0 /\ acc.lane[i] + 1 = l /\ acc.ends[l] = ivs[i].end
  /\ \E x \in Times : Len(acc.ends) <= Cardinality(At(ivs, T, x))

\* When every lane has an interval at x, at least as many go on there.
LEMMA LanesBelow ==
  ASSUME NEW U, IsFiniteSet(U), NEW lane, NEW n \in Nat,
         \A l \in 1 .. n : \E i \in U : lane[i] + 1 = l
  PROVE  n <= Cardinality(U)
  <1> DEFINE g == [l \in 1 .. n |-> CHOOSE i \in U : lane[i] + 1 = l]
  <1>1. \A l \in 1 .. n : g[l] \in U /\ lane[g[l]] + 1 = l
    OBVIOUS
  <1>2. g \in [1 .. n -> U]
    BY <1>1
  <1> HIDE DEF g
  <1>3. g \in Injection(1 .. n, U)
    BY <1>1, <1>2 DEF Injection, IsInjective
  <1>4. Cardinality(1 .. n) <= Cardinality(U)
    BY <1>3, FS_Injection
  <1>5. Cardinality(1 .. n) = n
    BY FS_Interval
  <1> QED
    BY <1>4, <1>5

\* When no two share a lane, at most as many go on as there are lanes.
LEMMA LanesAbove ==
  ASSUME NEW U, NEW lane, NEW n \in Nat, \A i \in U : lane[i] + 1 \in 1 .. n /\ lane[i] \in Nat,
         \A i, j \in U : lane[i] = lane[j] => i = j
  PROVE  IsFiniteSet(U) /\ Cardinality(U) <= n
  <1> DEFINE g == [i \in U |-> lane[i] + 1]
  <1>1. g \in [U -> 1 .. n]
    OBVIOUS
  <1>2. \A i, j \in U : g[i] = g[j] => i = j
    OBVIOUS
  <1> HIDE DEF g
  <1>3. g \in Injection(U, 1 .. n)
    BY <1>1, <1>2 DEF Injection, IsInjective
  <1>4. IsFiniteSet(1 .. n) /\ Cardinality(1 .. n) = n
    BY FS_Interval
  <1> QED
    BY <1>3, <1>4, FS_Injection

\* The last interval of T is placed.
LEMMA PlaceLaid ==
  ASSUME NEW ivs, Listed(ivs), NEW T \in SUBSET DOMAIN ivs, NEW k \in DOMAIN ivs, k \notin T,
         \A j \in T : ivs[j].start <= ivs[k].start,
         NEW acc, Laid(ivs, T, acc)
  PROVE  Laid(ivs, T \cup {k}, Place(ivs, acc, k))
  <1> DEFINE iv == ivs[k]
             free == FreeLanes(acc.ends, iv)
             all == T \cup {k}
             new == Place(ivs, acc, k)
             n == Len(acc.ends)
  <1>1. /\ iv.start \in Nat /\ iv.end \in Nat /\ iv.start \in Times /\ iv.end \in Times
        /\ \A i \in all : i \in DOMAIN ivs /\ ivs[i].start \in Nat /\ ivs[i].end \in Nat /\ ivs[i].start <= iv.start
    BY TimesAre DEF Listed
  <1>2. /\ acc.ends \in Seq(Nat) /\ acc.lane \in [DOMAIN ivs -> Nat]
        /\ \A i \in T : Length(ivs[i]) # 0 =>
             acc.lane[i] + 1 \in DOMAIN acc.ends /\ ivs[i].end <= acc.ends[acc.lane[i] + 1]
        /\ \A i, j \in T : (i # j /\ acc.lane[i] = acc.lane[j]) => Points(ivs[i]) \cap Points(ivs[j]) = {}
        /\ \A l \in DOMAIN acc.ends : \E i \in T :
             Length(ivs[i]) # 0 /\ acc.lane[i] + 1 = l /\ acc.ends[l] = ivs[i].end
        /\ \E x \in Times : n <= Cardinality(At(ivs, T, x))
    BY DEF Laid
  <1>3. n \in Nat /\ DOMAIN acc.ends = 1 .. n /\ \A l \in DOMAIN acc.ends : acc.ends[l] \in Nat
    BY <1>2, LenProperties, ElementOfSeq
  <1>4. \A i \in all : Length(ivs[i]) = 0 => Points(ivs[i]) = {}
    <2> SUFFICES ASSUME NEW i \in all, Length(ivs[i]) = 0, NEW x \in Points(ivs[i]) PROVE FALSE
      OBVIOUS
    <2>1. x \in Nat /\ ivs[i].start <= x /\ x < ivs[i].end
      BY TimesAre DEF Points
    <2>2. ivs[i].end > ivs[i].start /\ ivs[i].end - ivs[i].start # 0
      BY <1>1, <2>1
    <2> QED
      BY <2>2 DEF Length
  <1>5. \A x : IsFiniteSet(At(ivs, all, x)) /\ IsFiniteSet(At(ivs, T, x))
    <2>1. \A x : At(ivs, all, x) \subseteq DOMAIN ivs /\ At(ivs, T, x) \subseteq DOMAIN ivs
      BY DEF At
    <2> QED
      BY <2>1, FS_Subset DEF Listed
  <1>6. \E x \in Times : n <= Cardinality(At(ivs, all, x))
    <2>1. PICK x \in Times : n <= Cardinality(At(ivs, T, x))
      BY <1>2
    <2>2. At(ivs, T, x) \subseteq At(ivs, all, x)
      BY DEF At
    <2>3. /\ Cardinality(At(ivs, T, x)) <= Cardinality(At(ivs, all, x))
          /\ Cardinality(At(ivs, T, x)) \in Nat /\ Cardinality(At(ivs, all, x)) \in Nat
      BY <1>5, <2>2, FS_Subset, FS_CardinalityType
    <2> QED
      BY <1>3, <2>1, <2>3
  <1>7. CASE Length(iv) = 0
    <2>1. new = acc
      BY <1>7 DEF Place
    <2>2. \A i \in all : Length(ivs[i]) # 0 => i \in T
      BY <1>7
    <2>3. \A i, j \in all : (i # j /\ acc.lane[i] = acc.lane[j]) => Points(ivs[i]) \cap Points(ivs[j]) = {}
      <3> SUFFICES ASSUME NEW i \in all, NEW j \in all, i # j, acc.lane[i] = acc.lane[j]
                   PROVE  Points(ivs[i]) \cap Points(ivs[j]) = {}
        OBVIOUS
      <3>1. CASE i \in T /\ j \in T
        BY <1>2, <3>1
      <3>2. CASE i = k \/ j = k
        <4>1. Points(ivs[i]) = {} \/ Points(ivs[j]) = {}
          BY <1>4, <1>7, <3>2
        <4> QED
          BY <4>1
      <3> QED
        BY <3>1, <3>2
    <2> HIDE DEF new, all
    <2>4. T \subseteq all
      BY DEF all
    <2>5. Laid(ivs, all, acc)
      BY <1>2, <1>6, <2>2, <2>3, <2>4 DEF Laid
    <2> QED
      BY <2>1, <2>5 DEF new, all
  <1>8. CASE Length(iv) # 0
    <2>1. iv.start < iv.end
      BY <1>1, <1>8 DEF Length
    <2>2. CASE free = {}
      <3> DEFINE ends == Append(acc.ends, iv.end)
                 lane == [acc.lane EXCEPT ![k] = n + 1 - 1]
      <3>1. new = [ends |-> ends, lane |-> lane]
        BY <1>8, <2>2 DEF Place
      <3>2. new.ends = ends /\ new.lane = lane
        BY <3>1
      <3>3. /\ ends \in Seq(Nat) /\ DOMAIN ends = 1 .. n + 1 /\ ends[n + 1] = iv.end
            /\ \A l \in 1 .. n : ends[l] = acc.ends[l]
        <4> HIDE DEF n
        <4>1. iv.end \in Nat
          BY <1>1
        <4> HIDE DEF iv
        <4> QED
          BY <1>2, <4>1, AppendIs DEF n
      <3>4. lane \in [DOMAIN ivs -> Nat] /\ lane[k] = n /\ \A i \in T : lane[i] = acc.lane[i]
        BY <1>1, <1>2, <1>3
      <3>5. \A l \in 1 .. n : iv.start < acc.ends[l]
        BY <1>1, <1>3, <2>2 DEF FreeLanes
      <3>6. Len(ends) = n + 1
        BY <1>3, <3>3, LenProperties
      <3> HIDE DEF new, n, ends, lane, free
      <3>7. \A i \in T : Length(ivs[i]) # 0 => acc.lane[i] + 1 \in 1 .. n /\ acc.lane[i] # n
        BY <1>1, <1>2, <1>3
      <3>8. ASSUME NEW i \in all, Length(ivs[i]) # 0
            PROVE  lane[i] + 1 \in DOMAIN ends /\ ivs[i].end <= ends[lane[i] + 1]
        <4>1. CASE i = k
          BY <1>1, <1>3, <3>3, <3>4, <4>1
        <4>2. CASE i \in T
          BY <1>2, <1>3, <3>3, <3>4, <3>7, <3>8, <4>2
        <4> QED
          BY <4>1, <4>2
      <3>9. ASSUME NEW i \in all, NEW j \in all, i # j, lane[i] = lane[j]
            PROVE  Points(ivs[i]) \cap Points(ivs[j]) = {}
        <4>1. CASE i \in T /\ j \in T
          BY <1>2, <3>4, <3>9, <4>1
        <4>2. CASE i = k /\ j \in T
          BY <1>4, <3>4, <3>7, <3>9, <4>2
        <4>3. CASE i \in T /\ j = k
          BY <1>4, <3>4, <3>7, <3>9, <4>3
        <4> QED
          BY <3>9, <4>1, <4>2, <4>3
      <3>10. ASSUME NEW l \in DOMAIN ends
             PROVE  \E i \in all : Length(ivs[i]) # 0 /\ lane[i] + 1 = l /\ ends[l] = ivs[i].end
        <4>1. CASE l = n + 1
          BY <1>8, <3>3, <3>4, <4>1
        <4>2. CASE l \in 1 .. n
          <5>1. PICK i \in T : Length(ivs[i]) # 0 /\ acc.lane[i] + 1 = l /\ acc.ends[l] = ivs[i].end
            BY <1>2, <1>3, <4>2
          <5>2. lane[i] = acc.lane[i] /\ ends[l] = acc.ends[l]
            BY <3>3, <3>4, <4>2
          <5> QED
            BY <5>1, <5>2
        <4> QED
          BY <1>3, <3>3, <4>1, <4>2
      <3>11. n + 1 <= Cardinality(At(ivs, all, iv.start))
        <4>1. ASSUME NEW l \in 1 .. n + 1 PROVE \E i \in At(ivs, all, iv.start) : lane[i] + 1 = l
          <5>1. CASE l = n + 1
            <6>1. iv.start \in Points(ivs[k])
              BY <1>1, <2>1 DEF Points
            <6>2. k \in At(ivs, all, iv.start)
              BY <6>1 DEF At
            <6> QED
              BY <3>4, <5>1, <6>2
          <5>2. CASE l \in 1 .. n
            <6>1. PICK i \in T : acc.lane[i] + 1 = l /\ acc.ends[l] = ivs[i].end
              BY <1>2, <1>3, <5>2
            <6>2. ivs[i].start <= iv.start /\ iv.start < ivs[i].end
              BY <1>1, <3>5, <5>2, <6>1
            <6>3. iv.start \in Points(ivs[i])
              BY <1>1, <6>2 DEF Points
            <6>4. i \in At(ivs, all, iv.start)
              BY <6>3 DEF At
            <6> QED
              BY <3>4, <6>1, <6>4
          <5> QED
            <6>1. l = n + 1 \/ l \in 1 .. n
              BY <1>3
            <6> QED
              BY <5>1, <5>2, <6>1
        <4> DEFINE m == n + 1
                   U == At(ivs, all, iv.start)
        <4>2. m \in Nat /\ IsFiniteSet(U) /\ \A l \in 1 .. m : \E i \in U : lane[i] + 1 = l
          <5>1. m \in Nat /\ 1 .. m = 1 .. n + 1
            BY <1>3
          <5>2. IsFiniteSet(U)
            BY <1>5
          <5> HIDE DEF m
          <5> QED
            BY <4>1, <5>1, <5>2
        <4> HIDE DEF m, U
        <4>3. m <= Cardinality(U)
          BY <4>2, LanesBelow
        <4> QED
          BY <4>3 DEF m, U
      <3>12. \E x \in Times : Len(ends) <= Cardinality(At(ivs, all, x))
        BY <1>1, <3>6, <3>11
      <3> HIDE DEF all
      <3> QED
        BY <3>2, <3>3, <3>4, <3>8, <3>9, <3>10, <3>12 DEF Laid, new, all
    <2>3. CASE free # {}
      <3> DEFINE l == Min(free)
                 ends == [acc.ends EXCEPT ![l] = iv.end]
                 lane == [acc.lane EXCEPT ![k] = l - 1]
      <3>1. new = [ends |-> ends, lane |-> lane]
        BY <1>8, <2>3 DEF Place
      <3>2. new.ends = ends /\ new.lane = lane
        BY <3>1
      <3>3. l \in free
        <4>1. free \subseteq Nat
          BY <1>3 DEF FreeLanes
        <4> HIDE DEF free
        <4> QED
          BY <2>3, <4>1, MinOf
      <3>4. l \in 1 .. n /\ l \in Nat /\ l - 1 \in Nat /\ acc.ends[l] <= iv.start
        BY <1>1, <1>3, <3>3 DEF FreeLanes
      <3> HIDE DEF l
      <3>5. /\ ends \in Seq(Nat) /\ DOMAIN ends = 1 .. n /\ ends[l] = iv.end
            /\ \A m \in 1 .. n : m # l => ends[m] = acc.ends[m]
        <4>1. ends \in Seq(Nat)
          BY <1>1, <1>2, <1>3, <3>4, ExceptSeq
        <4>2. acc.ends = [m \in 1 .. n |-> acc.ends[m]]
          BY <1>2, <1>3
        <4> QED
          BY <1>3, <3>4, <4>1, <4>2
      <3>6. lane \in [DOMAIN ivs -> Nat] /\ lane[k] = l - 1 /\ \A i \in T : lane[i] = acc.lane[i]
        BY <1>1, <1>2, <3>4
      <3>7. Len(ends) = n
        BY <1>3, <3>5, LenProperties
      <3> HIDE DEF new, n, ends, lane, free
      <3>8. \A i \in T : acc.lane[i] \in Nat
        BY <1>1, <1>2
      <3>9. \A i \in T : (Length(ivs[i]) # 0 /\ acc.lane[i] = l - 1) => ivs[i].end <= acc.ends[l]
        BY <1>2, <3>4, <3>8
      <3>10. ASSUME NEW i \in all, Length(ivs[i]) # 0
             PROVE  lane[i] + 1 \in DOMAIN ends /\ ivs[i].end <= ends[lane[i] + 1]
        <4>1. CASE i = k
          BY <1>1, <3>4, <3>5, <3>6, <4>1
        <4>2. CASE i \in T /\ acc.lane[i] + 1 = l
          <5>1. acc.lane[i] = l - 1
            BY <3>4, <3>8, <4>2
          <5>2. ivs[i].end <= acc.ends[l]
            BY <3>9, <3>10, <4>2, <5>1
          <5>3. ivs[i].end \in Nat /\ acc.ends[l] \in Nat
            BY <1>1, <1>3, <3>4
          <5>4. ivs[i].end <= iv.end
            BY <1>1, <2>1, <3>4, <5>2, <5>3
          <5> QED
            BY <3>4, <3>5, <3>6, <4>2, <5>4
        <4>3. CASE i \in T /\ acc.lane[i] + 1 # l
          <5>1. acc.lane[i] + 1 \in 1 .. n /\ ivs[i].end <= acc.ends[acc.lane[i] + 1]
            BY <1>2, <1>3, <3>10, <4>3
          <5>2. lane[i] = acc.lane[i] /\ ends[acc.lane[i] + 1] = acc.ends[acc.lane[i] + 1]
            BY <3>5, <3>6, <4>3, <5>1
          <5> QED
            BY <3>5, <5>1, <5>2
        <4> QED
          BY <4>1, <4>2, <4>3
      <3>11. ASSUME NEW i \in T, lane[i] = lane[k] PROVE Points(ivs[i]) \cap Points(ivs[k]) = {}
        <4>1. CASE Length(ivs[i]) = 0
          <5>1. Points(ivs[i]) = {}
            BY <1>4, <4>1
          <5> QED
            BY <5>1
        <4>2. CASE Length(ivs[i]) # 0
          <5>1. ivs[i].end <= acc.ends[l] /\ ivs[i].end \in Nat /\ acc.ends[l] \in Nat
            BY <1>1, <1>3, <3>4, <3>6, <3>9, <3>11, <4>2
          <5>2. ivs[i].end <= iv.start
            BY <1>1, <3>4, <5>1
          <5>3. \A x \in Times : ~ (x < ivs[i].end /\ iv.start <= x)
            BY <1>1, <5>1, <5>2, TimesAre
          <5> QED
            BY <5>3 DEF Points
        <4> QED
          BY <4>1, <4>2
      <3>12. ASSUME NEW i \in all, NEW j \in all, i # j, lane[i] = lane[j]
             PROVE  Points(ivs[i]) \cap Points(ivs[j]) = {}
        <4>1. CASE i \in T /\ j \in T
          BY <1>2, <3>6, <3>12, <4>1
        <4>2. CASE i = k /\ j \in T
          BY <3>11, <3>12, <4>2
        <4>3. CASE i \in T /\ j = k
          BY <3>11, <3>12, <4>3
        <4> QED
          BY <3>12, <4>1, <4>2, <4>3
      <3>13. ASSUME NEW m \in DOMAIN ends
             PROVE  \E i \in all : Length(ivs[i]) # 0 /\ lane[i] + 1 = m /\ ends[m] = ivs[i].end
        <4>1. CASE m = l
          <5>1. lane[k] + 1 = m /\ ends[m] = ivs[k].end
            BY <3>4, <3>5, <3>6, <4>1
          <5> QED
            BY <1>8, <5>1
        <4>2. CASE m # l
          <5>1. m \in 1 .. n
            BY <3>5
          <5>2. PICK i \in T : Length(ivs[i]) # 0 /\ acc.lane[i] + 1 = m /\ acc.ends[m] = ivs[i].end
            BY <1>2, <1>3, <5>1
          <5>3. lane[i] = acc.lane[i] /\ ends[m] = acc.ends[m]
            BY <3>5, <3>6, <4>2, <5>1
          <5> QED
            BY <5>2, <5>3
        <4> QED
          BY <4>1, <4>2
      <3>14. \E x \in Times : Len(ends) <= Cardinality(At(ivs, all, x))
        BY <1>6, <3>7
      <3> HIDE DEF all
      <3> QED
        BY <3>2, <3>5, <3>6, <3>10, <3>12, <3>13, <3>14 DEF Laid, new, all
    <2> QED
      BY <2>2, <2>3
  <1> QED
    BY <1>7, <1>8

\* assign_non_overlapping_lanes lays out all intervals so.
LEMMA AllLaid ==
  ASSUME NEW ivs, Listed(ivs)
  PROVE  Laid(ivs, DOMAIN ivs, assign_non_overlapping_lanes(ivs))
  <1>1. PICK f : /\ f = [T \in SUBSET DOMAIN ivs |-> PlaceStep(ivs, f, T)]
                 /\ assign_non_overlapping_lanes(ivs) = f[DOMAIN ivs]
    BY LanesDefined
  <1>2. \A T \in SUBSET DOMAIN ivs : f[T] = PlaceStep(ivs, f, T)
    <2> DEFINE e(T) == PlaceStep(ivs, f, T)
    <2>1. f = [T \in SUBSET DOMAIN ivs |-> e(T)]
      BY <1>1
    <2> HIDE DEF e
    <2>2. \A T \in SUBSET DOMAIN ivs : f[T] = e(T)
      BY <2>1
    <2> QED
      BY <2>2 DEF e
  <1> DEFINE P == {T \in SUBSET DOMAIN ivs : Laid(ivs, T, f[T])}
  <1>3. {} \in P
    <2> DEFINE acc == NoLanes(ivs)
    <2>1. f[{}] = acc
      BY <1>2 DEF PlaceStep
    <2>2. acc.ends = <<>> /\ acc.lane = [i \in DOMAIN ivs |-> 0]
      BY DEF NoLanes
    <2>3. <<>> \in Seq(Nat) /\ DOMAIN <<>> = {} /\ Len(<<>>) = 0
      <3>1. \A i \in 1 .. 0 : FALSE
        OBVIOUS
      <3> QED
        BY <3>1, EmptySeq, LenProperties
    <2>4. 0 \in Times /\ At(ivs, {}, 0) = {} /\ Cardinality({}) = 0
      BY TimesAre, FS_EmptySet DEF At
    <2>5. acc.lane \in [DOMAIN ivs -> Nat]
      BY <2>2
    <2> HIDE DEF acc
    <2>6. \E x \in Times : Len(acc.ends) <= Cardinality(At(ivs, {}, x))
      <3>1. Len(acc.ends) = 0
        BY <2>2, <2>3
      <3>2. Cardinality(At(ivs, {}, 0)) = 0
        BY <2>4
      <3>3. Len(acc.ends) <= Cardinality(At(ivs, {}, 0))
        BY <3>1, <3>2
      <3> QED
        BY <2>4, <3>3
    <2>7. Laid(ivs, {}, acc)
      BY <2>2, <2>3, <2>5, <2>6 DEF Laid
    <2> QED
      BY <2>1, <2>7
  <1>4. ASSUME NEW T \in SUBSET DOMAIN ivs, T # {}, \A x \in T : T \ {x} \in P PROVE T \in P
    <2> DEFINE k == LastOf(ivs, T)
               rest == T \ {k}
    <2>1. k \in T /\ \A j \in T : ivs[j].start <= ivs[k].start
      BY <1>4, LastIs
    <2>2. f[T] = Place(ivs, f[rest], k)
      BY <1>2, <1>4 DEF PlaceStep
    <2> HIDE DEF k
    <2>3. Laid(ivs, rest, f[rest])
      BY <1>4, <2>1
    <2>4. /\ rest \in SUBSET DOMAIN ivs /\ k \in DOMAIN ivs /\ k \notin rest /\ rest \cup {k} = T
          /\ \A j \in rest : ivs[j].start <= ivs[k].start
      BY <2>1
    <2> HIDE DEF rest
    <2>5. Laid(ivs, rest \cup {k}, Place(ivs, f[rest], k))
      BY <2>3, <2>4, PlaceLaid
    <2> QED
      BY <2>2, <2>4, <2>5
  <1> HIDE DEF P
  <1>5. IsFiniteSet(DOMAIN ivs)
    BY DEF Listed
  <1>6. DOMAIN ivs \in P
    BY <1>3, <1>4, <1>5, SubsetInduction
  <1> QED
    BY <1>1, <1>6 DEF P

\* No two intervals of a lane overlap, and there are no more lanes than
\* intervals at the busiest moment, for any intervals.
THEOREM LanesExact == Spec => []LanesAreMinimal
  <1>1. ASSUME Shapes PROVE LanesAreMinimal
    <2> DEFINE result == assign_non_overlapping_lanes(items)
               Depth(x) == Cardinality(At(items, DOMAIN items, x))
               n == Len(result.ends)
    <2>1. Listed(items)
      BY <1>1, ItemsListed
    <2>2. Laid(items, DOMAIN items, result)
      BY <2>1, AllLaid
    <2> HIDE DEF result
    <2>3. /\ result.ends \in Seq(Nat) /\ result.lane \in [DOMAIN items -> Nat]
          /\ \A i \in DOMAIN items : Length(items[i]) # 0 => result.lane[i] + 1 \in DOMAIN result.ends
          /\ \A i, j \in DOMAIN items : (i # j /\ result.lane[i] = result.lane[j]) =>
                                          Points(items[i]) \cap Points(items[j]) = {}
          /\ \E x \in Times : n <= Depth(x)
      BY <2>2 DEF Laid
    <2>4. n \in Nat /\ DOMAIN result.ends = 1 .. n
      BY <2>3, LenProperties
    <2> HIDE DEF n
    <2>5. ASSUME NEW x \in Times PROVE Depth(x) \in Nat /\ Depth(x) <= n
      <3> DEFINE U == At(items, DOMAIN items, x)
      <3>1. ASSUME NEW i \in U PROVE result.lane[i] + 1 \in 1 .. n /\ result.lane[i] \in Nat
        <4>1. i \in DOMAIN items /\ x \in Points(items[i])
          BY DEF At
        <4>2. /\ x \in Nat /\ items[i].start \in Nat /\ items[i].end \in Nat
              /\ items[i].start <= x /\ x < items[i].end
          BY <2>1, <4>1, TimesAre DEF Points, Listed
        <4>3. items[i].end > items[i].start /\ items[i].end - items[i].start # 0
          BY <4>2
        <4>4. Length(items[i]) # 0
          BY <4>3 DEF Length
        <4> QED
          BY <2>3, <2>4, <4>1, <4>4
      <3>2. \A i, j \in U : result.lane[i] = result.lane[j] => i = j
        BY <2>3 DEF At
      <3> HIDE DEF U
      <3>3. IsFiniteSet(U) /\ Cardinality(U) <= n
        BY <2>4, <3>1, <3>2, LanesAbove
      <3>4. Cardinality(U) \in Nat
        BY <3>3, FS_CardinalityType
      <3> QED
        BY <3>3, <3>4 DEF U
    <2>6. n = Max({Depth(x) : x \in Times})
      <3> DEFINE D == {Depth(x) : x \in Times}
      <3>1. D \subseteq Nat /\ D # {} /\ \A y \in D : y <= n
        BY <2>3, <2>5
      <3>2. \E y \in D : n <= y
        BY <2>3
      <3> HIDE DEF D
      <3>3. Max(D) \in D /\ \A y \in D : y <= Max(D)
        BY <2>4, <3>1, MaxOf
      <3>4. n = Max(D)
        <4>1. Max(D) \in Nat /\ Max(D) <= n
          BY <3>1, <3>3
        <4>2. PICK y \in D : n <= y
          BY <3>2
        <4>3. y \in Nat /\ y <= Max(D)
          BY <3>1, <3>3
        <4> QED
          BY <2>4, <4>1, <4>2, <4>3
      <3> QED
        BY <3>4 DEF D
    <2>7. n = Max({Cardinality({i \in DOMAIN items : x \in Points(items[i])}) : x \in Times})
      BY <2>6 DEF At
    <2> QED
      BY <2>3, <2>7 DEF LanesAreMinimal, result, n
  <1> QED
    BY <1>1, Invariant, PTL

=============================================================================
