--------------------------- MODULE TraceIntervals ---------------------------
(***************************************************************************)
(* The interval arithmetic of perfetto/log_to_trace.py: how it divides the *)
(* time of one dispatch among what the pipeline stages did, and how it     *)
(* lays out intervals that overlap.                                        *)
(*                                                                         *)
(* The intervals are those the log yields, one more in each step, in any   *)
(* order: empty, reversed, nested, touching, or out of the window.  The    *)
(* properties say what the algorithms return in terms of points: x stands  *)
(* for the time from x to x + 1.                                           *)
(*                                                                         *)
(* One data-parallel rank; the tensor-parallel ranks of a stage appear as  *)
(* several intervals of it.                                                *)
(***************************************************************************)
EXTENDS Integers, Sequences, FiniteSets, FiniteSetsExt, Functions, Folds

CONSTANTS
  MaxTime,     \* the last time stamp
  Spans,       \* starts and ends of the intervals in the log
  Stages,      \* pipeline stages, by rank
  Components,  \* what a phase is charged to
  Windows,     \* dispatch windows
  MaxItems     \* bound on the intervals

Times == 0 .. MaxTime

Step == "step_execution"

\* _component_priority: the smaller is charged first.
Priority ==
  [pp_gap |-> 0, model_forward |-> 10, sampling |-> 20, postprocess |-> 30,
   bookkeeping_sync |-> 40, worker_preprocess |-> 50, other_compute |-> 60]

Item == {[start |-> span.start, end |-> span.end, stage |-> s, kind |-> k] :
           span \in Spans, s \in Stages, k \in Components \cup {Step}}

ASSUME ConstantsAssumption ==
  /\ MaxTime \in Nat /\ Stages \subseteq Nat
  /\ Components \subseteq DOMAIN Priority \ {"pp_gap"}
  /\ Spans \subseteq [start : Times, end : Times]
  /\ Windows \subseteq [start : Times, end : Times]
  /\ \A w \in Windows : w.start < w.end
  /\ MaxItems \in Nat

VARIABLES items, window

-----------------------------------------------------------------------------
(* Clipping, merging, adding up. *)

Length(iv) == IF iv.end > iv.start THEN iv.end - iv.start ELSE 0

\* What of iv lies in w,
Clip(iv, w) == [start |-> Max({iv.start, w.start}), end |-> Min({iv.end, w.end})]

\* and whether anything does.
Meets(iv, w) == Length(iv) > 0 /\ Length(Clip(iv, w)) > 0

clip_interval(ivs, w) == {Clip(iv, w) : iv \in {x \in ivs : Meets(x, w)}}

Earlier(a, b) == a.start < b.start \/ (a.start = b.start /\ a.end < b.end)

\* Mutant: the last end is replaced, also by a smaller one.
Absorb_shrinking(merged, iv) ==
  LET n == Len(merged) IN
  IF Length(iv) = 0 THEN merged
  ELSE IF n = 0 \/ iv.start > merged[n].end
       THEN Append(merged, [start |-> iv.start, end |-> iv.end])
       ELSE [merged EXCEPT ![n] = [start |-> merged[n].start, end |-> iv.end]]

\* One more interval, in order, touches the last one or begins another.
Absorb(merged, iv) ==
  LET n == Len(merged) IN
  IF Length(iv) = 0 THEN merged
  ELSE IF n = 0 \/ iv.start > merged[n].end
       THEN Append(merged, [start |-> iv.start, end |-> iv.end])
       ELSE [merged EXCEPT ![n] = [start |-> merged[n].start, end |-> Max({merged[n].end, iv.end})]]

\* In the order of sorted(): the latest interval is absorbed last.
Latest(ivs) == CHOOSE iv \in ivs : \A other \in ivs : ~Earlier(iv, other)

merge_intervals(ivs) ==
  MapThenFoldSet(LAMBDA iv, merged : Absorb(merged, iv), <<>>, LAMBDA iv : iv, Latest, ivs)

sum_interval_pairs(ivs) == MapThenSumSet(Length, ivs)

\* Mutant: what overlaps is subtracted twice.
uncovered_interval_ns_unmerged(w, ivs) ==
  LET covered == sum_interval_pairs(clip_interval(ivs, w))
  IN  IF Length(w) > covered THEN Length(w) - covered ELSE 0

uncovered_interval_ns(w, ivs) ==
  LET covered == sum_interval_pairs(Range(merge_intervals(clip_interval(ivs, w))))
  IN  IF Length(w) > covered THEN Length(w) - covered ELSE 0

-----------------------------------------------------------------------------
(* Scheduling delays of the workers, charged to a request. *)

\* The delays that fall into the steps of a request, cut to these.
raw_req_os_intervals(windows, delays) ==
  UNION {clip_interval(delays, w) : w \in Range(merge_intervals(windows))}

\* Mutant: delays of several workers at the same time are added up.
req_os_latency_summed(windows, delays) ==
  sum_interval_pairs(raw_req_os_intervals(windows, delays))

\* For how long at least one worker was delayed during a step.
req_os_latency(windows, delays) ==
  sum_interval_pairs(Range(merge_intervals(raw_req_os_intervals(windows, delays))))

-----------------------------------------------------------------------------
(* Lanes. *)

\* Mutant: a lane is free only after the end of its last interval.
FreeLanes_strict(ends, iv) == {l \in DOMAIN ends : iv.start > ends[l]}

FreeLanes(ends, iv) == {l \in DOMAIN ends : iv.start >= ends[l]}

\* The interval with index i goes to the first free lane.  Lanes count from 0,
\* and an empty interval goes to lane 0, whether or not there is one.
Place(ivs, acc, i) ==
  LET iv   == ivs[i]
      free == FreeLanes(acc.ends, iv)
      l    == IF free = {} THEN Len(acc.ends) + 1 ELSE Min(free)
  IN  IF Length(iv) = 0 THEN acc
      ELSE [ends |-> IF free = {} THEN Append(acc.ends, iv.end)
                                  ELSE [acc.ends EXCEPT ![l] = iv.end],
            lane |-> [acc.lane EXCEPT ![i] = l - 1]]

Before(ivs, i, j) == Earlier(ivs[i], ivs[j]) \/ (~Earlier(ivs[j], ivs[i]) /\ i < j)

assign_non_overlapping_lanes(ivs) ==
  MapThenFoldSet(LAMBDA i, acc : Place(ivs, acc, i),
                 [ends |-> <<>>, lane |-> [i \in DOMAIN ivs |-> 0]],
                 LAMBDA i : i,
                 LAMBDA left : CHOOSE i \in left : \A j \in left : ~Before(ivs, i, j),
                 DOMAIN ivs)

-----------------------------------------------------------------------------
(* The time of a dispatch. *)

\* Of what goes on at the same time the first component is charged.
Charged(active) ==
  IF active = {} THEN "pipeline_gap"
  ELSE CHOOSE c \in active : \A d \in active : Priority[c] <= Priority[d]

\* Those that follow each other in the order of sorted().
Adjacent(numbers) ==
  {p \in numbers \X numbers : p[1] < p[2] /\ ~\E n \in numbers : p[1] < n /\ n < p[2]}

\* The window cut at every boundary.  Nothing in it at all is other_compute.
attribute_wall_components(ivs, w) ==
  LET clipped == {iv \in ivs : Meets(iv, w)}
      boundaries == {w.start, w.end} \cup {Clip(iv, w).start : iv \in clipped}
                                     \cup {Clip(iv, w).end : iv \in clipped}
      GoingOn(start, end) ==
        {iv \in clipped : Clip(iv, w).start < end /\ Clip(iv, w).end > start}
  IN  IF clipped = {}
      THEN {[start |-> w.start, end |-> w.end, component |-> "other_compute"]}
      ELSE {[start |-> p[1], end |-> p[2],
             component |-> Charged({iv.kind : iv \in GoingOn(p[1], p[2])})] :
              p \in Adjacent(boundaries)}

Of(its, s, kind) == {it \in Range(its) : it.stage = s /\ it.kind = kind}

\* What a stage did of a component, its ranks merged.
Phases(its, w) ==
  UNION {{[start |-> iv.start, end |-> iv.end, kind |-> c] :
            iv \in Range(merge_intervals(clip_interval(Of(its, s, c), w)))} :
         s \in Stages, c \in Components}

\* Mutant: a stage ends with the first of its ranks.
StageWindow_first(its, s, w) ==
  LET steps == clip_interval(Of(its, s, Step), w)
  IN  [start |-> Min({iv.start : iv \in steps}), end |-> Min({iv.end : iv \in steps})]

\* From the first step of a stage to its last.
StageWindow(its, s, w) ==
  LET steps == clip_interval(Of(its, s, Step), w)
  IN  [start |-> Min({iv.start : iv \in steps}), end |-> Max({iv.end : iv \in steps})]

\* Stages with a step in the window.
Active(its, w) == {s \in Stages : clip_interval(Of(its, s, Step), w) # {}}

Gaps(its, w) ==
  {gap \in {[start |-> StageWindow(its, p[1], w).end, end |-> StageWindow(its, p[2], w).start,
             kind |-> "pp_gap"] : p \in Adjacent(Active(its, w))} : Length(gap) > 0}

build_pp_gap_dispatch_breakdown(its, w) ==
  attribute_wall_components(Phases(its, w) \cup Gaps(its, w), w)

-----------------------------------------------------------------------------
Init ==
  /\ items = <<>>
  /\ window \in Windows

AddItem ==
  /\ Len(items) < MaxItems
  /\ \E it \in Item : items' = Append(items, it)
  /\ UNCHANGED window

Spec == Init /\ [][AddItem]_<<items, window>>

-----------------------------------------------------------------------------
(* Properties *)

Points(iv) == {x \in Times : iv.start <= x /\ x < iv.end}

PointsOf(ivs) == UNION {Points(iv) : iv \in ivs}

\* Merging keeps every point and no other, and leaves intervals that neither
\* overlap nor touch.
MergedIsUnion ==
  LET merged == merge_intervals(Range(items))
  IN  /\ PointsOf(Range(merged)) = PointsOf(Range(items))
      /\ \A i \in DOMAIN merged : merged[i].start < merged[i].end
      /\ \A i \in DOMAIN merged \ {1} : merged[i - 1].end < merged[i].start

\* Uncovered time is the time of the window that no interval covers.
UncoveredIsRest ==
  uncovered_interval_ns(window, Range(items)) =
    Cardinality(Points(window) \ PointsOf(Range(items)))

\* The delay charged to a request is the time during which it was in a step of
\* some worker while some worker was delayed, counted once however many
\* workers were delayed.  (Here a component's intervals stand for the delays.)
OsDelayIsWallTime ==
  LET steps  == {it \in Range(items) : it.kind = Step}
      delays == Range(items) \ steps
  IN  req_os_latency(steps, delays) = Cardinality(PointsOf(steps) \cap PointsOf(delays))

\* No two intervals of one lane overlap, and there are no more lanes than
\* intervals at the busiest moment.
LanesAreMinimal ==
  LET result == assign_non_overlapping_lanes(items)
      Depth(x) == Cardinality({i \in DOMAIN items : x \in Points(items[i])})
  IN  /\ \A i, j \in DOMAIN items :
           i # j /\ result.lane[i] = result.lane[j] => Points(items[i]) \cap Points(items[j]) = {}
      /\ Len(result.ends) = Max({Depth(x) : x \in Times})

\* A point lies between two stages: the earlier one has stopped, the next has
\* not begun.
Between(x) ==
  LET Steps(s) == PointsOf(Of(items, s, Step)) \cap Points(window)
  IN  \E p \in Adjacent({s \in Stages : Steps(s) # {}}) :
        (\A y \in Steps(p[1]) : y < x) /\ (\A y \in Steps(p[2]) : x < y)

\* What each point of the window should be charged to, straight from the log.
Expected(x) ==
  LET Doing(y) == {c \in Components : \E s \in Stages : y \in PointsOf(Of(items, s, c))}
  IN  IF \A y \in Points(window) : ~Between(y) /\ Doing(y) = {} THEN "other_compute"
      ELSE IF Between(x) THEN "pp_gap" ELSE Charged(Doing(x))

\* The time of a dispatch is divided without gap or overlap, each point is
\* charged once and to the right component: the parts add up to the whole.
WallTimeIsDivided ==
  LET segments == build_pp_gap_dispatch_breakdown(items, window)
  IN  /\ \A segment \in segments : window.start <= segment.start /\ segment.end <= window.end
      /\ \A x \in Points(window) : \E segment \in segments :
           /\ x \in Points(segment)
           /\ \A other \in segments : x \in Points(other) => other = segment
           /\ segment.component = Expected(x)

=============================================================================
