--------------------------- MODULE RecordIntervals ---------------------------
(***************************************************************************)
(* DexRecvState of src/dump.rs: which bytes of a DEX have been received,   *)
(* kept as a sorted vector of half-open intervals.  record() is modelled   *)
(* loop iteration by loop iteration, so that the merge itself is checked   *)
(* and proved against the set of bytes it stands for.                      *)
(***************************************************************************)
EXTENDS Naturals, Sequences

CONSTANT Total  \* size of the DEX, in bytes

ASSUME TotalAssumption == Total \in Nat \ {0}

VARIABLES
  intervals,  \* self.intervals
  merged,     \* the vector under construction
  new,        \* the interval being inserted, grown by what it absorbs
  i,          \* index of the next old interval (1-based)
  pc,         \* the loop record() is in; "ready" between calls
  received    \* history: the bytes recorded so far

vars == <<intervals, merged, new, i, pc, received>>

Bytes(iv) == iv[1]..(iv[2] - 1)

Cover(ivs) == UNION {Bytes(ivs[n]) : n \in 1..Len(ivs)}

Init ==
  /\ intervals = <<>> /\ merged = <<>> /\ received = {}
  /\ new = <<0, 1>> /\ i = 1
  /\ pc = "ready"

(* record(start, end) of a chunk inside the DEX; an empty range returns. *)
Record(start, end) ==
  /\ pc = "ready"
  /\ start < end
  /\ new' = <<start, end>>
  /\ pc' = "skip"
  /\ received' = received \cup start..(end - 1)
  /\ UNCHANGED <<intervals, merged, i>>

(* First loop: old intervals that end before start pass through. *)
Skip ==
  /\ pc = "skip"
  /\ IF i <= Len(intervals) /\ intervals[i][2] < new[1]
     THEN merged' = Append(merged, intervals[i]) /\ i' = i + 1 /\ UNCHANGED pc
     ELSE pc' = "coalesce" /\ UNCHANGED <<merged, i>>
  /\ UNCHANGED <<intervals, new, received>>

Least(a, b)    == IF a <= b THEN a ELSE b
Greatest(a, b) == IF a >= b THEN a ELSE b

(* Second loop: what overlaps or touches new is absorbed; then new is pushed. *)
Coalesce ==
  /\ pc = "coalesce"
  /\ IF i <= Len(intervals) /\ intervals[i][1] <= new[2]
     THEN /\ new' = <<Least(new[1], intervals[i][1]), Greatest(new[2], intervals[i][2])>>
          /\ i' = i + 1
          /\ UNCHANGED <<merged, pc>>
     ELSE merged' = Append(merged, new) /\ pc' = "tail" /\ UNCHANGED <<new, i>>
  /\ UNCHANGED <<intervals, received>>

(* Third loop: the rest passes through; then the vector is replaced. *)
PassTail ==
  /\ pc = "tail"
  /\ IF i <= Len(intervals)
     THEN merged' = Append(merged, intervals[i]) /\ i' = i + 1 /\ UNCHANGED <<intervals, pc>>
     ELSE intervals' = merged /\ merged' = <<>> /\ i' = 1 /\ pc' = "ready"
  /\ UNCHANGED <<new, received>>

Next ==
  \/ \E start, end \in 0..Total : Record(start, end)
  \/ Skip \/ Coalesce \/ PassTail

Spec == Init /\ [][Next]_vars

(* Mutant of IsComplete: the largest end received. *)
ReachesEnd == intervals # <<>> /\ intervals[Len(intervals)][2] >= Total

(* matches!(self.intervals.as_slice(), [(0, end)] if *end >= self.total) *)
IsComplete == Len(intervals) = 1 /\ intervals[1][1] = 0 /\ intervals[1][2] >= Total

-----------------------------------------------------------------------------

Interval == {iv \in (0..Total) \X (0..Total) : iv[1] < iv[2]}

(* Type invariant of DexRecvState and the locals of record(). *)
TypeOK ==
  /\ intervals \in Seq(Interval) /\ merged \in Seq(Interval) /\ new \in Interval
  /\ i \in 1..Len(intervals) + 1
  /\ pc \in {"ready", "skip", "coalesce", "tail"}
  /\ received \subseteq 0..Total - 1

(* Sorted, disjoint and not even adjacent. *)
Normal(ivs) == \A m, n \in 1..Len(ivs) : m < n => ivs[m][2] < ivs[n][1]

(* Between calls the intervals are in normal form and stand for exactly the *)
(* bytes received, whatever order, overlap or repetition the chunks had.    *)
CoverageExact == pc = "ready" => Normal(intervals) /\ Cover(intervals) = received

(* The loop invariant of record(): what was merged, the interval in hand and *)
(* what is left cover the bytes received, and are in order.                  *)
Rest == UNION {Bytes(intervals[n]) : n \in i..Len(intervals)}

Merging ==
  /\ Normal(intervals)
  /\ CASE pc = "ready" -> merged = <<>> /\ i = 1 /\ Cover(intervals) = received
       [] pc = "tail"  -> Cover(merged) \cup Rest = received
       [] OTHER        -> Cover(merged) \cup Bytes(new) \cup Rest = received
  /\ Normal(merged)
  /\ \A m \in 1..Len(merged) :
       /\ \A n \in i..Len(intervals) : merged[m][2] < intervals[n][1]
       /\ pc \in {"skip", "coalesce"} => merged[m][2] < new[1]
  /\ pc = "coalesce" => \A n \in i..Len(intervals) : new[1] <= intervals[n][2]

(* is_complete says so exactly when every byte of the DEX was received: a   *)
(* tail chunk is never misread as completion, and the last gap to close is  *)
(* never missed.                                                            *)
CompleteIffAllReceived == pc = "ready" => (IsComplete <=> received = 0..Total - 1)
=============================================================================
