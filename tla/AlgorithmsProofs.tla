--------------------------- MODULE AlgorithmsProofs ---------------------------
(***************************************************************************)
(* Three of the algorithms, proved for inputs of any size: the intervals   *)
(* of DexRecvState (RecordIntervals), restore_bytecode (DexRepair), and    *)
(* the probes' way from a method to its DEX (ArtChain).  They share        *)
(* nothing; each has a part of this module.                                *)
(***************************************************************************)
EXTENDS RecordIntervals, DexRepair, ArtChain, SequenceTheorems, WellFoundedInduction, TLAPS

-----------------------------------------------------------------------------
(* DexRecvState.record and is_complete, for a DEX of any size and any number *)
(* of chunks, in any order, overlapping or repeated.                         *)

LEMMA IntervalFacts ==
  ASSUME NEW iv \in Interval
  PROVE  /\ iv[1] \in Nat /\ iv[2] \in Nat /\ iv[1] < iv[2] /\ iv[2] <= Total
         /\ Bytes(iv) \subseteq 0..Total - 1
BY TotalAssumption DEF Interval, Bytes

LEMMA MakeInterval ==
  ASSUME NEW a \in 0..Total, NEW b \in 0..Total, a < b
  PROVE  <<a, b>> \in Interval
BY DEF Interval

LEMMA AppendCover ==
  ASSUME NEW s \in Seq(Interval), NEW iv \in Interval
  PROVE  /\ Append(s, iv) \in Seq(Interval)
         /\ Cover(Append(s, iv)) = Cover(s) \cup Bytes(iv)
<1>1. /\ Append(s, iv) \in Seq(Interval) /\ Len(Append(s, iv)) = Len(s) + 1 /\ Len(s) \in Nat
      /\ \A n \in 1..Len(s) : Append(s, iv)[n] = s[n]
      /\ Append(s, iv)[Len(s) + 1] = iv
  OBVIOUS
<1>2. 1..(Len(s) + 1) = 1..Len(s) \cup {Len(s) + 1}
  BY <1>1
<1> QED
  BY <1>1, <1>2 DEF Cover

(* Pushing iv keeps a vector in normal form when it starts behind the rest.  *)
LEMMA AppendNormal ==
  ASSUME NEW s \in Seq(Interval), NEW iv \in Interval, Normal(s),
         \A m \in 1..Len(s) : s[m][2] < iv[1]
  PROVE  /\ Normal(Append(s, iv))
         /\ \A b : (\A m \in 1..Len(s) : s[m][2] < b) /\ iv[2] < b
                     => \A m \in 1..Len(Append(s, iv)) : Append(s, iv)[m][2] < b
<1>1. /\ Len(Append(s, iv)) = Len(s) + 1 /\ Len(s) \in Nat
      /\ \A n \in 1..Len(s) : Append(s, iv)[n] = s[n]
      /\ Append(s, iv)[Len(s) + 1] = iv
  OBVIOUS
<1>2. \A n \in 1..(Len(s) + 1) : n \in 1..Len(s) \/ n = Len(s) + 1
  BY <1>1
<1> QED
  BY <1>1, <1>2 DEF Normal

(* The first of what is left, and the others.                                *)
LEMMA RestSplit ==
  ASSUME TypeOK, i <= Len(intervals)
  PROVE  /\ intervals[i] \in Interval
         /\ i \in i..Len(intervals) /\ i + 1 \in 1..Len(intervals) + 1
         /\ (i + 1)..Len(intervals) \subseteq i..Len(intervals)
         /\ Rest = Bytes(intervals[i])
                     \cup UNION {Bytes(intervals[n]) : n \in (i + 1)..Len(intervals)}
<1>1. /\ Len(intervals) \in Nat /\ i \in 1..Len(intervals)
      /\ \A n \in 1..Len(intervals) : intervals[n] \in Interval
  BY DEF TypeOK
<1>2. i..Len(intervals) = {i} \cup (i + 1)..Len(intervals)
  BY <1>1
<1> QED
  BY <1>1, <1>2 DEF Rest

(* Two intervals that overlap or touch cover what their hull covers.         *)
LEMMA HullCovers ==
  ASSUME NEW a \in Interval, NEW b \in Interval, b[1] <= a[2], a[1] <= b[2]
  PROVE  LET h == <<Least(a[1], b[1]), Greatest(a[2], b[2])>>
         IN  h \in Interval /\ Bytes(h) = Bytes(a) \cup Bytes(b)
BY IntervalFacts, MakeInterval, TotalAssumption DEF Least, Greatest, Bytes
(* Type correctness of DexRecvState and of record()'s locals.                *)
THEOREM TypeCorrect == Spec => []TypeOK
<1>1. Init => TypeOK
  <2>1. <<0, 1>> \in Interval
    BY MakeInterval, TotalAssumption
  <2> QED
    BY <2>1 DEF Init, TypeOK
<1>2. TypeOK /\ [Next]_vars => TypeOK'
  <2> SUFFICES ASSUME TypeOK, [Next]_vars
               PROVE  TypeOK'
    OBVIOUS
  <2>1. ASSUME NEW start \in 0..Total, NEW end \in 0..Total, Record(start, end)
        PROVE  TypeOK'
    <3>1. <<start, end>> \in Interval /\ start..(end - 1) \subseteq 0..Total - 1
      BY <2>1, MakeInterval, TotalAssumption DEF Record
    <3> QED
      BY <2>1, <3>1 DEF Record, TypeOK
  <2>2. CASE Skip
    <3>1. i <= Len(intervals) => Append(merged, intervals[i]) \in Seq(Interval)
      BY RestSplit, AppendCover DEF TypeOK
    <3>2. i <= Len(intervals) => i + 1 \in 1..Len(intervals) + 1
      BY RestSplit
    <3> QED
      BY <2>2, <3>1, <3>2 DEF Skip, TypeOK
  <2>3. CASE Coalesce
    <3>1. Append(merged, new) \in Seq(Interval)
      BY AppendCover DEF TypeOK
    <3>2. ASSUME i <= Len(intervals)
          PROVE  /\ i + 1 \in 1..Len(intervals) + 1
                 /\ <<Least(new[1], intervals[i][1]), Greatest(new[2], intervals[i][2])>>
                      \in Interval
      <4>1. intervals[i] \in Interval /\ new \in Interval /\ i + 1 \in 1..Len(intervals) + 1
        BY <3>2, RestSplit DEF TypeOK
      <4> QED
        BY <4>1, IntervalFacts, MakeInterval, TotalAssumption, SMTT(30) DEF Least, Greatest
    <3> QED
      BY <2>3, <3>1, <3>2 DEF Coalesce, TypeOK
  <2>4. CASE PassTail
    <3>1. i <= Len(intervals) => Append(merged, intervals[i]) \in Seq(Interval)
      BY RestSplit, AppendCover DEF TypeOK
    <3>2. i <= Len(intervals) => i + 1 \in 1..Len(intervals) + 1
      BY RestSplit
    <3>3. CASE i <= Len(intervals)
      BY <2>4, <3>1, <3>2, <3>3 DEF PassTail, TypeOK
    <3>4. CASE ~(i <= Len(intervals))
      <4>1. 1 \in 1..Len(merged) + 1 /\ <<>> \in Seq(Interval)
        BY DEF TypeOK
      <4> QED
        BY <2>4, <3>4, <4>1 DEF PassTail, TypeOK
    <3> QED
      BY <3>3, <3>4
  <2>5. CASE UNCHANGED vars
    BY <2>5 DEF vars, TypeOK
  <2> QED
    BY <2>1, <2>2, <2>3, <2>4, <2>5 DEF Next
<1> QED
  BY <1>1, <1>2, PTL DEF Spec

-----------------------------------------------------------------------------
LEMMA RecordMerging ==
  ASSUME TypeOK, Merging, NEW start \in 0..Total, NEW end \in 0..Total, Record(start, end)
  PROVE  Merging'
<1>1. /\ pc = "ready" /\ pc' = "skip" /\ new' = <<start, end>> /\ start \in Nat /\ end \in Nat
      /\ UNCHANGED <<intervals, merged, i>> /\ merged = <<>> /\ i = 1
      /\ Cover(intervals) = received /\ received' = received \cup start..(end - 1)
  BY TotalAssumption DEF Record, Merging
<1>2. Rest' = Cover(intervals)
  BY <1>1 DEF Rest, Cover
<1>3. Bytes(new)' = start..(end - 1)
  BY <1>1 DEF Bytes
<1>4. Cover(merged)' = {} /\ Len(merged') = 0
  BY <1>1 DEF Cover
<1> QED
  BY <1>1, <1>2, <1>3, <1>4 DEF Merging, Normal

LEMMA SkipMerging ==
  ASSUME TypeOK, Merging, Skip
  PROVE  Merging'
<1>1. /\ pc = "skip" /\ UNCHANGED <<intervals, new, received>> /\ Normal(intervals)
      /\ Cover(merged) \cup Bytes(new) \cup Rest = received /\ Normal(merged)
      /\ new \in Interval /\ merged \in Seq(Interval)
      /\ \A m \in 1..Len(merged) : merged[m][2] < new[1]
      /\ \A m \in 1..Len(merged), n \in i..Len(intervals) : merged[m][2] < intervals[n][1]
  BY DEF Skip, Merging, TypeOK
<1>2. CASE i <= Len(intervals) /\ intervals[i][2] < new[1]
  <2>1. merged' = Append(merged, intervals[i]) /\ i' = i + 1 /\ pc' = pc
    BY <1>2 DEF Skip
  <2>2. /\ intervals[i] \in Interval /\ i \in i..Len(intervals)
        /\ Rest = Bytes(intervals[i]) \cup Rest'
        /\ (i + 1)..Len(intervals) \subseteq i..Len(intervals)
    BY <1>1, <1>2, <2>1, RestSplit DEF Rest
  <2>3. Cover(merged)' = Cover(merged) \cup Bytes(intervals[i])
    BY <1>1, <2>1, <2>2, AppendCover
  <2>4. \A m \in 1..Len(merged) : merged[m][2] < intervals[i][1]
    BY <1>1, <2>2
  <2>5. Normal(merged)' /\ \A m \in 1..Len(merged') : merged'[m][2] < new[1]
    BY <1>1, <1>2, <2>1, <2>2, <2>4, AppendNormal
  <2>6. ASSUME NEW n \in i'..Len(intervals)
        PROVE  \A m \in 1..Len(merged') : merged'[m][2] < intervals[n][1]
    <3>1. n \in i..Len(intervals) /\ i < n /\ i \in 1..Len(intervals) /\ n \in 1..Len(intervals)
      BY <1>2, <2>1 DEF TypeOK
    <3>2. intervals[i][2] < intervals[n][1]
      BY <1>1, <3>1 DEF Normal
    <3> QED
      BY <1>1, <2>1, <2>2, <2>4, <3>1, <3>2, AppendNormal
  <2> QED
    BY <1>1, <2>1, <2>2, <2>3, <2>5, <2>6 DEF Merging
<1>3. CASE ~(i <= Len(intervals) /\ intervals[i][2] < new[1])
  <2>1. pc' = "coalesce" /\ UNCHANGED <<merged, i>>
    BY <1>3 DEF Skip
  <2>2. ASSUME NEW n \in i..Len(intervals)
        PROVE  new[1] <= intervals[n][2]
    <3>1. /\ i \in 1..Len(intervals) /\ n \in 1..Len(intervals) /\ i <= n
          /\ intervals[i] \in Interval /\ intervals[n] \in Interval
      BY DEF TypeOK
    <3>2. new[1] <= intervals[i][2]
      BY <1>1, <1>3, <3>1, IntervalFacts
    <3>3. i < n => intervals[i][2] < intervals[n][1]
      BY <1>1, <3>1 DEF Normal
    <3> QED
      BY <1>1, <3>1, <3>2, <3>3, IntervalFacts
  <2>3. Rest' = Rest /\ Cover(merged)' = Cover(merged) /\ Bytes(new)' = Bytes(new)
    BY <1>1, <2>1 DEF Rest
  <2> QED
    BY <1>1, <2>1, <2>2, <2>3 DEF Merging
<1> QED
  BY <1>2, <1>3
LEMMA CoalesceMerging ==
  ASSUME TypeOK, Merging, Coalesce
  PROVE  Merging'
<1>1. /\ pc = "coalesce" /\ UNCHANGED <<intervals, received>> /\ Normal(intervals)
      /\ Cover(merged) \cup Bytes(new) \cup Rest = received /\ Normal(merged)
      /\ new \in Interval /\ merged \in Seq(Interval)
      /\ \A m \in 1..Len(merged) : merged[m][2] < new[1]
      /\ \A m \in 1..Len(merged), n \in i..Len(intervals) : merged[m][2] < intervals[n][1]
      /\ \A n \in i..Len(intervals) : new[1] <= intervals[n][2]
  BY DEF Coalesce, Merging, TypeOK
<1>2. CASE i <= Len(intervals) /\ intervals[i][1] <= new[2]
  <2> DEFINE h == <<Least(new[1], intervals[i][1]), Greatest(new[2], intervals[i][2])>>
  <2>1. new' = h /\ i' = i + 1 /\ UNCHANGED <<merged, pc>>
    BY <1>2 DEF Coalesce
  <2>2. /\ intervals[i] \in Interval /\ i \in i..Len(intervals)
        /\ Rest = Bytes(intervals[i]) \cup Rest'
        /\ (i + 1)..Len(intervals) \subseteq i..Len(intervals)
    BY <1>1, <1>2, <2>1, RestSplit DEF Rest
  <2>3. h \in Interval /\ Bytes(h) = Bytes(new) \cup Bytes(intervals[i])
    BY <1>1, <1>2, <2>2, HullCovers
  <2>4. h[1] = Least(new[1], intervals[i][1]) /\ new[1] \in Nat /\ intervals[i][1] \in Nat
    BY <1>1, <2>2, IntervalFacts
  <2>5. \A m \in 1..Len(merged) : merged[m][2] < h[1]
    BY <1>1, <2>2, <2>4 DEF Least
  <2>6. ASSUME NEW n \in i'..Len(intervals)
        PROVE  h[1] <= intervals[n][2]
    <3>1. n \in i..Len(intervals) /\ n \in 1..Len(intervals) /\ intervals[n] \in Interval
      BY <1>2, <2>1 DEF TypeOK
    <3> QED
      BY <1>1, <2>4, <3>1, IntervalFacts DEF Least
  <2> HIDE DEF h
  <2>7. Bytes(new)' = Bytes(h) /\ Cover(merged)' = Cover(merged)
    BY <2>1
  <2> QED
    BY <1>1, <2>1, <2>2, <2>3, <2>5, <2>6, <2>7 DEF Merging
<1>3. CASE ~(i <= Len(intervals) /\ intervals[i][1] <= new[2])
  <2>1. merged' = Append(merged, new) /\ pc' = "tail" /\ UNCHANGED <<new, i>>
    BY <1>3 DEF Coalesce
  <2>2. Cover(merged)' = Cover(merged) \cup Bytes(new) /\ Rest' = Rest
    BY <1>1, <2>1, AppendCover DEF Rest
  <2>3. Normal(merged)'
    BY <1>1, <2>1, AppendNormal
  <2>4. ASSUME NEW n \in i..Len(intervals)
        PROVE  \A m \in 1..Len(merged') : merged'[m][2] < intervals[n][1]
    <3>1. /\ i \in 1..Len(intervals) /\ n \in 1..Len(intervals) /\ i <= n
          /\ intervals[i] \in Interval /\ intervals[n] \in Interval
      BY DEF TypeOK
    <3>2. new[2] < intervals[i][1]
      BY <1>1, <1>3, <3>1, IntervalFacts
    <3>3. i < n => intervals[i][2] < intervals[n][1]
      BY <1>1, <3>1 DEF Normal
    <3>4. new[2] < intervals[n][1]
      BY <1>1, <3>1, <3>2, <3>3, IntervalFacts
    <3> QED
      BY <1>1, <2>1, <3>4, AppendNormal
  <2> QED
    BY <1>1, <2>1, <2>2, <2>3, <2>4 DEF Merging
<1> QED
  BY <1>2, <1>3

LEMMA PassTailMerging ==
  ASSUME TypeOK, Merging, PassTail
  PROVE  Merging'
<1>1. /\ pc = "tail" /\ UNCHANGED <<new, received>> /\ Normal(intervals)
      /\ Cover(merged) \cup Rest = received /\ Normal(merged)
      /\ merged \in Seq(Interval)
      /\ \A m \in 1..Len(merged), n \in i..Len(intervals) : merged[m][2] < intervals[n][1]
  BY DEF PassTail, Merging, TypeOK
<1>2. CASE i <= Len(intervals)
  <2>1. merged' = Append(merged, intervals[i]) /\ i' = i + 1 /\ UNCHANGED <<intervals, pc>>
    BY <1>2 DEF PassTail
  <2>2. /\ intervals[i] \in Interval /\ i \in i..Len(intervals)
        /\ Rest = Bytes(intervals[i]) \cup Rest'
        /\ (i + 1)..Len(intervals) \subseteq i..Len(intervals)
    BY <1>2, <2>1, RestSplit DEF Rest
  <2>3. Cover(merged)' = Cover(merged) \cup Bytes(intervals[i])
    BY <1>1, <2>1, <2>2, AppendCover
  <2>4. Normal(merged)'
    BY <1>1, <2>1, <2>2, AppendNormal
  <2>5. ASSUME NEW n \in i'..Len(intervals)
        PROVE  \A m \in 1..Len(merged') : merged'[m][2] < intervals[n][1]
    <3>1. n \in i..Len(intervals) /\ i < n /\ i \in 1..Len(intervals) /\ n \in 1..Len(intervals)
      BY <1>2, <2>1 DEF TypeOK
    <3>2. intervals[i][2] < intervals[n][1]
      BY <1>1, <3>1 DEF Normal
    <3> QED
      BY <1>1, <2>1, <2>2, <3>1, <3>2, AppendNormal
  <2> QED
    BY <1>1, <2>1, <2>2, <2>3, <2>4, <2>5 DEF Merging
<1>3. CASE ~(i <= Len(intervals))
  <2>1. intervals' = merged /\ merged' = <<>> /\ i' = 1 /\ pc' = "ready"
    BY <1>3 DEF PassTail
  <2>2. Rest = {}
    BY <1>3 DEF Rest, TypeOK
  <2>3. Normal(merged)' /\ Len(merged') = 0
    BY <2>1 DEF Normal
  <2> QED
    BY <1>1, <2>1, <2>2, <2>3 DEF Merging
<1> QED
  BY <1>2, <1>3

LEMMA MergingInvariant == Spec => []Merging
<1>1. Init => Merging
  BY DEF Init, Merging, Normal, Cover
<1>2. TypeOK /\ Merging /\ [Next]_vars => Merging'
  <2>1. ASSUME Merging, UNCHANGED vars
        PROVE  Merging'
    BY <2>1 DEF vars, Merging, Normal, Cover, Rest, Bytes
  <2> QED
    BY <2>1, RecordMerging, SkipMerging, CoalesceMerging, PassTailMerging DEF Next
<1> QED
  BY <1>1, <1>2, TypeCorrect, PTL DEF Spec

(* After every call the intervals are in normal form and stand for exactly   *)
(* the bytes received.                                                       *)
THEOREM RecordExact == Spec => []CoverageExact
<1>1. Merging => CoverageExact
  BY DEF Merging, CoverageExact
<1> QED
  BY <1>1, MergingInvariant, PTL

-----------------------------------------------------------------------------
(* One interval in normal form covers everything, and only one can.          *)
LEMMA CompleteCover ==
  ASSUME TypeOK, Normal(intervals), Cover(intervals) = received
  PROVE  IsComplete <=> received = 0..Total - 1
<1> Total \in Nat \ {0} /\ Len(intervals) \in Nat
  BY TotalAssumption DEF TypeOK
<1>1. \A n \in 1..Len(intervals) : intervals[n] \in Interval
  BY DEF TypeOK
<1>2. \A b : b \in received <=> \E n \in 1..Len(intervals) : b \in Bytes(intervals[n])
  BY DEF Cover
<1>3. ASSUME IsComplete
      PROVE  received = 0..Total - 1
  <2>1. intervals[1] \in Interval /\ intervals[1][1] = 0 /\ intervals[1][2] >= Total
    BY <1>1, <1>3 DEF IsComplete
  <2>2. intervals[1][2] = Total
    BY <2>1, IntervalFacts
  <2>3. received = Bytes(intervals[1])
    BY <1>2, <1>3 DEF IsComplete
  <2> QED
    BY <2>1, <2>2, <2>3 DEF Bytes
<1>4. ASSUME received = 0..Total - 1
      PROVE  IsComplete
  <2>0. 0 \in received /\ Total - 1 \in received
    BY <1>4
  <2>1. PICK n \in 1..Len(intervals) : 0 \in Bytes(intervals[n])
    BY <1>2, <2>0
  <2>2. /\ 1 \in 1..Len(intervals) /\ intervals[1] \in Interval
        /\ Len(intervals) \in Nat /\ Len(intervals) >= 1
    BY <1>1, <2>1 DEF TypeOK
  <2>3. ASSUME Len(intervals) >= 2
        PROVE  FALSE
    <3>0. 2 \in 1..Len(intervals)
      BY <2>2, <2>3
    <3> DEFINE b == intervals[1][2]
    <3>1. intervals[2] \in Interval /\ b < intervals[2][1] /\ b \in Nat
      BY <1>1, <2>2, <3>0, IntervalFacts DEF Normal
    <3>2. b \in received
      <4>1. intervals[2][1] < Total
        BY <3>1, IntervalFacts
      <4>2. intervals[2][1] \in Nat
        BY <3>1, IntervalFacts
      <4> QED
        BY <1>4, <3>1, <4>1, <4>2
    <3>3. PICK m \in 1..Len(intervals) : b \in Bytes(intervals[m])
      BY <1>2, <3>2
    <3>4. m # 1
      BY <2>2, <3>3, IntervalFacts DEF Bytes
    <3>5. b < intervals[m][1] /\ intervals[m] \in Interval
      BY <1>1, <2>2, <3>3, <3>4 DEF Normal
    <3> QED
      BY <3>3, <3>5, IntervalFacts DEF Bytes
  <2>4. Len(intervals) = 1
    <3> DEFINE l == Len(intervals)
    <3>1. l \in Nat /\ 1 <= l /\ ~(2 <= l)
      BY <2>2, <2>3
    <3> HIDE DEF l
    <3>2. l = 1
      BY <3>1
    <3> QED
      BY <3>2 DEF l
  <2>5. 0 \in Bytes(intervals[1]) /\ Total - 1 \in Bytes(intervals[1])
    BY <1>2, <2>0, <2>4
  <2> QED
    BY <2>2, <2>4, <2>5, IntervalFacts DEF IsComplete, Bytes
<1> QED
  BY <1>3, <1>4

(* A DEX is complete exactly when every byte of it was received.             *)
THEOREM CompleteExact == Spec => []CompleteIffAllReceived
<1>1. TypeOK /\ CoverageExact => CompleteIffAllReceived
  BY CompleteCover DEF CoverageExact, CompleteIffAllReceived
<1> QED
  BY <1>1, RecordExact, TypeCorrect, PTL

-----------------------------------------------------------------------------
(* restore_bytecode, for any number of methods and records, of any length,   *)
(* whatever the packer did to the code_offs and code_items.                  *)

MethodRecord == [m : MethodIds, len : Lens, decodes : BOOLEAN]

(* The input, with code_off as it came, and the passes' own state. *)
InputType ==
  /\ records \in Seq(MethodRecord) /\ Len(records) <= MaxRecords
  /\ offs0 \in [MethodIds -> MethodIds \cup {Nulled, Outside}]
  /\ sound \subseteq MethodIds

Numbers == 1..Len(records)

PassType ==
  /\ next \in 1..Len(records) + 1
  /\ step \in {"in_place", "plan", "relocate", "validate", "repaired", "failed"}
  /\ step # "in_place" => next = Len(records) + 1
  /\ body \in [MethodIds -> {Old} \cup Numbers]
  /\ by_method \in [MethodIds -> {0} \cup Numbers]
  /\ pending \in [MethodIds -> {0} \cup Numbers]

(* Fits, with the code_offs of the input. *)
Fitted(n) ==
  /\ offs0[records[n].m] \in MethodIds
  /\ records[n].len = lens[offs0[records[n].m]]

(* by_method has the last record taken of each method. *)
LastTaken ==
  \A m \in MethodIds :
    /\ by_method[m] # 0 => by_method[m] < next /\ records[by_method[m]].m = m
    /\ \A n \in Numbers : n < next /\ records[n].m = m => n <= by_method[m]

(* The in-place pass wrote what fits, and each code_item holds the last of it. *)
Inlined ==
  /\ inline = {n \in Numbers : n < next /\ Fitted(n)}
  /\ \A k \in MethodIds : body[k] # Old => body[k] \in inline /\ offs0[records[body[k]].m] = k
  /\ \A n \in inline : LET b == body[offs0[records[n].m]] IN b # Old /\ n <= b

(* What Plan does, told from the code_offs of the input. *)
Missed(m) == by_method[m] # 0 /\ ~Fitted(by_method[m])

Wrapped(m) == m \in MethodIds \ codeless /\ Missed(m) /\ Usable(records[by_method[m]])

Stripping(m) == m \in MethodIds \ codeless /\ by_method[m] = 0 /\ offs0[m] \notin MethodIds

Planned ==
  /\ \A m \in MethodIds : pending[m] # 0 => pending[m] = by_method[m] /\ Wrapped(m)
  /\ step \in {"in_place", "plan"} => offs = offs0 /\ \A m \in MethodIds : pending[m] = 0
  /\ step \in {"relocate", "validate", "repaired"} =>
       \A m \in MethodIds :
         /\ Wrapped(m) => pending[m] = by_method[m]
         /\ offs[m] = IF Stripping(m) THEN Nulled ELSE offs0[m]
         /\ Stripping(m) => m \in unrecovered
         /\ m \notin codeless /\ Missed(m) /\ ~Wrapped(m) => m \in failed
  /\ step = "validate" => \A m \in MethodIds : pending[m] = 0

(* Where each method's body in the end comes from. *)
Finished ==
  step = "repaired" => \A m \in MethodIds :
    \/ pending[m] # 0 /\ final[m] = pending[m]
    \/ pending[m] = 0 /\ offs[m] \in MethodIds /\ final[m] = body[offs[m]]
    \/ pending[m] = 0 /\ offs[m] = Nulled

Inv == InputType /\ PassType /\ LastTaken /\ Inlined /\ Planned /\ Finished

LEMMA RecordFacts ==
  ASSUME InputType, NEW n \in Numbers
  PROVE  /\ records[n] \in MethodRecord /\ records[n].m \in MethodIds /\ Len(records) \in Nat
         /\ n \in Nat /\ n # 0 /\ n # Old /\ n # NoBody
<1>1. records[n] \in MethodRecord /\ Len(records) \in Nat
  BY LenProperties, ElementOfSeq DEF InputType, Numbers
<1>2. n \in 1..MaxRecords
  BY <1>1, DexAssumption DEF InputType, Numbers
<1> QED
  BY <1>1, <1>2, DexAssumption DEF MethodRecord

LEMMA InitInv == DexInit => Inv
<1> SUFFICES ASSUME DexInit PROVE Inv
  OBVIOUS
<1>1. records \in Seq(MethodRecord) /\ Len(records) \in 0..MaxRecords
  <2>1. PICK n \in 0..MaxRecords : records \in [1..n -> MethodRecord]
    BY DEF DexInit, MethodRecord
  <2>2. n \in Nat
    BY <2>1, DexAssumption
  <2> QED
    BY <2>1, <2>2, SeqDef, LenProperties
<1>2. InputType
  BY <1>1, DexAssumption DEF DexInit, InputType
<1>3. PassType
  BY <1>1 DEF DexInit, PassType
<1>4. LastTaken /\ Inlined
  BY <1>1 DEF DexInit, LastTaken, Inlined, Numbers
<1>5. Planned /\ Finished
  BY DEF DexInit, Planned, Finished
<1> QED
  BY <1>2, <1>3, <1>4, <1>5 DEF Inv

LEMMA TakeRecordInv ==
  ASSUME Inv, TakeRecord
  PROVE  Inv'
<1> DEFINE r == records[next]
<1> USE DEF Inv
<1>1. /\ step = "in_place" /\ next \in Numbers /\ next' = next + 1 /\ step' = step
      /\ records' = records /\ offs0' = offs0 /\ lens' = lens /\ sound' = sound
      /\ codeless' = codeless /\ force' = force
      /\ offs' = offs /\ offs = offs0 /\ pending' = pending
      /\ Len(records) \in Nat /\ next \in Nat
  BY LenProperties DEF TakeRecord, input, InputType, PassType, Numbers, Planned
<1>2. r \in MethodRecord /\ r.m \in MethodIds /\ next # 0 /\ next # Old
  BY <1>1, RecordFacts
<1>3. by_method' = [by_method EXCEPT ![r.m] = next]
  BY DEF TakeRecord, ByMethod
<1>4. /\ by_method'[r.m] = next
      /\ \A m \in MethodIds \ {r.m} : by_method'[m] = by_method[m]
  BY <1>2, <1>3 DEF PassType
<1>5. \/ Fitted(next) /\ body' = [body EXCEPT ![offs0[r.m]] = next] /\ inline' = inline \cup {next}
      \/ ~Fitted(next) /\ body' = body /\ inline' = inline
  BY <1>1 DEF TakeRecord, Fits, OnDisk, Fitted
<1>6. InputType' /\ PassType'
  <2>1. Numbers' = Numbers /\ next + 1 \in 1..Len(records) + 1
    BY <1>1 DEF Numbers
  <2>2. by_method' \in [MethodIds -> {0} \cup Numbers]
    BY <1>1, <1>2, <1>3 DEF PassType
  <2>3. body' \in [MethodIds -> {Old} \cup Numbers]
    BY <1>1, <1>2, <1>5 DEF PassType, Fitted
  <2> QED
    BY <1>1, <2>1, <2>2, <2>3 DEF InputType, PassType
<1>7. LastTaken'
  <2>1. Numbers' = Numbers
    BY <1>1 DEF Numbers
  <2> SUFFICES ASSUME NEW m \in MethodIds
               PROVE  /\ by_method'[m] # 0 => by_method'[m] < next + 1 /\ records[by_method'[m]].m = m
                      /\ \A n \in Numbers : n < next + 1 /\ records[n].m = m => n <= by_method'[m]
    BY <1>1, <2>1 DEF LastTaken
  <2>2. \A n \in Numbers : n < next + 1 => n < next \/ n = next
    BY <1>1 DEF Numbers
  <2>3. CASE m = r.m
    BY <1>1, <1>4, <2>2, <2>3 DEF Numbers
  <2>4. CASE m # r.m
    <3>1. by_method[m] \in Nat
      BY DEF PassType, Numbers
    <3> QED
      BY <1>1, <1>4, <2>2, <2>4, <3>1 DEF LastTaken, Numbers
  <2> QED
    BY <2>3, <2>4
<1>8. Inlined'
  <2>1. Numbers' = Numbers /\ \A n \in Numbers : Fitted(n)' <=> Fitted(n)
    BY <1>1 DEF Numbers, Fitted
  <2>2. \A n \in Numbers : n < next + 1 <=> n < next \/ n = next
    BY <1>1 DEF Numbers
  <2>3. \A n \in inline : n \in Numbers /\ n < next /\ n \in Nat /\ offs0[records[n].m] \in MethodIds
    BY DEF Inlined, Numbers, Fitted
  <2>4. CASE ~Fitted(next)
    <3>1. inline' = {n \in Numbers : n < next + 1 /\ Fitted(n)}
      BY <1>5, <2>2, <2>4 DEF Inlined
    <3> QED
      BY <1>1, <1>5, <2>1, <2>4, <3>1 DEF Inlined
  <2>5. CASE Fitted(next)
    <3> DEFINE k == offs0[r.m]
    <3>1. k \in MethodIds /\ body'[k] = next /\ \A j \in MethodIds \ {k} : body'[j] = body[j]
      BY <1>5, <2>5 DEF Fitted, PassType
    <3>2. inline' = {n \in Numbers : n < next + 1 /\ Fitted(n)}
      BY <1>1, <1>5, <2>2, <2>5 DEF Inlined
    <3>3. next \in inline' /\ inline \subseteq inline'
      BY <1>5, <2>5
    <3>4. \A j \in MethodIds : body'[j] # Old => body'[j] \in inline' /\ offs0[records[body'[j]].m] = j
      BY <3>1, <3>3 DEF Inlined
    <3>5. \A n \in inline' : body'[offs0[records[n].m]] # Old /\ n <= body'[offs0[records[n].m]]
      <4> TAKE n \in inline'
      <4>1. CASE n = next
        BY <1>1, <1>2, <3>1, <4>1
      <4>2. CASE n # next
        <5>1. n \in inline /\ n < next /\ n \in Nat
          BY <1>5, <2>3, <2>5, <4>2
        <5> QED
          BY <1>1, <1>2, <2>3, <3>1, <5>1 DEF Inlined
      <4> QED
        BY <4>1, <4>2
    <3> QED
      BY <1>1, <2>1, <3>2, <3>4, <3>5 DEF Inlined
  <2> QED
    BY <2>4, <2>5
<1>9. \A m \in MethodIds : pending[m] = 0
  BY <1>1 DEF Planned
<1>10. Planned' /\ Finished'
  BY <1>1, <1>9 DEF Planned, Finished
<1> QED
  BY <1>6, <1>7, <1>8, <1>10

LEMMA RecordsTakenInv ==
  ASSUME Inv, RecordsTaken
  PROVE  Inv'
<1>1. /\ step = "in_place" /\ next = Len(records) + 1 /\ step' = "plan"
      /\ UNCHANGED <<input, offs, body, next, by_method, pending, inline, failed, unrecovered, final>>
  BY LenProperties DEF RecordsTaken, Inv, InputType, PassType
<1>2. InputType' /\ PassType' /\ LastTaken'
  BY <1>1 DEF Inv, InputType, PassType, LastTaken, Numbers, input
<1>3. Inlined' /\ Planned' /\ Finished'
  BY <1>1 DEF Inv, Inlined, Planned, Finished, Fitted, Numbers, Wrapped, Missed, Stripping, Usable, input
<1> QED
  BY <1>2, <1>3 DEF Inv

(* Only the step, the code_offs and what Plan and the end of the file write *)
(* change after the records are taken.                                       *)
LEMMA SameInput ==
  ASSUME UNCHANGED <<input, next, by_method, body, inline>>, Inv,
         step' \in {"relocate", "validate", "repaired", "failed"}, step # "in_place",
         pending' \in [MethodIds -> {0} \cup Numbers]
  PROVE  InputType' /\ PassType' /\ LastTaken' /\ Inlined'
<1>1. InputType' /\ PassType' /\ LastTaken'
  BY DEF Inv, InputType, PassType, LastTaken, Numbers, input
<1>2. Inlined'
  BY DEF Inv, Inlined, Fitted, Numbers, input
<1> QED
  BY <1>1, <1>2

LEMMA PlanInv ==
  ASSUME Inv, Plan
  PROVE  Inv'
<1>1. /\ step = "plan" /\ offs = offs0 /\ \A m \in MethodIds : pending[m] = 0
      /\ UNCHANGED <<input, body, next, by_method, inline, final>>
  BY DEF Plan, Inv, Planned
<1>2. \A m \in MethodIds : (m \in Rebuilt <=> m \notin codeless /\ Missed(m))
                        /\ (m \in Bodyless <=> Stripping(m))
  <2> TAKE m \in MethodIds
  <2>1. CASE by_method[m] = 0
    BY <1>1, <2>1 DEF Rebuilt, Bodyless, Missed, Stripping, OnDisk
  <2>2. CASE by_method[m] # 0
    <3>1. records[by_method[m]].m = m
      BY <2>2 DEF Inv, LastTaken
    <3> QED
      BY <1>1, <2>2, <3>1 DEF Rebuilt, Bodyless, Missed, Stripping, OnDisk, Fitted
  <2> QED
    BY <2>1, <2>2
<1>3. CASE step' = "failed" /\ UNCHANGED <<offs, pending, failed, unrecovered>>
  <2>1. InputType' /\ PassType' /\ LastTaken' /\ Inlined'
    BY <1>1, <1>3, SameInput DEF Inv, PassType
  <2>2. Planned' /\ Finished'
    BY <1>1, <1>3 DEF Planned, Finished
  <2> QED
    BY <2>1, <2>2 DEF Inv
<1>4. CASE \E m \in MethodIds \ codeless : OnDisk(m) /\ offs[m] \notin sound
  BY <1>3, <1>4 DEF Plan
<1>5. CASE ~\E m \in MethodIds \ codeless : OnDisk(m) /\ offs[m] \notin sound
  <2> DEFINE built == {m \in Rebuilt : Usable(records[by_method[m]])}
  <2>1. /\ pending' = [m \in MethodIds |-> IF m \in built THEN by_method[m] ELSE 0]
        /\ failed' = Rebuilt \ built /\ unrecovered' = Bodyless
        /\ offs' = [m \in MethodIds |-> IF m \in Bodyless THEN Nulled ELSE offs[m]]
        /\ step' = IF built \cup Bodyless = {} THEN "validate" ELSE "relocate"
    BY <1>5 DEF Plan
  <2>2. \A m \in MethodIds : m \in built <=> Wrapped(m)
    BY <1>2 DEF Wrapped, Rebuilt
  <2> HIDE DEF built
  <2>3. \A m \in MethodIds : pending'[m] = IF Wrapped(m) THEN by_method[m] ELSE 0
    BY <2>1, <2>2
  <2>4. InputType' /\ PassType' /\ LastTaken' /\ Inlined'
    <3>1. pending' \in [MethodIds -> {0} \cup Numbers]
      BY <2>1 DEF Inv, PassType
    <3> QED
      BY <1>1, <2>1, <3>1, SameInput DEF Plan
  <2>5. \A m \in MethodIds : (Wrapped(m)' <=> Wrapped(m)) /\ (Missed(m)' <=> Missed(m))
                          /\ (Stripping(m)' <=> Stripping(m))
    BY <1>1 DEF Wrapped, Missed, Stripping, Fitted, Usable, input
  <2>6. \A m \in MethodIds : offs'[m] = IF Stripping(m) THEN Nulled ELSE offs0[m]
    BY <1>1, <1>2, <2>1
  <2>7. \A m \in MethodIds :
          /\ Stripping(m) => m \in unrecovered'
          /\ m \notin codeless /\ Missed(m) /\ ~Wrapped(m) => m \in failed'
    BY <1>2, <2>1, <2>2
  <2>8. step' = "validate" => \A m \in MethodIds : pending'[m] = 0
    <3>1. step' = "validate" => built = {}
      BY <2>1
    <3> QED
      BY <2>1, <3>1
  <2>9. \A m \in MethodIds : Wrapped(m) => by_method[m] # 0
    BY DEF Wrapped, Missed
  <2>10. Planned'
    <3>1. offs0' = offs0 /\ codeless' = codeless /\ by_method' = by_method
      BY <1>1 DEF input
    <3>2. step' \in {"validate", "relocate"}
      BY <2>1
    <3>3. \A m \in MethodIds : pending'[m] # 0 => pending'[m] = by_method'[m] /\ Wrapped(m)'
      BY <2>3, <2>5, <3>1
    <3>4. step' \notin {"in_place", "plan"}
      BY <3>2
    <3>5. \A m \in MethodIds : Wrapped(m)' => pending'[m] = by_method'[m]
      BY <2>3, <2>5, <3>1
    <3>6. \A m \in MethodIds : offs'[m] = IF Stripping(m)' THEN Nulled ELSE offs0'[m]
      BY <2>5, <2>6, <3>1
    <3>7. \A m \in MethodIds : Stripping(m)' => m \in unrecovered'
      BY <2>5, <2>7
    <3>8. \A m \in MethodIds : m \notin codeless' /\ Missed(m)' /\ ~Wrapped(m)' => m \in failed'
      BY <2>5, <2>7, <3>1
    <3> QED
      BY <2>8, <3>3, <3>4, <3>5, <3>6, <3>7, <3>8, Zenon DEF Planned
  <2>11. Finished'
    BY <2>1 DEF Finished
  <2> QED
    BY <2>4, <2>10, <2>11 DEF Inv
<1> QED
  BY <1>4, <1>5

(* Steps that write final, or fail, after the plan is made. *)
LEMMA EndInv ==
  ASSUME Inv, step \in {"relocate", "validate"}, step' \in {"repaired", "failed"},
         UNCHANGED <<input, offs, body, next, by_method, pending, inline, failed, unrecovered>>,
         Finished'
  PROVE  Inv'
<1>1. InputType' /\ PassType' /\ LastTaken' /\ Inlined'
  BY SameInput DEF Inv, PassType
<1>2. Planned'
  <2>1. \A m \in MethodIds : (Wrapped(m)' <=> Wrapped(m)) /\ (Missed(m)' <=> Missed(m))
                          /\ (Stripping(m)' <=> Stripping(m))
    BY DEF Wrapped, Missed, Stripping, Fitted, Usable, input
  <2> QED
    BY <2>1 DEF Inv, Planned, input
<1> QED
  BY <1>1, <1>2 DEF Inv

LEMMA RelocateInv ==
  ASSUME Inv, Relocate
  PROVE  Inv'
<1>1. /\ step = "relocate"
      /\ UNCHANGED <<input, offs, body, next, by_method, pending, inline, failed, unrecovered>>
  BY DEF Relocate
<1>2. CASE step' = "failed"
  BY <1>1, <1>2, EndInv DEF Finished
<1>3. CASE /\ ~\E m \in MethodIds : pending[m] = 0 /\ offs[m] # Nulled /\ offs[m] \notin sound
           /\ step' = "repaired"
           /\ final' = [m \in MethodIds |->
                IF ~Copied(m) THEN NoBody ELSE IF pending[m] # 0 THEN pending[m] ELSE body[offs[m]]]
  <2>1. Finished'
    <3> SUFFICES ASSUME NEW m \in MethodIds
                 PROVE  \/ pending[m] # 0 /\ final'[m] = pending[m]
                        \/ pending[m] = 0 /\ offs[m] \in MethodIds /\ final'[m] = body[offs[m]]
                        \/ pending[m] = 0 /\ offs[m] = Nulled
      BY <1>1 DEF Finished
    <3>1. sound \subseteq MethodIds
      BY DEF Inv, InputType
    <3> QED
      BY <1>3, <3>1 DEF Copied
  <2> QED
    BY <1>1, <1>3, <2>1, EndInv
<1> QED
  BY <1>2, <1>3 DEF Relocate

LEMMA ValidateInv ==
  ASSUME Inv, Validate
  PROVE  Inv'
<1>1. /\ step = "validate"
      /\ UNCHANGED <<input, offs, body, next, by_method, pending, inline, failed, unrecovered>>
  BY DEF Validate
<1>2. CASE step' = "failed"
  BY <1>1, <1>2, EndInv DEF Finished
<1>3. CASE /\ {offs[m] : m \in MethodIds} \ {Nulled} \subseteq sound
           /\ step' = "repaired"
           /\ final' = [m \in MethodIds |-> IF offs[m] = Nulled THEN NoBody ELSE body[offs[m]]]
  <2>1. Finished'
    <3> SUFFICES ASSUME NEW m \in MethodIds
                 PROVE  \/ pending[m] = 0 /\ offs[m] \in MethodIds /\ final'[m] = body[offs[m]]
                        \/ pending[m] = 0 /\ offs[m] = Nulled
      BY <1>1 DEF Finished
    <3>1. sound \subseteq MethodIds /\ pending[m] = 0
      BY <1>1 DEF Inv, InputType, Planned
    <3> QED
      BY <1>3, <3>1
  <2> QED
    BY <1>1, <1>3, <2>1, EndInv
<1> QED
  BY <1>2, <1>3 DEF Validate

LEMMA StutterInv ==
  ASSUME Inv, UNCHANGED dexVars
  PROVE  Inv'
<1>1. InputType' /\ PassType' /\ LastTaken' /\ Inlined' /\ Finished'
  BY DEF Inv, InputType, PassType, LastTaken, Inlined, Finished, Fitted, Numbers, dexVars, input
<1>2. \A m \in MethodIds : (Wrapped(m)' <=> Wrapped(m)) /\ (Missed(m)' <=> Missed(m))
                        /\ (Stripping(m)' <=> Stripping(m))
  BY DEF Wrapped, Missed, Stripping, Fitted, Usable, dexVars, input
<1>3. Planned'
  BY <1>2 DEF Inv, Planned, dexVars, input
<1> QED
  BY <1>1, <1>3 DEF Inv

(* What both passes of restore_bytecode have done of the records looked at.  *)
THEOREM Invariance == DexSpec => []Inv
<1>1. Inv /\ [DexNext]_dexVars => Inv'
  BY TakeRecordInv, RecordsTakenInv, PlanInv, RelocateInv, ValidateInv, StutterInv
     DEF DexNext, Ended
<1> QED
  BY <1>1, InitInv, PTL DEF DexSpec

(* The record that counts for a method is its last, once all are taken. *)
LEMMA LastOfMethod ==
  ASSUME Inv, step # "in_place", NEW m \in MethodIds
  PROVE  /\ by_method[m] = 0 <=> RecordsOf(m) = {}
         /\ \A n \in RecordsOf(m) : n \in Numbers /\ n <= by_method[m]
         /\ by_method[m] # 0 => by_method[m] \in RecordsOf(m) /\ by_method[m] \in Numbers
<1>1. DOMAIN records = Numbers /\ Len(records) \in Nat /\ next = Len(records) + 1
  BY LenProperties DEF Inv, InputType, PassType, Numbers
<1>2. \A n \in Numbers : n \in Nat /\ n # 0 /\ n < next
  BY <1>1 DEF Numbers
<1>3. by_method[m] \in {0} \cup Numbers
  BY DEF Inv, PassType
<1>4. \A n \in RecordsOf(m) : n \in Numbers /\ n <= by_method[m]
  BY <1>1, <1>2 DEF Inv, LastTaken, RecordsOf
<1>5. by_method[m] # 0 => by_method[m] \in RecordsOf(m)
  BY <1>1, <1>3 DEF Inv, LastTaken, RecordsOf
<1> QED
  BY <1>2, <1>3, <1>4, <1>5

(* Whatever --force-mismatch says, no record is both written in place and    *)
(* wrapped in a new code_item.                                               *)
THEOREM Disjoint == DexSpec => []PassesDisjoint
<1>1. Inv => PassesDisjoint
  <2> SUFFICES ASSUME Inv, NEW m \in MethodIds PROVE pending[m] \notin inline
    BY DEF PassesDisjoint
  <2>1. pending[m] # 0 => ~Fitted(pending[m])
    BY DEF Inv, Planned, Wrapped, Missed
  <2>2. 0 \notin Numbers
    BY DEF Numbers
  <2> QED
    BY <2>1, <2>2 DEF Inv, Inlined
<1> QED
  BY <1>1, Invariance, PTL

(* A body that is not Old is a record of a method that shared the code_item. *)
LEMMA BodyOfSharing ==
  ASSUME Inv, NEW k \in MethodIds, body[k] # Old
  PROVE  /\ body[k] \in Numbers /\ body[k] \in inline
         /\ records[body[k]].m \in MethodIds /\ offs0[records[body[k]].m] = k
         /\ body[k] \in RecordsOf(records[body[k]].m)
<1>1. body[k] \in Numbers /\ body[k] \in inline /\ offs0[records[body[k]].m] = k
  BY DEF Inv, PassType, Inlined
<1>2. DOMAIN records = Numbers
  BY LenProperties DEF Inv, InputType, Numbers
<1> QED
  BY <1>1, <1>2, RecordFacts DEF Inv, RecordsOf

(* The last usable capture of a method is its body in the end, unless it     *)
(* shares its code_item.                                                     *)
THEOREM LastWins == DexSpec => []LastCaptureWins
<1>1. Inv => LastCaptureWins
  <2> SUFFICES ASSUME Inv, step = "repaired", NEW m \in MethodIds \ codeless,
                      NEW n \in RecordsOf(m), Usable(records[n]),
                      \A k \in RecordsOf(m) : k <= n
               PROVE  \/ final[m] = n
                      \/ \E k \in Sharing(m) \ {m} : final[m] \in RecordsOf(k)
    BY DEF LastCaptureWins
  <2>1. by_method[m] = n /\ n \in Numbers /\ n \in Nat /\ n # 0 /\ records[n].m = m
    <3>1. /\ n \in Numbers /\ n <= by_method[m] /\ RecordsOf(m) # {}
          /\ by_method[m] # 0 => by_method[m] \in RecordsOf(m) /\ by_method[m] \in Numbers
          /\ by_method[m] = 0 <=> RecordsOf(m) = {}
      BY LastOfMethod
    <3>2. by_method[m] <= n /\ by_method[m] \in Nat /\ n \in Nat /\ n # 0
      BY <3>1, RecordFacts DEF Inv
    <3>3. by_method[m] = n
      BY <3>1, <3>2
    <3> QED
      BY <3>1, <3>2, <3>3 DEF RecordsOf
  <2>2. CASE ~Fitted(n)
    <3>1. Wrapped(m)
      BY <2>1, <2>2 DEF Wrapped, Missed
    <3>2. pending[m] = n
      BY <2>1, <3>1 DEF Inv, Planned
    <3> QED
      BY <2>1, <3>2 DEF Inv, Finished
  <2>3. CASE Fitted(n)
    <3> DEFINE c == offs0[m]
               b == body[c]
    <3>1. pending[m] = 0 /\ offs[m] = c /\ c \in MethodIds /\ c # Nulled
      BY <2>1, <2>3, DexAssumption DEF Inv, Planned, Wrapped, Missed, Stripping, Fitted
    <3>2. final[m] = b
      BY <3>1 DEF Inv, Finished
    <3>3. n \in inline
      <4>1. n < next
        BY <2>1, LenProperties DEF Inv, InputType, PassType, Numbers
      <4> QED
        BY <2>1, <2>3, <4>1 DEF Inv, Inlined
    <3>4. b # Old /\ n <= b
      BY <2>1, <3>3 DEF Inv, Inlined
    <3>5. /\ b \in Numbers /\ records[b].m \in MethodIds /\ offs0[records[b].m] = c
          /\ b \in RecordsOf(records[b].m) /\ b \in Nat
      BY <3>1, <3>4, BodyOfSharing, RecordFacts DEF Inv
    <3>6. CASE records[b].m = m
      <4>1. b <= n
        BY <3>5, <3>6
      <4> QED
        BY <2>1, <3>2, <3>4, <3>5, <4>1
    <3>7. CASE records[b].m # m
      BY <3>2, <3>5, <3>7 DEF Sharing
    <3> QED
      BY <3>6, <3>7
  <2> QED
    BY <2>2, <2>3
<1> QED
  BY <1>1, Invariance, PTL

(* A method nobody captured keeps its body, though every code_item may have *)
(* moved.                                                                    *)
THEOREM UncapturedKept == DexSpec => []OthersKept
<1>1. Inv => OthersKept
  <2> SUFFICES ASSUME Inv, step = "repaired", NEW m \in MethodIds,
                      RecordsOf(m) = {}, offs0[m] \in MethodIds
               PROVE  final[m] = Old \/ \E k \in Sharing(m) : final[m] \in RecordsOf(k)
    BY DEF OthersKept
  <2>1. by_method[m] = 0
    BY LastOfMethod
  <2>2. pending[m] = 0 /\ offs[m] = offs0[m] /\ offs[m] # Nulled
    BY <2>1, DexAssumption DEF Inv, Planned, Wrapped, Missed, Stripping
  <2>3. final[m] = body[offs0[m]]
    BY <2>2 DEF Inv, Finished
  <2> QED
    BY <2>3, BodyOfSharing DEF Sharing
<1> QED
  BY <1>1, Invariance, PTL

(* A method is left without a body only when it is counted. *)
THEOREM LossesCounted == DexSpec => []LossCounted
<1>1. Inv => LossCounted
  <2> SUFFICES ASSUME Inv, step = "repaired", NEW m \in MethodIds \ codeless, final[m] = NoBody
               PROVE  m \in failed \cup unrecovered
    BY DEF LossCounted
  <2>1. pending[m] = 0 /\ offs[m] = Nulled
    <3>1. \A n \in Numbers : n # NoBody
      BY RecordFacts DEF Inv
    <3>2. pending[m] \in {0} \cup Numbers /\ \A k \in MethodIds : body[k] \in {Old} \cup Numbers
      BY DEF Inv, PassType
    <3> QED
      BY <3>1, <3>2, DexAssumption DEF Inv, Finished
  <2>2. ~Wrapped(m) /\ (Stripping(m) \/ offs0[m] = Nulled)
    BY <2>1 DEF Inv, Planned, Wrapped, Missed
  <2>3. CASE Stripping(m)
    BY <2>3 DEF Inv, Planned
  <2>4. CASE ~Stripping(m)
    <3>1. offs0[m] \notin MethodIds /\ by_method[m] # 0
      BY <2>2, <2>4, DexAssumption DEF Stripping
    <3>2. records[by_method[m]].m = m
      BY <3>1 DEF Inv, LastTaken
    <3>3. Missed(m)
      BY <3>1, <3>2 DEF Missed, Fitted
    <3> QED
      BY <2>2, <3>3 DEF Inv, Planned
  <2> QED
    BY <2>3, <2>4
<1> QED
  BY <1>1, Invariance, PTL

-----------------------------------------------------------------------------
(* The probes' way from a method to its DEX, for any number of methods, any  *)
(* offsets and any words that point elsewhere.                               *)

LEMMA LeastOf ==
  ASSUME NEW F \in SUBSET Nat, F # {}
  PROVE  \E n \in F : \A k \in F : n <= k
<1> DEFINE R == OpToRel(<, Nat)
<1>1. IsWellFoundedOn(R, Nat)
  BY NatLessThanWellFounded
<1>2. \A a, b \in Nat : a < b => <<a, b>> \in R
  BY DEF OpToRel
<1> HIDE DEF R
<1>3. PICK n \in F : \A k \in F : ~(<<k, n>> \in R)
  BY <1>1, WFMin
<1>4. ASSUME NEW k \in F PROVE n <= k
  <2>1. n \in Nat /\ k \in Nat /\ ~(<<k, n>> \in R)
    BY <1>3
  <2>2. ~(k < n)
    BY <1>2, <2>1
  <2> QED
    BY <2>1, <2>2
<1> QED
  BY <1>4

(* The first read that finds a DEX, if one does. *)
LEMMA FirstDexIs ==
  ASSUME NEW reads, DOMAIN reads \subseteq Nat
  PROVE  \/ FirstDex(reads) = NoDex /\ \A n \in DOMAIN reads : reads[n] = NoDex
         \/ \E n \in DOMAIN reads :
              /\ reads[n] # NoDex /\ FirstDex(reads) = reads[n]
              /\ \A k \in DOMAIN reads : reads[k] # NoDex => n <= k
<1> DEFINE F == {n \in DOMAIN reads : reads[n] # NoDex}
<1>1. CASE F = {}
  BY <1>1 DEF FirstDex
<1>2. CASE F # {}
  <2> DEFINE first == CHOOSE n \in F : \A k \in F : n <= k
  <2>1. F \in SUBSET Nat
    OBVIOUS
  <2>2. \E n \in F : \A k \in F : n <= k
    BY <1>2, <2>1, LeastOf
  <2>3. first \in F /\ \A k \in F : first <= k
    BY <2>2
  <2>4. FirstDex(reads) = reads[first]
    BY <1>2 DEF FirstDex
  <2> HIDE DEF first
  <2> QED
    BY <2>3, <2>4
<1> QED
  BY <1>1, <1>2

LEMMA QuotientUnique ==
  ASSUME NEW l \in Nat \ {0}, NEW q \in Nat, NEW r \in 0..l - 1,
         NEW b \in Nat, NEW a \in 0..l - 1, l * q + r = l * b + a
  PROVE  q = b /\ r = a
<1>1. CASE q < b
  <2>1. l * (q + 1) <= l * b /\ l * (q + 1) = l * q + l
    BY <1>1
  <2> QED
    BY <2>1
<1>2. CASE b < q
  <2>1. l * (b + 1) <= l * q /\ l * (b + 1) = l * b + l
    BY <1>2
  <2> QED
    BY <2>1
<1>3. CASE b = q
  BY <1>3
<1> QED
  BY <1>1, <1>2, <1>3

LEMMA Quotient ==
  ASSUME NEW l \in Nat \ {0}, NEW b \in Nat, NEW a \in 0..l - 1
  PROVE  (l * b + a) \div l = b /\ (l * b + a) % l = a
<1> DEFINE x == l * b + a
<1>1. x \in Nat
  OBVIOUS
<1> HIDE DEF x
<1>2. x = l * (x \div l) + (x % l) /\ x % l \in 0..l - 1 /\ x \div l \in Nat
  BY <1>1
<1>3. x = l * b + a
  BY DEF x
<1> QED
  BY <1>2, <1>3, QuotientUnique DEF x

(* The pairs tried: the configured one first, then each pair of the search. *)
LEMMA PairsTried ==
  ASSUME NEW s \in Seq(Slots)
  PROVE  /\ DOMAIN SlotPairs(s) = 1..Len(s) * Len(s) + 1
         /\ SlotPairs(s)[1] = <<layout.class, layout.cache>>
         /\ \A a, b \in DOMAIN s : \E n \in DOMAIN SlotPairs(s) : SlotPairs(s)[n] = <<s[a], s[b]>>
<1> DEFINE l == Len(s)
           pairs == [n \in 1..l * l |-> <<s[((n - 1) \div l) + 1], s[((n - 1) % l) + 1]>>]
           first == <<<<layout.class, layout.cache>>>>
           all == first \o pairs
<1>1. l \in Nat /\ l * l \in Nat /\ DOMAIN s = 1..l
  OBVIOUS
<1>2. Len(first) = 1 /\ DOMAIN pairs = 1..l * l
  OBVIOUS
<1>3. Len(pairs) = l * l
  BY <1>1, <1>2
<1> HIDE DEF pairs
<1>4. DOMAIN all = 1..l * l + 1 /\ all[1] = first[1] /\ \A n \in 1..l * l : all[n + 1] = pairs[n]
  <2>1. DOMAIN pairs = 1..Len(pairs)
    BY <1>2, <1>3
  <2>2. all = [n \in 1..Len(first) + Len(pairs) |->
                IF n <= Len(first) THEN first[n] ELSE pairs[n - Len(first)]]
    OBVIOUS
  <2>3. /\ all = [n \in 1..l * l + 1 |-> IF n <= 1 THEN first[n] ELSE pairs[n - 1]]
        /\ 1 + l * l = l * l + 1
    BY <1>1, <1>2, <1>3, <2>2
  <2> HIDE DEF all, first
  <2> QED
    BY <1>1, <2>3
<1>5. ASSUME NEW a \in 1..l, NEW b \in 1..l
      PROVE  \E n \in 1..l * l + 1 : all[n] = <<s[a], s[b]>>
  <2> DEFINE x == l * (a - 1) + (b - 1)
  <2>1. x \div l = a - 1 /\ x % l = b - 1
    <3>1. l \in Nat \ {0} /\ a - 1 \in Nat /\ b - 1 \in 0..l - 1
      BY <1>1
    <3> HIDE DEF l
    <3> QED
      BY <3>1, Quotient
  <2>2. l * (a - 1) + l <= l * l /\ l * (a - 1) \in Nat
    <3> HIDE DEF l
    <3>1. a \in Nat /\ l \in Nat /\ a <= l /\ a - 1 \in Nat
      BY <1>1
    <3>2. l * a <= l * l /\ l * (a - 1) + l = l * a
      BY <3>1
    <3> QED
      BY <3>1, <3>2
  <2>3. x + 1 \in 1..l * l
    <3>1. x + 1 = l * (a - 1) + b /\ x + 1 \in Nat
      BY <1>1, <2>2
    <3> HIDE DEF l, x
    <3> QED
      BY <1>1, <2>2, <3>1
  <2> HIDE DEF x
  <2>4. pairs[x + 1] = <<s[a], s[b]>>
    <3>1. (x + 1) - 1 = x
      BY <2>2 DEF x
    <3>2. pairs[x + 1] = <<s[(((x + 1) - 1) \div l) + 1], s[(((x + 1) - 1) % l) + 1]>>
      BY <2>3 DEF pairs
    <3>3. (a - 1) + 1 = a /\ (b - 1) + 1 = b
      OBVIOUS
    <3> HIDE DEF l
    <3> QED
      BY <2>1, <3>1, <3>2, <3>3
  <2>5. (x + 1) + 1 \in 1..l * l + 1
    BY <1>1, <2>3
  <2> HIDE DEF all, l
  <2> QED
    BY <1>4, <2>3, <2>4, <2>5
<1>6. SlotPairs(s) = all
  BY DEF SlotPairs, pairs
<1>7. first[1] = <<layout.class, layout.cache>>
  OBVIOUS
<1> HIDE DEF all, first
<1>8. DOMAIN SlotPairs(s) = 1..l * l + 1
  BY <1>4, <1>6
<1>9. ASSUME NEW a \in DOMAIN s, NEW b \in DOMAIN s
      PROVE  \E n \in DOMAIN SlotPairs(s) : SlotPairs(s)[n] = <<s[a], s[b]>>
  <2>1. a \in 1..l /\ b \in 1..l
    BY <1>1, <1>9
  <2>2. PICK n \in 1..l * l + 1 : all[n] = <<s[a], s[b]>>
    BY <1>5, <2>1
  <2> QED
    BY <1>6, <1>8, <2>2
<1>10. SlotPairs(s)[1] = <<layout.class, layout.cache>>
  BY <1>4, <1>6, <1>7
<1> QED
  BY <1>8, <1>9, <1>10

(* The setup is one that ArtInit allows. *)
SetupType ==
  /\ layout \in Layouts /\ actual \in Layouts /\ strays \subseteq Words
  /\ \A w \in strays, f \in Fields : w[1] # f[1] \/ w[2] # f[2]
  /\ hasCode \subseteq Methods /\ intact \subseteq Methods
  /\ config \in [fallback : BOOLEAN, debug : BOOLEAN]

LEMMA FieldsOf ==
  ASSUME NEW m \in Methods
  PROVE  /\ <<Class(m), actual.class, Cache(m)>> \in Fields
         /\ <<Cache(m), actual.cache, File(m)>> \in Fields
         /\ <<File(m), actual.begin, Dex(m)>> \in Fields
BY DEF Fields, Chain

LEMMA ChainsApart ==
  ASSUME NEW f \in Fields, NEW g \in Fields, f[1] = g[1]
  PROVE  f = g /\ f[3] \in Objects
<1>1. PICK m \in Methods : f \in Chain(m)
  BY DEF Fields
<1>2. PICK o \in Methods : g \in Chain(o)
  BY DEF Fields
<1>3. /\ Class(m) # Cache(o) /\ Class(m) # File(o) /\ Cache(m) # Class(o)
      /\ Cache(m) # File(o) /\ File(m) # Class(o) /\ File(m) # Cache(o)
  BY DEF Class, Cache, File
<1>4. (Class(m) = Class(o) \/ Cache(m) = Cache(o) \/ File(m) = File(o)) => m = o
  BY DEF Class, Cache, File
<1>5. Cache(m) \in Objects /\ File(m) \in Objects /\ Dex(m) \in Objects
  BY DEF Objects
<1> QED
  BY <1>1, <1>2, <1>3, <1>4, <1>5 DEF Chain

(* What a word gives: a field its object, any other word an object or null. *)
LEMMA WordType ==
  ASSUME SetupType, NEW o, NEW s
  PROVE  Word(o, s) \in Objects \cup {Null}
<1> DEFINE W == {w \in Fields \cup strays : w[1] = o /\ w[2] = s}
<1>1. \A w \in W : w[3] \in Objects
  BY ChainsApart, ArtAssumption DEF SetupType
<1>2. CASE W = {}
  BY <1>2 DEF Word
<1>3. CASE W # {}
  <2> DEFINE w == CHOOSE x \in W : TRUE
  <2>1. w \in W
    BY <1>3
  <2>2. Word(o, s) = w[3]
    BY <1>3 DEF Word
  <2> HIDE DEF w, W
  <2> QED
    BY <1>1, <2>1, <2>2
<1> QED
  BY <1>2, <1>3

LEMMA FieldWord ==
  ASSUME SetupType, NEW f \in Fields
  PROVE  Word(f[1], f[2]) = f[3]
<1> DEFINE W == {w \in Fields \cup strays : w[1] = f[1] /\ w[2] = f[2]}
<1>1. f \in W /\ \A w \in W : w = f
  BY ChainsApart DEF SetupType
<1>2. W = {f}
  BY <1>1
<1>3. (CHOOSE w \in W : TRUE) = f
  BY <1>2
<1> QED
  BY <1>2, <1>3 DEF Word

LEMMA OwnWords ==
  ASSUME SetupType, NEW m \in Methods
  PROVE  /\ Word(Class(m), actual.class) = Cache(m)
         /\ Word(Cache(m), actual.cache) = File(m)
         /\ Word(File(m), actual.begin) = Dex(m)
BY FieldsOf, FieldWord

(* read_valid_dex_begin tries the configured offset, then the fixed ones. *)
LEMMA BeginReads ==
  ASSUME SetupType, NEW f,
         NEW reads, reads = [n \in DOMAIN (<<layout.begin>> \o BeginSlots) |->
           IF LooksLikeDex(Word(f, (<<layout.begin>> \o BeginSlots)[n]))
           THEN Word(f, (<<layout.begin>> \o BeginSlots)[n]) ELSE NoDex]
  PROVE  /\ ReadValidBegin(f) = FirstDex(reads)
         /\ DOMAIN reads = 1..(Len(BeginSlots) + 1)
         /\ reads[1] = IF LooksLikeDex(Word(f, layout.begin)) THEN Word(f, layout.begin) ELSE NoDex
         /\ \A n \in DOMAIN BeginSlots :
              reads[n + 1] = IF LooksLikeDex(Word(f, BeginSlots[n])) THEN Word(f, BeginSlots[n])
                             ELSE NoDex
         /\ \A n \in DOMAIN reads : reads[n] \in Objects \cup {Null}
<1> DEFINE slots == <<layout.begin>> \o BeginSlots
<1>1. BeginSlots \in Seq(Slots) /\ Len(<<layout.begin>>) = 1 /\ Len(BeginSlots) \in Nat
  BY ArtAssumption
<1>2. /\ DOMAIN slots = 1..(Len(BeginSlots) + 1) /\ slots[1] = layout.begin
      /\ \A n \in DOMAIN BeginSlots : slots[n + 1] = BeginSlots[n]
  <2>1. slots = [n \in 1..Len(<<layout.begin>>) + Len(BeginSlots) |->
                  IF n <= Len(<<layout.begin>>) THEN <<layout.begin>>[n]
                  ELSE BeginSlots[n - Len(<<layout.begin>>)]]
    OBVIOUS
  <2>2. slots = [n \in 1..(Len(BeginSlots) + 1) |->
                  IF n <= 1 THEN layout.begin ELSE BeginSlots[n - 1]]
    BY <1>1, <2>1
  <2>3. DOMAIN BeginSlots = 1..Len(BeginSlots)
    BY <1>1
  <2> HIDE DEF slots
  <2> QED
    BY <1>1, <2>2, <2>3
<1>3. ReadValidBegin(f) = FirstDex(reads)
  BY DEF ReadValidBegin
<1> HIDE DEF slots
<1>4. \A n \in DOMAIN slots :
        reads[n] = IF LooksLikeDex(Word(f, slots[n])) THEN Word(f, slots[n]) ELSE NoDex
  BY DEF slots
<1>5. DOMAIN reads = DOMAIN slots
  BY DEF slots
<1>6. \A n \in DOMAIN BeginSlots : n + 1 \in 1..(Len(BeginSlots) + 1)
  BY <1>1
<1>7. \A n \in DOMAIN reads : reads[n] \in Objects \cup {Null}
  BY <1>4, <1>5, WordType DEF NoDex
<1>8. ASSUME NEW n \in DOMAIN BeginSlots
      PROVE  reads[n + 1] = IF LooksLikeDex(Word(f, BeginSlots[n])) THEN Word(f, BeginSlots[n])
                            ELSE NoDex
  <2>1. n + 1 \in DOMAIN slots /\ slots[n + 1] = BeginSlots[n]
    BY <1>2, <1>6
  <2> QED
    BY <1>4, <2>1
<1>9. reads[1] = IF LooksLikeDex(Word(f, layout.begin)) THEN Word(f, layout.begin) ELSE NoDex
  <2>1. 1 \in DOMAIN slots
    BY <1>1, <1>2
  <2> QED
    BY <1>2, <1>4, <2>1
<1>10. DOMAIN reads = 1..(Len(BeginSlots) + 1)
  BY <1>2, <1>5
<1> HIDE DEF slots
<1> QED
  BY <1>3, <1>7, <1>8, <1>9, <1>10

LEMMA BeginFound ==
  ASSUME SetupType, NEW f
  PROVE  /\ ReadValidBegin(f) \in Objects \cup {Null}
         /\ LooksLikeDex(Word(f, layout.begin)) => ReadValidBegin(f) = Word(f, layout.begin)
         /\ \A n \in DOMAIN BeginSlots :
              LooksLikeDex(Word(f, BeginSlots[n])) => ReadValidBegin(f) # NoDex
<1> DEFINE slots == <<layout.begin>> \o BeginSlots
           reads == [n \in DOMAIN slots |-> IF LooksLikeDex(Word(f, slots[n]))
                                            THEN Word(f, slots[n]) ELSE NoDex]
<1>1. /\ ReadValidBegin(f) = FirstDex(reads)
      /\ DOMAIN reads = 1..(Len(BeginSlots) + 1)
      /\ reads[1] = IF LooksLikeDex(Word(f, layout.begin)) THEN Word(f, layout.begin) ELSE NoDex
      /\ \A n \in DOMAIN BeginSlots :
           reads[n + 1] = IF LooksLikeDex(Word(f, BeginSlots[n])) THEN Word(f, BeginSlots[n])
                          ELSE NoDex
      /\ \A n \in DOMAIN reads : reads[n] \in Objects \cup {Null}
  BY BeginReads
<1> HIDE DEF reads
<1>2. ASSUME NEW x, LooksLikeDex(x)
      PROVE  x # NoDex
  BY <1>2 DEF LooksLikeDex, Dex, NoDex, Null
<1>3. DOMAIN reads \subseteq Nat /\ 1 \in DOMAIN reads
      /\ \A n \in DOMAIN BeginSlots : n + 1 \in DOMAIN reads
  BY <1>1, ArtAssumption
<1>4. CASE FirstDex(reads) = NoDex /\ \A n \in DOMAIN reads : reads[n] = NoDex
  <2>1. ~LooksLikeDex(Word(f, layout.begin))
    BY <1>1, <1>2, <1>3, <1>4
  <2>2. ASSUME NEW n \in DOMAIN BeginSlots
        PROVE  ~LooksLikeDex(Word(f, BeginSlots[n]))
    BY <1>1, <1>2, <1>3, <1>4
  <2> QED
    BY <1>1, <1>4, <2>1, <2>2 DEF NoDex
<1>5. ASSUME NEW n \in DOMAIN reads, reads[n] # NoDex, FirstDex(reads) = reads[n],
             \A k \in DOMAIN reads : reads[k] # NoDex => n <= k
      PROVE  /\ ReadValidBegin(f) \in Objects \cup {Null} /\ ReadValidBegin(f) # NoDex
             /\ LooksLikeDex(Word(f, layout.begin)) => ReadValidBegin(f) = Word(f, layout.begin)
  <2>1. ASSUME LooksLikeDex(Word(f, layout.begin))
        PROVE  n = 1
    <3>1. reads[1] # NoDex
      BY <1>1, <1>2, <2>1
    <3> QED
      BY <1>1, <1>3, <1>5, <3>1
  <2> QED
    BY <1>1, <1>5, <2>1
<1> QED
  BY <1>3, <1>4, <1>5, FirstDexIs

(* The file of an intact method's chain gives that method's DEX, or at least *)
(* one, when its begin_ is where it is looked for.                           *)
LEMMA OwnBegin ==
  ASSUME SetupType, NEW m \in intact, Reachable
  PROVE  /\ ReadValidBegin(File(m)) # NoDex
         /\ layout.begin = actual.begin => ReadValidBegin(File(m)) = Dex(m)
<1>1. Word(File(m), actual.begin) = Dex(m)
  BY OwnWords DEF SetupType
<1>2. LooksLikeDex(Dex(m)) /\ Dex(m) # NoDex
  BY DEF LooksLikeDex, Dex, NoDex, Null
<1> QED
  BY <1>1, <1>2, BeginFound DEF Reachable

LEMMA OwnRead ==
  ASSUME SetupType, NEW m \in Methods, NEW slots, slots[1] = actual.class, slots[2] = actual.cache
  PROVE  ReadDex(m, slots) = ReadValidBegin(File(m))
<1>1. Cache(m) # Null /\ File(m) # Null
  BY DEF Cache, File, Null
<1> QED
  BY <1>1, OwnWords DEF ReadDex

LEMMA PairsRead ==
  ASSUME SetupType, NEW m, NEW reads, reads = ReadAll(m, SlotPairs(Search))
  PROVE  /\ Resolve(m) = FirstDex(reads)
         /\ DOMAIN reads \subseteq Nat /\ 1 \in DOMAIN reads /\ \A n \in DOMAIN reads : 1 <= n
         /\ reads[1] = ReadDex(m, <<layout.class, layout.cache>>)
         /\ \A a, b \in DOMAIN Search :
              \E n \in DOMAIN reads : reads[n] = ReadDex(m, <<Search[a], Search[b]>>)
         /\ \A n \in DOMAIN reads : reads[n] \in Objects \cup {Null}
<1> DEFINE pairs == SlotPairs(Search)
<1>1. Search \in Seq(Slots) /\ Len(Search) \in Nat /\ Len(Search) * Len(Search) \in Nat
  BY ArtAssumption
<1>2. /\ DOMAIN pairs = 1..(Len(Search) * Len(Search) + 1)
      /\ pairs[1] = <<layout.class, layout.cache>>
      /\ \A a, b \in DOMAIN Search : \E n \in DOMAIN pairs : pairs[n] = <<Search[a], Search[b]>>
  BY <1>1, PairsTried
<1>3. Resolve(m) = FirstDex(reads)
  BY DEF Resolve
<1> HIDE DEF pairs
<1>4. DOMAIN reads = DOMAIN pairs /\ \A n \in DOMAIN pairs : reads[n] = ReadDex(m, pairs[n])
  BY DEF ReadAll, pairs
<1>5. \A n \in DOMAIN pairs : ReadDex(m, pairs[n]) \in Objects \cup {Null}
  BY BeginFound DEF ReadDex, NoDex
<1>6. DOMAIN reads \subseteq Nat /\ 1 \in DOMAIN reads /\ \A n \in DOMAIN reads : 1 <= n
  BY <1>1, <1>2, <1>4
<1>7. ASSUME NEW a \in DOMAIN Search, NEW b \in DOMAIN Search
      PROVE  \E n \in DOMAIN reads : reads[n] = ReadDex(m, <<Search[a], Search[b]>>)
  <2>1. PICK n \in DOMAIN pairs : pairs[n] = <<Search[a], Search[b]>>
    BY <1>2
  <2> QED
    BY <1>4, <2>1
<1> QED
  BY <1>2, <1>3, <1>4, <1>5, <1>6, <1>7

LEMMA ResolveType ==
  ASSUME SetupType, NEW m
  PROVE  Resolve(m) \in Objects \cup {Null}
<1> DEFINE reads == ReadAll(m, SlotPairs(Search))
<1>1. /\ Resolve(m) = FirstDex(reads) /\ DOMAIN reads \subseteq Nat
      /\ \A n \in DOMAIN reads : reads[n] \in Objects \cup {Null}
  BY PairsRead
<1> HIDE DEF reads
<1> QED
  BY <1>1, FirstDexIs DEF NoDex

(* resolve_dex_from_art_method with the layout of this ART. *)
LEMMA ResolveOwn ==
  ASSUME SetupType, layout = actual, NEW m \in intact
  PROVE  Resolve(m) = Dex(m)
<1> DEFINE reads == ReadAll(m, SlotPairs(Search))
<1>1. /\ Resolve(m) = FirstDex(reads)
      /\ DOMAIN reads \subseteq Nat /\ 1 \in DOMAIN reads /\ \A n \in DOMAIN reads : 1 <= n
      /\ reads[1] = ReadDex(m, <<layout.class, layout.cache>>)
  BY PairsRead
<1>2. m \in Methods /\ Reachable
  BY DEF SetupType, Reachable
<1>3. reads[1] = ReadValidBegin(File(m))
  BY <1>1, <1>2, OwnRead
<1>4. reads[1] = Dex(m) /\ reads[1] # NoDex
  BY <1>2, <1>3, OwnBegin DEF SetupType, Dex, NoDex, Null
<1> HIDE DEF reads
<1>5. PICK n \in DOMAIN reads : FirstDex(reads) = reads[n] /\ n <= 1
  BY <1>1, <1>4, FirstDexIs
<1>6. n = 1
  BY <1>1, <1>5
<1> QED
  BY <1>1, <1>4, <1>5, <1>6

(* resolve_dex_from_art_method with a layout the search can reach. *)
LEMMA ResolveReachable ==
  ASSUME SetupType, Reachable, NEW m \in intact
  PROVE  Resolve(m) # NoDex
<1> DEFINE reads == ReadAll(m, SlotPairs(Search))
<1>1. m \in Methods
  BY DEF SetupType
<1>2. /\ Resolve(m) = FirstDex(reads) /\ DOMAIN reads \subseteq Nat /\ 1 \in DOMAIN reads
      /\ reads[1] = ReadDex(m, <<layout.class, layout.cache>>)
      /\ \A a, b \in DOMAIN Search :
           \E n \in DOMAIN reads : reads[n] = ReadDex(m, <<Search[a], Search[b]>>)
  BY PairsRead
<1> HIDE DEF reads
<1>3. \E n \in DOMAIN reads : reads[n] = ReadValidBegin(File(m))
  <2>1. CASE layout.class = actual.class /\ layout.cache = actual.cache
    BY <1>1, <1>2, <2>1, OwnRead
  <2>2. CASE \A s \in {actual.class, actual.cache} : \E n \in DOMAIN Search : Search[n] = s
    <3>1. PICK a \in DOMAIN Search, b \in DOMAIN Search :
            Search[a] = actual.class /\ Search[b] = actual.cache
      BY <2>2
    <3>2. ReadDex(m, <<Search[a], Search[b]>>) = ReadValidBegin(File(m))
      BY <1>1, <3>1, OwnRead
    <3> QED
      BY <1>2, <3>2
  <2> QED
    BY <2>1, <2>2 DEF Reachable
<1>4. ReadValidBegin(File(m)) # NoDex
  BY OwnBegin
<1> QED
  BY <1>2, <1>3, <1>4, FirstDexIs

-----------------------------------------------------------------------------

(* An event of a code item carries no DEX, and is of a chain that failed. *)
ArtEvents ==
  {e \in [m : Methods, code : BOOLEAN, begin : Objects \cup {Null},
          source : {"code_item", "art_chain"}, reason : {"none", "chain", "code_item"}] :
     e.code => e.begin = NoDex /\ e.source = "code_item" /\ e.reason = "chain"}

QueueType == layout_debug_events \in Seq(ArtEvents)

(* Without the fallback no code item waits. *)
NoneWaits ==
  ~config.fallback =>
    /\ searched = {}
    /\ \A n \in DOMAIN layout_debug_events : ~layout_debug_events[n].code

(* What layout_events_seen holds once m's code item was searched around. *)
CodeSeen(m) == <<[of |-> "code", m |-> m], "chain", "code_item">>

Searched(m) == \E s \in searched : s.m = m

(* A code item that was seen was searched for, and the other way round. *)
SeenSearched ==
  /\ \A x \in seen : \A m \in Methods : x[1] = [of |-> "code", m |-> m] => Searched(m)
  /\ \A s \in searched : CodeSeen(s.m) \in seen

SearchedOnce == \A s, u \in searched : s.m = u.m => s = u

(* The stop is never taken back. *)
DroppedAtStop == dropped # {} => stopping

Waits(m) == \E n \in DOMAIN layout_debug_events :
              layout_debug_events[n].m = m /\ layout_debug_events[n].code

MissedSearched ==
  config.fallback =>
    \A e \in missed : e.m \in hasCode =>
      Searched(e.m) \/ e.m \in lost \cup dropped \/ Waits(e.m)

ArtInv ==
  /\ SetupType /\ QueueType /\ NoneWaits /\ SeenSearched /\ MissedSearched
  /\ SearchedOnce /\ DroppedAtStop /\ OwnDexFirst /\ ReachableResolved

LEMMA ArtInitInv == ArtInit => ArtInv
BY DEF ArtInit, ArtInv, SetupType, QueueType, NoneWaits, SeenSearched, MissedSearched,
       SearchedOnce, DroppedAtStop, OwnDexFirst, ReachableResolved

LEMMA ArtStutter == ArtInv /\ UNCHANGED artVars => ArtInv'
BY DEF ArtInv, SetupType, Fields, Chain, QueueType, NoneWaits, SeenSearched, MissedSearched,
       Waits, Searched, SearchedOnce, DroppedAtStop, OwnDexFirst, ReachableResolved,
       Reachable, artVars, setup

LEMMA FlipInv ==
  ASSUME ArtInv, NEW m \in Methods, Flip(m)
  PROVE  ArtInv'
BY DEF Flip, ArtInv, SetupType, Fields, Chain, QueueType, NoneWaits, SeenSearched,
       MissedSearched, Waits, Searched, SearchedOnce, DroppedAtStop, OwnDexFirst,
       ReachableResolved, Reachable, setup

LEMMA StopInv ==
  ASSUME ArtInv, Stop
  PROVE  ArtInv'
BY DEF Stop, ArtInv, SetupType, Fields, Chain, QueueType, NoneWaits, SeenSearched,
       MissedSearched, Waits, Searched, SearchedOnce, DroppedAtStop, OwnDexFirst,
       ReachableResolved, Reachable, setup

(* What submit_layout_debug_event does to the ring. *)
LEMMA SubmitEffect ==
  ASSUME QueueType, NEW e \in ArtEvents, Submit(e)
  PROVE  /\ QueueType'
         /\ lost \subseteq lost'
         /\ \A n \in DOMAIN layout_debug_events :
              /\ n \in DOMAIN layout_debug_events'
              /\ layout_debug_events'[n] = layout_debug_events[n]
         /\ \A n \in DOMAIN layout_debug_events' :
              n \in DOMAIN layout_debug_events \/ (layout_debug_events'[n] = e /\ Submits(e))
         /\ Submits(e) => e.m \in lost' \/ \E n \in DOMAIN layout_debug_events' :
                                             layout_debug_events'[n] = e
<1> DEFINE q == layout_debug_events
<1>1. CASE UNCHANGED q /\ lost \subseteq lost' /\ (Submits(e) => e.m \in lost')
  BY <1>1 DEF QueueType
<1>2. CASE Submits(e) /\ q' = Append(q, e) /\ lost' = lost
  <2>1. q \in Seq(ArtEvents) /\ DOMAIN q = 1..Len(q) /\ Len(q) \in Nat
    BY DEF QueueType
  <2>2. /\ q' \in Seq(ArtEvents) /\ DOMAIN q' = 1..(Len(q) + 1)
        /\ q'[Len(q) + 1] = e /\ \A n \in 1..Len(q) : q'[n] = q[n]
    BY <1>2, <2>1
  <2> HIDE DEF q
  <2>3. Len(q) + 1 \in DOMAIN q' /\ \A n \in DOMAIN q' : n \in DOMAIN q \/ n = Len(q) + 1
    BY <2>1, <2>2
  <2>4. \A n \in DOMAIN q : n \in DOMAIN q'
    BY <2>1, <2>2
  <2> QED
    BY <1>2, <2>1, <2>2, <2>3, <2>4 DEF QueueType, q
<1> QED
  BY <1>1, <1>2 DEF Submit

(* An entry of m: the event it may send, and what the history keeps of it. *)
LEMMA EntryEffect ==
  ASSUME SetupType, NEW m \in Methods, HandleArtMethod(m)
  PROVE  \E e \in ArtEvents :
           /\ Submit(e) /\ e.m = m
           /\ \/ /\ Resolve(m) = NoDex /\ announced' = announced
                 /\ missed' = missed \cup {[m |-> m, intact |-> m \in intact]}
                 /\ e.source = "code_item" /\ e.reason # "none" /\ (m \in hasCode <=> e.code)
              \/ /\ Resolve(m) # NoDex /\ missed' = missed /\ ~e.code
                 /\ announced' = announced \cup {[m |-> m, dex |-> Resolve(m), intact |-> m \in intact]}
<1>1. CASE Resolve(m) = NoDex
  <2> DEFINE e == [m |-> m, code |-> m \in hasCode, begin |-> NoDex, source |-> "code_item",
                   reason |-> IF m \in hasCode THEN "chain" ELSE "code_item"]
  <2>1. e \in ArtEvents
    <3>1. CASE m \in hasCode
      <4>1. e = [m |-> m, code |-> TRUE, begin |-> NoDex, source |-> "code_item", reason |-> "chain"]
        BY <3>1
      <4> QED
        BY <4>1 DEF ArtEvents, NoDex
    <3>2. CASE m \notin hasCode
      <4>1. e = [m |-> m, code |-> FALSE, begin |-> NoDex, source |-> "code_item",
                 reason |-> "code_item"]
        <5>1. (m \in hasCode) = FALSE
          BY <3>2
        <5> QED
          BY <5>1, Zenon
      <4> QED
        BY <4>1 DEF ArtEvents, NoDex
    <3> QED
      BY <3>1, <3>2
  <2>2. Submit(e) /\ missed' = missed \cup {[m |-> m, intact |-> m \in intact]} /\ announced' = announced
    BY <1>1 DEF HandleArtMethod
  <2>3. e.m = m /\ e.source = "code_item" /\ e.reason # "none" /\ (m \in hasCode <=> e.code)
    OBVIOUS
  <2> HIDE DEF e
  <2> QED
    BY <1>1, <2>1, <2>2, <2>3
<1>2. CASE Resolve(m) # NoDex
  <2> DEFINE e == [m |-> m, code |-> FALSE, begin |-> Resolve(m), source |-> "art_chain", reason |-> "none"]
  <2>1. e \in ArtEvents
    BY ResolveType DEF ArtEvents
  <2>2. /\ Submit(e) /\ missed' = missed
        /\ announced' = announced \cup {[m |-> m, dex |-> Resolve(m), intact |-> m \in intact]}
    BY <1>2 DEF HandleArtMethod
  <2>3. e.m = m /\ ~e.code
    OBVIOUS
  <2> HIDE DEF e
  <2> QED
    BY <1>2, <2>1, <2>2, <2>3
<1> QED
  BY <1>1, <1>2

LEMMA EntryInv ==
  ASSUME ArtInv, NEW m \in Methods, HandleArtMethod(m)
  PROVE  ArtInv'
<1> PICK e \in ArtEvents :
      /\ Submit(e) /\ e.m = m
      /\ \/ /\ Resolve(m) = NoDex /\ announced' = announced
            /\ missed' = missed \cup {[m |-> m, intact |-> m \in intact]}
            /\ e.source = "code_item" /\ e.reason # "none" /\ (m \in hasCode <=> e.code)
         \/ /\ Resolve(m) # NoDex /\ missed' = missed /\ ~e.code
            /\ announced' = announced \cup {[m |-> m, dex |-> Resolve(m), intact |-> m \in intact]}
  BY EntryEffect DEF ArtInv
<1> USE DEF ArtInv
<1>1. UNCHANGED <<layout, actual, strays, hasCode, config, intact, seen, searched, dropped,
                  stopping>>
  BY DEF HandleArtMethod, setup
<1>2. SetupType'
  BY <1>1 DEF SetupType, Fields, Chain
<1>3. /\ QueueType' /\ lost \subseteq lost'
      /\ \A n \in DOMAIN layout_debug_events :
           /\ n \in DOMAIN layout_debug_events'
           /\ layout_debug_events'[n] = layout_debug_events[n]
      /\ \A n \in DOMAIN layout_debug_events' :
           n \in DOMAIN layout_debug_events \/ (layout_debug_events'[n] = e /\ Submits(e))
      /\ Submits(e) => e.m \in lost' \/ \E n \in DOMAIN layout_debug_events' :
                                          layout_debug_events'[n] = e
  BY SubmitEffect
<1>4. NoneWaits'
  <2>1. ~config.fallback /\ Submits(e) => ~e.code
    BY DEF Submits, ArtEvents
  <2> QED
    BY <1>1, <1>3, <2>1 DEF NoneWaits
<1>5. SeenSearched' /\ SearchedOnce' /\ DroppedAtStop'
  BY <1>1 DEF SeenSearched, Searched, SearchedOnce, DroppedAtStop
<1>6. MissedSearched'
  <2> SUFFICES ASSUME config.fallback, NEW x \in missed', x.m \in hasCode
               PROVE  Searched(x.m) \/ x.m \in lost' \cup dropped \/ Waits(x.m)'
    BY <1>1 DEF MissedSearched, Waits, Searched
  <2>1. CASE x \in missed
    BY <1>1, <1>3, <2>1 DEF MissedSearched, Waits
  <2>2. CASE x \notin missed
    <3>1. x.m = m /\ e.reason # "none" /\ e.code
      BY <2>2
    <3>2. Submits(e)
      BY <3>1 DEF Submits
    <3> QED
      BY <1>3, <3>1, <3>2 DEF Waits
  <2> QED
    BY <2>1, <2>2
<1>7. OwnDexFirst'
  <2>1. layout = actual /\ m \in intact => Resolve(m) = Dex(m)
    BY ResolveOwn
  <2> HIDE DEF ArtInv
  <2>2. ASSUME layout = actual, NEW a \in announced', a.intact
        PROVE  a.dex = Dex(a.m)
    <3>1. CASE a \in announced
      BY <2>2, <3>1 DEF OwnDexFirst, ArtInv
    <3>2. CASE a \notin announced
      <4>1. a = [m |-> m, dex |-> Resolve(m), intact |-> m \in intact]
        BY <3>2
      <4> QED
        BY <2>1, <2>2, <4>1
    <3> QED
      BY <3>1, <3>2
  <2> QED
    BY <1>1, <2>2 DEF OwnDexFirst
<1>8. ReachableResolved'
  <2>1. Reachable /\ m \in intact => Resolve(m) # NoDex
    BY ResolveReachable
  <2>2. Reachable' <=> Reachable
    BY <1>1 DEF Reachable
  <2>3. ASSUME Reachable, NEW x \in missed'
        PROVE  ~x.intact
    <3>1. CASE x \in missed
      BY <2>3, <3>1 DEF ReachableResolved
    <3>2. CASE x \notin missed
      <4>1. Resolve(m) = NoDex /\ x.intact = (m \in intact)
        BY <3>2
      <4> QED
        BY <2>1, <2>3, <4>1
    <3> QED
      BY <3>1, <3>2
  <2> QED
    BY <2>2, <2>3 DEF ReachableResolved
<1> QED
  BY <1>2, <1>3, <1>4, <1>5, <1>6, <1>7, <1>8

(* What is left of the ring without its first record. *)
LEMMA TailKeeps ==
  ASSUME QueueType, layout_debug_events # <<>>, layout_debug_events' = Tail(layout_debug_events)
  PROVE  /\ QueueType' /\ Head(layout_debug_events) \in ArtEvents
         /\ 1 \in DOMAIN layout_debug_events
         /\ layout_debug_events[1] = Head(layout_debug_events)
         /\ \A n \in DOMAIN layout_debug_events' :
              /\ n + 1 \in DOMAIN layout_debug_events
              /\ layout_debug_events'[n] = layout_debug_events[n + 1]
         /\ \A n \in DOMAIN layout_debug_events :
              \/ n = 1
              \/ /\ n - 1 \in DOMAIN layout_debug_events'
                 /\ layout_debug_events'[n - 1] = layout_debug_events[n]
<1> DEFINE q == layout_debug_events
<1>1. q \in Seq(ArtEvents) /\ q # <<>>
  BY DEF QueueType
<1>2. /\ Len(q) \in Nat \ {0} /\ DOMAIN q = 1..Len(q) /\ Tail(q) \in Seq(ArtEvents)
      /\ DOMAIN Tail(q) = 1..(Len(q) - 1) /\ \A n \in 1..(Len(q) - 1) : Tail(q)[n] = q[n + 1]
      /\ Head(q) = q[1] /\ q[1] \in ArtEvents
  BY <1>1
<1> QED
  BY <1>1, <1>2 DEF QueueType

LEMMA DropInv ==
  ASSUME ArtInv, DropLayoutEvent
  PROVE  ArtInv'
<1> DEFINE q == layout_debug_events
           e == Head(q)
<1> USE DEF ArtInv
<1>1. /\ UNCHANGED <<layout, actual, strays, hasCode, config, intact, announced, missed, lost,
                     seen, searched, stopping>>
      /\ q # <<>> /\ q' = Tail(q) /\ stopping /\ dropped' = dropped \cup {e.m}
  BY DEF DropLayoutEvent, setup
<1>2. /\ SetupType' /\ OwnDexFirst' /\ ReachableResolved' /\ SeenSearched' /\ SearchedOnce'
      /\ DroppedAtStop'
  BY <1>1 DEF SetupType, Fields, Chain, OwnDexFirst, ReachableResolved, Reachable, SeenSearched,
              Searched, SearchedOnce, DroppedAtStop
<1>3. /\ QueueType' /\ q[1] = e
      /\ \A n \in DOMAIN q' : n + 1 \in DOMAIN q /\ q'[n] = q[n + 1]
      /\ \A n \in DOMAIN q : n = 1 \/ (n - 1 \in DOMAIN q' /\ q'[n - 1] = q[n])
  BY <1>1, TailKeeps
<1> HIDE DEF q, e
<1>4. NoneWaits'
  BY <1>1, <1>3 DEF NoneWaits, q
<1>5. MissedSearched'
  <2> SUFFICES ASSUME config.fallback, NEW x \in missed, x.m \in hasCode
               PROVE  Searched(x.m) \/ x.m \in lost \cup dropped' \/ Waits(x.m)'
    BY <1>1 DEF MissedSearched, Waits, Searched
  <2>1. ASSUME NEW n \in DOMAIN q, q[n].m = x.m, q[n].code
        PROVE  x.m \in dropped' \/ Waits(x.m)'
    <3>1. CASE n = 1
      BY <1>1, <1>3, <2>1, <3>1
    <3>2. CASE n # 1
      BY <1>3, <2>1, <3>2 DEF Waits, q
    <3> QED
      BY <3>1, <3>2
  <2> QED
    BY <1>1, <2>1 DEF MissedSearched, Waits, q
<1> QED
  BY <1>2, <1>3, <1>4, <1>5

LEMMA EventInv ==
  ASSUME ArtInv, HandleLayoutEvent
  PROVE  ArtInv'
<1> DEFINE q == layout_debug_events
           e == Head(q)
           scanned == e.code /\ Identity(e) \notin seen
<1> USE DEF ArtInv
<1>1. /\ UNCHANGED <<layout, actual, strays, hasCode, config, intact, announced, missed, lost,
                     dropped, stopping>>
      /\ q # <<>> /\ q' = Tail(q) /\ seen' = seen \cup {Identity(e)}
      /\ scanned => \E o : searched' = searched \cup {[m |-> e.m, outcome |-> o]}
      /\ ~scanned => searched' = searched
  BY DEF HandleLayoutEvent, setup
<1>2. SetupType' /\ OwnDexFirst' /\ ReachableResolved' /\ DroppedAtStop'
  <2>1. SetupType'
    BY <1>1 DEF SetupType, Fields, Chain
  <2>2. OwnDexFirst'
    BY <1>1 DEF OwnDexFirst
  <2>3. ReachableResolved'
    <3>1. Reachable' <=> Reachable
      BY <1>1 DEF Reachable
    <3> QED
      BY <1>1, <3>1 DEF ReachableResolved
  <2>4. DroppedAtStop'
    BY <1>1 DEF DroppedAtStop
  <2> QED
    BY <2>1, <2>2, <2>3, <2>4
<1>3. /\ QueueType' /\ e \in ArtEvents /\ 1 \in DOMAIN q /\ q[1] = e
      /\ \A n \in DOMAIN q' : n + 1 \in DOMAIN q /\ q'[n] = q[n + 1]
      /\ \A n \in DOMAIN q : n = 1 \/ (n - 1 \in DOMAIN q' /\ q'[n - 1] = q[n])
  BY <1>1, TailKeeps
<1> HIDE DEF q, e
<1>4. NoneWaits'
  <2>1. config' = config /\ NoneWaits
    BY <1>1
  <2>2. CASE config.fallback
    BY <2>1, <2>2 DEF NoneWaits
  <2>3. CASE ~config.fallback
    <3>1. searched = {} /\ \A n \in DOMAIN q : ~q[n].code
      BY <2>1, <2>3 DEF NoneWaits, q
    <3>2. ~e.code
      BY <1>3, <3>1
    <3>3. searched' = {}
      BY <1>1, <3>1, <3>2
    <3>4. \A n \in DOMAIN q' : ~q'[n].code
      BY <1>3, <3>1
    <3> QED
      BY <3>3, <3>4 DEF NoneWaits, q
  <2> QED
    BY <2>2, <2>3
<1>5. e.m \in Methods
  BY <1>3 DEF ArtEvents
<1>6. ASSUME e.code PROVE Identity(e) = CodeSeen(e.m)
  BY <1>3, <1>6 DEF Identity, ArtEvents, CodeSeen
<1>7. \A m : Searched(m) => Searched(m)'
  BY <1>1 DEF Searched
<1>8. ASSUME NEW m, m = e.m, e.code PROVE Searched(m)'
  <2>1. CASE Identity(e) \notin seen
    <3>1. PICK o : searched' = searched \cup {[m |-> e.m, outcome |-> o]}
      BY <1>1, <1>8, <2>1
    <3> DEFINE s == [m |-> e.m, outcome |-> o]
    <3>2. s \in searched' /\ s.m = m
      BY <1>8, <3>1
    <3> HIDE DEF s
    <3> QED
      BY <3>2 DEF Searched
  <2>2. CASE Identity(e) \in seen
    <3>1. Identity(e)[1] = [of |-> "code", m |-> m]
      <4>1. Identity(e) = CodeSeen(m)
        BY <1>6, <1>8
      <4>2. CodeSeen(m)[1] = [of |-> "code", m |-> m]
        BY DEF CodeSeen
      <4> QED
        BY <4>1, <4>2
    <3>2. Searched(m)
      BY <1>5, <1>8, <2>2, <3>1 DEF SeenSearched
    <3> QED
      BY <1>7, <3>2
  <2> QED
    BY <2>1, <2>2
<1>9. SeenSearched'
  <2>1. ASSUME NEW x \in seen', NEW m \in Methods, x[1] = [of |-> "code", m |-> m]
        PROVE  Searched(m)'
    <3>1. CASE x \in seen
      BY <1>7, <2>1, <3>1 DEF SeenSearched
    <3>2. CASE x = Identity(e)
      <4>1. x[1] = IF e.begin # NoDex THEN e.begin
                   ELSE [of |-> IF e.code THEN "code" ELSE "method", m |-> e.m]
        BY <3>2 DEF Identity
      <4>2. [of |-> "code", m |-> m] \notin Objects
        <5>1. ASSUME NEW o \in Objects PROVE o.of # "code"
          <6>1. PICK y \in Methods : o \in {Class(y), Cache(y), File(y), Dex(y)}
            BY DEF Objects
          <6> QED
            BY <6>1 DEF Class, Cache, File, Dex
        <5>2. [of |-> "code", m |-> m].of = "code"
          OBVIOUS
        <5> QED
          BY <5>1, <5>2
      <4>3. e.begin = NoDex
        BY <1>3, <2>1, <4>1, <4>2 DEF ArtEvents, NoDex
      <4>4. [of |-> IF e.code THEN "code" ELSE "method", m |-> e.m] = [of |-> "code", m |-> m]
        BY <2>1, <4>1, <4>3
      <4>5. (IF e.code THEN "code" ELSE "method") = "code" /\ e.m = m
        BY <4>4
      <4> QED
        BY <1>8, <4>5
    <3> QED
      BY <1>1, <3>1, <3>2
  <2>2. ASSUME NEW s \in searched' PROVE CodeSeen(s.m) \in seen'
    <3>1. CASE s \in searched
      BY <1>1, <3>1 DEF SeenSearched
    <3>2. CASE scanned /\ s.m = e.m
      BY <1>1, <1>6, <3>2
    <3> QED
      BY <1>1, <3>1, <3>2
  <2> QED
    BY <2>1, <2>2 DEF SeenSearched, Searched
<1>10. SearchedOnce'
  <2>1. CASE ~scanned
    BY <1>1, <2>1 DEF SearchedOnce
  <2>2. CASE scanned
    <3>1. PICK o : searched' = searched \cup {[m |-> e.m, outcome |-> o]}
      BY <1>1, <2>2
    <3>2. \A s \in searched : s.m # e.m
      BY <1>6, <2>2 DEF SeenSearched
    <3> QED
      BY <3>1, <3>2 DEF SearchedOnce
  <2> QED
    BY <2>1, <2>2
<1>11. MissedSearched'
  <2> SUFFICES ASSUME config.fallback, NEW x \in missed, x.m \in hasCode
               PROVE  Searched(x.m)' \/ x.m \in lost \cup dropped \/ Waits(x.m)'
    BY <1>1 DEF MissedSearched, Waits, Searched
  <2>1. CASE Searched(x.m) \/ x.m \in lost \cup dropped
    BY <1>7, <2>1
  <2>2. ASSUME NEW n \in DOMAIN q, q[n].m = x.m, q[n].code
        PROVE  Searched(x.m)' \/ Waits(x.m)'
    <3>1. CASE n = 1
      BY <1>3, <1>8, <2>2, <3>1
    <3>2. CASE n # 1
      BY <1>3, <2>2, <3>2 DEF Waits, q
    <3> QED
      BY <3>1, <3>2
  <2> QED
    BY <2>1, <2>2 DEF MissedSearched, Waits, q
<1> QED
  BY <1>2, <1>3, <1>4, <1>9, <1>10, <1>11

(* What the probe of a method announced, missed and queued, and what user    *)
(* space searched for, agree in every reachable state.                       *)
THEOREM ArtInvariance == ArtSpec => []ArtInv
<1>1. ArtInv /\ [ArtNext]_artVars => ArtInv'
  BY EntryInv, FlipInv, EventInv, DropInv, StopInv, ArtStutter DEF ArtNext
<1> QED
  BY <1>1, ArtInitInv, PTL DEF ArtSpec

(* resolve_dex_from_art_method tries the configured layout first: when it is *)
(* the true one, no word that points elsewhere makes a method's bytes be     *)
(* taken for another method's DEX.                                           *)
THEOREM OwnFirst == ArtSpec => []OwnDexFirst
<1>1. ArtInv => OwnDexFirst
  BY DEF ArtInv
<1> QED
  BY <1>1, ArtInvariance, PTL

(* Every pair of offsets of the search is tried, and every offset of begin_: *)
(* a layout within reach is found though the configured one is wrong.        *)
THEOREM ReachedResolved == ArtSpec => []ReachableResolved
<1>1. ArtInv => ReachableResolved
  BY DEF ArtInv
<1> QED
  BY <1>1, ArtInvariance, PTL

(* With --no-code-item-fallback no code item is sent, so none is searched    *)
(* around, whether --debug-layout is given or not.                           *)
THEOREM FallbackIsOff == ArtSpec => []FallbackOff
<1>1. ArtInv => FallbackOff
  BY DEF ArtInv, NoneWaits, FallbackOff
<1> QED
  BY <1>1, ArtInvariance, PTL

(* With the fallback, layout_events_seen drops only repeats of a code item   *)
(* that was searched around already, with whatever outcome; the other events *)
(* that go unsearched found no room or came after the stop.                  *)
THEOREM MissedIsSearched == ArtSpec => []FallbackSearches
<1>1. ArtInv => FallbackSearches
  BY DEF ArtInv, MissedSearched, Searched, SearchedOnce, DroppedAtStop, Waits, FallbackSearches
<1> QED
  BY <1>1, ArtInvariance, PTL
=============================================================================
