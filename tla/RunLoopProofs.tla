---------------------------- MODULE RunLoopProofs ----------------------------
(***************************************************************************)
(* Proofs about the drain loop of run(), for every number and order of the *)
(* rings, every batch limit and every ring capacity; and about the watcher *)
(* of dumpso, for any modules, contents and fingerprints.                  *)
(***************************************************************************)
EXTENDS RunLoop, SoWatch, TLAPS

LEMMA OrderFacts ==
  /\ Len(Order) \in Nat \ {0}
  /\ \A n \in 1..Len(Order) : Order[n] \in Rings
  /\ \A r \in Rings : \E n \in 1..Len(Order) : r = Order[n]
BY OrderAssumption DEF Rings

LEMMA ConsumeType ==
  ASSUME TypeOK, NEW r \in Rings, Consume(r)
  PROVE  /\ backlog' \in [Rings -> 0..Capacity] /\ backlog'[r] = backlog[r] - 1
         /\ \A q \in Rings \ {r} : backlog'[q] = backlog[q]
         /\ dropped' \subseteq Gated
<1>1. backlog[r] \in 0..Capacity /\ backlog[r] > 0
  BY DEF TypeOK, Consume
<1>2. backlog[r] - 1 \in 0..Capacity
  BY <1>1, LimitsAssumption
<1> QED
  BY <1>1, <1>2 DEF TypeOK, Consume

(* Type correctness of run()'s loop variables.                               *)
THEOREM TypeCorrect == Spec => []TypeOK
<1>1. Init => TypeOK
  BY OrderFacts, LimitsAssumption DEF Init, TypeOK
<1>2. TypeOK /\ [Next]_vars => TypeOK'
  <2> SUFFICES ASSUME TypeOK, [Next]_vars
               PROVE  TypeOK'
    OBVIOUS
  <2> Order[cur] \in Rings /\ Batch \in Nat \ {0} /\ Capacity \in Nat
    BY OrderFacts, LimitsAssumption DEF TypeOK
  <2>1. CASE Check
    BY <2>1 DEF Check, TypeOK
  <2>2. CASE DrainOne
    BY <2>2, ConsumeType DEF DrainOne, TypeOK
  <2>3. CASE DrainNext
    BY <2>3, OrderFacts DEF DrainNext, TypeOK
  <2>4. CASE Detach
    BY <2>4 DEF Detach, TypeOK
  <2>5. CASE FinalOne
    BY <2>5, ConsumeType DEF FinalOne, TypeOK
  <2>6. CASE FinalNext
    BY <2>6, OrderFacts DEF FinalNext, TypeOK
  <2>7. CASE Finish
    BY <2>7 DEF Finish, Following, TypeOK
  <2>8. CASE Signal
    BY <2>8 DEF Signal, keep_finalizing, TypeOK
  <2>9. ASSUME NEW r \in Rings, Produce(r)
        PROVE  TypeOK'
    <3>1. backlog' \in [Rings -> 0..Capacity]
      BY <2>9 DEF Produce, TypeOK
    <3> QED
      BY <2>9, <3>1 DEF Produce, TypeOK
  <2>10. CASE UNCHANGED vars
    BY <2>10 DEF vars, TypeOK
  <2> QED
    BY <2>1, <2>2, <2>3, <2>4, <2>5, <2>6, <2>7, <2>8, <2>9, <2>10
    DEF Next, MainStep, Exited
<1> QED
  BY <1>1, <1>2, PTL DEF Spec

LEMMA DrainedBehindNext == TypeOK /\ DrainedBehind /\ [Next]_vars => DrainedBehind'
<1> SUFFICES ASSUME TypeOK, DrainedBehind, [Next]_vars
             PROVE  DrainedBehind'
  OBVIOUS
<1> USE DEF DrainedBehind, NormalStopDrains, Finalized, keep_finalizing
<1>1. CASE Check
  BY <1>1 DEF Check
<1>2. CASE DrainOne \/ DrainNext
  BY <1>2 DEF DrainOne, DrainNext
<1>3. CASE Detach
  <2>1. \A n \in 1..cur' - 1 : backlog'[Order[n]] = 0
    BY <1>3 DEF Detach, TypeOK
  <2> QED
    BY <1>3, <2>1 DEF Detach, TypeOK
<1>4. CASE FinalOne
  <2>1. ASSUME NEW n \in 1..cur - 1
        PROVE  Order[n] \in Rings /\ Order[n] # Order[cur]
    <3>1. Len(Order) \in Nat /\ cur \in 1..Len(Order)
      BY OrderFacts DEF TypeOK
    <3>2. n \in 1..Len(Order) /\ n # cur
      BY <3>1
    <3> QED
      BY <3>1, <3>2, OrderFacts, OrderAssumption
  <2>2. Order[cur] \in Rings
    BY OrderFacts DEF TypeOK
  <2> QED
    BY <1>4, <2>1, <2>2, ConsumeType DEF FinalOne
<1>5. CASE FinalNext
  <2>1. CASE cur < Len(Order)
    BY <1>5, <2>1 DEF FinalNext, TypeOK
  <2>2. CASE ~(cur < Len(Order))
    <3>1. cur = Len(Order)
      BY <2>2, OrderFacts DEF TypeOK
    <3>2. keep_finalizing => \A n \in 1..Len(Order) : backlog[Order[n]] = 0
      BY <1>5, <3>1 DEF FinalNext, TypeOK
    <3> QED
      BY <1>5, <2>2, <3>2, OrderFacts DEF FinalNext
  <2> QED
    BY <2>1, <2>2
<1>6. CASE Finish
  BY <1>6 DEF Finish, Following
<1>7. CASE Signal
  BY <1>7 DEF Signal, TypeOK
<1>8. ASSUME NEW r \in Rings, Produce(r)
      PROVE  DrainedBehind'
  BY <1>8 DEF Produce
<1>9. CASE UNCHANGED vars
  BY <1>9 DEF vars
<1> QED
  BY <1>1, <1>2, <1>3, <1>4, <1>5, <1>6, <1>7, <1>8, <1>9 DEF Next, MainStep, Exited

(* Unless a second signal came, no ring holds a record when the captures are *)
(* sealed and written, however the probes raced with the drain before.       *)
THEOREM StopDrains == Spec => []NormalStopDrains
<1>1. Init => DrainedBehind
  BY DEF Init, DrainedBehind, NormalStopDrains, Finalized
<1>2. DrainedBehind => NormalStopDrains
  BY DEF DrainedBehind
<1> QED
  BY <1>1, <1>2, DrainedBehindNext, TypeCorrect, PTL DEF Spec

-----------------------------------------------------------------------------
(* watch_and_dump.                                                           *)

WatchType ==
  /\ memory \in [Keys -> Contents \cup {Gone}]
  /\ mods \subseteq Keys /\ fresh \subseteq Keys /\ steady \subseteq Keys /\ spoilt \subseteq Keys
  /\ at \in {"scan", "look", "dump", "check", "sleep", "done"}
  /\ seen \in [Keys -> [fp : {FP[c] : c \in Contents \cup {Gone}} \cup {None}, dumps : Nat]]
  /\ file \in [Keys -> Contents \cup {None, Damaged}]

(* The lists of a pass are used up before the next step of it.               *)
ListsUsedUp ==
  /\ at # "look" => mods = {}
  /\ at \notin {"look", "dump"} => fresh = {}

(* A key in the map has a fingerprint, and its output is of a content with   *)
(* it, unless the key is still to be dumped or its last capture is spoilt.   *)
SeenCaptured ==
  \A k \in Keys :
    /\ seen[k].dumps = 0 => seen[k].fp = None
    /\ seen[k].dumps # 0 => \/ k \in fresh \cup spoilt
                            \/ file[k] \in Contents /\ FP[file[k]] = seen[k].fp

(* A module that was looked at and did not change since has its present      *)
(* fingerprint in the map, unless it was captured too often already.         *)
LookedAt ==
  at \in {"look", "dump", "check"} =>
    \A k \in steady \ mods : Settled(k) \/ seen[k].fp = FP[memory[k]]

WatchInv == WatchType /\ ListsUsedUp /\ SeenCaptured /\ LookedAt

LEMMA WatchTyped == WatchType /\ [WatchNext]_watchVars => WatchType'
<1> SUFFICES ASSUME WatchType, [WatchNext]_watchVars
             PROVE  WatchType'
  OBVIOUS
<1> USE DEF WatchType
<1>1. ASSUME NEW k \in Keys, NEW c \in Contents \cup {Gone}, Change(k, c)
      PROVE  WatchType'
  BY <1>1 DEF Change
<1>2. CASE Scan
  BY <1>2 DEF Scan
<1>3. ASSUME NEW k \in Keys, Look(k)
      PROVE  WatchType'
  BY <1>3 DEF Look
<1>4. ASSUME NEW k \in Keys, DumpOne(k)
      PROVE  WatchType'
  BY <1>4 DEF DumpOne
<1>5. CASE Looked \/ Dumped \/ EndPass \/ Sleep \/ Interrupt
  BY <1>5 DEF Looked, Dumped, EndPass, Leaves, Sleep, Interrupt
<1>6. CASE UNCHANGED watchVars
  BY <1>6 DEF watchVars
<1> QED
  BY <1>1, <1>2, <1>3, <1>4, <1>5, <1>6 DEF WatchNext, WatchStep

LEMMA WatchInductive == WatchInv /\ [WatchNext]_watchVars => WatchInv'
<1> SUFFICES ASSUME WatchInv, [WatchNext]_watchVars
             PROVE  WatchInv'
  OBVIOUS
<1>t. WatchType /\ WatchType'
  BY WatchTyped DEF WatchInv
<1> USE DEF WatchInv
<1>1. ASSUME NEW k \in Keys, NEW c \in Contents \cup {Gone}, Change(k, c)
      PROVE  WatchInv'
  <2>1. ListsUsedUp' /\ SeenCaptured'
    BY <1>1 DEF Change, ListsUsedUp, SeenCaptured
  <2>2. LookedAt'
    BY <1>1, <1>t DEF Change, LookedAt, Settled, WatchType
  <2> QED
    BY <1>t, <2>1, <2>2
<1>2. CASE Scan
  <2>1. ListsUsedUp' /\ SeenCaptured'
    BY <1>2 DEF Scan, ListsUsedUp, SeenCaptured
  <2>2. LookedAt'
    BY <1>2 DEF Scan, LookedAt, Settled
  <2> QED
    BY <1>t, <2>1, <2>2
<1>3. ASSUME NEW k \in Keys, Look(k)
      PROVE  WatchInv'
  <2> DEFINE fp == FP[memory[k]]
  <2>0. /\ fp # None /\ memory' = memory /\ steady' = steady /\ file' = file /\ spoilt' = spoilt
        /\ mods' = mods \ {k} /\ at = "look" /\ at' = at
        /\ \/ /\ seen[k].dumps >= MaxRedumps \/ seen[k].fp = fp
              /\ seen' = seen /\ fresh' = fresh
           \/ /\ seen' = [seen EXCEPT ![k] = [fp |-> fp, dumps |-> seen[k].dumps + 1]]
              /\ fresh' = fresh \cup {k}
    BY <1>3, <1>t, WatchAssumption DEF Look, WatchType
  <2> HIDE DEF fp
  <2>s. /\ seen[k].dumps \in Nat
        /\ \A j \in Keys \ {k} : seen'[j] = seen[j]
        /\ \/ seen[k].dumps >= MaxRedumps /\ seen'[k] = seen[k]
           \/ seen[k].fp = fp /\ seen'[k] = seen[k]
           \/ seen'[k].fp = fp /\ seen'[k].dumps = seen[k].dumps + 1 /\ k \in fresh'
    BY <2>0, <1>t DEF WatchType
  <2>1. ListsUsedUp'
    BY <2>0 DEF ListsUsedUp
  <2>2. SeenCaptured'
    BY <2>0, <2>s DEF SeenCaptured
  <2>3. ASSUME NEW j \in steady' \ mods'
        PROVE  seen'[j].dumps >= MaxRedumps \/ seen'[j].fp = FP[memory'[j]]
    <3>1. j \in Keys /\ j \in steady /\ (j \in mods => j = k)
      BY <2>0, <1>t DEF WatchType
    <3>2. CASE j = k
      BY <2>0, <2>s, <3>2 DEF fp
    <3>3. CASE j # k
      BY <2>0, <2>s, <3>1, <3>3 DEF LookedAt, Settled
    <3> QED
      BY <3>2, <3>3
  <2>4. LookedAt'
    BY <2>3 DEF LookedAt, Settled
  <2> QED
    BY <1>t, <2>1, <2>2, <2>4
<1>4. ASSUME NEW k \in Keys, DumpOne(k)
      PROVE  WatchInv'
  <2>1. ListsUsedUp' /\ LookedAt'
    BY <1>4 DEF DumpOne, ListsUsedUp, LookedAt, Settled
  <2>2. ASSUME NEW j \in Keys, seen[j].dumps # 0
        PROVE  j \in fresh' \cup spoilt' \/ (file'[j] \in Contents /\ FP[file'[j]] = seen[j].fp)
    <3>1. CASE j = k
      BY <1>4, <1>t, <3>1 DEF DumpOne, WatchType
    <3>2. CASE j # k
      BY <1>4, <1>t, <2>2, <3>2 DEF DumpOne, WatchType, SeenCaptured
    <3> QED
      BY <3>1, <3>2
  <2>3. SeenCaptured'
    BY <1>4, <2>2 DEF DumpOne, SeenCaptured
  <2> QED
    BY <1>t, <2>1, <2>3
<1>5. CASE Looked \/ Dumped \/ EndPass \/ Sleep \/ Interrupt
  BY <1>5, <1>t DEF Looked, Dumped, EndPass, Leaves, Sleep, Interrupt,
                    ListsUsedUp, SeenCaptured, LookedAt, Settled
<1>6. CASE UNCHANGED watchVars
  BY <1>6, <1>t DEF watchVars, ListsUsedUp, SeenCaptured, LookedAt, Settled
<1> QED
  BY <1>1, <1>2, <1>3, <1>4, <1>5, <1>6 DEF WatchNext, WatchStep

(* At the end of a pass of the watcher, what did not change in it has been   *)
(* captured, whatever changed in earlier passes or came and went between.    *)
THEOREM PassCaptures == WatchSpec => []CapturedInPass
<1>1. WatchInit => WatchInv
  BY DEF WatchInit, WatchInv, WatchType, ListsUsedUp, SeenCaptured, LookedAt
<1>2. WatchInv => CapturedInPass
  <2> SUFFICES ASSUME WatchInv, at = "check", NEW k \in steady, ~Settled(k)
               PROVE  k \in spoilt \/ (file[k] \in Contents /\ FP[file[k]] = FP[memory[k]])
    BY DEF CapturedInPass
  <2>1. k \in Keys /\ fresh = {} /\ mods = {} /\ memory[k] \in Contents \cup {Gone}
    BY DEF WatchInv, WatchType, ListsUsedUp
  <2>2. seen[k].fp = FP[memory[k]] /\ seen[k].fp # None
    BY <2>1, WatchAssumption DEF WatchInv, LookedAt
  <2> QED
    BY <2>1, <2>2 DEF WatchInv, SeenCaptured
<1> QED
  BY <1>1, <1>2, WatchInductive, PTL DEF WatchSpec
=============================================================================
