---------------------------- MODULE CaptureProofs ----------------------------
(***************************************************************************)
(* Proofs about the probes and the loop that drains them, for every number *)
(* of CPUs, DEXes and methods, every size of a DEX and of a ring, and any  *)
(* number of evictions and failing reads.                                  *)
(***************************************************************************)
EXTENDS Capture, TLAPS

(* What a record in a ring is, ring by ring. *)
LEMMA PayloadFacts ==
  /\ Payload("events") = Dexes /\ Payload("read_failures") = Dexes
  /\ Payload("dex_chunks") = Chunks
  /\ Payload("method_events") = [method : Methods, code : BOOLEAN]
  /\ Rings = {"events", "dex_chunks", "read_failures", "method_events"}
BY DEF Payload, Rings

LEMMA SizeFacts ==
  ASSUME NEW d \in Dexes
  PROVE  Size[d] \in Nat \ {0} /\ \A p : p \in Parts(d) <=> p \in Nat /\ p < Size[d]
BY BpfAssumption DEF Parts

(* A record is submitted only while there is room for it. *)
LEMMA SubmitFacts ==
  ASSUME RingsType, NEW r \in Rings, NEW rec \in Payload(r), ~Full(r), Submit(r, rec)
  PROVE  /\ RingsType' /\ Waiting(r)' = Waiting(r) \cup {rec}
         /\ \A q \in Rings \ {r} : ring'[q] = ring[q] /\ Waiting(q)' = Waiting(q)
<1> DEFINE s == ring[r]
<1>1. /\ s \in Seq(Payload(r)) /\ Len(s) < Room[r] /\ Room[r] \in Nat
      /\ ring'[r] = Append(s, rec) /\ DOMAIN ring' = Rings
      /\ \A q \in Rings \ {r} : ring'[q] = ring[q]
  <2>1. s \in Seq(Payload(r)) /\ Room[r] \in Nat /\ Len(s) \in Nat /\ DOMAIN ring = Rings
    BY BpfAssumption DEF RingsType
  <2>2. Len(s) < Room[r]
    BY <2>1 DEF Full
  <2> QED
    BY <2>1, <2>2 DEF Submit
<1> HIDE DEF s
<1>2. /\ Append(s, rec) \in Seq(Payload(r)) /\ Len(Append(s, rec)) = Len(s) + 1
      /\ Len(s) \in Nat
      /\ \A n \in 1..Len(s) + 1 : Append(s, rec)[n] = IF n <= Len(s) THEN s[n] ELSE rec
  BY <1>1
<1>3. RingsType'
  <2>1. ring'[r] \in Seq(Payload(r)) /\ Len(ring'[r]) <= Room[r]
    BY <1>1, <1>2
  <2>2. \A q \in Rings \ {r} : ring'[q] \in Seq(Payload(q)) /\ Len(ring'[q]) <= Room[q]
    BY <1>1 DEF RingsType
  <2> QED
    BY <1>1, <2>1, <2>2 DEF RingsType
<1>4. {Append(s, rec)[n] : n \in 1..Len(s) + 1} = {s[n] : n \in 1..Len(s)} \cup {rec}
  BY <1>2
<1> QED
  BY <1>1, <1>2, <1>3, <1>4 DEF Waiting, s

LEMMA SubmitIfRoomFacts ==
  ASSUME RingsType, NEW r \in Rings, NEW rec \in Payload(r), SubmitIfRoom(r, rec)
  PROVE  /\ RingsType' /\ Waiting(r) \subseteq Waiting(r)'
         /\ ~Full(r) => rec \in Waiting(r)'
         /\ \A q \in Rings \ {r} : ring'[q] = ring[q] /\ Waiting(q)' = Waiting(q)
<1>1. CASE Full(r)
  BY <1>1 DEF SubmitIfRoom, RingsType, Waiting
<1>2. CASE ~Full(r)
  BY <1>2, SubmitFacts DEF SubmitIfRoom
<1> QED
  BY <1>1, <1>2

LEMMA TakeFacts ==
  ASSUME RingsType, NEW r \in Rings, TakeFrom(r)
  PROVE  /\ RingsType' /\ Waiting(r) = Waiting(r)' \cup {Head(ring[r])}
         /\ Head(ring[r]) \in Payload(r)
         /\ \A q \in Rings \ {r} : ring'[q] = ring[q] /\ Waiting(q)' = Waiting(q)
<1> DEFINE s == ring[r]
<1>1. /\ s \in Seq(Payload(r)) /\ s # <<>> /\ Len(s) <= Room[r] /\ Room[r] \in Nat
      /\ ring'[r] = Tail(s) /\ DOMAIN ring' = Rings
      /\ \A q \in Rings \ {r} : ring'[q] = ring[q]
  BY BpfAssumption DEF RingsType, TakeFrom
<1> HIDE DEF s
<1>2. /\ Tail(s) \in Seq(Payload(r)) /\ Len(Tail(s)) = Len(s) - 1 /\ Len(s) \in Nat \ {0}
      /\ \A n \in 1..Len(s) - 1 : Tail(s)[n] = s[n + 1]
      /\ Head(s) = s[1] /\ s[1] \in Payload(r)
  BY <1>1
<1>3. RingsType'
  <2>1. ring'[r] \in Seq(Payload(r)) /\ Len(ring'[r]) <= Room[r]
    BY <1>1, <1>2
  <2>2. \A q \in Rings \ {r} : ring'[q] \in Seq(Payload(q)) /\ Len(ring'[q]) <= Room[q]
    BY <1>1 DEF RingsType
  <2> QED
    BY <1>1, <2>1, <2>2 DEF RingsType
<1>4. {s[n] : n \in 1..Len(s)} = {Tail(s)[n] : n \in 1..Len(s) - 1} \cup {s[1]}
  <2> DEFINE rest == {Tail(s)[n] : n \in 1..Len(s) - 1}
  <2>1. ASSUME NEW n \in 1..Len(s), n # 1
        PROVE  s[n] \in rest
    <3>1. n - 1 \in 1..Len(s) - 1 /\ (n - 1) + 1 = n
      BY <1>2, <2>1
    <3>2. Tail(s)[n - 1] = s[n]
      BY <1>2, <3>1
    <3> QED
      BY <3>1, <3>2
  <2>2. ASSUME NEW n \in 1..Len(s) - 1
        PROVE  Tail(s)[n] \in {s[k] : k \in 1..Len(s)}
    <3>1. n + 1 \in 1..Len(s) /\ Tail(s)[n] = s[n + 1]
      BY <1>2
    <3> QED
      BY <3>1
  <2>3. s[1] \in {s[k] : k \in 1..Len(s)}
    <3>1. 1 \in 1..Len(s)
      BY <1>2
    <3> QED
      BY <3>1
  <2>4. rest \subseteq {s[k] : k \in 1..Len(s)}
    BY <2>2
  <2>5. \A n \in 1..Len(s) : s[n] \in rest \cup {s[1]}
    BY <2>1
  <2> HIDE DEF rest
  <2>6. {s[k] : k \in 1..Len(s)} \subseteq rest \cup {s[1]}
    BY <2>5
  <2>7. {s[k] : k \in 1..Len(s)} = rest \cup {s[1]}
    BY <2>3, <2>4, <2>6
  <2> QED
    BY <2>7 DEF rest
<1>5. Waiting(r) = {s[n] : n \in 1..Len(s)} /\ Head(ring[r]) = s[1]
  BY <1>2 DEF Waiting, s
<1>6. Waiting(r)' = {Tail(s)[n] : n \in 1..Len(s) - 1}
  BY <1>1, <1>2 DEF Waiting
<1>7. \A q \in Rings \ {r} : Waiting(q)' = Waiting(q)
  BY <1>1 DEF Waiting
<1> QED
  BY <1>1, <1>2, <1>3, <1>4, <1>5, <1>6, <1>7

LEMMA IdleFacts ==
  /\ Idle \in Locals /\ Idle.next = 0 /\ ~Idle.code /\ Idle.method = NoMethod /\ Idle.n = 0
  /\ NoMethod \notin Methods
<1>1. (CHOOSE d \in Dexes : TRUE) \in Dexes /\ NoMethod \notin Methods
  BY BpfAssumption
<1> QED
  BY <1>1, SizeFacts, BpfAssumption DEF Idle, Started, Locals

LEMMA AdvancedFacts ==
  ASSUME NEW l \in Locals, l.next < Size[l.dex], l.n + 1 \in 0..MaxChunks
  PROVE  /\ Advanced(l) \in Locals /\ Advanced(l).next = l.next + 1
         /\ Advanced(l).dex = l.dex /\ Advanced(l).method = l.method
         /\ Advanced(l).code = l.code
<1> DEFINE k == [l EXCEPT !.next = l.next + 1]
<1>1. Size[l.dex] \in Nat
  BY SizeFacts DEF Locals
<1>2. /\ k \in Locals /\ k.next = l.next + 1 /\ k.n = l.n
      /\ k.dex = l.dex /\ k.method = l.method /\ k.code = l.code
  BY <1>1 DEF Locals
<1>3. Advanced(l) = [k EXCEPT !.n = k.n + 1]
  BY DEF Advanced
<1> HIDE DEF k
<1> QED
  BY <1>2, <1>3 DEF Locals

(* A step of the CPU's handler changes that CPU alone. *)
LEMMA GotoFacts ==
  ASSUME CPUsType, NEW c \in CPUs, NEW label \in Labels, NEW l \in Locals, Goto(c, label, l),
         label \in {"bytecode", "mark", "output"} => l.method \in Methods
  PROVE  /\ CPUsType' /\ pc'[c] = label
         /\ run'[c] = IF label = "idle" THEN Idle ELSE l
         /\ \A b \in CPUs \ {c} : pc'[b] = pc[b] /\ run'[b] = run[b]
<1>1. /\ pc' \in [CPUs -> Labels] /\ pc'[c] = label
      /\ \A b \in CPUs \ {c} : pc'[b] = pc[b]
  BY DEF CPUsType, Goto
<1>2. /\ run' \in [CPUs -> Locals] /\ run'[c] = IF label = "idle" THEN Idle ELSE l
      /\ \A b \in CPUs \ {c} : run'[b] = run[b]
  BY IdleFacts DEF CPUsType, Goto
<1> QED
  BY <1>1, <1>2 DEF CPUsType

BpfType == MapsType /\ RingsType /\ CPUsType /\ HistType

(* Each step of a handler keeps the types of the maps, rings and locals.    *)
LEMMA CPUStepType ==
  ASSUME BpfType, NEW c \in CPUs, CPUStep(c)
  PROVE  BpfType'
<1> USE DEF BpfType
<1> DEFINE l == run[c]
<1>1. /\ l \in Locals /\ l.dex \in Dexes /\ l.method \in Methods \cup {NoMethod}
      /\ l.next \in Nat /\ l.next <= Size[l.dex] /\ l.n \in 0..MaxChunks
      /\ MaxChunks \in Nat /\ Size[l.dex] \in Nat
      /\ pc[c] \in {"bytecode", "mark", "output"} => l.method \in Methods
  BY SizeFacts, BpfAssumption DEF CPUsType, Locals
<1>2. AfterDex(c) \in Labels /\ (AfterDex(c) # "idle" => l.method \in Methods)
  BY <1>1 DEF AfterDex, Labels
<1>3. AfterChunks(c) \in Labels /\ (AfterChunks(c) \in {"bytecode", "mark", "output"} =>
                                      l.method \in Methods)
  BY <1>2 DEF AfterChunks, Labels
<1>4. CASE Cached(c)
  <2>1. [l EXCEPT !.fresh = ~(l.dex \in dexFileCache)] \in Locals
    BY <1>1 DEF Locals
  <2>2. CPUsType'
    BY <1>4, <2>1, GotoFacts DEF Cached, Labels
  <2> QED
    BY <1>4, <2>2 DEF Cached, mapVars, histVars, counters, MapsType, RingsType, HistType
<1>5. CASE Announce(c)
  <2>1. CPUsType'
    BY <1>1, <1>5, GotoFacts DEF Announce, Labels
  <2>2. RingsType'
    BY <1>1, <1>5, SubmitIfRoomFacts, PayloadFacts DEF Announce
  <2> QED
    BY <1>5, <2>1, <2>2 DEF Announce, mapVars, histVars, counters, MapsType, HistType
<1>6. CASE Load(c)
  <2>1. CASE dexProgress[l.dex] >= Size[l.dex]
    BY <1>1, <1>3, <1>6, <2>1, GotoFacts
    DEF Load, mapVars, histVars, counters, MapsType, RingsType, HistType
  <2>2. CASE ~(dexProgress[l.dex] >= Size[l.dex])
    <3>1. [l EXCEPT !.next = dexProgress[l.dex]] \in Locals
      BY <1>1 DEF Locals, MapsType
    <3>2. CPUsType'
      BY <1>6, <2>2, <3>1, GotoFacts DEF Load, Labels
    <3> QED
      BY <1>6, <3>2 DEF Load, mapVars, histVars, counters, MapsType, RingsType, HistType
  <2> QED
    BY <2>1, <2>2
<1>7. CASE SendChunk(c)
  <2>1. ~Full("dex_chunks") /\ l.next < Size[l.dex] /\ l.n + 1 \in 0..MaxChunks
    BY <1>1, <1>7 DEF SendChunk, ChunksDone
  <2>2. Advanced(l) \in Locals /\ Advanced(l).dex = l.dex /\ Advanced(l).next = l.next + 1
    BY <1>1, <2>1, AdvancedFacts
  <2>3. CPUsType'
    BY <1>7, <2>2, GotoFacts DEF SendChunk, Labels
  <2>4. [dex |-> l.dex, part |-> l.next] \in Payload("dex_chunks")
    BY <1>1, <2>1, PayloadFacts DEF Chunks
  <2>5. RingsType'
    BY <1>7, <2>1, <2>4, SubmitFacts, PayloadFacts DEF SendChunk
  <2>6. l.next \in Parts(l.dex)
    BY <1>1, <2>1, SizeFacts
  <2>7. HistType'
    BY <1>1, <1>7, <2>6 DEF SendChunk, HistType, counters
  <2> QED
    BY <1>7, <2>3, <2>5, <2>7 DEF SendChunk, mapVars, MapsType
<1>8. CASE ChunkFails(c)
  <2>1. CPUsType'
    BY <1>1, <1>8, GotoFacts DEF ChunkFails, Labels
  <2>2. RingsType'
    BY <1>1, <1>8, SubmitIfRoomFacts, PayloadFacts DEF ChunkFails
  <2>3. faults' \in 0..MaxFaults
    BY <1>8, BpfAssumption DEF ChunkFails, HistType
  <2> QED
    BY <1>8, <2>1, <2>2, <2>3 DEF ChunkFails, mapVars, histVars, MapsType, HistType
<1>9. CASE EndChunks(c)
  BY <1>1, <1>9, GotoFacts
  DEF EndChunks, Labels, mapVars, histVars, counters, MapsType, RingsType, HistType
<1>10. CASE Store(c)
  <2>1. CPUsType'
    BY <1>1, <1>3, <1>10, GotoFacts DEF Store
  <2>2. MapsType'
    BY <1>1, <1>10 DEF Store, MapsType
  <2> QED
    BY <1>10, <2>1, <2>2 DEF Store, histVars, counters, RingsType, HistType
<1>11. CASE Remember(c)
  <2>1. CPUsType'
    BY <1>1, <1>2, <1>11, GotoFacts DEF Remember
  <2> QED
    BY <1>1, <1>11, <2>1 DEF Remember, histVars, counters, MapsType, RingsType, HistType
<1>12. CASE NoBytecode(c)
  BY <1>1, <1>12, GotoFacts
  DEF NoBytecode, Labels, mapVars, histVars, counters, MapsType, RingsType, HistType
<1>13. CASE ReadBytecode(c)
  <2>1. [l EXCEPT !.code = TRUE] \in Locals /\ [l EXCEPT !.code = TRUE].method = l.method
    BY <1>1 DEF Locals
  <2>2. CPUsType'
    BY <1>1, <1>13, <2>1, GotoFacts DEF ReadBytecode, Labels
  <2> QED
    BY <1>13, <2>2 DEF ReadBytecode, mapVars, histVars, counters, MapsType, RingsType, HistType
<1>14. CASE MarkMethod(c)
  <2>1. CPUsType'
    BY <1>1, <1>14, GotoFacts DEF MarkMethod, Labels
  <2> QED
    BY <1>1, <1>14, <2>1 DEF MarkMethod, histVars, counters, MapsType, RingsType, HistType
<1>15. CASE Output(c)
  <2>1. CPUsType'
    BY <1>1, <1>15, GotoFacts DEF Output, Labels
  <2>2. [method |-> l.method, code |-> l.code] \in Payload("method_events")
    BY <1>1, <1>15, PayloadFacts DEF Output, Locals
  <2>3. RingsType'
    BY <1>15, <2>2, SubmitIfRoomFacts, PayloadFacts DEF Output
  <2> QED
    BY <1>1, <1>15, <2>1, <2>3 DEF Output, mapVars, counters, MapsType, HistType
<1> QED
  BY <1>4, <1>5, <1>6, <1>7, <1>8, <1>9, <1>10, <1>11, <1>12, <1>13, <1>14, <1>15 DEF CPUStep

LEMMA ProbeStepType ==
  ASSUME BpfType, ProbeStep
  PROVE  BpfType'
<1>1. ASSUME NEW c \in CPUs, NEW d \in Dexes, NEW m \in Methods \cup {NoMethod}, Hit(c, d, m)
      PROVE  BpfType'
  <2>1. Started(d, m) \in Locals
    BY SizeFacts, BpfAssumption DEF Locals, Started
  <2>2. CPUsType'
    BY <1>1, <2>1, GotoFacts DEF Hit, Labels, BpfType
  <2> QED
    BY <1>1, <2>2
    DEF Hit, mapVars, histVars, counters, BpfType, MapsType, RingsType, HistType
<1>2. CASE Evict
  <2>1. MapsType' /\ evictions' \in 0..MaxEvictions
    BY <1>2, SizeFacts, BpfAssumption DEF Evict, BpfType, MapsType, HistType
  <2> QED
    BY <1>2, <2>1 DEF Evict, histVars, BpfType, RingsType, CPUsType, HistType
<1> QED
  BY <1>1, <1>2, CPUStepType DEF ProbeStep

LEMMA TakeType ==
  ASSUME BpfType, NEW r \in Rings, TakeFrom(r)
  PROVE  BpfType'
BY TakeFacts DEF TakeFrom, mapVars, histVars, counters, BpfType, MapsType, CPUsType, HistType

UserType ==
  /\ DOMAIN pending = Dexes /\ \A d \in Dexes : pending[d] \subseteq Parts(d)
  /\ saved \subseteq Dexes /\ recorded \subseteq Methods /\ forgotten \subseteq Dexes

LEMMA SaveDexType ==
  ASSUME UserType, NEW d \in Dexes, SaveDex(d), recorded' = recorded
  PROVE  UserType'
BY DEF SaveDex, UserType

(* Type correctness of the probes and of the loop's side.                    *)
THEOREM TypeCorrect == Spec => []TypeOK
<1> USE DEF TypeOK
<1>1. Init => TypeOK
  <2> SUFFICES ASSUME Init
               PROVE  TypeOK
    OBVIOUS
  <2>1. RingsType
    BY BpfAssumption DEF Init, BpfInit, RingsType
  <2>2. CPUsType
    BY IdleFacts DEF Init, BpfInit, CPUsType, Labels
  <2> QED
    BY <2>1, <2>2, SizeFacts, BpfAssumption DEF Init, BpfInit, MapsType, HistType
<1>2. TypeOK /\ [Next]_vars => TypeOK'
  <2> SUFFICES ASSUME BpfType, UserType, [Next]_vars
               PROVE  BpfType' /\ UserType'
    BY DEF BpfType, UserType
  <2>1. CASE ProbeStep /\ UNCHANGED userVars
    BY <2>1, ProbeStepType DEF userVars, UserType
  <2>2. CASE HandleDexEvent
    BY <2>2, TakeType DEF HandleDexEvent, userVars, UserType, Rings
  <2>3. CASE HandleDexChunk
    <3> DEFINE x == Head(ring["dex_chunks"])
    <3>1. BpfType'
      BY <2>3, TakeType DEF HandleDexChunk, Rings
    <3>2. x \in Chunks
      BY <2>3, TakeFacts, PayloadFacts DEF HandleDexChunk, BpfType
    <3>3. x.dex \in Dexes /\ x.part \in Parts(x.dex)
      BY <3>2, SizeFacts DEF Chunks
    <3>4. CASE SaveDex(x.dex)
      BY <2>3, <3>1, <3>3, <3>4, SaveDexType DEF HandleDexChunk
    <3>5. CASE pending' = [pending EXCEPT ![x.dex] = pending[x.dex] \cup {x.part}]
               /\ UNCHANGED <<saved, forgotten>>
      BY <2>3, <3>1, <3>3, <3>5 DEF HandleDexChunk, UserType
    <3>6. CASE UNCHANGED <<pending, saved, forgotten>>
      BY <2>3, <3>1, <3>6 DEF HandleDexChunk, UserType
    <3> QED
      BY <2>3, <3>4, <3>5, <3>6 DEF HandleDexChunk
  <2>4. CASE HandleReadFailure
    <3> DEFINE d == Head(ring["read_failures"])
    <3>1. BpfType' /\ d \in Dexes
      BY <2>4, TakeType, TakeFacts, PayloadFacts DEF HandleReadFailure, BpfType
    <3>2. CASE SaveDex(d)
      BY <2>4, <3>1, <3>2, SaveDexType DEF HandleReadFailure
    <3>3. CASE UNCHANGED <<pending, saved, forgotten>>
      BY <2>4, <3>1, <3>3 DEF HandleReadFailure, UserType
    <3> QED
      BY <2>4, <3>2, <3>3 DEF HandleReadFailure
  <2>5. CASE HandleMethodEvent
    <3>1. BpfType' /\ Head(ring["method_events"]) \in [method : Methods, code : BOOLEAN]
      BY <2>5, TakeType, TakeFacts, PayloadFacts DEF HandleMethodEvent, BpfType
    <3> QED
      BY <2>5, <3>1 DEF HandleMethodEvent, UserType
  <2>6. ASSUME NEW d \in Dexes, Expire(d)
        PROVE  BpfType' /\ UserType'
    BY <2>6 DEF Expire, bpfVars, mapVars, histVars, counters,
                BpfType, MapsType, RingsType, CPUsType, HistType, UserType
  <2>7. CASE UNCHANGED vars
    BY <2>7 DEF vars, bpfVars, userVars, mapVars, histVars, counters,
                BpfType, MapsType, RingsType, CPUsType, HistType, UserType
  <2> QED
    BY <2>1, <2>2, <2>3, <2>4, <2>5, <2>6, <2>7 DEF Next, UserStep
<1> QED
  BY <1>1, <1>2, PTL DEF Spec

(***************************************************************************)
(* No part is lost.  ProgressSent and PartsKept together are inductive.    *)
(***************************************************************************)

(* The clause of ProgressSent about the CPUs, for one CPU's locals.          *)
Behind(l, S) == \A p \in Parts(l.dex) : p < l.next => p \in S[l.dex]

LEMMA BehindIdle ==
  ASSUME NEW d \in Dexes, NEW m \in Methods \cup {NoMethod}, NEW S
  PROVE  Behind(Started(d, m), S) /\ Behind(Idle, S)
BY IdleFacts, SizeFacts DEF Behind, Started, Locals

LEMMA ProgressUnsent ==
  ASSUME TypeOK, ProgressSent, NEW c \in CPUs, NEW label \in Labels, NEW l \in Locals,
         Goto(c, label, l), Behind(l, sent), sent' = sent,
         label \in {"bytecode", "mark", "output"} => l.method \in Methods
  PROVE  /\ \A b \in CPUs : Behind(run'[b], sent')
         /\ dexProgress' = dexProgress => ProgressSent'
<1>1. \A b \in CPUs : run'[b] \in {run[b], l, Idle}
  BY GotoFacts DEF TypeOK
<1>2. \A b \in CPUs : Behind(run'[b], sent)
  <2>1. \A b \in CPUs : Behind(run[b], sent)
    BY DEF ProgressSent, Behind
  <2>2. Behind(Idle, sent)
    BY IdleFacts, SizeFacts DEF Behind, Locals
  <2> QED
    BY <1>1, <2>1, <2>2
<1> QED
  BY <1>2 DEF ProgressSent, Behind

(* Progress stays behind what was sent over every step of a handler.        *)
LEMMA CPUStepProgress ==
  ASSUME TypeOK, ProgressSent, NEW c \in CPUs, CPUStep(c)
  PROVE  ProgressSent'
<1> DEFINE l == run[c]
<1>1. /\ l \in Locals /\ l.dex \in Dexes /\ l.method \in Methods \cup {NoMethod}
      /\ l.next \in Nat /\ l.next <= Size[l.dex] /\ l.n \in 0..MaxChunks
      /\ MaxChunks \in Nat /\ Size[l.dex] \in Nat /\ Behind(l, sent)
      /\ pc[c] \in {"bytecode", "mark", "output"} => l.method \in Methods
  BY SizeFacts, BpfAssumption DEF TypeOK, CPUsType, Locals, ProgressSent, Behind
<1>2. AfterDex(c) \in Labels /\ (AfterDex(c) # "idle" => l.method \in Methods)
  BY <1>1 DEF AfterDex, Labels
<1>3. AfterChunks(c) \in Labels /\ (AfterChunks(c) \in {"bytecode", "mark", "output"} =>
                                      l.method \in Methods)
  BY <1>2 DEF AfterChunks, Labels
<1>4. CASE Cached(c)
  <2>1. /\ [l EXCEPT !.fresh = ~(l.dex \in dexFileCache)] \in Locals
        /\ Behind([l EXCEPT !.fresh = ~(l.dex \in dexFileCache)], sent)
    BY <1>1 DEF Locals, Behind
  <2> QED
    BY <1>4, <2>1, ProgressUnsent DEF Cached, Labels, mapVars, histVars
<1>5. CASE Announce(c)
  BY <1>1, <1>5, ProgressUnsent DEF Announce, Labels, mapVars, histVars
<1>6. CASE Load(c)
  <2>1. CASE dexProgress[l.dex] >= Size[l.dex]
    BY <1>1, <1>3, <1>6, <2>1, ProgressUnsent DEF Load, mapVars, histVars
  <2>2. CASE ~(dexProgress[l.dex] >= Size[l.dex])
    <3> DEFINE k == [l EXCEPT !.next = dexProgress[l.dex]]
    <3>1. k \in Locals /\ Behind(k, sent)
      BY <1>1 DEF Locals, TypeOK, MapsType, ProgressSent, Behind
    <3>2. Goto(c, "chunk", k) /\ UNCHANGED <<dexProgress, sent>>
      BY <1>6, <2>2 DEF Load, mapVars, histVars
    <3> HIDE DEF k
    <3> QED
      BY <3>1, <3>2, ProgressUnsent DEF Labels
  <2> QED
    BY <2>1, <2>2
<1>7. CASE SendChunk(c)
  <2>1. l.next < Size[l.dex] /\ l.n + 1 \in 0..MaxChunks
    BY <1>1, <1>7 DEF SendChunk, ChunksDone
  <2>2. Advanced(l) \in Locals /\ Advanced(l).dex = l.dex /\ Advanced(l).next = l.next + 1
    BY <1>1, <2>1, AdvancedFacts
  <2>3. /\ run'[c] = Advanced(l)
        /\ \A b \in CPUs \ {c} : run'[b] = run[b]
    BY <1>7, <2>2, GotoFacts DEF SendChunk, Labels, TypeOK
  <2>4. /\ sent'[l.dex] = sent[l.dex] \cup {l.next}
        /\ \A d \in Dexes : sent[d] \subseteq sent'[d]
        /\ dexProgress' = dexProgress
    BY <1>1, <1>7 DEF SendChunk, mapVars, TypeOK, HistType
  <2>5. ASSUME NEW b \in CPUs
        PROVE  Behind(run'[b], sent')
    <3>1. CASE b = c
      <4>1. \A p \in Parts(l.dex) : p < l.next + 1 => p < l.next \/ p = l.next
        BY <1>1, SizeFacts
      <4> QED
        BY <1>1, <2>2, <2>3, <2>4, <3>1, <4>1 DEF Behind
    <3>2. CASE b # c
      <4>1. Behind(run[b], sent) /\ run[b].dex \in Dexes
        BY DEF ProgressSent, Behind, TypeOK, CPUsType, Locals
      <4> QED
        BY <2>3, <2>4, <3>2, <4>1 DEF Behind
    <3> QED
      BY <3>1, <3>2
  <2> QED
    BY <2>4, <2>5 DEF ProgressSent, Behind
<1>8. CASE ChunkFails(c)
  BY <1>1, <1>8, ProgressUnsent DEF ChunkFails, Labels, mapVars, histVars
<1>9. CASE EndChunks(c)
  BY <1>1, <1>9, ProgressUnsent DEF EndChunks, Labels, mapVars, histVars
<1>10. CASE Store(c)
  <2>1. \A d \in Dexes : dexProgress'[d] = IF d = l.dex THEN l.next ELSE dexProgress[d]
    BY <1>1, <1>10 DEF Store, TypeOK, MapsType
  <2>2. sent' = sent /\ \A b \in CPUs : Behind(run'[b], sent')
    BY <1>1, <1>3, <1>10, ProgressUnsent DEF Store, histVars
  <2> QED
    BY <1>1, <2>1, <2>2 DEF ProgressSent, Behind
<1>11. CASE Remember(c)
  BY <1>1, <1>2, <1>11, ProgressUnsent DEF Remember, histVars
<1>12. CASE NoBytecode(c)
  BY <1>1, <1>12, ProgressUnsent DEF NoBytecode, Labels, mapVars, histVars
<1>13. CASE ReadBytecode(c)
  <2>1. /\ [l EXCEPT !.code = TRUE] \in Locals /\ [l EXCEPT !.code = TRUE].method = l.method
        /\ Behind([l EXCEPT !.code = TRUE], sent)
    BY <1>1 DEF Locals, Behind
  <2> QED
    BY <1>1, <1>13, <2>1, ProgressUnsent DEF ReadBytecode, Labels, mapVars, histVars
<1>14. CASE MarkMethod(c)
  BY <1>1, <1>14, ProgressUnsent DEF MarkMethod, Labels, histVars
<1>15. CASE Output(c)
  BY <1>1, <1>15, ProgressUnsent DEF Output, Labels, mapVars
<1> QED
  BY <1>4, <1>5, <1>6, <1>7, <1>8, <1>9, <1>10, <1>11, <1>12, <1>13, <1>14, <1>15 DEF CPUStep

LEMMA ProbeStepProgress ==
  ASSUME TypeOK, ProgressSent, ProbeStep
  PROVE  ProgressSent'
<1>1. ASSUME NEW c \in CPUs, NEW d \in Dexes, NEW m \in Methods \cup {NoMethod}, Hit(c, d, m)
      PROVE  ProgressSent'
  <2>1. Started(d, m) \in Locals /\ Behind(Started(d, m), sent)
    BY SizeFacts, BpfAssumption, BehindIdle DEF Locals, Started
  <2> QED
    BY <1>1, <2>1, ProgressUnsent DEF Hit, Labels, mapVars, histVars
<1>2. CASE Evict
  BY <1>2, SizeFacts DEF Evict, histVars, ProgressSent, TypeOK, MapsType
<1> QED
  BY <1>1, <1>2, CPUStepProgress DEF ProbeStep

(* PartsKept needs to hear of sent, of the chunks that wait and of the user  *)
(* side only: nothing else it speaks of.                                     *)
LEMMA PartsKeptStable ==
  ASSUME TypeOK, PartsKept, UNCHANGED <<sent, pending, saved, forgotten>>,
         Waiting("dex_chunks") \subseteq Waiting("dex_chunks")'
  PROVE  PartsKept'
BY DEF PartsKept, Parts

LEMMA ProbeStepParts ==
  ASSUME TypeOK, PartsKept, ProbeStep, UNCHANGED userVars
  PROVE  PartsKept'
<1>1. ASSUME NEW c \in CPUs, SendChunk(c)
      PROVE  PartsKept'
  <2> DEFINE l == run[c]
             x == [dex |-> l.dex, part |-> l.next]
  <2>1. l.dex \in Dexes /\ l.next \in Nat /\ l.next < Size[l.dex]
    BY <1>1, SizeFacts DEF SendChunk, ChunksDone, TypeOK, CPUsType, Locals
  <2>2. x \in Payload("dex_chunks")
    BY <2>1, PayloadFacts DEF Chunks
  <2>3. Waiting("dex_chunks")' = Waiting("dex_chunks") \cup {x}
    BY <1>1, <2>2, SubmitFacts, PayloadFacts DEF SendChunk, TypeOK
  <2>4. \A d \in Dexes : sent'[d] = IF d = l.dex THEN sent[d] \cup {l.next} ELSE sent[d]
    BY <1>1, <2>1 DEF SendChunk, TypeOK, HistType
  <2>5. UNCHANGED <<pending, saved, forgotten>>
    BY DEF userVars
  <2>6. ASSUME NEW d \in Dexes, d \notin saved \cup forgotten, NEW p \in sent'[d]
        PROVE  p \in pending[d] \/ [dex |-> d, part |-> p] \in Waiting("dex_chunks")'
    <3>1. CASE p \in sent[d]
      BY <2>3, <2>6, <3>1 DEF PartsKept
    <3>2. CASE d = l.dex /\ p = l.next
      BY <2>3, <3>2
    <3> QED
      BY <2>4, <3>1, <3>2
  <2> QED
    BY <2>5, <2>6 DEF PartsKept, Parts
<1>2. ASSUME NEW c \in CPUs, CPUStep(c), ~SendChunk(c)
      PROVE  PartsKept'
  <2>1. sent' = sent
    BY <1>2 DEF CPUStep, Cached, Announce, Load, ChunkFails, EndChunks, Store, Remember,
                NoBytecode, ReadBytecode, MarkMethod, Output, histVars
  <2>2. Waiting("dex_chunks")' = Waiting("dex_chunks")
    <3>1. CASE Announce(c)
      <4>1. run[c].dex \in Payload("events")
        BY PayloadFacts DEF TypeOK, CPUsType, Locals
      <4> QED
        BY <3>1, <4>1, SubmitIfRoomFacts, PayloadFacts DEF Announce, TypeOK
    <3>2. CASE ChunkFails(c)
      <4>1. run[c].dex \in Payload("read_failures")
        BY PayloadFacts DEF TypeOK, CPUsType, Locals
      <4> QED
        BY <3>2, <4>1, SubmitIfRoomFacts, PayloadFacts DEF ChunkFails, TypeOK
    <3>3. CASE Output(c)
      <4>1. [method |-> run[c].method, code |-> run[c].code] \in Payload("method_events")
        BY <3>3, PayloadFacts DEF Output, TypeOK, CPUsType, Locals
      <4> QED
        BY <3>3, <4>1, SubmitIfRoomFacts, PayloadFacts DEF Output, TypeOK
    <3>4. CASE ring' = ring
      BY <3>4 DEF Waiting
    <3> QED
      BY <1>2, <3>1, <3>2, <3>3, <3>4
      DEF CPUStep, Cached, Load, EndChunks, Store, Remember, NoBytecode, ReadBytecode, MarkMethod
  <2> QED
    BY <2>1, <2>2, PartsKeptStable DEF userVars
<1>3. CASE ring' = ring /\ sent' = sent
  BY <1>3, PartsKeptStable DEF userVars, Waiting
<1> QED
  BY <1>1, <1>2, <1>3 DEF ProbeStep, Hit, Evict, histVars

(* A body that is saved or dropped leaves no part under assembly.            *)
LEMMA SaveDexParts ==
  ASSUME TypeOK, PartsKept, NEW d \in Dexes, SaveDex(d), sent' = sent,
         \A e \in Dexes \ {d} : \A p \in sent[e] :
           [dex |-> e, part |-> p] \in Waiting("dex_chunks")
             => [dex |-> e, part |-> p] \in Waiting("dex_chunks")'
  PROVE  PartsKept'
<1>1. /\ \A e \in Dexes : pending'[e] = IF e = d THEN {} ELSE pending[e]
      /\ saved \subseteq saved' /\ saved' \subseteq saved \cup {d}
      /\ forgotten \subseteq forgotten' /\ d \in saved' \cup forgotten'
  BY DEF SaveDex, TypeOK
<1>2. Parts(d) # {}
  BY SizeFacts
<1> QED
  BY <1>1, <1>2 DEF PartsKept, Parts

LEMMA HandleDexChunkParts ==
  ASSUME TypeOK, PartsKept, HandleDexChunk
  PROVE  PartsKept'
<1> DEFINE x == Head(ring["dex_chunks"])
           got == pending[x.dex] \cup {x.part}
<1>1. /\ Waiting("dex_chunks") = Waiting("dex_chunks")' \cup {x}
      /\ x \in Chunks /\ x.dex \in Dexes /\ x = [dex |-> x.dex, part |-> x.part]
      /\ sent' = sent
  BY TakeFacts, PayloadFacts DEF HandleDexChunk, TypeOK, Chunks, TakeFrom, histVars
<1>2. \A e \in Dexes, p \in Nat : e # x.dex \/ p # x.part =>
        ([dex |-> e, part |-> p] \in Waiting("dex_chunks")
           => [dex |-> e, part |-> p] \in Waiting("dex_chunks")')
  BY <1>1
<1>3. \A e \in Dexes : sent[e] \subseteq Nat
  BY DEF TypeOK, HistType, Parts
<1>4. CASE x.dex \in saved
  BY <1>1, <1>2, <1>3, <1>4 DEF HandleDexChunk, PartsKept, Parts
<1>5. CASE x.dex \notin saved /\ got = Parts(x.dex)
  BY <1>1, <1>2, <1>3, <1>5, SaveDexParts DEF HandleDexChunk
<1>6. CASE x.dex \notin saved /\ got # Parts(x.dex)
  <2>1. /\ \A e \in Dexes : pending'[e] = IF e = x.dex THEN got ELSE pending[e]
        /\ saved' = saved /\ forgotten' = forgotten
    BY <1>1, <1>6 DEF HandleDexChunk, TypeOK
  <2> HIDE DEF x
  <2> QED
    BY <1>1, <1>2, <1>3, <1>6, <2>1, ZenonT(60) DEF PartsKept, Parts
<1> QED
  BY <1>4, <1>5, <1>6

(* The steps of Next and the stutterings the probes take no part in.         *)
UserSide == UserStep \/ (\E d \in Dexes : Expire(d)) \/ UNCHANGED vars

LEMMA UserStepParts ==
  ASSUME TypeOK, PartsKept, UserSide
  PROVE  PartsKept'
<1>1. CASE HandleDexEvent
  BY <1>1, TakeFacts, PartsKeptStable DEF HandleDexEvent, TakeFrom, histVars, userVars, TypeOK, Rings
<1>2. CASE HandleReadFailure
  <2> DEFINE d == Head(ring["read_failures"])
  <2>1. d \in Dexes /\ sent' = sent /\ Waiting("dex_chunks")' = Waiting("dex_chunks")
    BY <1>2, TakeFacts, PayloadFacts DEF HandleReadFailure, TypeOK, TakeFrom, histVars
  <2>2. CASE SaveDex(d)
    BY <2>1, <2>2, SaveDexParts
  <2>3. CASE UNCHANGED <<pending, saved, forgotten>>
    BY <2>1, <2>3, PartsKeptStable
  <2> QED
    BY <1>2, <2>2, <2>3 DEF HandleReadFailure
<1>3. CASE HandleMethodEvent
  BY <1>3, TakeFacts, PartsKeptStable DEF HandleMethodEvent, TakeFrom, histVars, TypeOK, Rings
<1>4. ASSUME NEW d \in Dexes, Expire(d)
      PROVE  PartsKept'
  <2>1. /\ \A e \in Dexes : pending'[e] = IF e = d THEN {} ELSE pending[e]
        /\ forgotten' = forgotten \cup {d} /\ saved' = saved /\ sent' = sent
        /\ Waiting("dex_chunks")' = Waiting("dex_chunks")
    BY <1>4 DEF Expire, TypeOK, bpfVars, histVars, Waiting
  <2>2. Parts(d) # {}
    BY SizeFacts
  <2> QED
    BY <2>1, <2>2 DEF PartsKept, Parts
<1>5. CASE UNCHANGED vars
  BY <1>5, PartsKeptStable DEF vars, bpfVars, histVars, userVars, Waiting
<1> QED
  BY <1>1, <1>2, <1>3, <1>4, <1>5, HandleDexChunkParts DEF UserSide, UserStep

(* Progress is behind what was sent, and what was sent is kept.              *)
THEOREM NothingLost == Spec => [](ProgressSent /\ PartsKept)
<1>1. Init => ProgressSent /\ PartsKept
  <2> SUFFICES ASSUME Init
               PROVE  ProgressSent /\ PartsKept
    OBVIOUS
  <2>1. ProgressSent
    BY IdleFacts, SizeFacts DEF Init, BpfInit, ProgressSent, Locals
  <2>2. \A d \in Dexes : Parts(d) # {}
    BY SizeFacts
  <2> QED
    BY <2>1, <2>2 DEF Init, BpfInit, PartsKept
<1>2. TypeOK /\ ProgressSent /\ PartsKept /\ [Next]_vars => (ProgressSent /\ PartsKept)'
  <2> SUFFICES ASSUME TypeOK, ProgressSent, PartsKept, [Next]_vars
               PROVE  ProgressSent' /\ PartsKept'
    OBVIOUS
  <2>1. CASE ProbeStep /\ UNCHANGED userVars
    BY <2>1, ProbeStepProgress, ProbeStepParts
  <2>2. CASE UserSide
    <3>1. UNCHANGED <<dexProgress, run, sent>>
      BY <2>2 DEF UserSide, UserStep, HandleDexEvent, HandleDexChunk, HandleReadFailure,
                  HandleMethodEvent, TakeFrom, Expire, vars, bpfVars, mapVars, histVars
    <3>2. ProgressSent'
      BY <3>1 DEF ProgressSent
    <3> QED
      BY <2>2, <3>2, UserStepParts
  <2> QED
    BY <2>1, <2>2 DEF Next, UserSide
<1> QED
  BY <1>1, <1>2, TypeCorrect, PTL DEF Spec

(* A DEX the probes will never send again was saved, or dropped by the loop. *)
THEOREM FinishedSaved == Spec => []FinishedIsSaved
<1>1. TypeOK /\ ProgressSent /\ PartsKept => FinishedIsSaved
  <2> SUFFICES ASSUME TypeOK, ProgressSent, PartsKept, NEW d \in Dexes \ forgotten,
                      dexProgress[d] >= Size[d],
                      \A x \in Waiting("dex_chunks") : x.dex # d, d \notin saved
               PROVE  FALSE
    BY DEF FinishedIsSaved
  <2>1. ASSUME NEW p \in Parts(d)
        PROVE  p \in pending[d]
    <3>1. p < dexProgress[d]
      BY SizeFacts DEF TypeOK, MapsType
    <3>2. [dex |-> d, part |-> p] \notin Waiting("dex_chunks")
      OBVIOUS
    <3> QED
      BY <3>1, <3>2 DEF ProgressSent, PartsKept
  <2> QED
    BY <2>1 DEF TypeOK, PartsKept
<1> QED
  BY <1>1, TypeCorrect, NothingLost, PTL

(***************************************************************************)
(* Bytecode.  CodeHeld says on which steps a CPU's buffer holds bytecode.  *)
(***************************************************************************)

CodeHeld == \A c \in CPUs : /\ pc[c] = "mark" => run[c].code
                            /\ run[c].code => pc[c] \in {"mark", "output"}

(* One method's clause of MarkedMethodRecorded.                              *)
Kept(m) ==
  \/ m \in recorded
  \/ [method |-> m, code |-> TRUE] \in Waiting("method_events")
  \/ \E c \in CPUs : run[c].method = m /\ run[c].code

(* A step of a CPU whose locals keep their method, and their bytecode.       *)
LEMMA KeptStable ==
  ASSUME NEW m, Kept(m), recorded \subseteq recorded',
         Waiting("method_events") \subseteq Waiting("method_events")',
         \A c \in CPUs : run[c].code => run'[c].method = run[c].method /\ run'[c].code
  PROVE  Kept(m)'
BY DEF Kept

LEMMA GotoCode ==
  ASSUME CPUsType, NEW c \in CPUs, NEW label, NEW l, Goto(c, label, l)
  PROVE  /\ pc'[c] = label /\ run'[c] = IF label = "idle" THEN Idle ELSE l
         /\ \A b \in CPUs \ {c} : pc'[b] = pc[b] /\ run'[b] = run[b]
BY DEF Goto, CPUsType

(* The steps of a handler before its bytecode.                               *)
EarlyStep(c) ==
  \/ Cached(c) \/ Announce(c) \/ Load(c) \/ SendChunk(c) \/ ChunkFails(c) \/ EndChunks(c)
  \/ Store(c) \/ Remember(c) \/ NoBytecode(c)

LEMMA EarlyFacts ==
  ASSUME TypeOK, CodeHeld, NEW c \in CPUs, EarlyStep(c)
  PROVE  /\ methodCodeCache' = methodCodeCache /\ lost' = lost
         /\ ~run[c].code /\ ~run'[c].code /\ pc'[c] # "mark"
         /\ \A b \in CPUs \ {c} : run'[b] = run[b] /\ pc'[b] = pc[b]
         /\ Waiting("method_events")' = Waiting("method_events")
<1> DEFINE l == run[c]
<1>1. l \in Locals /\ l.dex \in Dexes /\ l.next \in Nat /\ Size[l.dex] \in Nat /\ CPUsType
  BY SizeFacts DEF TypeOK, CPUsType, Locals
<1>2. ~l.code
  BY DEF CodeHeld, EarlyStep, Cached, Announce, Load, SendChunk, ChunkFails, EndChunks, Store,
         Remember, NoBytecode
<1>3. methodCodeCache' = methodCodeCache /\ lost' = lost
  BY DEF EarlyStep, Cached, Announce, Load, SendChunk, ChunkFails, EndChunks, Store,
         Remember, NoBytecode, mapVars, histVars
<1>4. Waiting("method_events")' = Waiting("method_events")
  <2>1. CASE Announce(c)
    BY <1>1, <2>1, SubmitIfRoomFacts, PayloadFacts DEF Announce, TypeOK
  <2>2. CASE ChunkFails(c)
    BY <1>1, <2>2, SubmitIfRoomFacts, PayloadFacts DEF ChunkFails, TypeOK
  <2>3. CASE SendChunk(c)
    <3>1. [dex |-> l.dex, part |-> l.next] \in Payload("dex_chunks")
      BY <1>1, <2>3, PayloadFacts DEF SendChunk, ChunksDone, Chunks
    <3> QED
      BY <2>3, <3>1, SubmitFacts, PayloadFacts DEF SendChunk, TypeOK
  <2>4. CASE ring' = ring
    BY <2>4 DEF Waiting
  <2> QED
    BY <2>1, <2>2, <2>3, <2>4
    DEF EarlyStep, Cached, Load, EndChunks, Store, Remember, NoBytecode
<1>5. AfterDex(c) # "mark" /\ AfterChunks(c) # "mark"
  BY DEF AfterDex, AfterChunks
<1>6. ASSUME NEW label, label # "mark", NEW k \in Locals, ~k.code, Goto(c, label, k)
      PROVE  /\ ~run'[c].code /\ pc'[c] # "mark"
             /\ \A b \in CPUs \ {c} : run'[b] = run[b] /\ pc'[b] = pc[b]
  BY <1>1, <1>6, GotoCode, IdleFacts
<1>7. CASE Cached(c)
  <2> DEFINE k == [l EXCEPT !.fresh = ~(l.dex \in dexFileCache)]
  <2>1. k \in Locals /\ ~k.code
    BY <1>1, <1>2 DEF Locals
  <2>2. \E label \in {"load", "announce"} : Goto(c, label, k)
    BY <1>7 DEF Cached
  <2> HIDE DEF k
  <2> QED
    BY <1>3, <1>4, <1>2, <1>6, <2>1, <2>2
<1>8. CASE Load(c)
  <2> DEFINE k == [l EXCEPT !.next = dexProgress[l.dex]]
  <2>1. dexProgress[l.dex] < Size[l.dex] => k \in Locals /\ ~k.code
    BY <1>1, <1>2 DEF Locals, TypeOK, MapsType
  <2>2. \/ Goto(c, AfterChunks(c), l)
        \/ dexProgress[l.dex] < Size[l.dex] /\ Goto(c, "chunk", k)
    BY <1>1, <1>8 DEF Load, TypeOK, MapsType
  <2> HIDE DEF k
  <2> QED
    BY <1>1, <1>2, <1>3, <1>4, <1>5, <1>6, <2>1, <2>2
<1>9. CASE SendChunk(c)
  <2>1. l.next < Size[l.dex] /\ l.n + 1 \in 0..MaxChunks
    BY <1>1, <1>9, BpfAssumption DEF SendChunk, ChunksDone, Locals
  <2>2. Advanced(l) \in Locals /\ ~Advanced(l).code
    BY <1>1, <1>2, <2>1, AdvancedFacts
  <2> QED
    BY <1>2, <1>3, <1>4, <1>6, <1>9, <2>2 DEF SendChunk
<1>10. CASE Announce(c) \/ ChunkFails(c) \/ EndChunks(c) \/ Store(c) \/ Remember(c) \/ NoBytecode(c)
  <2>1. \E label \in {"load", "store", "output", AfterChunks(c), AfterDex(c)} : Goto(c, label, l)
    BY <1>10 DEF Announce, ChunkFails, EndChunks, Store, Remember, NoBytecode
  <2> QED
    BY <1>1, <1>2, <1>3, <1>4, <1>5, <1>6, <2>1
<1> QED
  BY <1>7, <1>8, <1>9, <1>10 DEF EarlyStep

(* The steps of the handlers: bytecode in a CPU's buffer stays in it until   *)
(* Output puts it in the ring or finds no room.                              *)
LEMMA CodeProbe ==
  ASSUME TypeOK, CodeHeld, MarkedMethodRecorded, ProbeStep, UNCHANGED userVars
  PROVE  CodeHeld' /\ MarkedMethodRecorded'
<1> USE DEF TypeOK
<1>1. MarkedMethodRecorded <=> \A m \in methodCodeCache \ lost : Kept(m)
  BY DEF MarkedMethodRecorded, Kept
<1>2. MarkedMethodRecorded' <=> \A m \in methodCodeCache' \ lost' : Kept(m)'
  BY DEF MarkedMethodRecorded, Kept
<1>3. recorded' = recorded
  BY DEF userVars
<1>4. ASSUME NEW c \in CPUs, EarlyStep(c)
      PROVE  CodeHeld' /\ MarkedMethodRecorded'
  <2>1. CodeHeld'
    BY <1>4, EarlyFacts DEF CodeHeld
  <2>2. \A b \in CPUs : run[b].code => run'[b].method = run[b].method /\ run'[b].code
    BY <1>4, EarlyFacts
  <2>3. /\ methodCodeCache' = methodCodeCache /\ lost' = lost
        /\ Waiting("method_events") \subseteq Waiting("method_events")'
    BY <1>4, EarlyFacts
  <2> QED
    BY <1>1, <1>2, <1>3, <2>1, <2>2, <2>3, KeptStable
<1>5. ASSUME NEW c \in CPUs, ReadBytecode(c) \/ MarkMethod(c)
      PROVE  CodeHeld' /\ MarkedMethodRecorded'
  <2>1. /\ run'[c].code /\ run'[c].method = run[c].method /\ pc'[c] \in {"mark", "output"}
        /\ \A b \in CPUs \ {c} : run'[b] = run[b] /\ pc'[b] = pc[b]
    <3>1. CASE ReadBytecode(c)
      <4> DEFINE k == [run[c] EXCEPT !.code = TRUE]
      <4>1. k.code /\ k.method = run[c].method
        BY DEF CPUsType, Locals
      <4>2. Goto(c, "mark", k)
        BY <3>1 DEF ReadBytecode
      <4> HIDE DEF k
      <4> QED
        BY <4>1, <4>2, GotoCode
    <3>2. CASE MarkMethod(c)
      BY <3>2, GotoCode DEF MarkMethod, CodeHeld
    <3> QED
      BY <1>5, <3>1, <3>2
  <2>2. CodeHeld'
    BY <2>1 DEF CodeHeld
  <2>3. /\ methodCodeCache' \subseteq methodCodeCache \cup {run[c].method} /\ lost' = lost
        /\ ring' = ring
    BY <1>5 DEF ReadBytecode, MarkMethod, mapVars, histVars
  <2>4. \A m : m = run[c].method => Kept(m)'
    BY <2>1 DEF Kept
  <2>5. \A b \in CPUs : run[b].code => run'[b].method = run[b].method /\ run'[b].code
    BY <2>1
  <2>6. Waiting("method_events") \subseteq Waiting("method_events")'
    BY <2>3 DEF Waiting
  <2>7. \A m : Kept(m) => Kept(m)'
    BY <1>3, <2>5, <2>6, KeptStable
  <2>8. \A m \in methodCodeCache' \ lost' : Kept(m)'
    BY <1>1, <2>3, <2>4, <2>7
  <2> QED
    BY <1>2, <2>2, <2>8
<1>6. ASSUME NEW c \in CPUs, Output(c)
      PROVE  CodeHeld' /\ MarkedMethodRecorded'
  <2> DEFINE rec == [method |-> run[c].method, code |-> run[c].code]
  <2>1. /\ run'[c] = Idle /\ pc'[c] = "idle"
        /\ \A b \in CPUs \ {c} : run'[b] = run[b] /\ pc'[b] = pc[b]
    BY <1>6, GotoCode DEF Output
  <2>2. CodeHeld'
    BY <2>1, IdleFacts DEF CodeHeld
  <2>3. rec \in Payload("method_events") /\ run[c].code \in BOOLEAN
    BY <1>6, PayloadFacts DEF Output, CPUsType, Locals
  <2>4. /\ Waiting("method_events") \subseteq Waiting("method_events")'
        /\ ~Full("method_events") => rec \in Waiting("method_events")'
    BY <1>6, <2>3, SubmitIfRoomFacts, PayloadFacts DEF Output
  <2>5. methodCodeCache' = methodCodeCache /\ lost \subseteq lost'
        /\ (run[c].code /\ Full("method_events") => run[c].method \in lost')
    BY <1>6 DEF Output, mapVars
  <2>6. ASSUME NEW m \in methodCodeCache' \ lost'
        PROVE  Kept(m)'
    <3>1. Kept(m)
      BY <1>1, <2>5
    <3>2. CASE run[c].method = m /\ run[c].code
      <4>1. rec = [method |-> m, code |-> TRUE] /\ ~Full("method_events")
        BY <2>3, <2>5, <3>2
      <4> QED
        BY <2>4, <4>1 DEF Kept
    <3>3. CASE ~(run[c].method = m /\ run[c].code)
      BY <1>3, <2>1, <2>4, <3>1, <3>3 DEF Kept
    <3> QED
      BY <3>2, <3>3
  <2> QED
    BY <1>2, <2>2, <2>6
<1>7. ASSUME NEW c \in CPUs, NEW d \in Dexes, NEW m \in Methods \cup {NoMethod}, Hit(c, d, m)
      PROVE  CodeHeld' /\ MarkedMethodRecorded'
  <2>1. /\ run'[c] = Started(d, m) /\ pc'[c] = "cached" /\ ~run[c].code /\ ~run'[c].code
        /\ \A b \in CPUs \ {c} : run'[b] = run[b] /\ pc'[b] = pc[b]
    BY <1>7, GotoCode DEF Hit, CodeHeld, Started
  <2>2. methodCodeCache' = methodCodeCache /\ lost' = lost /\ ring' = ring
    BY <1>7 DEF Hit, mapVars, histVars
  <2>3. CodeHeld'
    BY <2>1 DEF CodeHeld
  <2>4. \A b \in CPUs : run[b].code => run'[b].method = run[b].method /\ run'[b].code
    BY <2>1
  <2>5. Waiting("method_events") \subseteq Waiting("method_events")'
    BY <2>2 DEF Waiting
  <2> QED
    BY <1>1, <1>2, <1>3, <2>2, <2>3, <2>4, <2>5, KeptStable
<1>8. CASE Evict
  <2>1. UNCHANGED <<pc, run, ring, lost>> /\ methodCodeCache' \subseteq methodCodeCache
    BY <1>8 DEF Evict, histVars
  <2> QED
    BY <1>1, <1>2, <1>3, <2>1 DEF CodeHeld, Kept, Waiting
<1> QED
  BY <1>4, <1>5, <1>6, <1>7, <1>8 DEF ProbeStep, CPUStep, EarlyStep

LEMMA CodeUser ==
  ASSUME TypeOK, CodeHeld, MarkedMethodRecorded, UserSide
  PROVE  CodeHeld' /\ MarkedMethodRecorded'
<1>1. UNCHANGED <<pc, run, methodCodeCache, lost>>
  BY DEF UserSide, UserStep, HandleDexEvent, HandleDexChunk, HandleReadFailure,
         HandleMethodEvent, TakeFrom, Expire, vars, bpfVars, mapVars, histVars
<1>2. CASE HandleMethodEvent
  <2> DEFINE x == Head(ring["method_events"])
  <2>1. Waiting("method_events") = Waiting("method_events")' \cup {x}
    BY <1>2, TakeFacts DEF HandleMethodEvent, TypeOK, Rings
  <2>2. recorded' = IF x.code THEN recorded \cup {x.method} ELSE recorded
    BY <1>2 DEF HandleMethodEvent
  <2>3. \A m : [method |-> m, code |-> TRUE] = x => m \in recorded'
    BY <2>2
  <2> HIDE DEF x
  <2> QED
    BY <1>1, <2>1, <2>2, <2>3 DEF CodeHeld, MarkedMethodRecorded
<1>3. CASE ~HandleMethodEvent
  <2>1. recorded' = recorded
    BY <1>3 DEF UserSide, UserStep, HandleDexEvent, HandleDexChunk, HandleReadFailure,
                Expire, vars, userVars
  <2>2. Waiting("method_events")' = Waiting("method_events")
    <3>1. ASSUME NEW r \in Rings \ {"method_events"}, TakeFrom(r)
          PROVE  Waiting("method_events")' = Waiting("method_events")
      BY <3>1, TakeFacts DEF TypeOK, Rings
    <3>2. CASE ring' = ring
      BY <3>2 DEF Waiting
    <3> QED
      BY <1>3, <3>1, <3>2 DEF UserSide, UserStep, HandleDexEvent, HandleDexChunk,
         HandleReadFailure, Expire, vars, bpfVars, Rings
  <2> QED
    BY <1>1, <2>1, <2>2 DEF CodeHeld, MarkedMethodRecorded
<1> QED
  BY <1>2, <1>3

(* Bytecode the probes will not read again is recorded, on its way, or was   *)
(* turned away by a full ring.                                               *)
THEOREM MarkedRecorded == Spec => []MarkedMethodRecorded
<1>1. Init => CodeHeld /\ MarkedMethodRecorded
  BY IdleFacts DEF Init, BpfInit, CodeHeld, MarkedMethodRecorded
<1>2. TypeOK /\ CodeHeld /\ MarkedMethodRecorded /\ [Next]_vars
        => (CodeHeld /\ MarkedMethodRecorded)'
  BY CodeProbe, CodeUser DEF Next, UserSide
<1> QED
  BY <1>1, <1>2, TypeCorrect, PTL DEF Spec
=============================================================================
