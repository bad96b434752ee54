-------------------------- MODULE DumpStateProofs --------------------------
(***************************************************************************)
(* Proofs about the collector of DumpState, for every set of keys, images, *)
(* methods and event kinds and every bound.                                *)
(***************************************************************************)
EXTENDS DumpStateProps, FiniteSetTheorems, TLAPS

LEMMA NoJobType == NoJob \in Job
<1>1. (CHOOSE k \in Keys : TRUE) \in Keys
  BY KeysAssumption
<1>2. <<>> \in Body
  BY DEF Body
<1> QED
  BY <1>1, <1>2 DEF NoJob, Job, Returns

LEMMA NoPendingType == IsPending(NoPending)
BY DEF NoPending, IsPending

LEMMA GotoType ==
  ASSUME pc \in [Threads -> Labels], job \in [Threads -> Job],
         NEW t \in Threads, NEW next \in Labels, NEW j \in Job, Goto(t, next, j)
  PROVE  pc' \in [Threads -> Labels] /\ job' \in [Threads -> Job]
BY NoJobType DEF Goto

LEMMA QuarantineType ==
  ASSUME pc \in [Threads -> Labels], job \in [Threads -> Job],
         NEW t \in Threads, NEW next \in Returns, NEW j \in Job, Quarantine(t, j, next)
  PROVE  pc' \in [Threads -> Labels] /\ job' \in [Threads -> Job]
<1>1. [j EXCEPT !.ret = next] \in Job
  BY DEF Job
<1>2. "mark" \in Labels
  BY DEF Labels
<1> QED
  BY <1>1, <1>2, GotoType DEF Quarantine

LEMMA ObserveThenType ==
  ASSUME pc \in [Threads -> Labels], job \in [Threads -> Job], dexSizes \in [Keys -> Nat],
         NEW t \in Threads, NEW next \in Returns, NEW j \in Job, ObserveThen(t, j, next)
  PROVE  /\ pc' \in [Threads -> Labels] /\ job' \in [Threads -> Job]
         /\ dexSizes' \in [Keys -> Nat]
<1>1. dexSizes' \in [Keys -> Nat]
  BY DEF ObserveThen, Job
<1>2. Quarantine(t, j, next) \/ Goto(t, next, j)
  BY DEF ObserveThen
<1>3. next \in Labels
  BY DEF Returns, Labels
<1> QED
  BY <1>1, <1>2, <1>3, QuarantineType, GotoType
LEMMA ImageType ==
  ASSUME NEW img \in Images
  PROVE  img \in Body /\ Len(img) \in Nat /\ \A at \in 1..Len(img) : <<img[at]>> \in Body
BY ImagesAssumption DEF Body

(* quarantine_dex keeps the state's types. *)
LEMMA QuarantineStepType ==
  ASSUME TypeOK, NEW t \in Threads, QuarantineStep(t)
  PROVE  TypeOK'
<1> USE DEF storeVars, lockVars, diskVars, runVars, counters
<1>1. job[t] \in Job /\ job[t].key \in Keys /\ job[t].ret \in Labels
  BY DEF TypeOK, Job, Returns, Labels
<1>2. CASE Mark(t)
  <2>1. pc' \in [Threads -> Labels] /\ job' \in [Threads -> Job]
    BY <1>1, <1>2, GotoType DEF TypeOK, Mark, Labels
  <2> QED
    BY <1>1, <1>2, <2>1 DEF TypeOK, Mark, IsPending
<1>3. CASE DropPending(t)
  <2>1. pc' \in [Threads -> Labels] /\ job' \in [Threads -> Job]
    BY <1>1, <1>3, GotoType DEF TypeOK, DropPending, Labels
  <2>2. DOMAIN pending' = Keys /\ \A k \in Keys : IsPending(pending'[k])
    BY <1>1, <1>3, NoPendingType DEF TypeOK, DropPending
  <2> QED
    BY <1>1, <1>3, <2>1, <2>2 DEF TypeOK, DropPending, IsPending
<1>4. CASE DropRecords(t)
  <2>1. pc' \in [Threads -> Labels] /\ job' \in [Threads -> Job]
    BY <1>1, <1>4, GotoType DEF TypeOK, DropRecords, Labels
  <2> QED
    BY <1>1, <1>4, <2>1 DEF TypeOK, DropRecords, IsPending
<1>5. CASE DropNames(t)
  <2>1. pc' \in [Threads -> Labels] /\ job' \in [Threads -> Job]
    BY <1>1, <1>5, GotoType DEF TypeOK, DropNames, Labels
  <2> QED
    BY <1>1, <1>5, <2>1 DEF TypeOK, DropNames, IsPending
<1> QED
  BY <1>2, <1>3, <1>4, <1>5 DEF QuarantineStep
(* A step that only moves a thread keeps the state's types. *)
LEMMA ControlType ==
  ASSUME TypeOK, pc' \in [Threads -> Labels], job' \in [Threads -> Job],
         UNCHANGED <<storeVars, lockVars, diskVars, runVars, counters>>
  PROVE  TypeOK'
BY DEF TypeOK, IsPending, storeVars, lockVars, diskVars, runVars, counters

LEMMA TakeType ==
  ASSUME TypeOK, NEW kind, Take(kind), dexSizes' \in [Keys -> Nat],
         pc' \in [Threads -> Labels], job' \in [Threads -> Job]
  PROVE  TypeOK'
BY DEF TypeOK, Take, IsPending, lockVars, diskVars, runVars

(* A job for the main thread: the header fields of an event, and its payload. *)
LEMMA JobType ==
  ASSUME NEW k \in Keys, NEW n \in Nat, NEW at \in Nat, NEW b \in Body
  PROVE  /\ [NoJob EXCEPT !.key = k, !.size = n] \in Job
         /\ [NoJob EXCEPT !.key = k, !.size = n, !.bytes = b] \in Job
         /\ [NoJob EXCEPT !.key = k, !.size = n, !.at = at, !.bytes = b] \in Job
BY NoJobType DEF Job

(* What a scan hands to save_dex: a body that may be shorter than its size. *)
ScannedJob == {j \in Job : j.at = 0 /\ Len(j.bytes) <= j.size}

LEMMA ScannedBodyType ==
  ASSUME NEW k \in Keys, NEW head \in Images, NEW img \in Images, NEW n \in 1..Len(head)
  PROVE  ScannedBody(k, head, img, n) \in ScannedJob
<1> DEFINE b == [p \in 1..n |-> IF p <= Len(img) THEN img[p] ELSE Junk]
<1>1. /\ Len(head) \in Nat /\ Len(img) \in Nat /\ Junk \in Parts
      /\ \A p \in 1..Len(img) : img[p] \in Parts
  BY ImageType, ImagesAssumption
<1>2. b \in Body /\ Len(b) = n
  BY <1>1 DEF Body
<1> DEFINE j == [NoJob EXCEPT !.key = k, !.size = Len(head), !.bytes = b]
<1>3. j \in Job
  BY <1>1, <1>2, JobType
<1>4. j.at = 0 /\ j.bytes = b /\ j.size = Len(head)
  BY DEF NoJob
<1>5. ScannedBody(k, head, img, n) = j
  BY DEF ScannedBody
<1> HIDE DEF j, b
<1> QED
  BY <1>1, <1>2, <1>3, <1>4, <1>5 DEF ScannedJob

(* Taking a record off its ring keeps the state's types. *)
LEMMA TakeStepType ==
  ASSUME TypeOK, TakeStep
  PROVE  TypeOK'
<1> PICK k \in Keys, img \in Images :
      \/ TakeDexEvent(k, img)
      \/ \E at \in 1..Len(img) : TakeChunk(k, img, at)
      \/ \E idx \in Methods, code \in {<<>>, <<Junk>>} : TakeMethod(k, img, idx, code)
      \/ TakeFailure(k, img)
      \/ TakeScanned(k, img)
  BY DEF TakeStep
<1>1. img \in Body /\ Len(img) \in Nat /\ "main" \in Threads /\ Junk \in Parts
  BY ImageType, ImagesAssumption DEF Threads
<1>2. CASE TakeDexEvent(k, img)
  <2>1. /\ pc' \in [Threads -> Labels] /\ job' \in [Threads -> Job]
        /\ dexSizes' \in [Keys -> Nat]
    <3>1. [NoJob EXCEPT !.key = k, !.size = Len(img)] \in Job /\ "idle" \in Returns
      BY <1>1, JobType DEF Returns, Body
    <3> QED
      BY <1>1, <1>2, <3>1, ObserveThenType DEF TypeOK, TakeDexEvent
  <2> QED
    BY <1>2, <2>1, TakeType DEF TakeDexEvent
<1>3. ASSUME NEW at \in 1..Len(img), TakeChunk(k, img, at)
      PROVE  TypeOK'
  <2>1. /\ pc' \in [Threads -> Labels] /\ job' \in [Threads -> Job]
        /\ dexSizes' \in [Keys -> Nat]
    <3>1. <<img[at]>> \in Body /\ at \in Nat
      BY <1>1, ImageType
    <3>2. [NoJob EXCEPT !.key = k, !.size = Len(img), !.at = at, !.bytes = <<img[at]>>] \in Job
      BY <1>1, <3>1, JobType
    <3>3. "chunkAmbiguous" \in Returns
      BY DEF Returns
    <3> QED
      BY <1>1, <1>3, <3>2, <3>3, ObserveThenType DEF TypeOK, TakeChunk
  <2> QED
    BY <1>3, <2>1, TakeType DEF TakeChunk
<1>4. ASSUME NEW idx \in Methods, NEW code \in {<<>>, <<Junk>>}, TakeMethod(k, img, idx, code)
      PROVE  TypeOK'
  <2>1. /\ pc' \in [Threads -> Labels] /\ job' \in [Threads -> Job]
        /\ dexSizes' \in [Keys -> Nat]
    <3>1. code \in Body /\ idx \in Nat
      <4>1. <<>> \in Body /\ <<Junk>> \in Body
        BY <1>1 DEF Body
      <4> QED
        BY <4>1, BoundsAssumption
    <3>2. [NoJob EXCEPT !.key = k, !.size = Len(img), !.at = idx, !.bytes = code] \in Job
      BY <1>1, <3>1, JobType
    <3>3. "methodAmbiguous" \in Returns
      BY DEF Returns
    <3> QED
      BY <1>1, <1>4, <3>2, <3>3, ObserveThenType DEF TypeOK, TakeMethod
  <2> QED
    BY <1>4, <2>1, TakeType DEF TakeMethod
<1>5. CASE TakeFailure(k, img)
  <2>1. /\ pc' \in [Threads -> Labels] /\ job' \in [Threads -> Job]
        /\ dexSizes' \in [Keys -> Nat]
    <3>1. [NoJob EXCEPT !.key = k, !.size = Len(img)] \in Job /\ "failCached" \in Returns
      BY <1>1, JobType DEF Returns, Body
    <3> QED
      BY <1>1, <1>5, <3>1, ObserveThenType DEF TypeOK, TakeFailure
  <2> QED
    BY <1>5, <2>1, TakeType DEF TakeFailure
<1>6. CASE TakeScanned(k, img)
  <2>1. /\ pc' \in [Threads -> Labels] /\ job' \in [Threads -> Job]
        /\ dexSizes' \in [Keys -> Nat]
    <3>1. PICK j \in ScannedJob : Goto("main", "saveEnter", j)
      BY <1>6, ScannedBodyType DEF TakeScanned, Later
    <3>2. j \in Job /\ "saveEnter" \in Labels
      BY DEF ScannedJob, Labels
    <3> QED
      BY <1>1, <1>6, <3>1, <3>2, GotoType DEF TypeOK, TakeScanned
  <2> QED
    BY <1>6, <2>1, TakeType DEF TakeScanned
<1> QED
  BY <1>2, <1>3, <1>4, <1>5, <1>6
-----------------------------------------------------------------------------
(* A chunk in hand carries a part and its position: what handle_dex_chunk    *)
(* indexes its buffer with.  TypeOK alone is not inductive without it.       *)
HoldsChunk == \/ pc["main"] \in {"chunkAmbiguous", "chunkCached", "chunkPending"}
              \/ pc["main"] \in Quarantining /\ job["main"].ret = "chunkAmbiguous"

ChunkInHand == HoldsChunk => job["main"].at # 0 /\ Len(job["main"].bytes) = 1

LEMMA PendingType ==
  ASSUME NEW j \in Job, DOMAIN pending = Keys, \A k \in Keys : IsPending(pending[k]),
         j.at # 0, Len(j.bytes) = 1
  PROVE  IsPending(Entry(j)) /\ IsPending(Received(Entry(j), j))
<1>1. j.bytes[1] \in Parts /\ j.at \in Nat \ {0} /\ j.size \in Nat /\ j.key \in Keys
  BY DEF Job, Body
<1>2. IsPending(Entry(j))
  BY <1>1 DEF Entry, IsPending
<1> DEFINE e == Entry(j)
<1>3. CASE j.at > e.total
  BY <1>2, <1>3 DEF Received
<1>4. CASE ~(j.at > e.total)
  <2> DEFINE g == [p \in DOMAIN e.got \cup {j.at} |-> IF p = j.at THEN j.bytes[1] ELSE e.got[p]]
  <2>1. e = [total |-> e.total, got |-> e.got] /\ e.total \in Nat /\ DOMAIN e.got \subseteq 1..e.total
    BY <1>2 DEF IsPending
  <2>2. Received(e, j) = [total |-> e.total, got |-> g]
    BY <1>4, <2>1 DEF Received
  <2>3. DOMAIN g \subseteq 1..e.total
    BY <1>1, <1>4, <2>1
  <2>4. \A p \in DOMAIN g : g[p] \in Parts
    BY <1>1, <1>2 DEF IsPending
  <2>5. g = [p \in DOMAIN g |-> g[p]]
    OBVIOUS
  <2> HIDE DEF g
  <2>6. IsPending([total |-> e.total, got |-> g])
    BY <2>1, <2>3, <2>4, <2>5 DEF IsPending
  <2> QED
    BY <1>2, <2>2, <2>6
<1> QED
  BY <1>2, <1>3, <1>4

LEMMA BufferType ==
  ASSUME NEW e, IsPending(e)
  PROVE  Buffer(e) \in Body
BY ImagesAssumption DEF IsPending, Buffer, Body

(* handle_dex_chunk keeps the state's types. *)
LEMMA ChunkStepType ==
  ASSUME TypeOK, ChunkInHand, ChunkAmbiguous \/ ChunkCached \/ ChunkPending
  PROVE  TypeOK'
<1> DEFINE j == job["main"]
<1>1. /\ "main" \in Threads /\ j \in Job /\ j.key \in Keys
      /\ pc \in [Threads -> Labels] /\ job \in [Threads -> Job]
      /\ {"idle", "chunkCached", "chunkPending", "saveEnter"} \subseteq Labels
  BY DEF TypeOK, Job, Threads, Labels
<1>2. CASE ChunkAmbiguous
  <2>1. pc' \in [Threads -> Labels] /\ job' \in [Threads -> Job]
    BY <1>1, <1>2, GotoType DEF ChunkAmbiguous
  <2> QED
    BY <1>2, <2>1, ControlType DEF ChunkAmbiguous
<1>3. CASE ChunkCached
  <2>1. \/ \E next \in Labels : Goto("main", next, j)
        \/ Quarantine("main", j, "idle")
    BY <1>1, <1>3 DEF ChunkCached
  <2>2. pc' \in [Threads -> Labels] /\ job' \in [Threads -> Job]
    BY <1>1, <2>1, GotoType, QuarantineType DEF Returns
  <2> QED
    BY <1>3, <2>2, ControlType DEF ChunkCached
<1>4. CASE ChunkPending
  <2> DEFINE r == Received(Entry(j), j)
  <2>1. IsPending(r)
    BY <1>1, <1>4, PendingType DEF ChunkPending, At, ChunkInHand, HoldsChunk, TypeOK
  <2>2. [j EXCEPT !.bytes = Buffer(r)] \in Job
    BY <1>1, <2>1, BufferType DEF Job
  <2>3. \/ \E next \in Labels : Goto("main", next, j)
        \/ Goto("main", "saveEnter", [j EXCEPT !.bytes = Buffer(r)])
        \/ Quarantine("main", j, "idle")
    BY <1>1, <1>4 DEF ChunkPending
  <2>4. pc' \in [Threads -> Labels] /\ job' \in [Threads -> Job]
    BY <1>1, <2>2, <2>3, GotoType, QuarantineType DEF Returns
  <2>5. DOMAIN pending' = Keys /\ \A k \in Keys : IsPending(pending'[k])
    BY <1>1, <1>4, <2>1, NoPendingType DEF ChunkPending, TypeOK
  <2> QED
    BY <1>4, <2>4, <2>5
    DEF ChunkPending, TypeOK, lockVars, diskVars, runVars, counters
<1> QED
  BY <1>2, <1>3, <1>4
LEMMA MethodNameType ==
  ASSUME NEW b \in Body
  PROVE  MethodName(b) \in Body
BY DEF MethodName, Placeholder, Body

(* handle_method_event keeps the state's types. *)
LEMMA MethodStepType ==
  ASSUME TypeOK,
         MethodAmbiguous \/ MethodSig \/ MethodResolve \/ MethodRemember \/ MethodPush
  PROVE  TypeOK'
<1> DEFINE j == job["main"]
<1>1. /\ "main" \in Threads /\ j \in Job /\ j.key \in Keys /\ j.at \in Nat
      /\ pc \in [Threads -> Labels] /\ job \in [Threads -> Job]
      /\ {"idle", "methodSig", "methodResolve", "methodRemember", "methodPush"} \subseteq Labels
      /\ AfterName(j) \in Labels
  BY DEF TypeOK, Job, Threads, Labels, AfterName
<1>2. CASE MethodAmbiguous
  <2>1. pc' \in [Threads -> Labels] /\ job' \in [Threads -> Job]
    BY <1>1, <1>2, GotoType DEF MethodAmbiguous
  <2> QED
    BY <1>2, <2>1, ControlType DEF MethodAmbiguous
<1>3. CASE MethodSig
  <2>1. CASE Goto("main", "methodResolve", j)
    <3>1. pc' \in [Threads -> Labels] /\ job' \in [Threads -> Job]
      BY <1>1, <2>1, GotoType
    <3> QED
      BY <1>3, <3>1, ControlType DEF MethodSig
  <2>2. ASSUME NEW e \in sigCache, Goto("main", AfterName(j), [j EXCEPT !.name = e.name])
        PROVE  TypeOK'
    <3>1. [j EXCEPT !.name = e.name] \in Job
      BY <1>1 DEF TypeOK, Job, Name
    <3>2. pc' \in [Threads -> Labels] /\ job' \in [Threads -> Job]
      BY <1>1, <2>2, <3>1, GotoType
    <3> QED
      BY <1>3, <3>2, ControlType DEF MethodSig
  <2> QED
    BY <1>3, <2>1, <2>2 DEF MethodSig
<1>4. CASE MethodResolve
  <2>1. [j EXCEPT !.name = MethodName(dexCache[j.key])] \in Job
    BY <1>1, MethodNameType DEF TypeOK, Job
  <2>2. pc' \in [Threads -> Labels] /\ job' \in [Threads -> Job]
    BY <1>1, <1>4, <2>1, GotoType DEF MethodResolve
  <2> QED
    BY <1>4, <2>2, ControlType DEF MethodResolve
<1>5. CASE MethodRemember
  <2>1. pc' \in [Threads -> Labels] /\ job' \in [Threads -> Job]
    BY <1>1, <1>5, GotoType DEF MethodRemember
  <2>2. [key |-> j.key, idx |-> j.at, name |-> j.name] \in Name
    BY <1>1 DEF Job, Name
  <2>3. \A e \in sigCache' : e \in Name
    BY <1>5, <2>2 DEF MethodRemember, TypeOK
  <2> QED
    BY <1>5, <2>1, <2>3
    DEF MethodRemember, TypeOK, IsPending, lockVars, diskVars, runVars, counters
<1>6. CASE MethodPush
  <2>1. pc' \in [Threads -> Labels] /\ job' \in [Threads -> Job]
    BY <1>1, <1>6, GotoType DEF MethodPush
  <2>2. [idx |-> j.at, name |-> j.name, size |-> j.size] \in Record
    BY <1>1 DEF Job, Record
  <2>3. DOMAIN records' = Keys /\ \A k \in Keys : \A r \in records'[k] : r \in Record
    BY <1>1, <1>6, <2>2 DEF MethodPush, TypeOK
  <2> QED
    BY <1>6, <2>1, <2>3
    DEF MethodPush, TypeOK, IsPending, lockVars, diskVars, runVars, counters
<1> QED
  BY <1>2, <1>3, <1>4, <1>5, <1>6

(* Forgetting the body under assembly keeps the state's types. *)
LEMMA ForgetPendingType ==
  ASSUME TypeOK, NEW k \in Keys, pending' = [pending EXCEPT ![k] = NoPending],
         pc' \in [Threads -> Labels], job' \in [Threads -> Job],
         UNCHANGED <<dexSizes, ambiguous, dexCache, records, sigCache, lockVars, diskVars,
                     runVars, counters>>
  PROVE  TypeOK'
<1>1. DOMAIN pending' = Keys /\ \A q \in Keys : IsPending(pending'[q])
  BY NoPendingType DEF TypeOK
<1> QED
  BY <1>1 DEF TypeOK, lockVars, diskVars, runVars, counters

-----------------------------------------------------------------------------
(* What read_remote_range returns is as long as the range, and what the      *)
(* fallback keeps of it is a body.                                           *)
LEMMA RemoteType ==
  ASSUME NEW img \in Images, NEW from \in Nat \ {0}, NEW to \in Nat, from <= to + 1, NEW ok
  PROVE  Remote(img, from, to, ok) \in Body /\ Len(Remote(img, from, to, ok)) = (to + 1) - from
<1> DEFINE n == (to + 1) - from
<1>1. n \in Nat /\ Remote(img, from, to, ok) = [p \in 1..n |-> Remote(img, from, to, ok)[p]]
  BY DEF Remote
<1>2. ASSUME NEW p \in 1..n
      PROVE  Remote(img, from, to, ok)[p] \in Parts
  <2>1. from + p - 1 \in 1..to
    OBVIOUS
  <2>2. from + p - 1 <= Len(img) => img[from + p - 1] \in Parts
    BY <2>1, ImagesAssumption
  <2> QED
    BY <2>2, ImagesAssumption DEF Remote
<1> QED
  BY <1>1, <1>2 DEF Body, Remote

LEMMA PrefixType ==
  ASSUME NEW b \in Body, NEW n \in Nat, n <= Len(b)
  PROVE  SubSeq(b, 1, n) \in Body /\ Len(SubSeq(b, 1, n)) = n
BY DEF Body
LEMMA FallbackType ==
  ASSUME NEW img \in Images, NEW size \in Nat, NEW ok
  PROVE  Fallback(img, size, ok) \in Body
<1> DEFINE got   == Cardinality(ok \cap 1..size)
           buf   == SubSeq(Remote(img, 1, size, ok), 1, got)
           claim == IF Parses(buf) THEN HeaderSize[buf[1]] ELSE 0
<1>1. got \in Nat /\ got <= size
  <2>1. IsFiniteSet(1..size) /\ Cardinality(1..size) = size
    BY FS_Interval
  <2>2. IsFiniteSet(ok \cap 1..size) /\ Cardinality(ok \cap 1..size) <= size
    BY <2>1, FS_Subset
  <2> QED
    BY <2>2, FS_CardinalityType
<1>2. buf \in Body /\ Len(buf) = got
  <2>1. Remote(img, 1, size, ok) \in Body /\ Len(Remote(img, 1, size, ok)) = size
    BY RemoteType
  <2> QED
    BY <1>1, <2>1, PrefixType
<1>3. claim \in Nat
  BY ImagesAssumption DEF Parses
<1> HIDE DEF got, buf, claim
<1>4. claim <= got => SubSeq(buf, 1, claim) \in Body
  BY <1>1, <1>2, <1>3, PrefixType
<1>5. ~(claim <= got) => Remote(img, got + 1, claim, ok) \in Body
  BY <1>1, <1>3, RemoteType
<1>6. ~(claim <= got) => buf \o Remote(img, got + 1, claim, ok) \in Body
  BY <1>2, <1>5 DEF Body
<1> QED
  BY <1>2, <1>4, <1>6 DEF Fallback, got, buf, claim

(* handle_read_failure keeps the state's types. *)
LEMMA FailStepType ==
  ASSUME TypeOK,
         \/ FailCached \/ FailAmbiguous \/ FailForget
         \/ \E img \in Images, ok \in SUBSET (1..MaxDexSize) : FailRead(img, ok)
  PROVE  TypeOK'
<1> DEFINE j == job["main"]
<1>1. /\ "main" \in Threads /\ j \in Job /\ j.key \in Keys /\ j.size \in Nat
      /\ pc \in [Threads -> Labels] /\ job \in [Threads -> Job]
      /\ {"idle", "failAmbiguous", "failRead", "failForget", "saveEnter"} \subseteq Labels
  BY DEF TypeOK, Job, Threads, Labels
<1>2. CASE FailCached
  <2>1. pc' \in [Threads -> Labels] /\ job' \in [Threads -> Job]
    BY <1>1, <1>2, GotoType DEF FailCached
  <2> QED
    BY <1>2, <2>1, ControlType DEF FailCached
<1>3. CASE FailAmbiguous
  <2>1. pc' \in [Threads -> Labels] /\ job' \in [Threads -> Job]
    BY <1>1, <1>3, GotoType DEF FailAmbiguous
  <2> QED
    BY <1>3, <2>1, ControlType DEF FailAmbiguous
<1>4. CASE FailForget
  <2>1. pc' \in [Threads -> Labels] /\ job' \in [Threads -> Job]
    BY <1>1, <1>4, GotoType DEF FailForget
  <2> QED
    BY <1>1, <1>4, <2>1, ForgetPendingType DEF FailForget
<1>5. ASSUME NEW img \in Images, NEW ok \in SUBSET (1..MaxDexSize), FailRead(img, ok)
      PROVE  TypeOK'
  <2> DEFINE b == Fallback(img, j.size, ok)
  <2>1. b \in Body /\ Len(b) \in Nat
    BY <1>1, FallbackType DEF Body
  <2>2. [j EXCEPT !.bytes = b, !.size = Len(b)] \in Job
    BY <1>1, <2>1 DEF Job
  <2>3. pc' \in [Threads -> Labels] /\ job' \in [Threads -> Job]
    BY <1>1, <1>5, <2>2, GotoType DEF FailRead
  <2> QED
    BY <1>5, <2>3, ControlType DEF FailRead
<1> QED
  BY <1>2, <1>3, <1>4, <1>5

-----------------------------------------------------------------------------
LEMMA WriteFileType ==
  ASSUME TypeOK, NEW j \in Job, NEW b \in Body, WriteFile(FileName(j), b)
  PROVE  \A f \in files' : f \in DexFile
<1> DEFINE n == FileName(j)
<1>1. n.key \in Keys /\ n.size \in Nat /\ n.hash \in Body
  BY DEF FileName, Job, Body
<1>2. [key |-> n.key, size |-> n.size, hash |-> n.hash, bytes |-> b] \in DexFile
  BY <1>1 DEF DexFile
<1> QED
  BY <1>2 DEF WriteFile, TypeOK

(* save_dex keeps the state's types, in both threads. *)
LEMMA SaveStepType ==
  ASSUME TypeOK, NEW t \in Threads, SaveStep(t)
  PROVE  TypeOK'
<1> DEFINE j == job[t]
<1>1. /\ j \in Job /\ j.key \in Keys /\ j.size \in Nat /\ j.bytes \in Body
      /\ pc \in [Threads -> Labels] /\ job \in [Threads -> Job]
      /\ {"idle"} \cup SaveSection \subseteq Labels
  BY DEF TypeOK, Job, Labels, SaveSection
<1>2. CASE SaveEnter(t)
  <2>1. pc' \in [Threads -> Labels] /\ job' \in [Threads -> Job]
    BY <1>1, <1>2, GotoType DEF SaveEnter, SaveSection
  <2> QED
    BY <1>2, <2>1 DEF SaveEnter, TypeOK, IsPending, storeVars, diskVars, runVars, counters
<1>3. CASE SaveSkip(t)
  <2>1. pc' \in [Threads -> Labels] /\ job' \in [Threads -> Job]
    BY <1>1, <1>3, GotoType DEF SaveSkip
  <2> QED
    BY <1>3, <2>1, ControlType DEF SaveSkip
<1>4. CASE SaveObserve(t)
  <2>1. /\ pc' \in [Threads -> Labels] /\ job' \in [Threads -> Job]
        /\ dexSizes' \in [Keys -> Nat]
    BY <1>1, <1>4, ObserveThenType DEF SaveObserve, SaveSection, TypeOK, Returns
  <2> QED
    BY <1>4, <2>1 DEF SaveObserve, TypeOK, IsPending, lockVars, diskVars, runVars, counters
<1>5. CASE SaveCompare(t)
  <2>1. \/ \E next \in Labels : Goto(t, next, j)
        \/ Quarantine(t, j, "saveWrite")
    BY <1>1, <1>5 DEF SaveCompare, SaveSection
  <2>2. pc' \in [Threads -> Labels] /\ job' \in [Threads -> Job]
    BY <1>1, <2>1, GotoType, QuarantineType DEF SaveSection, Returns
  <2>3. sealOwner' \in Threads \cup {Nobody} /\ cacheOwner' \in Threads \cup {Nobody}
    BY <1>5 DEF SaveCompare, TypeOK
  <2>4. UNCHANGED <<storeVars, sealed, diskVars, runVars, counters>>
    BY <1>5 DEF SaveCompare
  <2> QED
    BY <2>2, <2>3, <2>4 DEF TypeOK, IsPending, storeVars, diskVars, runVars, counters
<1>6. CASE SaveWrite(t)
  <2>1. pc' \in [Threads -> Labels] /\ job' \in [Threads -> Job]
    BY <1>1, <1>6, GotoType DEF SaveWrite, SaveSection
  <2>2. \A f \in files' : f \in DexFile
    BY <1>1, <1>6, WriteFileType DEF SaveWrite
  <2> QED
    BY <1>6, <2>1, <2>2
    DEF SaveWrite, TypeOK, IsPending, storeVars, lockVars, runVars, counters
<1>7. ASSUME NEW n \in 0..MaxDexSize, SaveWriteFails(t, n)
      PROVE  TypeOK'
  <2>1. pc' \in [Threads -> Labels] /\ job' \in [Threads -> Job]
    BY <1>1, <1>7, GotoType DEF SaveWriteFails
  <2>2. n \in Nat /\ n <= Len(j.bytes)
    BY <1>1, <1>7, BoundsAssumption DEF SaveWriteFails, Body
  <2>3. SubSeq(j.bytes, 1, n) \in Body
    BY <1>1, <2>2, PrefixType
  <2>4. \A f \in files' : f \in DexFile
    BY <1>1, <1>7, <2>3, WriteFileType DEF SaveWriteFails, TypeOK
  <2>5. /\ UNCHANGED <<storeVars, sealed, jsons, runVars, taken, scanned>>
        /\ errors' \in Nat /\ sealOwner' = Nobody /\ cacheOwner' = Nobody
    BY <1>7 DEF SaveWriteFails, TypeOK
  <2> QED
    BY <2>1, <2>4, <2>5 DEF TypeOK, IsPending, storeVars, runVars
<1>8. CASE SaveForgetPending(t)
  <2>1. pc' \in [Threads -> Labels] /\ job' \in [Threads -> Job]
    BY <1>1, <1>8, GotoType DEF SaveForgetPending, SaveSection
  <2> QED
    BY <1>1, <1>8, <2>1, ForgetPendingType DEF SaveForgetPending
<1>9. CASE SaveForgetNames(t)
  <2>1. pc' \in [Threads -> Labels] /\ job' \in [Threads -> Job]
    BY <1>1, <1>9, GotoType DEF SaveForgetNames, SaveSection
  <2> QED
    BY <1>9, <2>1
    DEF SaveForgetNames, TypeOK, IsPending, lockVars, diskVars, runVars, counters
<1>10. CASE SaveInsert(t)
  <2>1. pc' \in [Threads -> Labels] /\ job' \in [Threads -> Job]
    BY <1>1, <1>10, GotoType DEF SaveInsert
  <2> QED
    BY <1>1, <1>10, <2>1 DEF SaveInsert, TypeOK, IsPending, diskVars, runVars, counters
<1> QED
  BY <1>2, <1>3, <1>4, <1>5, <1>6, <1>7, <1>8, <1>9, <1>10 DEF SaveStep
LEMMA ScanFoundType ==
  ASSUME TypeOK, NEW k \in Keys, NEW head \in Images, ScanFound(k, head)
  PROVE  TypeOK'
<1>1. "scan" \in Threads /\ "saveEnter" \in Labels /\ Len(head) \in 1..Len(head)
  BY ImagesAssumption DEF Threads, Labels
<1>2. PICK j \in ScannedJob : Goto("scan", "saveEnter", j)
  BY <1>1, ScannedBodyType DEF ScanFound, Later
<1>3. pc' \in [Threads -> Labels] /\ job' \in [Threads -> Job]
  BY <1>1, <1>2, GotoType DEF ScannedJob, TypeOK
<1> QED
  BY <1>3 DEF ScanFound, TypeOK, IsPending, storeVars, lockVars, diskVars, runVars

(* The stop sequence of run() keeps the state's types. *)
LEMMA StopStepType ==
  ASSUME TypeOK, StopStep \/ Signal
  PROVE  TypeOK'
<1> USE DEF storeVars, lockVars, diskVars, counters
<1>1. CASE LeaveLoop
  BY <1>1 DEF LeaveLoop, TypeOK, IsPending
<1>2. CASE Seal
  BY <1>2 DEF Seal, TypeOK, IsPending
<1>3. ASSUME NEW written \in SUBSET Keys, FlushJson(written)
      PROVE  TypeOK'
  <2>1. \A k \in Keys : Len(dexCache[k]) \in Nat
    BY DEF TypeOK, Body
  <2>2. \A j \in jsons' : j.key \in Keys /\ j.size \in Nat /\ \A r \in j.records : r \in Record
    BY <1>3, <2>1 DEF FlushJson, TypeOK, Flushable
  <2>3. DOMAIN records' = Keys /\ \A k \in Keys : \A r \in records'[k] : r \in Record
    BY <1>3 DEF FlushJson
  <2> QED
    BY <1>3, <2>2, <2>3 DEF FlushJson, TypeOK, IsPending
<1>4. CASE Signal
  BY <1>4 DEF Signal, TypeOK, IsPending
<1> QED
  BY <1>1, <1>2, <1>3, <1>4 DEF StopStep

LEMMA TypeInit == Init => TypeOK
<1>1. <<>> \in Body /\ "idle" \in Labels
  BY DEF Body, Labels
<1> SUFFICES ASSUME Init PROVE TypeOK
  OBVIOUS
<1>2. dexCache \in [Keys -> Body]
  BY <1>1 DEF Init
<1>3. pc \in [Threads -> Labels] /\ job \in [Threads -> Job]
  BY <1>1, NoJobType DEF Init
<1>4. DOMAIN pending = Keys /\ \A k \in Keys : IsPending(pending[k])
  BY NoPendingType DEF Init
<1>5. DOMAIN records = Keys /\ \A k \in Keys : records[k] = {}
  BY DEF Init
<1>6. dexSizes \in [Keys -> Nat]
  BY DEF Init
<1>7. /\ stops \in 0..2 /\ phase \in {"loop", "final", "sealed", "done"}
      /\ taken \in Nat /\ scanned \in Nat /\ errors \in Nat
  BY DEF Init
<1>8. /\ ambiguous = {} /\ sigCache = {} /\ files = {} /\ jsons = {}
      /\ sealed = FALSE /\ sealOwner = Nobody /\ cacheOwner = Nobody
  BY DEF Init
<1> QED
  BY <1>2, <1>3, <1>4, <1>5, <1>6, <1>7, <1>8 DEF TypeOK

LEMMA TypeNext == TypeOK /\ ChunkInHand /\ [Next]_vars => TypeOK'
<1> SUFFICES ASSUME TypeOK, ChunkInHand, [Next]_vars
             PROVE  TypeOK'
  OBVIOUS
<1>1. "main" \in Threads /\ "scan" \in Threads
  BY DEF Threads
<1>2. CASE MainStep
  <2>1. CASE HandlerStep
    BY <2>1, ChunkStepType, MethodStepType, FailStepType DEF HandlerStep
  <2>2. ASSUME NEW k \in Keys, ExpirePending(k)
        PROVE  TypeOK'
    <3>1. pc' \in [Threads -> Labels] /\ job' \in [Threads -> Job]
      BY <2>2 DEF ExpirePending, TypeOK
    <3> QED
      BY <2>2, <3>1, ForgetPendingType DEF ExpirePending
  <2> QED
    BY <1>1, <1>2, <2>1, <2>2, TakeStepType, QuarantineStepType, SaveStepType, StopStepType
    DEF MainStep
<1>3. CASE ScanStep
  BY <1>1, <1>3, ScanFoundType, QuarantineStepType, SaveStepType DEF ScanStep
<1>4. CASE Signal
  BY <1>4, StopStepType
<1>5. CASE UNCHANGED vars
  BY <1>5 DEF TypeOK, IsPending, vars, storeVars, lockVars, diskVars, runVars, counters
<1> QED
  BY <1>2, <1>3, <1>4, <1>5 DEF Next, Exited

-----------------------------------------------------------------------------
(* Who may come to hold a chunk.                                             *)

LEMMA GotoHoldsNoChunk ==
  ASSUME TypeOK, NEW next \in Labels, NEW j \in Job, Goto("main", next, j),
         next \notin {"chunkAmbiguous", "chunkCached", "chunkPending"} \cup Quarantining
  PROVE  ChunkInHand'
BY DEF TypeOK, Threads, Goto, ChunkInHand, HoldsChunk

LEMMA QuarantineHoldsNoChunk ==
  ASSUME TypeOK, NEW next \in Labels, NEW j \in Job, Quarantine("main", j, next),
         next # "chunkAmbiguous"
  PROVE  ChunkInHand'
BY DEF TypeOK, Threads, Goto, Quarantine, Job, Quarantining, ChunkInHand, HoldsChunk

LEMMA ObserveHoldsNoChunk ==
  ASSUME TypeOK, NEW next \in Labels, NEW j \in Job, ObserveThen("main", j, next),
         next \notin {"chunkAmbiguous", "chunkCached", "chunkPending"} \cup Quarantining
  PROVE  ChunkInHand'
BY GotoHoldsNoChunk, QuarantineHoldsNoChunk DEF ObserveThen

(* A thread's step leaves the other thread where it is. *)
LEMMA GotoOther ==
  ASSUME TypeOK, NEW t \in Threads, NEW u \in Threads \ {t}, NEW next, NEW j, Goto(t, next, j)
  PROVE  pc'[u] = pc[u] /\ job'[u] = job[u]
BY DEF TypeOK, Goto
LEMMA ChunkInit == Init => ChunkInHand
BY DEF Init, ChunkInHand, HoldsChunk, Threads, Quarantining

(* Only a chunk off its ring puts a chunk into the main thread's hand. *)
LEMMA TakeChunkInHand ==
  ASSUME TypeOK, NEW k \in Keys, NEW img \in Images, NEW at \in 1..Len(img),
         TakeChunk(k, img, at)
  PROVE  ChunkInHand'
<1> DEFINE j == [NoJob EXCEPT !.key = k, !.size = Len(img), !.at = at, !.bytes = <<img[at]>>]
<1>1. <<img[at]>> \in Body /\ at \in Nat /\ Len(img) \in Nat
  BY ImageType
<1>2. j \in Job
  BY <1>1, JobType
<1>3. j.at # 0 /\ Len(j.bytes) = 1
  BY NoJobType DEF Job
<1> HIDE DEF j
<1>4. Quarantine("main", j, "chunkAmbiguous") \/ Goto("main", "chunkAmbiguous", j)
  BY DEF TakeChunk, ObserveThen, j
<1>5. CASE Quarantine("main", j, "chunkAmbiguous")
  <2>1. [j EXCEPT !.ret = "chunkAmbiguous"].at = j.at /\ [j EXCEPT !.ret = "chunkAmbiguous"].bytes = j.bytes
    BY <1>2 DEF Job
  <2>2. job'["main"] = [j EXCEPT !.ret = "chunkAmbiguous"]
    BY <1>5 DEF Quarantine, Goto, TypeOK, Threads
  <2> QED
    BY <1>3, <2>1, <2>2 DEF ChunkInHand
<1>6. CASE Goto("main", "chunkAmbiguous", j)
  <2>1. job'["main"] = j
    BY <1>6 DEF Goto, TypeOK, Threads
  <2> QED
    BY <1>3, <2>1 DEF ChunkInHand
<1> QED
  BY <1>4, <1>5, <1>6

LEMMA MainChunkInHand ==
  ASSUME TypeOK, ChunkInHand, MainStep
  PROVE  ChunkInHand'
<1> DEFINE j == job["main"]
<1> USE DEF Quarantining
<1>1. "main" \in Threads /\ j \in Job /\ j.ret \in Returns
  BY DEF TypeOK, Threads, Job
<1>2. {"idle", "methodAmbiguous", "methodSig", "methodResolve", "methodRemember",
       "methodPush", "failCached", "failAmbiguous", "failRead", "failForget", "saveEnter"}
        \cup SaveSection \subseteq Labels
  BY DEF Labels, SaveSection
<1>3. CASE TakeStep
  <2> PICK k \in Keys, img \in Images :
        \/ TakeDexEvent(k, img)
        \/ \E at \in 1..Len(img) : TakeChunk(k, img, at)
        \/ \E idx \in Methods, code \in {<<>>, <<Junk>>} : TakeMethod(k, img, idx, code)
        \/ TakeFailure(k, img)
        \/ TakeScanned(k, img)
    BY <1>3 DEF TakeStep
  <2>1. Len(img) \in Nat /\ img \in Body /\ <<>> \in Body /\ <<Junk>> \in Body
    BY ImageType, ImagesAssumption DEF Body
  <2>2. CASE TakeDexEvent(k, img) \/ TakeFailure(k, img)
    <3>1. [NoJob EXCEPT !.key = k, !.size = Len(img)] \in Job
      BY <2>1, JobType
    <3> QED
      BY <1>2, <2>2, <3>1, ObserveHoldsNoChunk DEF TakeDexEvent, TakeFailure
  <2>3. ASSUME NEW idx \in Methods, NEW code \in {<<>>, <<Junk>>}, TakeMethod(k, img, idx, code)
        PROVE  ChunkInHand'
    <3>1. [NoJob EXCEPT !.key = k, !.size = Len(img), !.at = idx, !.bytes = code] \in Job
      BY <2>1, JobType, BoundsAssumption
    <3> QED
      BY <1>2, <2>3, <3>1, ObserveHoldsNoChunk DEF TakeMethod
  <2>4. CASE TakeScanned(k, img)
    <3>1. PICK b \in ScannedJob : Goto("main", "saveEnter", b)
      BY <2>4, ScannedBodyType DEF TakeScanned, Later
    <3> QED
      BY <1>2, <3>1, GotoHoldsNoChunk DEF ScannedJob
  <2> QED
    BY <2>2, <2>3, <2>4, TakeChunkInHand
<1>4. CASE HandlerStep
  <2>1. CASE ChunkAmbiguous \/ ChunkCached \/ ChunkPending
    <3>1. j.at # 0 /\ Len(j.bytes) = 1
      BY <2>1 DEF ChunkAmbiguous, ChunkCached, ChunkPending, At, ChunkInHand, HoldsChunk
    <3>2. ASSUME NEW next, Goto("main", next, j)
          PROVE  ChunkInHand'
      BY <1>1, <3>1, <3>2 DEF Goto, TypeOK, ChunkInHand, HoldsChunk
    <3>3. CASE ChunkAmbiguous
      BY <3>2, <3>3 DEF ChunkAmbiguous
    <3>4. CASE ChunkCached
      BY <1>1, <1>2, <3>2, <3>4, QuarantineHoldsNoChunk DEF ChunkCached
    <3>5. CASE ChunkPending
      <4>1. ASSUME NEW b, Goto("main", "saveEnter", [j EXCEPT !.bytes = b])
            PROVE  ChunkInHand'
        BY <1>1, <4>1 DEF Goto, TypeOK, ChunkInHand, HoldsChunk
      <4> QED
        BY <1>1, <1>2, <3>2, <3>5, <4>1, QuarantineHoldsNoChunk DEF ChunkPending
    <3> QED
      BY <2>1, <3>3, <3>4, <3>5
  <2>2. ASSUME NEW next \in {"idle", "methodSig", "methodResolve", "methodRemember",
                             "methodPush", "failAmbiguous", "failRead", "failForget", "saveEnter"},
               NEW k, Goto("main", next, k)
        PROVE  ChunkInHand'
    BY <1>1, <2>2 DEF Goto, TypeOK, ChunkInHand, HoldsChunk
  <2>3. AfterName(j) \in {"idle", "methodPush"}
    BY DEF AfterName
  <2>4. CASE MethodAmbiguous \/ MethodSig \/ MethodResolve \/ MethodRemember \/ MethodPush
    BY <2>2, <2>3, <2>4
    DEF MethodAmbiguous, MethodSig, MethodResolve, MethodRemember, MethodPush
  <2>5. CASE FailCached \/ FailAmbiguous \/ FailForget
    BY <2>2, <2>5 DEF FailCached, FailAmbiguous, FailForget
  <2>6. ASSUME NEW img \in Images, NEW ok \in SUBSET (1..MaxDexSize), FailRead(img, ok)
        PROVE  ChunkInHand'
    BY <2>2, <2>6 DEF FailRead
  <2> QED
    BY <1>4, <2>1, <2>4, <2>5, <2>6 DEF HandlerStep
<1>5. CASE \E k \in Keys : ExpirePending(k)
  BY <1>5 DEF ExpirePending, ChunkInHand, HoldsChunk
<1>6. CASE QuarantineStep("main")
  <2>1. PICK next \in {"dropPending", "dropRecords", "dropNames", j.ret} :
          At("main", pc["main"]) /\ pc["main"] \in Quarantining /\ Goto("main", next, j)
    BY <1>6 DEF QuarantineStep, Mark, DropPending, DropRecords, DropNames, At
  <2>2. CASE j.ret = "chunkAmbiguous"
    <3>1. j.at # 0 /\ Len(j.bytes) = 1
      BY <2>1, <2>2 DEF ChunkInHand, HoldsChunk
    <3> QED
      BY <1>1, <2>1, <3>1 DEF Goto, TypeOK, ChunkInHand, HoldsChunk
  <2>3. CASE j.ret # "chunkAmbiguous" /\ next # j.ret
    BY <1>1, <2>1, <2>3 DEF Goto, TypeOK, ChunkInHand, HoldsChunk
  <2>4. CASE j.ret # "chunkAmbiguous" /\ next = j.ret
    BY <1>1, <2>1, <2>4 DEF Goto, TypeOK, Returns, ChunkInHand, HoldsChunk
  <2> QED
    BY <2>2, <2>3, <2>4
<1>7. CASE SaveStep("main")
  <2>1. ASSUME NEW next \in {"idle", "saveObserve", "saveForgetPending", "saveForgetNames",
                             "saveInsert", "saveWrite"}, Goto("main", next, j)
        PROVE  ChunkInHand'
    BY <1>1, <2>1 DEF Goto, TypeOK, ChunkInHand, HoldsChunk
  <2>2. CASE SaveObserve("main")
    BY <1>1, <1>2, <2>2, ObserveHoldsNoChunk DEF SaveObserve, SaveSection
  <2>3. CASE SaveCompare("main")
    BY <1>1, <1>2, <2>1, <2>3, QuarantineHoldsNoChunk DEF SaveCompare, SaveSection
  <2>4. CASE SaveEnter("main") \/ SaveSkip("main")
    BY <2>1, <2>4 DEF SaveEnter, SaveSkip
  <2>5. CASE SaveWrite("main") \/ \E n \in 0..MaxDexSize : SaveWriteFails("main", n)
    BY <2>1, <2>5 DEF SaveWrite, SaveWriteFails
  <2>6. CASE SaveForgetPending("main") \/ SaveForgetNames("main") \/ SaveInsert("main")
    BY <2>1, <2>6 DEF SaveForgetPending, SaveForgetNames, SaveInsert
  <2> QED
    BY <1>7, <2>2, <2>3, <2>4, <2>5, <2>6 DEF SaveStep
<1>8. CASE StopStep
  BY <1>8 DEF StopStep, LeaveLoop, Seal, FlushJson, ChunkInHand, HoldsChunk
<1> QED
  BY <1>3, <1>4, <1>5, <1>6, <1>7, <1>8 DEF MainStep
(* What a thread does in save_dex or quarantine_dex moves that thread only.  *)
LEMMA StepMoves ==
  ASSUME NEW t \in Threads, QuarantineStep(t) \/ SaveStep(t)
  PROVE  \E next, j : Goto(t, next, j)
<1>1. CASE QuarantineStep(t)
  BY <1>1 DEF QuarantineStep, Mark, DropPending, DropRecords, DropNames
<1>2. CASE SaveStep(t)
  <2>1. CASE SaveEnter(t) \/ SaveSkip(t) \/ SaveObserve(t)
    BY <2>1 DEF SaveEnter, SaveSkip, SaveObserve, ObserveThen, Quarantine
  <2>2. CASE SaveCompare(t) \/ SaveWrite(t) \/ \E n \in 0..MaxDexSize : SaveWriteFails(t, n)
    BY <2>2 DEF SaveCompare, SaveWrite, SaveWriteFails, Quarantine
  <2>3. CASE SaveForgetPending(t) \/ SaveForgetNames(t) \/ SaveInsert(t)
    BY <2>3 DEF SaveForgetPending, SaveForgetNames, SaveInsert
  <2> QED
    BY <1>2, <2>1, <2>2, <2>3 DEF SaveStep
<1> QED
  BY <1>1, <1>2

LEMMA ScanKeepsMain ==
  ASSUME TypeOK, ScanStep
  PROVE  pc'["main"] = pc["main"] /\ job'["main"] = job["main"]
<1>1. "scan" \in Threads /\ "main" \in Threads \ {"scan"}
  BY DEF Threads
<1>2. \E next, j : Goto("scan", next, j)
  BY <1>1, StepMoves DEF ScanStep, ScanFound
<1> QED
  BY <1>1, <1>2, GotoOther

LEMMA ChunkNext == TypeOK /\ ChunkInHand /\ [Next]_vars => ChunkInHand'
<1> SUFFICES ASSUME TypeOK, ChunkInHand, [Next]_vars
             PROVE  ChunkInHand'
  OBVIOUS
<1>1. CASE ScanStep
  BY <1>1, ScanKeepsMain DEF ChunkInHand, HoldsChunk
<1>2. CASE Signal \/ UNCHANGED vars
  BY <1>2 DEF Signal, vars, ChunkInHand, HoldsChunk
<1> QED
  BY <1>1, <1>2, MainChunkInHand DEF Next, Exited

(* The inductive invariant behind type correctness: the collector's state,   *)
(* and the buffer a chunk is copied into, always have their types.           *)
TypeInv == TypeOK /\ ChunkInHand

(* Types, with what a chunk in hand looks like, in every reachable state. *)
THEOREM TypeInvariance == Spec => []TypeInv
<1>1. Init => TypeInv
  BY TypeInit, ChunkInit DEF TypeInv
<1>2. TypeInv /\ [Next]_vars => TypeInv'
  BY TypeNext, ChunkNext DEF TypeInv
<1> QED
  BY <1>1, <1>2, PTL DEF Spec

(* Type correctness of the collector, whatever the interleaving of its two   *)
(* threads and whatever arrives on the rings.                                *)
THEOREM TypeCorrect == Spec => []TypeOK
<1>1. TypeInv => TypeOK
  BY DEF TypeInv
<1> QED
  BY <1>1, TypeInvariance, PTL
=============================================================================
