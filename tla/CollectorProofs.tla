--------------------------- MODULE CollectorProofs ---------------------------
(***************************************************************************)
(* What the collector's maps say of each other, for every number of keys,  *)
(* images and events: a record file describes the DEX beside it, and the   *)
(* lock regions of save_dex act as the atomic captures of CaptureStore.    *)
(* The crux: a key's verdict lags behind the size that contradicts it, and *)
(* whoever acts in between holds a lock the verdict waits for, or acts on  *)
(* what the quarantine that follows drops.                                 *)
(***************************************************************************)
EXTENDS SaveDexProofs

(* The key is ambiguous, or a thread is about to say so. *)
Doubted(k) == k \in ambiguous \/ \E t \in Threads : pc[t] = "mark" /\ job[t].key = k

(* s is the size of k that was reported last, unless k is in doubt. *)
Observed(k, s) == (s # 0 /\ dexSizes[k] = s) \/ Doubted(k)

(* n names a method of k by its body or by its index, unless k is ambiguous. *)
Resolved(k, n) == n \in {Placeholder, MethodName(dexCache[k])} \/ k \in ambiguous

PlainFile(k, s, b) == [key |-> k, size |-> s, hash |-> <<>>, bytes |-> b]

Written == {"saveForgetPending", "saveForgetNames", "saveInsert"}

(* Where a thread works on a size it has observed. *)
Sized == {"chunkAmbiguous", "chunkCached", "chunkPending",
          "methodAmbiguous", "methodSig", "methodResolve", "methodRemember", "methodPush",
          "saveCompare", "saveWrite"} \cup Written

MarkedFirst ==
  \A t \in Threads : pc[t] \in {"dropPending", "dropRecords", "dropNames"} => job[t].key \in ambiguous

SizesObserved == \A t \in Threads : pc[t] \in Sized => Observed(job[t].key, job[t].size)

BodiesFit ==
  \A t \in Threads :
    pc[t] \in {"failForget", "saveEnter"} \/ InSave(t) =>
      \/ Len(job[t].bytes) <= job[t].size
      \/ t = "main" /\ Doubted(job[t].key)

EntriesObserved ==
  \A k \in Keys : pending[k] # NoPending => Observed(k, pending[k].total)

RecordsObserved ==
  \A k \in Keys : \A r \in records[k] : Observed(k, r.size)

BodiesObserved ==
  \A k \in Keys : dexCache[k] # <<>> =>
    Observed(k, dexSizes[k]) /\ (Len(dexCache[k]) <= dexSizes[k] \/ Doubted(k))

NamesResolved ==
  /\ \A e \in sigCache : Resolved(e.key, e.name)
  /\ \A k \in Keys : \A r \in records[k] : Resolved(k, r.name)
  /\ pc["main"] \in {"methodRemember", "methodPush"} => Resolved(job["main"].key, job["main"].name)

OnDisk ==
  /\ \A k \in Keys : dexCache[k] # <<>> =>
       Doubted(k) \/ PlainFile(k, dexSizes[k], dexCache[k]) \in files
  /\ \A t \in Threads : pc[t] \in Written =>
       Doubted(job[t].key) \/ PlainFile(job[t].key, job[t].size, job[t].bytes) \in files

JsonsLast == phase # "done" => jsons = {}

CollectorInv ==
  /\ MarkedFirst /\ SizesObserved /\ BodiesFit /\ EntriesObserved /\ RecordsObserved
  /\ BodiesObserved /\ NamesResolved /\ OnDisk /\ JsonsLast

-----------------------------------------------------------------------------
(* Who moves, and where to.                                                  *)

HandlerLabels == {"chunkAmbiguous", "chunkCached", "chunkPending",
                  "methodAmbiguous", "methodSig", "methodResolve", "methodRemember",
                  "methodPush", "failCached", "failAmbiguous", "failRead", "failForget"}

Found == \E k \in Keys, head \in Images : ScanFound(k, head)

(* What a step of the collector does: one thread's move, or none. *)
LEMMA Movers ==
  ASSUME [Next]_vars
  PROVE  \/ \E t \in Threads : QuarantineStep(t) \/ SaveStep(t)
         \/ TakeStep \/ HandlerStep \/ Found
         \/ \E k \in Keys : ExpirePending(k)
         \/ StopStep \/ Signal \/ UNCHANGED vars
<1>1. "main" \in Threads /\ "scan" \in Threads
  BY DEF Threads
<1> QED
  BY <1>1 DEF Next, Exited, MainStep, ScanStep, Found

LEMMA StopsMoveNobody ==
  ASSUME (\E k \in Keys : ExpirePending(k)) \/ StopStep \/ Signal \/ UNCHANGED vars
  PROVE  UNCHANGED <<pc, job, dexSizes, ambiguous, dexCache, files, sigCache>>
BY DEF ExpirePending, StopStep, LeaveLoop, Seal, FlushJson, Signal, vars, storeVars, diskVars

LEMMA TakeEffect ==
  ASSUME TypeOK, TakeStep
  PROVE  /\ pc["main"] = "idle" /\ OthersStay("main")
         /\ UNCHANGED <<ambiguous, dexCache, pending, records, sigCache, files>>
         /\ \/ \E j \in Job, next \in {"idle", "chunkAmbiguous", "methodAmbiguous", "failCached"} :
                 ObserveThen("main", j, next)
            \/ \E j \in ScannedJob : Goto("main", "saveEnter", j) /\ UNCHANGED dexSizes
<1> PICK k \in Keys, img \in Images :
      \/ TakeDexEvent(k, img)
      \/ \E at \in 1..Len(img) : TakeChunk(k, img, at)
      \/ \E idx \in Methods, code \in {<<>>, <<Junk>>} : TakeMethod(k, img, idx, code)
      \/ TakeFailure(k, img)
      \/ TakeScanned(k, img)
  BY DEF TakeStep
<1>1. /\ img \in Body /\ Len(img) \in Nat /\ <<>> \in Body /\ <<Junk>> \in Body
      /\ "main" \in Threads
  BY ImageType, ImagesAssumption DEF Body, Threads
<1>2. PICK kind : Take(kind)
  BY DEF TakeDexEvent, TakeChunk, TakeMethod, TakeFailure, TakeScanned
<1>3. pc["main"] = "idle" /\ UNCHANGED <<ambiguous, dexCache, pending, records, sigCache, files>>
  BY <1>2 DEF Take, At, diskVars
<1>4. \/ \E j \in Job, next \in {"idle", "chunkAmbiguous", "methodAmbiguous", "failCached"} :
           ObserveThen("main", j, next)
      \/ \E j \in ScannedJob : Goto("main", "saveEnter", j) /\ UNCHANGED dexSizes
  <2>1. [NoJob EXCEPT !.key = k, !.size = Len(img)] \in Job
    BY <1>1, JobType
  <2>2. CASE TakeDexEvent(k, img) \/ TakeFailure(k, img)
    BY <2>1, <2>2 DEF TakeDexEvent, TakeFailure
  <2>3. ASSUME NEW at \in 1..Len(img), TakeChunk(k, img, at)
        PROVE  \E j \in Job : ObserveThen("main", j, "chunkAmbiguous")
    <3>1. <<img[at]>> \in Body /\ at \in Nat
      BY <1>1, ImageType
    <3>2. [NoJob EXCEPT !.key = k, !.size = Len(img), !.at = at, !.bytes = <<img[at]>>] \in Job
      BY <1>1, <3>1, JobType
    <3> QED
      BY <2>3, <3>2 DEF TakeChunk
  <2>4. ASSUME NEW idx \in Methods, NEW code \in {<<>>, <<Junk>>}, TakeMethod(k, img, idx, code)
        PROVE  \E j \in Job : ObserveThen("main", j, "methodAmbiguous")
    <3>1. [NoJob EXCEPT !.key = k, !.size = Len(img), !.at = idx, !.bytes = code] \in Job
      BY <1>1, JobType, BoundsAssumption
    <3> QED
      BY <2>4, <3>1 DEF TakeMethod
  <2>5. CASE TakeScanned(k, img)
    BY <2>5, ScannedBodyType DEF TakeScanned, Later
  <2> QED
    BY <2>2, <2>3, <2>4, <2>5
<1>5. OthersStay("main")
  BY <1>1, <1>4, QuarantineEffect, GotoEffect DEF ObserveThen
<1> QED
  BY <1>3, <1>4, <1>5

LEMMA HandlerEffect ==
  ASSUME TypeOK, HandlerStep
  PROVE  /\ pc["main"] \in HandlerLabels /\ OthersStay("main")
         /\ UNCHANGED <<dexSizes, ambiguous, dexCache, files>>
         /\ \/ \E next \in HandlerLabels \cup {"idle", "saveEnter"} : \E k : Goto("main", next, k)
            \/ Quarantine("main", job["main"], "idle")
<1> DEFINE j == job["main"]
           Lands == \/ \E next \in HandlerLabels \cup {"idle", "saveEnter"} : \E k : Goto("main", next, k)
                    \/ Quarantine("main", j, "idle")
<1>1. "main" \in Threads /\ j \in Job
  BY DEF TypeOK, Threads
<1>2. /\ pc["main"] \in HandlerLabels /\ Lands
      /\ UNCHANGED <<dexSizes, ambiguous, dexCache, files>>
  <2>1. CASE ChunkAmbiguous \/ ChunkCached
    BY <2>1 DEF ChunkAmbiguous, ChunkCached, At, storeVars, diskVars, HandlerLabels
  <2>2. CASE ChunkPending
    BY <2>2 DEF ChunkPending, At, diskVars, HandlerLabels
  <2>3. CASE MethodAmbiguous \/ MethodSig \/ MethodResolve
    BY <2>3 DEF MethodAmbiguous, MethodSig, MethodResolve, AfterName, At, storeVars, diskVars,
                HandlerLabels
  <2>4. CASE MethodRemember \/ MethodPush
    BY <2>4 DEF MethodRemember, MethodPush, AfterName, At, diskVars, HandlerLabels
  <2>5. CASE FailCached \/ FailAmbiguous
    BY <2>5 DEF FailCached, FailAmbiguous, At, storeVars, diskVars, HandlerLabels
  <2>6. CASE FailForget
    BY <2>6 DEF FailForget, At, diskVars, HandlerLabels
  <2>7. CASE \E img \in Images, ok \in SUBSET (1..MaxDexSize) : FailRead(img, ok)
    BY <2>7 DEF FailRead, At, storeVars, diskVars, HandlerLabels
  <2> QED
    BY <2>1, <2>2, <2>3, <2>4, <2>5, <2>6, <2>7 DEF HandlerStep
<1> QED
  BY <1>1, <1>2, GotoEffect, QuarantineEffect

LEMMA QuarantineSize ==
  ASSUME TypeOK, NEW t \in Threads, NEW next, NEW j \in Job, Quarantine(t, j, next)
  PROVE  job'[t].size = j.size /\ job'[t].at = j.at
BY GotoEffect DEF Quarantine, Job

LEMMA SaveEffect ==
  ASSUME TypeOK, NEW t \in Threads, SaveStep(t)
  PROVE  /\ pc[t] \in {"saveEnter"} \cup SaveSection /\ OthersStay(t)
         /\ UNCHANGED <<ambiguous, records>>
         /\ pc'[t] \in {"idle", "mark"} \cup SaveSection
         /\ pc'[t] # "idle" => /\ job'[t].key = job[t].key /\ job'[t].size = job[t].size
                               /\ job'[t].bytes = job[t].bytes /\ job'[t].at = job[t].at
         /\ pc'[t] = "mark" => job'[t].ret \in {"saveCompare", "saveWrite"}
<1>1. job[t] \in Job
  BY DEF TypeOK
<1>2. CASE SaveEnter(t) \/ SaveSkip(t)
  <2>1. PICK next \in {"idle", "saveObserve"} : Goto(t, next, job[t])
    BY <1>2 DEF SaveEnter, SaveSkip
  <2>2. pc[t] = "saveEnter" /\ UNCHANGED <<ambiguous, records>>
    BY <1>2 DEF SaveEnter, SaveSkip, At, storeVars
  <2> QED
    BY <2>1, <2>2, GotoEffect DEF SaveSection
<1>3. CASE SaveObserve(t)
  <2>1. Quarantine(t, job[t], "saveCompare") \/ Goto(t, "saveCompare", job[t])
    BY <1>3 DEF SaveObserve, ObserveThen
  <2>2. pc[t] = "saveObserve" /\ UNCHANGED <<ambiguous, records>>
    BY <1>3 DEF SaveObserve, At
  <2> QED
    BY <1>1, <2>1, <2>2, GotoEffect, QuarantineEffect, QuarantineSize DEF SaveSection
<1>4. CASE SaveCompare(t)
  BY <1>1, <1>4, GotoEffect, QuarantineEffect, QuarantineSize DEF SaveCompare, At, storeVars, SaveSection
<1>5. CASE SaveWrite(t) \/ SaveForgetPending(t) \/ SaveForgetNames(t)
  BY <1>5, GotoEffect DEF SaveWrite, SaveForgetPending, SaveForgetNames, At, storeVars, SaveSection
<1>6. CASE SaveInsert(t) \/ \E n \in 0..MaxDexSize : SaveWriteFails(t, n)
  BY <1>6, GotoEffect DEF SaveInsert, SaveWriteFails, At, storeVars, SaveSection
<1> QED
  BY <1>2, <1>3, <1>4, <1>5, <1>6 DEF SaveStep

LEMMA QuarantineEffects ==
  ASSUME TypeOK, NEW t \in Threads, QuarantineStep(t)
  PROVE  /\ pc[t] \in Quarantining /\ OthersStay(t)
         /\ UNCHANGED <<dexSizes, dexCache, files>>
         /\ \/ /\ pc[t] = "mark" /\ pc'[t] = "dropPending"
               /\ ambiguous' = ambiguous \cup {job[t].key}
            \/ /\ pc[t] \in {"dropPending", "dropRecords", "dropNames"} /\ ambiguous' = ambiguous
               /\ pc'[t] \in {"dropRecords", "dropNames", job[t].ret}
         /\ pc'[t] # "idle" => job'[t] = job[t]
<1>1. CASE Mark(t)
  BY <1>1, GotoEffect DEF Mark, At, Quarantining, diskVars
<1>2. CASE DropPending(t) \/ DropRecords(t) \/ DropNames(t)
  BY <1>2, GotoEffect DEF DropPending, DropRecords, DropNames, At, Quarantining, diskVars
<1> QED
  BY <1>1, <1>2 DEF QuarantineStep

(* A handler that goes on with a size it has observed keeps its key. *)
LEMMA HandlerKeeps ==
  ASSUME TypeOK, HandlerStep, pc'["main"] \in Sized
  PROVE  /\ pc["main"] \in Sized
         /\ job'["main"].key = job["main"].key /\ job'["main"].size = job["main"].size
<1> DEFINE j == job["main"]
<1>1. "main" \in Threads /\ j \in Job
  BY DEF TypeOK, Threads
<1>2. ~Quarantine("main", j, "idle")
  BY <1>1, QuarantineEffect DEF Sized, Written
<1>3. \E next, i : Goto("main", next, i) /\ (next \in Sized =>
                      pc["main"] \in Sized /\ i.key = j.key /\ i.size = j.size)
  <2> USE DEF Sized, Written
  <2>1. CASE ChunkAmbiguous \/ ChunkCached
    BY <1>2, <2>1 DEF ChunkAmbiguous, ChunkCached, At
  <2>2. CASE ChunkPending
    BY <1>2, <2>2 DEF ChunkPending, At
  <2>3. CASE MethodAmbiguous
    BY <2>3 DEF MethodAmbiguous, At
  <2>4. CASE MethodSig
    <3>1. ASSUME NEW n
          PROVE  [j EXCEPT !.name = n].key = j.key /\ [j EXCEPT !.name = n].size = j.size
      BY <1>1 DEF Job
    <3>2. pc["main"] \in Sized
      BY <2>4 DEF MethodSig, At
    <3>3. \E next, n : Goto("main", next, j) \/ Goto("main", next, [j EXCEPT !.name = n])
      BY <2>4 DEF MethodSig
    <3> HIDE DEF Sized, Written
    <3> QED
      BY <3>1, <3>2, <3>3
  <2>5. CASE MethodResolve
    BY <1>1, <2>5 DEF MethodResolve, At, Job
  <2>6. CASE MethodRemember \/ MethodPush
    BY <2>6 DEF MethodRemember, MethodPush, AfterName, At
  <2>7. CASE FailCached \/ FailAmbiguous \/ FailForget
    BY <2>7 DEF FailCached, FailAmbiguous, FailForget
  <2>8. CASE \E img \in Images, ok \in SUBSET (1..MaxDexSize) : FailRead(img, ok)
    BY <2>8 DEF FailRead
  <2> QED
    BY <2>1, <2>2, <2>3, <2>4, <2>5, <2>6, <2>7, <2>8 DEF HandlerStep
<1> QED
  BY <1>1, <1>3, GotoEffect DEF Sized, Written

(* Which step adds to which map. *)
LEMMA WhoChanges ==
  ASSUME [Next]_vars
  PROVE  /\ dexCache' = dexCache \/ \E t \in Threads : SaveInsert(t)
         /\ (\A k \in Keys : DOMAIN pending = Keys => pending'[k] \in {pending[k], NoPending})
            \/ ChunkPending
         /\ (\A k \in Keys : DOMAIN records = Keys => records'[k] \subseteq records[k])
            \/ MethodPush
         /\ sigCache' \subseteq sigCache \/ MethodRemember
         /\ jsons' = jsons \/ \E written \in SUBSET Keys : FlushJson(written)
<1> DEFINE AddsNothing ==
             /\ dexCache' = dexCache /\ sigCache' \subseteq sigCache /\ jsons' = jsons
             /\ \A k \in Keys : DOMAIN pending = Keys => pending'[k] \in {pending[k], NoPending}
             /\ \A k \in Keys : DOMAIN records = Keys => records'[k] \subseteq records[k]
<1> USE DEF storeVars, diskVars
<1>1. ASSUME NEW t \in Threads, QuarantineStep(t)
      PROVE  AddsNothing
  BY <1>1 DEF QuarantineStep, Mark, DropPending, DropRecords, DropNames
<1>2. ASSUME NEW t \in Threads, SaveStep(t)
      PROVE  AddsNothing \/ (SaveInsert(t) /\ UNCHANGED <<pending, records, sigCache, jsons>>)
  <2>1. CASE SaveEnter(t) \/ SaveSkip(t) \/ SaveObserve(t)
    BY <2>1 DEF SaveEnter, SaveSkip, SaveObserve
  <2>2. CASE SaveCompare(t) \/ SaveWrite(t) \/ \E n \in 0..MaxDexSize : SaveWriteFails(t, n)
    BY <2>2 DEF SaveCompare, SaveWrite, SaveWriteFails
  <2>3. ASSUME SaveForgetPending(t) PROVE AddsNothing
    BY <2>3 DEF SaveForgetPending
  <2>4. ASSUME SaveForgetNames(t) PROVE AddsNothing
    BY <2>4 DEF SaveForgetNames
  <2>5. CASE SaveInsert(t)
    BY <2>5 DEF SaveInsert
  <2> QED
    BY <1>2, <2>1, <2>2, <2>3, <2>4, <2>5 DEF SaveStep
<1>3. CASE TakeStep
  BY <1>3
  DEF TakeStep, TakeDexEvent, TakeChunk, TakeMethod, TakeFailure, TakeScanned, Take
<1>4. ASSUME HandlerStep
      PROVE  \/ AddsNothing
             \/ ChunkPending /\ UNCHANGED <<dexCache, records, sigCache, jsons>>
             \/ MethodRemember /\ UNCHANGED <<dexCache, pending, records, jsons>>
             \/ MethodPush /\ UNCHANGED <<dexCache, pending, sigCache, jsons>>
  BY <1>4
  DEF HandlerStep, ChunkAmbiguous, ChunkCached, ChunkPending, MethodAmbiguous, MethodSig,
      MethodResolve, MethodRemember, MethodPush, FailCached, FailAmbiguous, FailForget,
      FailRead
<1>5. CASE (\E k \in Keys : ExpirePending(k)) \/ LeaveLoop \/ Seal \/ Signal \/ UNCHANGED vars \/ Found
  BY <1>5 DEF ExpirePending, LeaveLoop, Seal, Signal, vars, Found, ScanFound
<1>6. ASSUME NEW written \in SUBSET Keys, FlushJson(written)
      PROVE  /\ UNCHANGED <<dexCache, pending, sigCache>>
             /\ \A k \in Keys : records'[k] = {}
  BY <1>6 DEF FlushJson
<1> QED
  BY Movers, <1>1, <1>2, <1>3, <1>4, <1>5, <1>6 DEF StopStep

(* One thread moves, by one of its own steps. *)
Moves(t) ==
  \/ QuarantineStep(t) \/ SaveStep(t)
  \/ t = "main" /\ (TakeStep \/ HandlerStep)
  \/ t = "scan" /\ Found

LEMMA FoundEffect ==
  ASSUME TypeOK, Found
  PROVE  /\ pc["scan"] = "idle" /\ OthersStay("scan")
         /\ UNCHANGED <<dexSizes, ambiguous, dexCache, pending, records, sigCache, files>>
         /\ \E j \in ScannedJob : Goto("scan", "saveEnter", j)
<1>1. "scan" \in Threads
  BY DEF Threads
<1>2. PICK k \in Keys, head \in Images : ScanFound(k, head)
  BY DEF Found
<1>3. Len(head) \in 1..Len(head)
  BY ImagesAssumption
<1>4. \E j \in ScannedJob : Goto("scan", "saveEnter", j)
  BY <1>2, <1>3, ScannedBodyType DEF ScanFound, Later
<1> QED
  BY <1>1, <1>2, <1>4, GotoEffect DEF ScanFound, At, storeVars, diskVars

LEMMA OneMoves ==
  ASSUME TypeOK, [Next]_vars
  PROVE  \/ UNCHANGED <<pc, job, dexSizes, ambiguous, dexCache, files, sigCache>>
         \/ \E t \in Threads : OthersStay(t) /\ Moves(t)
<1>1. "main" \in Threads /\ "scan" \in Threads
  BY DEF Threads
<1>2. CASE TakeStep
  BY <1>1, <1>2, TakeEffect DEF Moves
<1>3. CASE HandlerStep
  BY <1>1, <1>3, HandlerEffect DEF Moves
<1>4. CASE Found
  BY <1>1, <1>4, FoundEffect DEF Moves
<1>5. ASSUME NEW t \in Threads, QuarantineStep(t) \/ SaveStep(t)
      PROVE  OthersStay(t) /\ Moves(t)
  BY <1>5, QuarantineEffects, SaveEffect DEF Moves
<1> QED
  BY Movers, StopsMoveNobody, <1>2, <1>3, <1>4, <1>5

-----------------------------------------------------------------------------
(* Doubt never ends, and whoever contradicts a size raises it at once.       *)

LEMMA AmbiguousGrows ==
  ASSUME TypeOK, [Next]_vars
  PROVE  ambiguous \subseteq ambiguous'
BY OneMoves, QuarantineEffects, SaveEffect, TakeEffect, HandlerEffect, FoundEffect DEF Moves

LEMMA DoubtStays ==
  ASSUME TypeOK, [Next]_vars, NEW k, Doubted(k)
  PROVE  Doubted(k)'
<1>1. CASE k \in ambiguous
  BY <1>1, AmbiguousGrows DEF Doubted
<1>2. ASSUME NEW t \in Threads, pc[t] = "mark", job[t].key = k
      PROVE  Doubted(k)'
  <2>1. CASE Moves(t)
    <3>1. QuarantineStep(t)
      BY <1>2, <2>1, SaveEffect, TakeEffect, HandlerEffect, FoundEffect
      DEF Moves, SaveSection, HandlerLabels
    <3> QED
      BY <1>2, <3>1, QuarantineEffects DEF Doubted
  <2>2. CASE ~Moves(t)
    <3>1. pc'[t] = pc[t] /\ job'[t] = job[t]
      BY <2>2, OneMoves DEF OthersStay
    <3> QED
      BY <1>2, <3>1 DEF Doubted
  <2> QED
    BY <2>1, <2>2
<1> QED
  BY <1>1, <1>2 DEF Doubted

LEMMA ObserveObserves ==
  ASSUME TypeOK, NEW t \in Threads, NEW j \in Job, NEW next, ObserveThen(t, j, next)
  PROVE  /\ Observed(j.key, j.size)'
         /\ \A k \in Keys : dexSizes[k] # 0 /\ dexSizes'[k] # dexSizes[k] => Doubted(k)'
<1>1. dexSizes \in [Keys -> Nat] /\ j.key \in Keys /\ j.size \in Nat
  BY DEF TypeOK, Job
<1>2. ASSUME Suspect(j.key, j.size)
      PROVE  Doubted(j.key)'
  BY <1>2, QuarantineEffect DEF ObserveThen, Doubted
<1>3. CASE SizeOK(j.size)
  <2>1. dexSizes' = [dexSizes EXCEPT ![j.key] = j.size] /\ j.size # 0
    BY <1>3 DEF ObserveThen, SizeOK
  <2> QED
    BY <1>1, <1>2, <2>1 DEF Observed, Suspect
<1>4. CASE ~SizeOK(j.size)
  BY <1>2, <1>4 DEF ObserveThen, Observed, Suspect
<1> QED
  BY <1>3, <1>4

LEMMA ObserveGoes ==
  ASSUME TypeOK, NEW t \in Threads, NEW j \in Job, NEW next, ObserveThen(t, j, next)
  PROVE  pc'[t] \in {"mark", next}
BY GotoEffect, QuarantineEffect DEF ObserveThen

LEMMA TakeLands ==
  ASSUME TypeOK, TakeStep
  PROVE  pc'["main"] \in {"mark", "idle", "chunkAmbiguous", "methodAmbiguous", "failCached",
                          "saveEnter"}
<1>1. "main" \in Threads
  BY DEF Threads
<1>2. CASE \E j \in ScannedJob : Goto("main", "saveEnter", j)
  BY <1>1, <1>2, GotoEffect
<1>3. ASSUME NEW j \in Job, ObserveThen("main", j, "idle") \/ ObserveThen("main", j, "chunkAmbiguous")
             \/ ObserveThen("main", j, "methodAmbiguous") \/ ObserveThen("main", j, "failCached")
      PROVE  pc'["main"] \in {"mark", "idle", "chunkAmbiguous", "methodAmbiguous", "failCached"}
  BY <1>1, <1>3, ObserveGoes
<1> QED
  BY <1>2, <1>3, TakeEffect

LEMMA HandlerLands ==
  ASSUME TypeOK, HandlerStep
  PROVE  pc'["main"] \in HandlerLabels \cup {"idle", "saveEnter", "mark"}
<1>1. "main" \in Threads /\ job["main"] \in Job
  BY DEF TypeOK, Threads
<1> QED
  BY <1>1, HandlerEffect, GotoEffect, QuarantineEffect

LEMMA FoundLands ==
  ASSUME TypeOK, Found
  PROVE  pc'["scan"] = "saveEnter"
<1>1. "scan" \in Threads
  BY DEF Threads
<1> QED
  BY <1>1, FoundEffect, GotoEffect

LEMMA SizeChanges ==
  ASSUME TypeOK, [Next]_vars, NEW k \in Keys, dexSizes[k] # 0, dexSizes'[k] # dexSizes[k]
  PROVE  Doubted(k)'
<1>1. "main" \in Threads
  BY DEF Threads
<1>2. PICK t \in Threads : Moves(t)
  BY OneMoves
<1>3. CASE SaveStep(t)
  <2>1. SaveObserve(t)
    BY <1>3
    DEF SaveStep, SaveEnter, SaveSkip, SaveCompare, SaveWrite, SaveWriteFails,
        SaveForgetPending, SaveForgetNames, SaveInsert, storeVars
  <2>2. job[t] \in Job
    BY DEF TypeOK
  <2> QED
    BY <2>1, <2>2, ObserveObserves DEF SaveObserve
<1>4. CASE TakeStep
  BY <1>1, <1>4, TakeEffect, ObserveObserves
<1> QED
  BY <1>2, <1>3, <1>4, QuarantineEffects, HandlerEffect, FoundEffect DEF Moves

LEMMA ObservedStays ==
  ASSUME TypeOK, [Next]_vars, NEW k \in Keys, NEW s, Observed(k, s)
  PROVE  Observed(k, s)'
BY SizeChanges, DoubtStays DEF Observed

-----------------------------------------------------------------------------
(* The invariant, one conjunct at a time.                                    *)

LEMMA MarkedFirstNext ==
  ASSUME TypeOK, MarkedFirst, [Next]_vars
  PROVE  MarkedFirst'
<1> SUFFICES ASSUME NEW t \in Threads, pc'[t] \in {"dropPending", "dropRecords", "dropNames"}
             PROVE  job'[t].key \in ambiguous'
  BY DEF MarkedFirst
<1>1. CASE pc'[t] = pc[t] /\ job'[t] = job[t]
  BY <1>1, AmbiguousGrows DEF MarkedFirst
<1>2. CASE Moves(t)
  <2>1. QuarantineStep(t)
    <3>1. pc'[t] \notin HandlerLabels \cup SaveSection \cup {"mark", "idle", "saveEnter"}
      BY DEF HandlerLabels, SaveSection
    <3>2. ~SaveStep(t)
      BY <3>1, SaveEffect
    <3>3. ~(t = "main" /\ TakeStep)
      <4>1. pc'[t] \notin {"mark", "saveEnter", "idle", "chunkAmbiguous", "methodAmbiguous", "failCached"}
        BY <3>1 DEF HandlerLabels
      <4> QED
        BY <4>1, TakeLands
    <3>4. ~(t = "main" /\ HandlerStep)
      BY <3>1, HandlerLands
    <3>5. ~(t = "scan" /\ Found)
      BY <3>1, FoundLands
    <3> QED
      BY <1>2, <3>2, <3>3, <3>4, <3>5 DEF Moves
  <2> QED
    BY <2>1, QuarantineEffects DEF MarkedFirst
<1> QED
  BY <1>1, <1>2, OneMoves DEF OthersStay

LEMMA SizesObservedNext ==
  ASSUME TypeOK, MarkedFirst, SizesObserved, [Next]_vars
  PROVE  SizesObserved'
<1> SUFFICES ASSUME NEW t \in Threads, pc'[t] \in Sized,
                    NEW k, k = job'[t].key, NEW s, s = job'[t].size
             PROVE  Observed(k, s)'
  BY DEF SizesObserved, Observed, Doubted
<1>1. job[t] \in Job /\ job[t].key \in Keys
  BY DEF TypeOK, Job
<1>2. ASSUME pc[t] \in Sized, k = job[t].key, s = job[t].size
      PROVE  Observed(k, s)'
  BY <1>1, <1>2, ObservedStays DEF SizesObserved
<1>3. ASSUME NEW j \in Job, NEW next, ObserveThen(t, j, next)
      PROVE  Observed(k, s)'
  <2>1. Goto(t, next, j) /\ next # "idle"
    BY <1>3, GotoEffect, QuarantineEffect DEF ObserveThen, Sized, Written
  <2>2. k = j.key /\ s = j.size
    BY <2>1, GotoEffect
  <2> QED
    BY <1>3, <2>2, ObserveObserves
<1>4. CASE QuarantineStep(t)
  <2>1. pc'[t] \notin {"idle", "dropPending"}
    BY DEF Sized, Written
  <2>2. /\ pc[t] \in {"dropPending", "dropRecords", "dropNames"} /\ job'[t] = job[t]
        /\ ambiguous' = ambiguous
    BY <1>4, <2>1, QuarantineEffects
  <2> QED
    BY <2>2 DEF MarkedFirst, Observed, Doubted
<1>5. CASE SaveStep(t)
  <2>1. CASE SaveObserve(t)
    BY <1>1, <1>3, <2>1 DEF SaveObserve
  <2>2. CASE ~SaveObserve(t)
    <3>1. pc[t] \in Sized
      <4>1. ~SaveEnter(t) /\ ~SaveSkip(t)
        <5>1. pc'[t] \notin {"idle", "saveObserve"}
          BY DEF Sized, Written
        <5> QED
          BY <5>1, GotoEffect DEF SaveEnter, SaveSkip
      <4> QED
        BY <1>5, <2>2, <4>1
        DEF SaveStep, SaveCompare, SaveWrite, SaveWriteFails, SaveForgetPending,
            SaveForgetNames, SaveInsert, At, Sized, Written
    <3> QED
      BY <1>2, <1>5, <3>1, SaveEffect DEF Sized, Written
  <2> QED
    BY <2>1, <2>2
<1>6. CASE t = "main" /\ TakeStep
  <2>1. pc'[t] # "saveEnter"
    BY DEF Sized, Written
  <2> QED
    BY <1>3, <1>6, <2>1, TakeEffect, GotoEffect
<1>7. CASE t = "main" /\ HandlerStep
  BY <1>2, <1>7, HandlerKeeps
<1>8. ~(t = "scan" /\ Found)
  BY FoundLands DEF Sized, Written
<1>9. CASE pc'[t] = pc[t] /\ job'[t] = job[t]
  BY <1>2, <1>9
<1> QED
  BY <1>4, <1>5, <1>6, <1>7, <1>8, <1>9, OneMoves DEF OthersStay, Moves

(* Entries are created by chunks, and grow keeping their total. *)
LEMMA ChunkPends ==
  ASSUME TypeInv, SizesObserved, EntriesObserved, ChunkPending
  PROVE  LET j == job["main"]
             r == Received(Entry(j), j)
         IN /\ j \in Job /\ IsPending(r)
            /\ Observed(j.key, r.total) /\ Observed(j.key, j.size)
            /\ \A k \in Keys : pending'[k] \in {pending[k], NoPending} \/ (k = j.key /\ pending'[k] = r)
<1> DEFINE j == job["main"]
           e == Entry(j)
           r == Received(e, j)
<1> USE DEF TypeInv
<1>1. "main" \in Threads /\ j \in Job /\ pc["main"] = "chunkPending"
  BY DEF TypeOK, Threads, ChunkPending, At
<1>2. IsPending(r)
  BY <1>1, PendingType DEF ChunkInHand, HoldsChunk, TypeOK
<1>3. \A k \in Keys : pending'[k] \in {pending[k], NoPending} \/ (k = j.key /\ pending'[k] = r)
  <2>1. DOMAIN pending = Keys
    BY DEF TypeOK
  <2> HIDE DEF e, r
  <2> QED
    BY <2>1, <1>1 DEF ChunkPending, e, r
<1>4. Observed(j.key, j.size) /\ j.key \in Keys
  BY <1>1 DEF SizesObserved, Sized, Job
<1>5. Observed(j.key, e.total)
  BY <1>4 DEF Entry, EntriesObserved
<1>6. r.total = e.total
  BY DEF Received
<1> QED
  BY <1>1, <1>4, <1>5, <1>6, <1>2, <1>3

LEMMA EntriesObservedNext ==
  ASSUME TypeInv, SizesObserved, EntriesObserved, [Next]_vars
  PROVE  EntriesObserved'
<1> USE DEF TypeInv
<1> SUFFICES ASSUME NEW k \in Keys, pending'[k] # NoPending, NEW s, s = pending'[k].total
             PROVE  Observed(k, s)'
  BY DEF EntriesObserved, Observed, Doubted
<1>1. CASE pending'[k] = pending[k]
  BY <1>1, ObservedStays DEF EntriesObserved
<1>2. CASE pending'[k] # pending[k]
  <2>1. ChunkPending
    BY <1>2, WhoChanges DEF TypeOK
  <2>2. Observed(k, s)
    BY <1>2, <2>1, ChunkPends
  <2> QED
    BY <2>2, ObservedStays
<1> QED
  BY <1>1, <1>2

LEMMA RecordsObservedNext ==
  ASSUME TypeOK, SizesObserved, RecordsObserved, [Next]_vars
  PROVE  RecordsObserved'
<1> SUFFICES ASSUME NEW k \in Keys, NEW r \in records'[k]
             PROVE  Observed(k, r.size)'
  BY DEF RecordsObserved, Observed, Doubted
<1>1. CASE r \in records[k]
  BY <1>1, ObservedStays DEF RecordsObserved
<1>2. CASE r \notin records[k]
  <2>1. MethodPush
    BY <1>2, WhoChanges DEF TypeOK
  <2>2. k = job["main"].key /\ r.size = job["main"].size
    BY <1>2, <2>1 DEF MethodPush, TypeOK
  <2>3. Observed(k, r.size)
    BY <2>1, <2>2 DEF MethodPush, At, SizesObserved, Sized, Threads
  <2> QED
    BY <2>3, ObservedStays
<1> QED
  BY <1>1, <1>2

(* A failed read hands on the bytes it has. *)
LEMMA FailReadFits ==
  ASSUME TypeOK, NEW img \in Images, NEW ok \in SUBSET (1..MaxDexSize), FailRead(img, ok),
         pc'["main"] = "failForget"
  PROVE  Len(job'["main"].bytes) <= job'["main"].size
<1> DEFINE j == job["main"]
           b == Fallback(img, j.size, ok)
<1>1. "main" \in Threads /\ j \in Job
  BY DEF TypeOK, Threads
<1>2. Goto("main", "failForget", [j EXCEPT !.bytes = b, !.size = Len(b)])
  BY <1>1, GotoEffect DEF FailRead
<1>3. job'["main"] = [j EXCEPT !.bytes = b, !.size = Len(b)]
  BY <1>1, <1>2, GotoEffect
<1>4. Len(b) \in Nat
  BY <1>1, FallbackType DEF Job, Body
<1> HIDE DEF b
<1>5. job'["main"].bytes = b /\ job'["main"].size = Len(b)
  BY <1>1, <1>3 DEF Job
<1> QED
  BY <1>5, <1>4

(* A body assembled from chunks has the size its entry was created with, so  *)
(* it has the size of the last chunk or its key is in doubt.                 *)
LEMMA AssembledSize ==
  ASSUME TypeInv, SizesObserved, EntriesObserved, ChunkPending, pc'["main"] = "saveEnter"
  PROVE  \/ Len(job'["main"].bytes) <= job'["main"].size
         \/ Doubted(job'["main"].key)
<1> USE DEF TypeInv
<1> DEFINE j == job["main"]
           r == Received(Entry(j), j)
<1>1. "main" \in Threads /\ j \in Job
  BY DEF TypeOK, Threads
<1>2. Goto("main", "saveEnter", [j EXCEPT !.bytes = Buffer(r)])
  BY <1>1, GotoEffect, QuarantineEffect DEF ChunkPending
<1>3. job'["main"] = [j EXCEPT !.bytes = Buffer(r)]
  BY <1>1, <1>2, GotoEffect
<1>4. job'["main"].size = j.size /\ job'["main"].key = j.key /\ job'["main"].bytes = Buffer(r)
  BY <1>1, <1>3 DEF Job
<1>5. r.total \in Nat /\ Observed(j.key, r.total) /\ Observed(j.key, j.size)
  BY ChunkPends DEF IsPending
<1>6. Len(Buffer(r)) = r.total
  BY <1>5 DEF Buffer
<1> QED
  BY <1>4, <1>5, <1>6 DEF Observed

LEMMA BodiesFitNext ==
  ASSUME TypeInv, SaveProtocol, SizesObserved, EntriesObserved, BodiesFit, [Next]_vars
  PROVE  BodiesFit'
<1> USE DEF TypeInv
<1> DEFINE Holds(u) == pc[u] \in {"failForget", "saveEnter"} \/ InSave(u)
<1> SUFFICES ASSUME NEW t \in Threads, Holds(t)',
                    NEW k, k = job'[t].key, NEW s, s = job'[t].size, NEW b, b = job'[t].bytes
             PROVE  Len(b) <= s \/ (t = "main" /\ Doubted(k)')
  BY DEF BodiesFit, Doubted
<1>1. ASSUME Holds(t), k = job[t].key, s = job[t].size, b = job[t].bytes
      PROVE  Len(b) <= s \/ (t = "main" /\ Doubted(k)')
  BY <1>1, DoubtStays DEF BodiesFit
<1>2. CASE QuarantineStep(t)
  <2>1. pc[t] \in Quarantining /\ job[t] \in Job
    BY <1>2, QuarantineEffects DEF TypeOK
  <2>2. pc'[t] # "idle" /\ job'[t] = job[t]
    BY <1>2, QuarantineEffects DEF InSave, SaveSection, Quarantining
  <2>3. Holds(t)
    BY <1>2, <2>1, <2>2, QuarantineEffects
    DEF InSave, SaveSection, Quarantining, Job, Returns
  <2> QED
    BY <1>1, <2>2, <2>3
<1>3. CASE SaveStep(t)
  <2>1. Holds(t) /\ pc'[t] # "idle"
    BY <1>3, SaveEffect DEF InSave, SaveSection, Quarantining
  <2> QED
    BY <1>1, <1>3, <2>1, SaveEffect
<1>4. ASSUME NEW j \in ScannedJob, Goto(t, "saveEnter", j)
      PROVE  Len(b) <= s
  BY <1>4, GotoEffect DEF ScannedJob
<1>5. CASE t = "main" /\ TakeStep
  <2>1. ASSUME NEW j \in Job, NEW next \in {"idle", "chunkAmbiguous", "methodAmbiguous", "failCached"},
               ObserveThen(t, j, next)
        PROVE  FALSE
    <3>1. next \notin SaveSection \cup Quarantining /\ pc'[t] \in {"mark", next}
      BY <2>1, ObserveGoes DEF SaveSection, Quarantining
    <3> QED
      BY <2>1, <3>1, ObserveOutside
  <2> QED
    BY <1>4, <1>5, <2>1, TakeEffect
<1>6. CASE t = "main" /\ HandlerStep
  <2>1. job[t] \in Job
    BY DEF TypeOK
  <2>2. ~Quarantine(t, job[t], "idle")
    BY <2>1, QuarantineEffect DEF InSave, SaveSection, Quarantining
  <2>3. pc'[t] \in {"failForget", "saveEnter"}
    <3>1. PICK next \in HandlerLabels \cup {"idle", "saveEnter"} : pc'[t] = next
      BY <1>6, <2>2, HandlerEffect, GotoEffect
    <3> QED
      BY <3>1 DEF HandlerLabels, InSave, SaveSection, Quarantining
  <2>4. CASE ChunkPending
    BY <1>6, <2>2, <2>3, <2>4, AssembledSize, DoubtStays, GotoEffect DEF ChunkPending
  <2>5. ASSUME NEW img \in Images, NEW ok \in SUBSET (1..MaxDexSize), FailRead(img, ok)
        PROVE  Len(b) <= s
    <3>1. pc'["main"] = "failForget"
      BY <1>6, <2>3, <2>5, GotoEffect DEF FailRead
    <3>2. Len(job'["main"].bytes) <= job'["main"].size
      BY <2>5, <3>1, FailReadFits
    <3> QED
      BY <1>6, <3>2
  <2>6. CASE FailForget
    BY <1>1, <1>6, <2>6, GotoEffect DEF FailForget, At
  <2>7. ~(ChunkAmbiguous \/ ChunkCached)
    BY <1>6, <2>2, <2>3, GotoEffect DEF ChunkAmbiguous, ChunkCached
  <2>8. ~(MethodAmbiguous \/ MethodResolve \/ MethodPush)
    BY <1>6, <2>3, GotoEffect DEF MethodAmbiguous, MethodResolve, MethodPush
  <2>9. ~(MethodSig \/ MethodRemember)
    <3>1. ASSUME MethodSig \/ MethodRemember
          PROVE  \E next \in {"idle", "methodPush", "methodResolve"} : \E j : Goto("main", next, j)
      BY <3>1 DEF MethodSig, MethodRemember, AfterName
    <3> QED
      BY <1>6, <2>3, <3>1, GotoEffect
  <2>10. ~(FailCached \/ FailAmbiguous)
    BY <1>6, <2>3, GotoEffect DEF FailCached, FailAmbiguous
  <2> QED
    BY <1>6, <2>4, <2>5, <2>6, <2>7, <2>8, <2>9, <2>10 DEF HandlerStep
<1>7. CASE t = "scan" /\ Found
  BY <1>4, <1>7, FoundEffect
<1>8. CASE pc'[t] = pc[t] /\ job'[t] = job[t]
  BY <1>1, <1>8 DEF InSave
<1> QED
  BY <1>2, <1>3, <1>5, <1>6, <1>7, <1>8, OneMoves DEF OthersStay, Moves

LEMMA BodiesObservedNext ==
  ASSUME TypeOK, SizesObserved, BodiesFit, BodiesObserved, [Next]_vars
  PROVE  BodiesObserved'
<1> SUFFICES ASSUME NEW k \in Keys, dexCache'[k] # <<>>
             PROVE  Doubted(k)' \/ (dexSizes'[k] # 0 /\ Len(dexCache'[k]) <= dexSizes'[k])
  BY DEF BodiesObserved, Observed, Doubted
<1>0. ASSUME dexSizes[k] # 0
      PROVE  Doubted(k)' \/ dexSizes'[k] = dexSizes[k]
  BY <1>0, SizeChanges
<1>1. CASE dexCache'[k] = dexCache[k]
  BY <1>0, <1>1, DoubtStays DEF BodiesObserved, Observed
<1>2. CASE dexCache'[k] # dexCache[k]
  <2>1. PICK t \in Threads : SaveInsert(t)
    BY <1>2, WhoChanges
  <2>2. k = job[t].key /\ dexCache'[k] = job[t].bytes
    BY <1>2, <2>1 DEF SaveInsert, TypeOK
  <2>3. Observed(k, job[t].size) /\ (Len(job[t].bytes) <= job[t].size \/ Doubted(k))
    BY <2>1, <2>2
    DEF SaveInsert, At, SizesObserved, BodiesFit, Sized, Written, InSave, SaveSection
  <2>4. Doubted(k) \/ (dexSizes[k] # 0 /\ Len(job[t].bytes) <= dexSizes[k])
    BY <2>3 DEF Observed
  <2> QED
    BY <1>0, <2>2, <2>4, DoubtStays
<1> QED
  BY <1>1, <1>2

(* A body replaces another only for a key that is ambiguous already. *)
LEMMA FirstOrAmbiguous ==
  ASSUME SaveProtocol, NEW t \in Threads, pc[t] \in CacheSection
  PROVE  dexCache[job[t].key] = <<>> \/ job[t].key \in ambiguous
BY DEF SaveProtocol, ComparedFirst, InCache, CacheSection

LEMMA ResolvedStays ==
  ASSUME TypeOK, SaveProtocol, [Next]_vars, NEW k \in Keys, NEW n, Resolved(k, n)
  PROVE  Resolved(k, n)'
<1>1. CASE dexCache'[k] = dexCache[k]
  BY <1>1, AmbiguousGrows DEF Resolved
<1>2. CASE dexCache'[k] # dexCache[k]
  <2>1. PICK t \in Threads : SaveInsert(t)
    BY <1>2, WhoChanges
  <2>2. k = job[t].key
    BY <1>2, <2>1 DEF SaveInsert, TypeOK
  <2>3. dexCache[k] = <<>> \/ k \in ambiguous
    BY <2>1, <2>2, FirstOrAmbiguous DEF SaveInsert, At, CacheSection
  <2>4. MethodName(<<>>) = Placeholder
    BY DEF MethodName, Parses
  <2> QED
    BY <2>3, <2>4, AmbiguousGrows DEF Resolved
<1> QED
  BY <1>1, <1>2

(* The name a method handler goes on with. *)
LEMMA NameInHand ==
  ASSUME TypeOK, NamesResolved, HandlerStep, pc'["main"] \in {"methodRemember", "methodPush"}
  PROVE  Resolved(job'["main"].key, job'["main"].name)
<1> DEFINE j == job["main"]
<1>1. "main" \in Threads /\ j \in Job
  BY DEF TypeOK, Threads
<1>2. ~Quarantine("main", j, "idle")
  BY <1>1, QuarantineEffect
<1>3. CASE MethodSig
  <2>1. ~Goto("main", "methodResolve", j)
    BY <1>1, GotoEffect
  <2>2. PICK e \in sigCache : e.key = j.key /\ Goto("main", AfterName(j), [j EXCEPT !.name = e.name])
    BY <1>3, <2>1 DEF MethodSig
  <2>3. job'["main"] = [j EXCEPT !.name = e.name]
    BY <1>1, <2>2, GotoEffect
  <2>4. job'["main"].key = e.key /\ job'["main"].name = e.name
    BY <1>1, <2>2, <2>3 DEF Job
  <2> QED
    BY <2>4 DEF NamesResolved
<1>4. CASE MethodResolve
  <2>1. job'["main"] = [j EXCEPT !.name = MethodName(dexCache[j.key])]
    BY <1>1, <1>4, GotoEffect DEF MethodResolve
  <2>2. job'["main"].key = j.key /\ job'["main"].name = MethodName(dexCache[j.key])
    BY <1>1, <2>1 DEF Job
  <2> QED
    BY <2>2 DEF Resolved
<1>5. CASE MethodRemember
  BY <1>1, <1>5, GotoEffect DEF MethodRemember, AfterName, At, NamesResolved
<1>6. ~(ChunkAmbiguous \/ ChunkCached \/ ChunkPending)
  BY <1>1, <1>2, GotoEffect DEF ChunkAmbiguous, ChunkCached, ChunkPending
<1>7. ~(MethodAmbiguous \/ MethodPush \/ FailCached \/ FailAmbiguous \/ FailForget)
  BY <1>1, GotoEffect DEF MethodAmbiguous, MethodPush, FailCached, FailAmbiguous, FailForget
<1>8. ASSUME NEW img \in Images, NEW ok \in SUBSET (1..MaxDexSize), FailRead(img, ok)
      PROVE  FALSE
  <2>1. \E next \in {"idle", "failForget"} : \E i : Goto("main", next, i)
    BY <1>8 DEF FailRead
  <2> QED
    BY <1>1, <2>1, GotoEffect
<1> QED
  BY <1>3, <1>4, <1>5, <1>6, <1>7, <1>8 DEF HandlerStep

LEMMA NamesResolvedNext ==
  ASSUME TypeInv, SaveProtocol, NamesResolved, [Next]_vars
  PROVE  NamesResolved'
<1> USE DEF TypeInv
<1> DEFINE j == job["main"]
<1>1. "main" \in Threads /\ j \in Job /\ j.key \in Keys
  BY DEF TypeOK, Threads, Job
<1>2. ASSUME NEW e \in sigCache'
      PROVE  Resolved(e.key, e.name)'
  <2>1. CASE e \in sigCache
    BY <2>1, ResolvedStays DEF NamesResolved, TypeOK, Name
  <2>2. CASE e \notin sigCache
    <3>1. MethodRemember
      BY <2>2, WhoChanges
    <3>2. e.key = j.key /\ e.name = j.name
      BY <2>2, <3>1 DEF MethodRemember
    <3>3. Resolved(j.key, j.name)
      BY <3>1 DEF MethodRemember, At, NamesResolved
    <3> QED
      BY <1>1, <3>2, <3>3, ResolvedStays
  <2> QED
    BY <2>1, <2>2
<1>3. ASSUME NEW k \in Keys, NEW r \in records'[k]
      PROVE  Resolved(k, r.name)'
  <2>1. CASE r \in records[k]
    BY <2>1, ResolvedStays DEF NamesResolved
  <2>2. CASE r \notin records[k]
    <3>1. MethodPush
      BY <2>2, WhoChanges DEF TypeOK
    <3>2. k = j.key /\ r.name = j.name
      BY <2>2, <3>1 DEF MethodPush, TypeOK
    <3>3. Resolved(j.key, j.name)
      BY <3>1 DEF MethodPush, At, NamesResolved
    <3> QED
      BY <1>1, <3>2, <3>3, ResolvedStays
  <2> QED
    BY <2>1, <2>2
<1>4. ASSUME pc'["main"] \in {"methodRemember", "methodPush"},
             NEW k, k = job'["main"].key, NEW n, n = job'["main"].name
      PROVE  Resolved(k, n)'
  <2>1. CASE HandlerStep
    <3>1. Resolved(k, n)
      BY <1>4, <2>1, NameInHand
    <3>2. job' \in [Threads -> Job]
      BY <2>1, TypeNext DEF TypeInv, TypeOK
    <3> QED
      BY <1>1, <1>4, <3>1, <3>2, ResolvedStays DEF Job
  <2>2. CASE ~HandlerStep
    <3>1. pc'["main"] = pc["main"] /\ job'["main"] = job["main"]
      <4>1. ~QuarantineStep("main")
        BY <1>1, <1>4, QuarantineEffects DEF TypeOK, Job, Returns
      <4>2. ~SaveStep("main")
        BY <1>1, <1>4, SaveEffect DEF SaveSection
      <4>3. ~TakeStep
        BY <1>4, TakeLands
      <4> QED
        BY <1>1, <2>2, <4>1, <4>2, <4>3, OneMoves DEF OthersStay, Moves
    <3> QED
      BY <1>1, <1>4, <3>1, ResolvedStays DEF NamesResolved
  <2> QED
    BY <2>1, <2>2
<1> QED
  BY <1>2, <1>3, <1>4 DEF NamesResolved, Resolved

(* While a body is on its way into the cache nobody else writes a file. *)
LEMMA WrittenAlone ==
  ASSUME SaveProtocol, [Next]_vars, NEW t \in Threads, pc[t] \in Written
  PROVE  files' = files
<1>1. cacheOwner = t
  BY DEF Written, SaveProtocol, LocksHeld, InCache, CacheSection
<1>2. ASSUME NEW u \in Threads, pc[u] = "saveWrite"
      PROVE  FALSE
  <2>1. cacheOwner = u
    BY <1>2 DEF SaveProtocol, LocksHeld, InCache, CacheSection
  <2> QED
    BY <1>1, <1>2, <2>1 DEF Written
<1> QED
  BY <1>2, WhoWrites DEF SaveWrite, SaveWriteFails, At

(* What SaveWrite leaves on disk. *)
LEMMA SaveWriteLeaves ==
  ASSUME TypeOK, NEW t \in Threads, SaveWrite(t)
  PROVE  /\ job'[t] = job[t]
         /\ Doubted(job[t].key) \/ PlainFile(job[t].key, job[t].size, job[t].bytes) \in files'
<1> DEFINE j == job[t]
<1>1. job'[t] = j
  BY GotoEffect DEF SaveWrite
<1>3. CASE j.key \notin ambiguous
  <2>1. FileName(j) = [key |-> j.key, size |-> j.size, hash |-> <<>>]
    BY <1>3 DEF FileName
  <2>2. PlainFile(j.key, j.size, j.bytes) \in files'
    BY <2>1 DEF SaveWrite, WriteFile, PlainFile
  <2> QED
    BY <1>1, <2>2
<1> QED
  BY <1>1, <1>3 DEF Doubted

LEMMA OnDiskNext ==
  ASSUME TypeOK, SaveProtocol, SizesObserved, BodiesObserved, OnDisk, [Next]_vars
  PROVE  OnDisk'
<1>1. ASSUME NEW k \in Keys, dexCache'[k] # <<>>
      PROVE  Doubted(k)' \/ PlainFile(k, dexSizes'[k], dexCache'[k]) \in files'
  <2>1. CASE dexCache'[k] = dexCache[k]
    <3>1. Doubted(k)' \/ dexSizes'[k] = dexSizes[k]
      BY <1>1, <2>1, SizeChanges, DoubtStays DEF BodiesObserved, Observed
    <3>2. CASE PlainFile(k, dexSizes[k], dexCache[k]) \in files
      BY <1>1, <2>1, <3>1, <3>2, PlainFilesStay DEF PlainFile
    <3> QED
      BY <1>1, <2>1, <3>2, DoubtStays DEF OnDisk
  <2>2. CASE dexCache'[k] # dexCache[k]
    <3>1. PICK t \in Threads : SaveInsert(t)
      BY <2>2, WhoChanges
    <3>2. /\ k = job[t].key /\ dexCache'[k] = job[t].bytes
          /\ files' = files /\ dexSizes' = dexSizes
      BY <2>2, <3>1 DEF SaveInsert, TypeOK, diskVars
    <3>3. Doubted(k) \/ dexSizes[k] = job[t].size
      BY <3>1, <3>2 DEF SaveInsert, At, SizesObserved, Observed, Sized, Written
    <3>4. Doubted(k) \/ PlainFile(k, job[t].size, job[t].bytes) \in files
      BY <3>1, <3>2 DEF SaveInsert, At, OnDisk, Written
    <3> QED
      BY <3>2, <3>3, <3>4, DoubtStays
  <2> QED
    BY <2>1, <2>2
<1>2. ASSUME NEW t \in Threads, pc'[t] \in Written,
             NEW k, k = job'[t].key, NEW s, s = job'[t].size, NEW b, b = job'[t].bytes
      PROVE  Doubted(k)' \/ PlainFile(k, s, b) \in files'
  <2>1. ASSUME pc[t] \in Written, job'[t].key = job[t].key, job'[t].size = job[t].size,
               job'[t].bytes = job[t].bytes
        PROVE  Doubted(k)' \/ PlainFile(k, s, b) \in files'
    BY <1>2, <2>1, WrittenAlone, DoubtStays DEF OnDisk
  <2>2. CASE SaveWrite(t)
    BY <1>2, <2>2, SaveWriteLeaves, DoubtStays
  <2>3. CASE SaveStep(t) /\ ~SaveWrite(t)
    <3>1. pc'[t] \notin {"idle", "mark", "saveObserve", "saveCompare"}
      BY <1>2 DEF Written
    <3>2. ~(SaveEnter(t) \/ SaveSkip(t))
      BY <3>1, GotoEffect DEF SaveEnter, SaveSkip
    <3>3. ~SaveObserve(t)
      BY <3>1, ObserveGoes DEF SaveObserve, TypeOK
    <3>4. ~(SaveCompare(t) \/ SaveInsert(t) \/ \E n \in 0..MaxDexSize : SaveWriteFails(t, n))
      <4>1. pc'[t] # "saveWrite"
        BY <1>2 DEF Written
      <4>2. ~SaveCompare(t)
        BY <3>1, <4>1, GotoEffect, QuarantineEffect DEF SaveCompare, TypeOK
      <4>3. ~(SaveInsert(t) \/ \E n \in 0..MaxDexSize : SaveWriteFails(t, n))
        BY <3>1, GotoEffect DEF SaveInsert, SaveWriteFails
      <4> QED
        BY <4>2, <4>3
    <3>5. pc[t] \in Written
      BY <2>3, <3>2, <3>3, <3>4 DEF SaveStep, SaveForgetPending, SaveForgetNames, At, Written
    <3> QED
      BY <2>1, <2>3, <3>1, <3>5, SaveEffect
  <2>4. ~QuarantineStep(t)
    BY <1>2, QuarantineEffects DEF Written, TypeOK, Job, Returns
  <2>5. ~(t = "main" /\ TakeStep)
    BY <1>2, TakeLands DEF Written
  <2>6. ~(t = "main" /\ HandlerStep)
    BY <1>2, HandlerLands DEF Written, HandlerLabels
  <2>7. ~(t = "scan" /\ Found)
    BY <1>2, FoundLands DEF Written
  <2>8. CASE pc'[t] = pc[t] /\ job'[t] = job[t]
    BY <1>2, <2>1, <2>8
  <2> QED
    BY <2>2, <2>3, <2>4, <2>5, <2>6, <2>7, <2>8, OneMoves DEF OthersStay, Moves
<1> QED
  BY <1>1, <1>2 DEF OnDisk, Doubted

LEMMA JsonsLastNext ==
  ASSUME JsonsLast, [Next]_vars
  PROVE  JsonsLast'
<1>1. CASE \E written \in SUBSET Keys : FlushJson(written)
  BY <1>1 DEF FlushJson, JsonsLast
<1>2. CASE jsons' = jsons
  <2>1. phase = "done" => phase' = "done"
    BY DEF Next, Exited, vars, runVars
  <2> QED
    BY <1>2, <2>1 DEF JsonsLast
<1> QED
  BY <1>1, <1>2, WhoChanges

-----------------------------------------------------------------------------

LEMMA CollectorInit == Init => CollectorInv
BY DEF Init, CollectorInv, MarkedFirst, SizesObserved, BodiesFit, EntriesObserved,
       RecordsObserved, BodiesObserved, NamesResolved, OnDisk, JsonsLast, InSave, Sized,
       Written, SaveSection, Quarantining, Threads

LEMMA CollectorNext == TypeInv /\ SaveProtocol /\ CollectorInv /\ [Next]_vars => CollectorInv'
BY MarkedFirstNext, SizesObservedNext, BodiesFitNext, EntriesObservedNext,
   RecordsObservedNext, BodiesObservedNext, NamesResolvedNext, OnDiskNext, JsonsLastNext
DEF CollectorInv, TypeInv

(* What the collector's maps say of each other holds in every reachable state. *)
THEOREM CollectorInvariance == Spec => []CollectorInv
BY CollectorInit, CollectorNext, TypeInvariance, SaveProtocolHolds, PTL DEF Spec

(* What flush_json writes: once the seal is set no thread is in save_dex, so *)
(* a key in doubt is a key that is ambiguous.                                *)
LEMMA FlushDescribes ==
  ASSUME TypeOK, SaveProtocol, CollectorInv, NEW written \in SUBSET Keys, FlushJson(written)
  PROVE  JsonDescribesItsDex'
<1>1. \A t \in Threads : pc[t] # "mark"
  BY NobodyIsNoThread
  DEF FlushJson, SaveProtocol, LocksHeld, SealedBetweenCaptures, Threads
<1>2. \A k : Doubted(k) => k \in ambiguous
  BY <1>1 DEF Doubted
<1>3. UNCHANGED <<ambiguous, files, dexCache>> /\ jsons = {}
  BY DEF FlushJson, CollectorInv, JsonsLast
<1> SUFFICES ASSUME NEW f \in jsons'
             PROVE  /\ f.key \notin ambiguous
                    /\ PlainFile(f.key, dexSizes[f.key], dexCache[f.key]) \in files
                    /\ f.size = Len(dexCache[f.key]) /\ f.size <= dexSizes[f.key]
                    /\ \A r \in f.records :
                         /\ r.size = dexSizes[f.key]
                         /\ r.name \in {Placeholder, MethodName(dexCache[f.key])}
  BY <1>3 DEF JsonDescribesItsDex, PlainFile
<1>4. PICK k \in Flushable :
        f = [key |-> k, size |-> Len(dexCache[k]), records |-> records[k]]
  BY <1>3 DEF FlushJson
<1>5. k \in Keys /\ k \notin ambiguous /\ dexCache[k] # <<>>
  BY <1>4 DEF Flushable
<1>6. PlainFile(k, dexSizes[k], dexCache[k]) \in files
  BY <1>2, <1>5 DEF CollectorInv, OnDisk
<1>7. Len(dexCache[k]) <= dexSizes[k]
  BY <1>2, <1>5 DEF CollectorInv, BodiesObserved, Observed
<1>8. ASSUME NEW r \in records[k]
      PROVE  r.size = dexSizes[k] /\ r.name \in {Placeholder, MethodName(dexCache[k])}
  BY <1>2, <1>5 DEF CollectorInv, RecordsObserved, Observed, NamesResolved, Resolved
<1> QED
  BY <1>4, <1>5, <1>6, <1>7, <1>8

LEMMA JsonNext ==
  ASSUME TypeOK, SaveProtocol, CollectorInv, JsonDescribesItsDex, [Next]_vars
  PROVE  JsonDescribesItsDex'
<1>1. CASE \E written \in SUBSET Keys : FlushJson(written)
  BY <1>1, FlushDescribes
<1>2. CASE jsons' = jsons
  <2>1. CASE jsons = {}
    BY <1>2, <2>1 DEF JsonDescribesItsDex
  <2>2. CASE jsons # {}
    <3>1. sealed
      BY <2>2 DEF CollectorInv, JsonsLast, SaveProtocol, SealedBetweenCaptures
    <3>2. UNCHANGED <<files, dexCache, ambiguous>>
      BY <3>1, SealedStep
    <3> QED
      BY <1>2, <3>2 DEF JsonDescribesItsDex
  <2> QED
    BY <2>1, <2>2
<1> QED
  BY <1>1, <1>2, WhoChanges

(* Every method record file belongs to one DEX: its key was never seen with  *)
(* two identities, the body the collector holds is on disk under the plain   *)
(* name of the size that every record was reported with, and the records are *)
(* named by it.  The file itself carries the body's length, which is less    *)
(* than that size when a scan's read stopped early.                          *)
THEOREM JsonDescribes == Spec => []JsonDescribesItsDex
<1>1. Init => JsonDescribesItsDex
  BY DEF Init, JsonDescribesItsDex
<1>2. TypeInv /\ SaveProtocol /\ CollectorInv /\ JsonDescribesItsDex /\ [Next]_vars
        => JsonDescribesItsDex'
  BY JsonNext DEF TypeInv
<1> QED
  BY <1>1, <1>2, CollectorInvariance, SaveProtocolHolds, TypeInvariance, PTL DEF Spec

-----------------------------------------------------------------------------
(* save_dex, run() and flush_json as steps of the abstract store.            *)

CapturedIn(p, j, c) ==
  [k \in Keys |->
     LET W == {t \in Threads : p[t] \in Written /\ j[t].key = k}
     IN IF W = {} THEN c[k] ELSE j[CHOOSE t \in W : TRUE].bytes]

LEMMA CapturedIs ==
  /\ Captured = CapturedIn(pc, job, dexCache)
  /\ Captured' = CapturedIn(pc', job', dexCache')
BY DEF Captured, CapturedIn, Written

LEMMA CapturedOnce ==
  ASSUME NEW p, NEW j, NEW c, NEW t \in Threads, p[t] \in Written,
         \A u \in Threads \ {t} : p[u] \notin Written
  PROVE  \A k \in Keys : CapturedIn(p, j, c)[k] = IF j[t].key = k THEN j[t].bytes ELSE c[k]
<1> SUFFICES ASSUME NEW k \in Keys
             PROVE  LET W == {u \in Threads : p[u] \in Written /\ j[u].key = k}
                    IN (IF W = {} THEN c[k] ELSE j[CHOOSE u \in W : TRUE].bytes)
                         = IF j[t].key = k THEN j[t].bytes ELSE c[k]
  BY DEF CapturedIn
<1> DEFINE W == {u \in Threads : p[u] \in Written /\ j[u].key = k}
<1>1. CASE j[t].key = k
  <2>1. W = {t}
    BY <1>1
  <2>2. (CHOOSE u \in W : TRUE) = t
    BY <2>1
  <2> QED
    BY <1>1, <2>1, <2>2
<1>2. CASE j[t].key # k
  <2>1. W = {}
    BY <1>2
  <2> QED
    BY <1>2, <2>1
<1> QED
  BY <1>1, <1>2

LEMMA CapturedNone ==
  ASSUME NEW p, NEW j, NEW c, \A u \in Threads : p[u] \notin Written
  PROVE  CapturedIn(p, j, c) = [k \in Keys |-> c[k]]
BY DEF CapturedIn

LEMMA CapturedSame ==
  ASSUME NEW p, NEW j, NEW c, NEW q, NEW i,
         \A u \in Threads : p[u] \in Written <=> q[u] \in Written,
         \A u \in Threads : p[u] \in Written => j[u].key = i[u].key /\ j[u].bytes = i[u].bytes
  PROVE  CapturedIn(p, j, c) = CapturedIn(q, i, c)
<1> SUFFICES ASSUME NEW k \in Keys
             PROVE  LET V == {u \in Threads : p[u] \in Written /\ j[u].key = k}
                        W == {u \in Threads : q[u] \in Written /\ i[u].key = k}
                    IN (IF V = {} THEN c[k] ELSE j[CHOOSE u \in V : TRUE].bytes)
                         = (IF W = {} THEN c[k] ELSE i[CHOOSE u \in W : TRUE].bytes)
  BY DEF CapturedIn
<1> DEFINE V == {u \in Threads : p[u] \in Written /\ j[u].key = k}
           W == {u \in Threads : q[u] \in Written /\ i[u].key = k}
<1>1. V = W
  OBVIOUS
<1>2. CASE V # {}
  <2>1. (CHOOSE u \in V : TRUE) = (CHOOSE u \in W : TRUE) /\ (CHOOSE u \in V : TRUE) \in V
    BY <1>1, <1>2
  <2> HIDE DEF W
  <2> QED
    BY <1>1, <1>2, <2>1
<1> QED
  BY <1>1, <1>2

(* A thread with the dex_cache lock is the only one with a body in hand.     *)
LEMMA OneWrites ==
  ASSUME SaveProtocol, NEW t \in Threads, pc[t] \in CacheSection
  PROVE  /\ ~sealed /\ cacheOwner = t /\ sealOwner = t
         /\ \A u \in Threads \ {t} : pc[u] \notin Written
         /\ t = "main" => \A u \in Threads : pc[u] # "mark"
<1>1. InCache(t) /\ InSave(t)
  BY DEF InCache, InSave, CacheSection, SaveSection
<1>2. cacheOwner = t /\ sealOwner = t
  BY <1>1 DEF SaveProtocol, LocksHeld
<1>3. ~sealed
  BY <1>2, NobodyIsNoThread DEF SaveProtocol, SealedBetweenCaptures
<1>4. ASSUME NEW u \in Threads \ {t}
      PROVE  ~InCache(u) /\ ~InSave(u)
  BY <1>2, <1>4 DEF SaveProtocol, LocksHeld
<1>5. \A u \in Threads \ {t} : pc[u] \notin Written
  BY <1>4 DEF InCache, Written, CacheSection
<1>6. t = "main" => pc["scan"] # "mark" /\ pc["main"] # "mark"
  BY <1>4 DEF SaveProtocol, SealedBetweenCaptures, Threads, CacheSection
<1> QED
  BY <1>2, <1>3, <1>5, <1>6 DEF Threads

LEMMA TaintStep ==
  ASSUME TypeOK, SaveProtocol, NEW t \in Threads, Mark(t)
  PROVE  Store!Taint(job[t].key)
<1>1. ~sealed
  <2>1. /\ sealed => sealOwner = Nobody /\ pc["main"] = "idle"
        /\ pc["scan"] \in {"idle", "saveEnter"} \/ InSave("scan")
    BY DEF SaveProtocol, SealedBetweenCaptures
  <2>2. InSave("scan") => sealOwner = "scan"
    BY DEF SaveProtocol, LocksHeld, Threads
  <2> QED
    BY <2>1, <2>2 DEF Mark, At, Threads, Nobody
<1>2. /\ OthersStay(t) /\ pc[t] = "mark" /\ pc'[t] = "dropPending"
      /\ ambiguous' = ambiguous \cup {job[t].key}
      /\ UNCHANGED <<files, dexCache, sealed, jsons>>
  BY GotoEffect DEF Mark, At, lockVars, diskVars
<1>3. Captured' = Captured
  BY <1>2, CapturedIs, CapturedSame DEF OthersStay, Written
<1> QED
  BY <1>1, <1>2, <1>3 DEF Store!Taint

LEMMA CaptureStep ==
  ASSUME TypeOK, SaveProtocol, CollectorInv, NEW t \in Threads, SaveWrite(t)
  PROVE  Store!Capture(job[t].key)
<1> DEFINE j == job[t]
           n == FileName(j)
           f == [key |-> n.key, size |-> n.size, hash |-> n.hash, bytes |-> j.bytes]
<1>1. /\ j.key \in Keys /\ j.bytes \in Body /\ j.size \in Nat
      /\ pc[t] = "saveWrite" /\ pc[t] \in CacheSection
  BY DEF TypeOK, Job, SaveWrite, At, CacheSection
<1>2. /\ ~sealed /\ \A u \in Threads : pc[u] \notin Written
      /\ t = "main" => \A u \in Threads : pc[u] # "mark"
  BY <1>1, OneWrites DEF Written
<1>3. /\ OthersStay(t) /\ pc'[t] = "saveForgetPending" /\ job'[t] = j
      /\ UNCHANGED <<dexCache, ambiguous, sealed, jsons>>
  BY GotoEffect DEF SaveWrite, storeVars, lockVars
<1>4. Captured = [k \in Keys |-> dexCache[k]]
  BY <1>2, CapturedIs, CapturedNone
<1>5. Captured' = [k \in Keys |-> IF j.key = k THEN j.bytes ELSE dexCache[k]]
  <2>1. \A u \in Threads \ {t} : pc'[u] \notin Written
    BY <1>2, <1>3 DEF OthersStay
  <2>2. pc'[t] \in Written
    BY <1>3 DEF Written
  <2>3. \A k \in Keys : Captured'[k] = IF j.key = k THEN j.bytes ELSE dexCache[k]
    BY <1>3, <2>1, <2>2, CapturedIs, CapturedOnce
  <2> QED
    BY <2>3 DEF Captured
<1>6. Captured' = [Captured EXCEPT ![j.key] = j.bytes] /\ Captured'[j.key] = j.bytes
  BY <1>1, <1>4, <1>5
<1>7. Captured[j.key] # <<>> => j.key \in ambiguous
  BY <1>1, <1>4, FirstOrAmbiguous
<1>8. j.bytes \in Body \ {<<>>}
  BY <1>1 DEF SaveProtocol, ComparedFirst, InSave, CacheSection, SaveSection
<1>9. j.key \notin ambiguous => Len(j.bytes) <= j.size
  <2>1. Len(j.bytes) <= j.size \/ (t = "main" /\ Doubted(j.key))
    BY <1>1 DEF CollectorInv, BodiesFit, InSave, CacheSection, SaveSection
  <2> QED
    BY <1>2, <2>1 DEF Doubted
<1>10. /\ n = [key |-> j.key, size |-> j.size, hash |-> n.hash]
       /\ n.hash = IF j.key \in ambiguous THEN j.bytes ELSE <<>>
  BY DEF FileName
<1>11. /\ f.key = j.key /\ f.size = j.size /\ f.hash = n.hash /\ f.bytes = j.bytes
  BY <1>10
<1>12. Store!Names(f, j.key, j.bytes)
  BY <1>9, <1>10, <1>11 DEF Store!Names
<1>13. files' = Store!Stored(f) /\ f \in files'
  BY <1>10, <1>11 DEF SaveWrite, WriteFile, SameName, Store!Stored, Store!SameName
<1>14. \E g \in files' : g.bytes = Captured'[j.key] /\ Store!Names(g, j.key, Captured'[j.key])
                          /\ files' = Store!Stored(g)
  BY <1>6, <1>11, <1>12, <1>13
<1> QED
  BY <1>2, <1>3, <1>6, <1>7, <1>8, <1>14 DEF Store!Capture

(* A write that fails changes nothing, or leaves a strict prefix of the body. *)
LEMMA CaptureFailsStep ==
  ASSUME TypeOK, SaveProtocol, CollectorInv, NEW t \in Threads,
         NEW n \in 0..MaxDexSize, SaveWriteFails(t, n)
  PROVE  Store!CaptureFails(job[t].key) \/ UNCHANGED Store!vars
<1> DEFINE j == job[t]
           m == FileName(j)
           b == SubSeq(j.bytes, 1, n)
           f == [key |-> m.key, size |-> m.size, hash |-> m.hash, bytes |-> b]
<1>1. /\ j.key \in Keys /\ j.bytes \in Seq(Parts) /\ j.size \in Nat
      /\ n \in Nat /\ n < Len(j.bytes)
      /\ pc[t] = "saveWrite" /\ pc[t] \in CacheSection
  <2>1. j \in Job /\ n \in Nat
    BY BoundsAssumption DEF TypeOK
  <2>2. n < Len(j.bytes) /\ pc[t] = "saveWrite"
    BY DEF SaveWriteFails, At
  <2> QED
    BY <2>1, <2>2 DEF Job, Body, CacheSection
<1>2. /\ ~sealed /\ \A u \in Threads : pc[u] \notin Written
      /\ t = "main" => \A u \in Threads : pc[u] # "mark"
  BY <1>1, OneWrites DEF Written
<1>3. /\ OthersStay(t) /\ pc'[t] = "idle"
      /\ UNCHANGED <<dexCache, ambiguous, sealed, jsons>>
  BY GotoEffect DEF SaveWriteFails, storeVars, lockVars
<1>4. Captured' = Captured
  <2>1. \A u \in Threads : pc'[u] \notin Written
    BY <1>2, <1>3 DEF OthersStay, Written
  <2> QED
    BY <1>2, <1>3, <2>1, CapturedIs, CapturedSame
<1>5. CASE files' = files
  BY <1>3, <1>4, <1>5 DEF Store!vars
<1>6. CASE WriteFile(m, b)
  <2>1. Captured[j.key] # <<>> => j.key \in ambiguous
    <3>1. Captured = [k \in Keys |-> dexCache[k]]
      BY <1>2, CapturedIs, CapturedNone
    <3> QED
      BY <1>1, <3>1, FirstOrAmbiguous
  <2>2. j.key \notin ambiguous => Len(j.bytes) <= j.size
    <3>1. Len(j.bytes) <= j.size \/ (t = "main" /\ Doubted(j.key))
      BY <1>1 DEF CollectorInv, BodiesFit, InSave, CacheSection, SaveSection
    <3> QED
      BY <1>2, <3>1 DEF Doubted
  <2>3. /\ m = [key |-> j.key, size |-> j.size, hash |-> m.hash]
        /\ m.hash = IF j.key \in ambiguous THEN j.bytes ELSE <<>>
    BY DEF FileName
  <2>4. f.key = j.key /\ f.size = j.size /\ f.hash = m.hash /\ f.bytes = b
    BY <2>3
  <2>5. Len(b) = n
    BY <1>1
  <2>6. files' = Store!Stored(f) /\ f \in files'
    BY <1>6, <2>3, <2>4 DEF WriteFile, SameName, Store!Stored, Store!SameName
  <2>7. IF j.key \in ambiguous
        THEN \E i \in 0..Len(f.hash) - 1 : f.bytes = SubSeq(f.hash, 1, i)
        ELSE f.hash = <<>> /\ Len(f.bytes) < f.size
    <3>1. CASE j.key \in ambiguous
      <4>1. n \in 0..Len(j.bytes) - 1
        BY <1>1
      <4> QED
        BY <2>3, <2>4, <3>1, <4>1
    <3>2. CASE j.key \notin ambiguous
      BY <1>1, <2>2, <2>3, <2>4, <2>5, <3>2
    <3> QED
      BY <3>1, <3>2
  <2>8. \E g \in files' :
          /\ g.key = j.key
          /\ IF j.key \in ambiguous
             THEN \E i \in 0..Len(g.hash) - 1 : g.bytes = SubSeq(g.hash, 1, i)
             ELSE g.hash = <<>> /\ Len(g.bytes) < g.size
          /\ files' = Store!Stored(g)
    BY <2>4, <2>6, <2>7
  <2> QED
    BY <1>2, <1>3, <1>4, <2>1, <2>8 DEF Store!CaptureFails
<1> QED
  BY <1>5, <1>6 DEF SaveWriteFails

(* The body leaves the hands of save_dex: to the store it was captured.      *)
LEMMA InsertStep ==
  ASSUME TypeOK, SaveProtocol, NEW t \in Threads, SaveInsert(t)
  PROVE  UNCHANGED Store!vars
<1> DEFINE j == job[t]
<1>1. /\ j.key \in Keys /\ pc[t] = "saveInsert" /\ pc[t] \in CacheSection
      /\ pc[t] \in Written
  BY DEF TypeOK, Job, SaveInsert, At, CacheSection, Written
<1>2. \A u \in Threads \ {t} : pc[u] \notin Written
  BY <1>1, OneWrites
<1>3. /\ OthersStay(t) /\ pc'[t] = "idle" /\ dexCache' = [dexCache EXCEPT ![j.key] = j.bytes]
      /\ UNCHANGED <<files, ambiguous, sealed, jsons>>
  BY GotoEffect DEF SaveInsert, lockVars, diskVars
<1>4. ASSUME NEW k \in Keys
      PROVE  Captured[k] = IF j.key = k THEN j.bytes ELSE dexCache[k]
  <2>1. Captured[k] = LET W == {u \in Threads : pc[u] \in Written /\ job[u].key = k}
                      IN IF W = {} THEN dexCache[k] ELSE job[CHOOSE u \in W : TRUE].bytes
    BY DEF Captured, Written
  <2>2. CASE j.key = k
    <3>1. {u \in Threads : pc[u] \in Written /\ job[u].key = k} = {t}
      BY <1>1, <1>2, <2>2
    <3> QED
      BY <2>1, <2>2, <3>1
  <2>3. CASE j.key # k
    BY <1>1, <1>2, <2>1, <2>3
  <2> QED
    BY <2>2, <2>3
<1>5. Captured' = [k \in Keys |-> dexCache'[k]]
  <2>1. \A u \in Threads : pc'[u] \notin Written
    BY <1>2, <1>3 DEF OthersStay, Written
  <2> QED
    BY <2>1, CapturedIs, CapturedNone
<1>6. \A k \in Keys : Captured'[k] = Captured[k]
  BY <1>1, <1>3, <1>4, <1>5 DEF TypeOK
<1>7. Captured' = Captured
  BY <1>6 DEF Captured
<1> QED
  BY <1>3, <1>7 DEF Store!vars

LEMMA SealStep ==
  ASSUME SaveProtocol, Seal
  PROVE  Store!Seal
<1>1. ~sealed /\ sealed' = TRUE /\ UNCHANGED <<files, ambiguous, jsons, dexCache, pc, job>>
  BY DEF Seal, SaveProtocol, SealedBetweenCaptures, storeVars, diskVars
<1> QED
  BY <1>1 DEF Store!Seal, Captured

LEMMA PublishStep ==
  ASSUME TypeOK, SaveProtocol, CollectorInv, NEW written \in SUBSET Keys, FlushJson(written)
  PROVE  Store!Publish
<1>1. /\ sealed /\ jsons = {}
      /\ UNCHANGED <<files, ambiguous, sealed, dexCache, pc, job>>
  BY DEF FlushJson, SaveProtocol, SealedBetweenCaptures, CollectorInv, JsonsLast, lockVars
<1>2. Captured' = Captured
  BY <1>1 DEF Captured
<1>3. \A t \in Threads : pc[t] \notin Written
  BY <1>1, NobodyIsNoThread
  DEF SaveProtocol, LocksHeld, SealedBetweenCaptures, Threads, InSave, SaveSection, Written
<1>4. Captured = [k \in Keys |-> dexCache[k]]
  BY <1>3, CapturedIs, CapturedNone
<1>5. ASSUME NEW f \in jsons'
      PROVE  \E k \in Flushable :
               f = [key |-> k, size |-> Len(dexCache[k]), records |-> records[k]]
  BY <1>1, <1>5 DEF FlushJson
<1>6. ASSUME NEW f \in jsons'
      PROVE  /\ f.key \in Keys \ ambiguous
             /\ Captured[f.key] # <<>> /\ f.size = Len(Captured[f.key])
             /\ f.records \subseteq Record
             /\ \A i \in jsons' : i.key = f.key => i = f
  <2>1. PICK k \in Flushable :
          f = [key |-> k, size |-> Len(dexCache[k]), records |-> records[k]]
    BY <1>5
  <2>2. k \in Keys /\ k \notin ambiguous /\ dexCache[k] # <<>>
    BY <2>1 DEF Flushable
  <2>3. \A i \in jsons' : i.key = k => i = f
    BY <1>5, <2>1
  <2>4. records[k] \subseteq Record
    BY <2>2 DEF TypeOK
  <2> QED
    BY <1>4, <2>1, <2>2, <2>3, <2>4
<1> QED
  BY <1>1, <1>2, <1>6 DEF Store!Publish

(* Every other step is none of the store's. *)
LEMMA StutterStep ==
  ASSUME TypeOK, NEW t \in Threads, OthersStay(t),
         pc[t] \in Written <=> pc'[t] \in Written,
         pc[t] \in Written => job'[t].key = job[t].key /\ job'[t].bytes = job[t].bytes,
         UNCHANGED <<files, ambiguous, dexCache, sealed, jsons>>
  PROVE  UNCHANGED Store!vars
<1>1. \A u \in Threads : pc[u] \in Written <=> pc'[u] \in Written
  BY DEF OthersStay
<1>2. \A u \in Threads : pc[u] \in Written =>
        job[u].key = job'[u].key /\ job[u].bytes = job'[u].bytes
  BY DEF OthersStay
<1>3. Captured' = Captured
  BY <1>1, <1>2, CapturedIs, CapturedSame
<1> QED
  BY <1>3 DEF Store!vars

LEMMA StoreNext ==
  ASSUME TypeInv, SaveProtocol, CollectorInv, [Next]_vars
  PROVE  Store!Next \/ UNCHANGED Store!vars
<1> USE DEF TypeInv
<1>1. ASSUME NEW t \in Threads
      PROVE  job[t] \in Job /\ job[t].key \in Keys
  BY DEF TypeOK, Job
<1>2. ASSUME NEW t \in Threads, QuarantineStep(t)
      PROVE  Store!Next \/ UNCHANGED Store!vars
  <2>1. CASE Mark(t)
    BY <1>1, <2>1, TaintStep DEF Store!Next
  <2>2. CASE ~Mark(t)
    <3>1. /\ OthersStay(t) /\ pc[t] \notin Written /\ pc'[t] \notin Written
          /\ UNCHANGED <<files, ambiguous, dexCache>>
      BY <1>1, <1>2, <2>2, QuarantineEffects
      DEF QuarantineStep, DropPending, DropRecords, DropNames, At, Written, Job, Returns
    <3>2. UNCHANGED <<sealed, jsons>>
      BY <1>2 DEF QuarantineStep, Mark, DropPending, DropRecords, DropNames, lockVars, diskVars
    <3> QED
      BY <3>1, <3>2, StutterStep
  <2> QED
    BY <2>1, <2>2
<1>3. ASSUME NEW t \in Threads, SaveStep(t)
      PROVE  Store!Next \/ UNCHANGED Store!vars
  <2>1. CASE SaveWrite(t)
    BY <1>1, <2>1, CaptureStep DEF Store!Next
  <2>2. CASE \E n \in 0..MaxDexSize : SaveWriteFails(t, n)
    BY <1>1, <2>2, CaptureFailsStep DEF Store!Next
  <2>3. CASE SaveInsert(t)
    BY <2>3, InsertStep
  <2>4. CASE SaveEnter(t) \/ SaveSkip(t) \/ SaveObserve(t) \/ SaveCompare(t)
    <3>1. UNCHANGED <<files, ambiguous, dexCache, sealed, jsons>>
      BY <2>4 DEF SaveEnter, SaveSkip, SaveObserve, SaveCompare, storeVars, lockVars, diskVars
    <3>2. pc[t] \notin Written
      BY <2>4 DEF SaveEnter, SaveSkip, SaveObserve, SaveCompare, At, Written
    <3>3. pc'[t] \notin Written
      <4>1. CASE SaveEnter(t) \/ SaveSkip(t)
        BY <4>1, GotoEffect DEF SaveEnter, SaveSkip, Written
      <4>2. CASE SaveObserve(t)
        BY <1>1, <4>2, ObserveGoes DEF SaveObserve, Written
      <4>3. CASE SaveCompare(t)
        BY <1>1, <4>3, GotoEffect, QuarantineEffect DEF SaveCompare, Written
      <4> QED
        BY <2>4, <4>1, <4>2, <4>3
    <3> QED
      BY <1>3, <3>1, <3>2, <3>3, SaveEffect, StutterStep
  <2>5. CASE SaveForgetPending(t) \/ SaveForgetNames(t)
    <3>1. PICK next \in Written : Goto(t, next, job[t])
      BY <2>5 DEF SaveForgetPending, SaveForgetNames, Written
    <3>2. pc[t] \in Written /\ UNCHANGED <<files, ambiguous, dexCache, sealed, jsons>>
      BY <2>5 DEF SaveForgetPending, SaveForgetNames, At, Written, lockVars, diskVars
    <3>3. OthersStay(t) /\ pc'[t] = next /\ job'[t] = job[t]
      BY <3>1, GotoEffect DEF Written
    <3> QED
      BY <3>2, <3>3, StutterStep
  <2> QED
    BY <1>3, <2>1, <2>2, <2>3, <2>4, <2>5 DEF SaveStep
<1>4. CASE TakeStep
  <2>1. UNCHANGED <<files, ambiguous, dexCache, sealed, jsons>>
    BY <1>4
    DEF TakeStep, TakeDexEvent, TakeChunk, TakeMethod, TakeFailure, TakeScanned, Take,
        lockVars, diskVars
  <2>2. pc["main"] \notin Written /\ pc'["main"] \notin Written /\ OthersStay("main")
    BY <1>4, TakeEffect, TakeLands DEF Written
  <2> QED
    BY <2>1, <2>2, StutterStep DEF Threads
<1>5. CASE HandlerStep
  <2>1. UNCHANGED <<sealed, jsons>>
    BY <1>5
    DEF HandlerStep, ChunkAmbiguous, ChunkCached, ChunkPending, MethodAmbiguous, MethodSig,
        MethodResolve, MethodRemember, MethodPush, FailCached, FailAmbiguous, FailForget,
        FailRead, lockVars, diskVars
  <2>2. /\ pc["main"] \notin Written /\ pc'["main"] \notin Written /\ OthersStay("main")
        /\ UNCHANGED <<files, ambiguous, dexCache>>
    BY <1>5, HandlerEffect, HandlerLands DEF HandlerLabels, Written
  <2> QED
    BY <2>1, <2>2, StutterStep DEF Threads
<1>6. CASE Found
  <2>1. UNCHANGED <<sealed, jsons>>
    BY <1>6 DEF Found, ScanFound, lockVars, diskVars
  <2>2. /\ pc["scan"] \notin Written /\ pc'["scan"] \notin Written /\ OthersStay("scan")
        /\ UNCHANGED <<files, ambiguous, dexCache>>
    BY <1>6, FoundEffect, FoundLands DEF Written
  <2> QED
    BY <2>1, <2>2, StutterStep DEF Threads
<1>7. CASE (\E k \in Keys : ExpirePending(k)) \/ LeaveLoop \/ Signal \/ UNCHANGED vars
  <2>1. UNCHANGED <<files, ambiguous, dexCache, sealed, jsons, pc, job>>
    BY <1>7
    DEF ExpirePending, LeaveLoop, Signal, vars, storeVars, lockVars, diskVars
  <2> QED
    BY <2>1 DEF Store!vars, Captured
<1>8. CASE Seal
  BY <1>8, SealStep DEF Store!Next
<1>9. CASE \E written \in SUBSET Keys : FlushJson(written)
  BY <1>9, PublishStep DEF Store!Next
<1> QED
  BY Movers, <1>2, <1>3, <1>4, <1>5, <1>6, <1>7, <1>8, <1>9 DEF StopStep

LEMMA StoreInit == Init => Store!Init
<1> SUFFICES ASSUME Init
             PROVE  Store!Init
  OBVIOUS
<1>1. Captured = [k \in Keys |-> <<>>]
  <2>1. \A t \in Threads : pc[t] \notin Written
    BY DEF Init, Written
  <2>2. Captured = [k \in Keys |-> dexCache[k]]
    BY <2>1, CapturedIs, CapturedNone
  <2> QED
    BY <2>2 DEF Init
<1> QED
  BY <1>1 DEF Init, Store!Init

(* The collector implements CaptureStore: with every lock region of save_dex *)
(* a step of its own, two threads and failing writes, captures are atomic,   *)
(* a key's first body is kept, and records come after the seal.              *)
THEOREM StoreImplemented == Spec => ImplementsStore
<1>1. TypeInv /\ SaveProtocol /\ CollectorInv /\ [Next]_vars => [Store!Next]_Store!vars
  BY StoreNext
<1> QED
  BY <1>1, StoreInit, TypeInvariance, SaveProtocolHolds, CollectorInvariance, PTL
  DEF Spec, ImplementsStore, Store!Spec

-----------------------------------------------------------------------------
(* The main thread alone (--no-maps-scan).                                   *)

ScanIdle == pc["scan"] = "idle"

(* The key of the record in hand was not ambiguous when it was asked, and    *)
(* nobody else makes it so.                                                  *)
KeyInHand ==
  /\ pc["main"] \in {"chunkCached", "chunkPending",
                     "methodSig", "methodResolve", "methodRemember", "methodPush"}
       => job["main"].key \notin ambiguous
  /\ pc["main"] = "chunkPending" => dexCache[job["main"].key] = <<>>

SavedNotPending ==
  /\ \A k \in Keys : dexCache[k] # <<>> => pending[k] = NoPending
  /\ pc["main"] \in {"saveForgetNames", "saveInsert"} => pending[job["main"].key] = NoPending

(* A quarantine drops an ambiguous key's entries one map after the other. *)
Forgotten ==
  \A k \in ambiguous :
    /\ pending[k] = NoPending \/ (pc["main"] = "dropPending" /\ job["main"].key = k)
    /\ records[k] = {} \/ (pc["main"] \in {"dropPending", "dropRecords"} /\ job["main"].key = k)

NamesOfBodies ==
  /\ \A e \in sigCache : e.name = MethodName(dexCache[e.key])
  /\ pc["main"] = "methodRemember" => job["main"].name = MethodName(dexCache[job["main"].key])
  /\ pc["main"] = "saveInsert" => \A e \in sigCache : e.key # job["main"].key

AloneInv == ScanIdle /\ KeyInHand /\ SavedNotPending /\ Forgotten /\ NamesOfBodies

(* Part p of a DEX of n parts. *)
PartOf(n, p, part) == \E img \in Images : Len(img) = n /\ p \in 1..n /\ img[p] = part

ChunkOfImage ==
  HoldsChunk => PartOf(job["main"].size, job["main"].at, job["main"].bytes[1])

EntriesOfImages ==
  \A k \in Keys : \A p \in DOMAIN pending[k].got : PartOf(pending[k].total, p, pending[k].got[p])

(* Only a chunk's job names a part; the other ways into save_dex name none.  *)
HoldsFailure ==
  \/ pc["main"] \in {"failCached", "failAmbiguous", "failRead", "failForget"}
  \/ pc["main"] \in Quarantining /\ job["main"].ret = "failCached"

NoPartInHand == HoldsFailure => job["main"].at = 0

AssemblyInv == ChunkOfImage /\ EntriesOfImages /\ NoPartInHand /\ AssembledWhole

LEMMA ScanStaysIdle ==
  ASSUME TypeOK, ~MapsScan, ScanIdle, [Next]_vars
  PROVE  ScanIdle'
<1>1. "scan" \in Threads /\ "main" \in Threads
  BY DEF Threads
<1>2. ~QuarantineStep("scan") /\ ~SaveStep("scan") /\ ~Found
  BY <1>1, QuarantineEffects, SaveEffect DEF ScanIdle, Quarantining, SaveSection, Found, ScanFound
<1> QED
  BY <1>1, <1>2, OneMoves DEF OthersStay, Moves, ScanIdle, Threads

(* What main, alone, may do. *)
LEMMA AloneMoves ==
  ASSUME TypeOK, ScanIdle, ScanIdle', [Next]_vars
  PROVE  \/ QuarantineStep("main") \/ SaveStep("main") \/ TakeStep \/ HandlerStep
         \/ /\ UNCHANGED <<pc, job, dexSizes, ambiguous, dexCache, sigCache>>
            /\ \A k \in Keys : pending'[k] \in {pending[k], NoPending}
            /\ \A k \in Keys : records'[k] \in {records[k], {}}
<1>1. "scan" \in Threads /\ "main" \in Threads /\ \A t \in Threads : t \in {"main", "scan"}
  BY DEF Threads
<1>2. ~QuarantineStep("scan") /\ ~SaveStep("scan") /\ ~Found
  BY <1>1, QuarantineEffects, SaveEffect, FoundLands DEF ScanIdle, Quarantining, SaveSection
<1>3. ASSUME (\E k \in Keys : ExpirePending(k)) \/ LeaveLoop \/ Seal \/ Signal \/ UNCHANGED vars
      PROVE  /\ UNCHANGED <<pc, job, dexSizes, ambiguous, dexCache, sigCache>>
             /\ \A k \in Keys : pending'[k] \in {pending[k], NoPending}
             /\ \A k \in Keys : records'[k] \in {records[k], {}}
  BY <1>3 DEF ExpirePending, LeaveLoop, Seal, Signal, vars, storeVars, TypeOK
<1>4. ASSUME NEW written \in SUBSET Keys, FlushJson(written)
      PROVE  /\ UNCHANGED <<pc, job, dexSizes, ambiguous, dexCache, sigCache, pending>>
             /\ \A k \in Keys : records'[k] = {}
  BY <1>4 DEF FlushJson
<1> QED
  BY Movers, <1>1, <1>2, <1>3, <1>4 DEF StopStep

(* From which label to which a handler goes, and what it takes along. *)
LEMMA HandlerEdge ==
  ASSUME TypeOK, HandlerStep
  PROVE  LET p == pc["main"]  q == pc'["main"]
             j == job["main"] i == job'["main"]
         IN \/ q = "idle"
            \/ q = "mark" /\ i.ret = "idle" /\ i.key = j.key
            \/ /\ i.key = j.key /\ i.at = j.at
               /\ \/ p = "chunkAmbiguous" /\ q = "chunkCached" /\ i = j /\ j.key \notin ambiguous
                  \/ p = "chunkCached" /\ q = "chunkPending" /\ i = j /\ dexCache[j.key] = <<>>
                  \/ p = "chunkPending" /\ q = "saveEnter" /\ ChunkPending
                  \/ p = "methodAmbiguous" /\ q = "methodSig" /\ j.key \notin ambiguous
                  \/ p = "methodSig" /\ q \in {"methodResolve", "methodPush"}
                  \/ /\ p = "methodResolve" /\ q = "methodRemember"
                     /\ i.name = MethodName(dexCache[j.key])
                  \/ p = "methodRemember" /\ q = "methodPush"
                  \/ p = "failCached" /\ q = "failAmbiguous"
                  \/ p = "failAmbiguous" /\ q = "failRead"
                  \/ p = "failRead" /\ q = "failForget"
                  \/ p = "failForget" /\ q = "saveEnter"
<1> DEFINE p == pc["main"]
           q == pc'["main"]
           j == job["main"]
           i == job'["main"]
<1>1. "main" \in Threads /\ j \in Job
  BY DEF TypeOK, Threads
<1>2. ASSUME NEW next, NEW k, Goto("main", next, k)
      PROVE  q = next /\ (next # "idle" => i = k)
  BY <1>1, <1>2, GotoEffect
<1>3. ASSUME Quarantine("main", j, "idle")
      PROVE  q = "mark" /\ i.ret = "idle" /\ i.key = j.key
  BY <1>1, <1>3, QuarantineEffect
<1>4. CASE ChunkAmbiguous
  BY <1>2, <1>4 DEF ChunkAmbiguous, At
<1>5. CASE ChunkCached
  BY <1>2, <1>3, <1>5 DEF ChunkCached, At
<1>6. CASE ChunkPending
  <2>1. ASSUME NEW b, Goto("main", "saveEnter", [j EXCEPT !.bytes = b])
        PROVE  q = "saveEnter" /\ i.key = j.key /\ i.at = j.at
    BY <1>1, <1>2, <2>1 DEF Job
  <2>2. \/ Goto("main", "idle", j) \/ Quarantine("main", j, "idle")
        \/ \E b : Goto("main", "saveEnter", [j EXCEPT !.bytes = b])
    BY <1>6 DEF ChunkPending
  <2>3. p = "chunkPending"
    BY <1>6 DEF ChunkPending, At
  <2> QED
    BY <1>2, <1>3, <1>6, <2>1, <2>2, <2>3
<1>7. CASE MethodAmbiguous
  BY <1>2, <1>7 DEF MethodAmbiguous, At
<1>8. CASE MethodSig
  <2>1. ASSUME NEW n
        PROVE  [j EXCEPT !.name = n].key = j.key /\ [j EXCEPT !.name = n].at = j.at
    BY <1>1 DEF Job
  <2>2. \/ Goto("main", "methodResolve", j)
        \/ \E n : Goto("main", AfterName(j), [j EXCEPT !.name = n])
    BY <1>8 DEF MethodSig
  <2>3. p = "methodSig" /\ AfterName(j) \in {"idle", "methodPush"}
    BY <1>8 DEF MethodSig, At, AfterName
  <2>4. ASSUME NEW n, Goto("main", AfterName(j), [j EXCEPT !.name = n])
        PROVE  q \in {"idle", "methodPush"} /\ (q # "idle" => i.key = j.key /\ i.at = j.at)
    <3>1. q = AfterName(j) /\ (AfterName(j) # "idle" => i = [j EXCEPT !.name = n])
      BY <1>2, <2>4
    <3> QED
      BY <2>1, <2>3, <3>1
  <2>5. ASSUME Goto("main", "methodResolve", j)
        PROVE  q = "methodResolve" /\ i = j
    BY <1>2, <2>5
  <2> QED
    BY <2>2, <2>3, <2>4, <2>5
<1>9. CASE MethodResolve
  <2>1. Goto("main", "methodRemember", [j EXCEPT !.name = MethodName(dexCache[j.key])])
    BY <1>9 DEF MethodResolve
  <2>2. i = [j EXCEPT !.name = MethodName(dexCache[j.key])] /\ q = "methodRemember"
    BY <1>2, <2>1
  <2>3. i.key = j.key /\ i.at = j.at /\ i.name = MethodName(dexCache[j.key])
    BY <1>1, <2>2 DEF Job
  <2> QED
    BY <1>9, <2>2, <2>3 DEF MethodResolve, At
<1>10. CASE MethodRemember \/ MethodPush
  BY <1>2, <1>10 DEF MethodRemember, MethodPush, AfterName, At
<1>11. CASE FailCached \/ FailAmbiguous \/ FailForget
  BY <1>2, <1>11 DEF FailCached, FailAmbiguous, FailForget, At
<1>12. CASE \E img \in Images, ok \in SUBSET (1..MaxDexSize) : FailRead(img, ok)
  <2>1. /\ p = "failRead"
        /\ \/ Goto("main", "idle", j)
           \/ \E b, n : Goto("main", "failForget", [j EXCEPT !.bytes = b, !.size = n])
    BY <1>12 DEF FailRead, At
  <2>2. ASSUME NEW b, NEW n
        PROVE  /\ [j EXCEPT !.bytes = b, !.size = n].key = j.key
               /\ [j EXCEPT !.bytes = b, !.size = n].at = j.at
    BY <1>1 DEF Job
  <2>3. ASSUME NEW b, NEW n, Goto("main", "failForget", [j EXCEPT !.bytes = b, !.size = n])
        PROVE  q = "failForget" /\ i.key = j.key /\ i.at = j.at
    <3>1. q = "failForget" /\ i = [j EXCEPT !.bytes = b, !.size = n]
      BY <1>2, <2>3
    <3> QED
      BY <2>2, <3>1
  <2>4. ASSUME Goto("main", "idle", j)
        PROVE  q = "idle"
    BY <1>2, <2>4
  <2> QED
    BY <2>1, <2>3, <2>4
<1> QED
  BY <1>4, <1>5, <1>6, <1>7, <1>8, <1>9, <1>10, <1>11, <1>12 DEF HandlerStep

LEMMA SaveEdge ==
  ASSUME TypeOK, NEW t \in Threads, SaveStep(t)
  PROVE  /\ pc'[t] = "saveForgetNames" => SaveForgetPending(t)
         /\ pc'[t] = "saveInsert" => SaveForgetNames(t)
<1>1. job[t] \in Job
  BY DEF TypeOK
<1>2. ASSUME NEW next, NEW k, Goto(t, next, k)
      PROVE  pc'[t] = next
  BY <1>2, GotoEffect
<1>3. CASE SaveEnter(t) \/ SaveSkip(t) \/ SaveWrite(t) \/ SaveForgetPending(t) \/ SaveForgetNames(t)
  BY <1>2, <1>3 DEF SaveEnter, SaveSkip, SaveWrite, SaveForgetPending, SaveForgetNames
<1>4. CASE SaveInsert(t) \/ \E n \in 0..MaxDexSize : SaveWriteFails(t, n)
  BY <1>2, <1>4 DEF SaveInsert, SaveWriteFails
<1>5. CASE SaveObserve(t)
  BY <1>1, <1>5, ObserveGoes DEF SaveObserve
<1>6. CASE SaveCompare(t)
  BY <1>1, <1>2, <1>6, QuarantineEffect DEF SaveCompare
<1> QED
  BY <1>3, <1>4, <1>5, <1>6 DEF SaveStep

LEMMA KeyInHandNext ==
  ASSUME TypeOK, ScanIdle, ScanIdle', KeyInHand, [Next]_vars
  PROVE  KeyInHand'
<1>1. "main" \in Threads /\ job["main"].ret \in Returns
  BY DEF TypeOK, Threads, Job
<1>2. CASE HandlerStep
  <2>1. UNCHANGED <<ambiguous, dexCache>>
    BY <1>2, HandlerEffect
  <2> QED
    BY <1>2, <2>1, HandlerEdge DEF KeyInHand
<1>3. CASE QuarantineStep("main") \/ SaveStep("main") \/ TakeStep
  <2>1. CASE QuarantineStep("main")
    BY <1>1, <2>1, QuarantineEffects DEF Returns, KeyInHand
  <2>2. CASE SaveStep("main")
    BY <1>1, <2>2, SaveEffect DEF SaveSection, KeyInHand
  <2>3. CASE TakeStep
    BY <2>3, TakeLands DEF KeyInHand
  <2> QED
    BY <1>3, <2>1, <2>2, <2>3
<1>4. CASE UNCHANGED <<pc, job, ambiguous, dexCache>>
  BY <1>4 DEF KeyInHand
<1> QED
  BY <1>2, <1>3, <1>4, AloneMoves

LEMMA SavedNotPendingNext ==
  ASSUME TypeInv, SaveProtocol, CollectorInv, ScanIdle, ScanIdle', KeyInHand, SavedNotPending,
         [Next]_vars
  PROVE  SavedNotPending'
<1> USE DEF TypeInv
<1> DEFINE j == job["main"]
<1>1. "main" \in Threads /\ j.key \in Keys /\ DOMAIN pending = Keys /\ dexCache \in [Keys -> Body]
  BY DEF TypeOK, Threads, Job
<1>2. ASSUME ChunkPending
      PROVE  /\ \A k \in Keys : pending'[k] \in {pending[k], NoPending} \/ dexCache[k] = <<>>
             /\ dexCache' = dexCache
             /\ pc'["main"] \notin {"saveForgetNames", "saveInsert"}
  <2>1. dexCache[j.key] = <<>> /\ dexCache' = dexCache
    BY <1>2 DEF ChunkPending, At, KeyInHand
  <2>2. HandlerStep
    BY <1>2 DEF HandlerStep
  <2>3. pc'["main"] \notin {"saveForgetNames", "saveInsert"}
    BY <2>2, HandlerLands DEF HandlerLabels
  <2> QED
    BY <1>2, <2>1, <2>3, ChunkPends DEF CollectorInv
<1>3. ASSUME NEW k \in Keys, dexCache'[k] # <<>>
      PROVE  pending'[k] = NoPending
  <2>1. CASE \E t \in Threads : SaveInsert(t)
    <3>1. SaveInsert("main")
      BY <2>1 DEF SaveInsert, At, Threads, ScanIdle
    <3>2. pc["main"] = "saveInsert" /\ pending' = pending /\ dexCache' = [dexCache EXCEPT ![j.key] = j.bytes]
      BY <3>1 DEF SaveInsert, At
    <3> QED
      BY <1>1, <1>3, <3>2 DEF SavedNotPending
  <2>2. CASE dexCache' = dexCache
    <3>1. pending[k] = NoPending
      BY <1>3, <2>2 DEF SavedNotPending
    <3> QED
      BY <1>1, <1>2, <1>3, <2>2, <3>1, WhoChanges
  <2> QED
    BY <2>1, <2>2, WhoChanges
<1>4. ASSUME pc'["main"] \in {"saveForgetNames", "saveInsert"}
      PROVE  pending'[job'["main"].key] = NoPending
  <2>1. CASE SaveStep("main")
    <3>1. SaveForgetPending("main") \/ SaveForgetNames("main")
      BY <1>1, <1>4, <2>1, SaveEdge
    <3>2. job'["main"].key = j.key
      BY <1>1, <1>4, <2>1, SaveEffect
    <3> QED
      BY <1>1, <3>1, <3>2 DEF SaveForgetPending, SaveForgetNames, At, SavedNotPending
  <2>2. CASE UNCHANGED <<pc, job>> /\ pending'[j.key] \in {pending[j.key], NoPending}
    BY <1>4, <2>2 DEF SavedNotPending
  <2>3. ~QuarantineStep("main")
    BY <1>1, <1>4, QuarantineEffects DEF TypeOK, Job, Returns
  <2>4. ~TakeStep /\ ~HandlerStep
    BY <1>4, TakeLands, HandlerLands DEF HandlerLabels
  <2> QED
    BY <1>1, <2>1, <2>2, <2>3, <2>4, AloneMoves
<1> QED
  BY <1>3, <1>4 DEF SavedNotPending

LEMMA ForgottenNext ==
  ASSUME TypeInv, CollectorInv, ScanIdle, ScanIdle', KeyInHand, Forgotten, [Next]_vars
  PROVE  Forgotten'
<1> USE DEF TypeInv
<1> DEFINE j == job["main"]
<1>1. /\ "main" \in Threads /\ j.key \in Keys /\ j.ret \in Returns
      /\ DOMAIN pending = Keys /\ DOMAIN records = Keys /\ ambiguous \subseteq Keys
  BY DEF TypeOK, Threads, Job
<1>2. CASE QuarantineStep("main")
  <2>1. OthersStay("main") /\ (pc'["main"] # "idle" => job'["main"] = j)
    BY <1>1, <1>2, QuarantineEffects
  <2>2. CASE Mark("main")
    <3>1. /\ pc["main"] = "mark" /\ pc'["main"] = "dropPending"
          /\ ambiguous' = ambiguous \cup {j.key} /\ UNCHANGED <<pending, records>>
      BY <1>1, <2>2, GotoEffect DEF Mark, At
    <3> QED
      BY <2>1, <3>1 DEF Forgotten
  <2>3. CASE DropPending("main")
    <3>1. /\ pc["main"] = "dropPending" /\ pc'["main"] = "dropRecords"
          /\ pending' = [pending EXCEPT ![j.key] = NoPending] /\ UNCHANGED <<ambiguous, records>>
      BY <1>1, <2>3, GotoEffect DEF DropPending, At
    <3> QED
      BY <1>1, <2>1, <3>1 DEF Forgotten
  <2>4. CASE DropRecords("main")
    <3>1. /\ pc["main"] = "dropRecords" /\ pc'["main"] = "dropNames"
          /\ records' = [records EXCEPT ![j.key] = {}] /\ UNCHANGED <<ambiguous, pending>>
      BY <1>1, <2>4, GotoEffect DEF DropRecords, At
    <3> QED
      BY <1>1, <2>1, <3>1 DEF Forgotten
  <2>5. CASE DropNames("main")
    <3>1. pc["main"] = "dropNames" /\ UNCHANGED <<ambiguous, pending, records>>
      BY <2>5 DEF DropNames, At
    <3> QED
      BY <3>1 DEF Forgotten
  <2> QED
    BY <1>2, <2>2, <2>3, <2>4, <2>5 DEF QuarantineStep
<1>3. CASE ~QuarantineStep("main")
  <2>1. /\ ambiguous' = ambiguous
        /\ pc["main"] \notin Quarantining \/ UNCHANGED <<pc, job>>
    BY <1>1, <1>3, AloneMoves, SaveEffect, TakeEffect, HandlerEffect
    DEF Quarantining, SaveSection, HandlerLabels
  <2>2. ASSUME NEW k \in ambiguous
        PROVE  pending'[k] \in {pending[k], NoPending}
    <3>1. CASE ChunkPending
      <4>1. j.key # k
        BY <3>1 DEF ChunkPending, At, KeyInHand
      <4> QED
        BY <1>1, <3>1, <4>1, ChunkPends DEF CollectorInv
    <3> QED
      BY <1>1, <3>1, WhoChanges
  <2>3. ASSUME NEW k \in ambiguous
        PROVE  records'[k] \subseteq records[k]
    <3>1. CASE MethodPush
      BY <1>1, <3>1 DEF MethodPush, At, KeyInHand
    <3> QED
      BY <1>1, <3>1, WhoChanges
  <2> QED
    BY <2>1, <2>2, <2>3 DEF Forgotten, Quarantining
<1> QED
  BY <1>2, <1>3

LEMMA NamesOfBodiesNext ==
  ASSUME TypeOK, ScanIdle, ScanIdle', NamesOfBodies, [Next]_vars
  PROVE  NamesOfBodies'
<1> DEFINE j == job["main"]
<1>1. "main" \in Threads /\ j.key \in Keys /\ j.ret \in Returns /\ dexCache \in [Keys -> Body]
  BY DEF TypeOK, Threads, Job
<1>2. ASSUME NEW e \in sigCache'
      PROVE  e.name = MethodName(dexCache'[e.key])
  <2>1. CASE \E t \in Threads : SaveInsert(t)
    <3>1. SaveInsert("main")
      BY <2>1 DEF SaveInsert, At, Threads, ScanIdle
    <3>2. /\ pc["main"] = "saveInsert" /\ sigCache' = sigCache
          /\ dexCache' = [dexCache EXCEPT ![j.key] = j.bytes]
      BY <3>1 DEF SaveInsert, At
    <3>3. e.key # j.key
      BY <3>2 DEF NamesOfBodies
    <3> QED
      BY <1>1, <3>2, <3>3 DEF NamesOfBodies
  <2>2. CASE dexCache' = dexCache
    <3>1. CASE e \in sigCache
      BY <2>2, <3>1 DEF NamesOfBodies
    <3>2. CASE e \notin sigCache
      BY <2>2, <3>2, WhoChanges DEF MethodRemember, At, NamesOfBodies
    <3> QED
      BY <3>1, <3>2
  <2> QED
    BY <2>1, <2>2, WhoChanges
<1>3. ASSUME pc'["main"] = "methodRemember"
      PROVE  job'["main"].name = MethodName(dexCache'[job'["main"].key])
  <2>1. CASE HandlerStep
    BY <1>3, <2>1, HandlerEdge, HandlerEffect
  <2>2. ~QuarantineStep("main") /\ ~SaveStep("main") /\ ~TakeStep
    BY <1>1, <1>3, QuarantineEffects, SaveEffect, TakeLands DEF Returns, SaveSection
  <2> QED
    BY <1>3, <2>1, <2>2, AloneMoves DEF NamesOfBodies
<1>4. ASSUME pc'["main"] = "saveInsert"
      PROVE  \A e \in sigCache' : e.key # job'["main"].key
  <2>1. CASE SaveStep("main")
    <3>1. SaveForgetNames("main") /\ job'["main"].key = j.key
      BY <1>1, <1>4, <2>1, SaveEdge, SaveEffect
    <3> QED
      BY <3>1 DEF SaveForgetNames
  <2>2. ~QuarantineStep("main") /\ ~TakeStep /\ ~HandlerStep
    BY <1>1, <1>4, QuarantineEffects, TakeLands, HandlerLands DEF Returns, HandlerLabels
  <2> QED
    BY <1>4, <2>1, <2>2, AloneMoves DEF NamesOfBodies
<1> QED
  BY <1>2, <1>3, <1>4 DEF NamesOfBodies

LEMMA AloneInit == Init => AloneInv
BY DEF Init, AloneInv, ScanIdle, KeyInHand, SavedNotPending, Forgotten, NamesOfBodies, Threads

LEMMA AloneNext ==
  ASSUME ~MapsScan
  PROVE  TypeInv /\ SaveProtocol /\ CollectorInv /\ AloneInv /\ [Next]_vars => AloneInv'
BY ScanStaysIdle, KeyInHandNext, SavedNotPendingNext, ForgottenNext, NamesOfBodiesNext
DEF AloneInv, TypeInv

(* Without the maps scan, what one map drops for a key the others drop too. *)
THEOREM AloneInvariance == ASSUME ~MapsScan PROVE Spec => []AloneInv
<1>1. TypeInv /\ SaveProtocol /\ CollectorInv /\ AloneInv /\ [Next]_vars => AloneInv'
  BY AloneNext
<1> QED
  BY <1>1, AloneInit, TypeInvariance, SaveProtocolHolds, CollectorInvariance, PTL DEF Spec

(* Without the maps scan, between two records of the main thread a saved key *)
(* has no body under assembly and an ambiguous key has neither records nor a *)
(* partial body, on every path through save_dex and quarantine_dex.          *)
THEOREM NothingLeft == ASSUME ~MapsScan PROVE Spec => []NothingLeftOver
<1>1. AloneInv => NothingLeftOver
  BY DEF AloneInv, SavedNotPending, Forgotten, NothingLeftOver, NoPendingOnceCached,
         AmbiguousForgotten, Quiet, Threads
<1> QED
  BY <1>1, AloneInvariance, PTL

(* Without the maps scan, between two records every cached name is the one   *)
(* the saved body gives: resolve_method_sig never answers with a stale name. *)
THEOREM NamesMatch == ASSUME ~MapsScan PROVE Spec => []NamesMatchBody
<1>1. AloneInv => NamesMatchBody
  BY DEF AloneInv, NamesOfBodies, NamesMatchBody
<1> QED
  BY <1>1, AloneInvariance, PTL

-----------------------------------------------------------------------------
(* What handle_dex_chunk assembles.                                          *)

(* Who has a chunk in hand took it off its ring, or had it already. *)
LEMMA HoldsChunkFrom ==
  ASSUME TypeOK, HoldsChunk', ScanIdle, ScanIdle', [Next]_vars
  PROVE  \/ \E k \in Keys, img \in Images : \E at \in 1..Len(img) : TakeChunk(k, img, at)
         \/ /\ HoldsChunk /\ job'["main"].size = job["main"].size
            /\ job'["main"].at = job["main"].at /\ job'["main"].bytes = job["main"].bytes
<1> DEFINE p == pc["main"]
           q == pc'["main"]
           j == job["main"]
           i == job'["main"]
<1>1. "main" \in Threads /\ j \in Job /\ j.ret \in Returns
  BY DEF TypeOK, Threads, Job
<1>2. \/ q \in {"chunkAmbiguous", "chunkCached", "chunkPending"}
      \/ q \in Quarantining /\ i.ret = "chunkAmbiguous"
  BY DEF HoldsChunk
<1>3. CASE QuarantineStep("main")
  <2>1. q # "idle" /\ p \in Quarantining /\ i = j
    BY <1>1, <1>2, <1>3, QuarantineEffects DEF Quarantining
  <2>2. j.ret = "chunkAmbiguous"
    BY <1>1, <1>2, <1>3, <2>1, QuarantineEffects DEF Returns, Quarantining
  <2> QED
    BY <2>1, <2>2 DEF HoldsChunk
<1>4. ~SaveStep("main")
  BY <1>1, <1>2, SaveEffect DEF SaveSection, Quarantining
<1>5. CASE HandlerStep
  <2>1. i = j /\ p \in {"chunkAmbiguous", "chunkCached"}
    BY <1>2, <1>5, HandlerEdge DEF Quarantining
  <2> QED
    BY <2>1 DEF HoldsChunk
<1>6. CASE TakeStep
  <2> PICK k \in Keys, img \in Images :
        \/ TakeDexEvent(k, img)
        \/ \E at \in 1..Len(img) : TakeChunk(k, img, at)
        \/ \E idx \in Methods, code \in {<<>>, <<Junk>>} : TakeMethod(k, img, idx, code)
        \/ TakeFailure(k, img)
        \/ TakeScanned(k, img)
    BY <1>6 DEF TakeStep
  <2>1. ASSUME NEW k2 \in Job, NEW next \in {"idle", "methodAmbiguous", "failCached"},
               ObserveThen("main", k2, next)
        PROVE  FALSE
    <3>1. \/ Goto("main", next, k2)
          \/ Quarantine("main", k2, next)
      BY <2>1 DEF ObserveThen
    <3>2. q = next \/ (q = "mark" /\ i.ret = next)
      BY <1>1, <3>1, GotoEffect, QuarantineEffect
    <3> QED
      BY <1>2, <3>2 DEF Quarantining
  <2>2. img \in Body /\ Len(img) \in Nat /\ <<>> \in Body /\ <<Junk>> \in Body
    BY ImageType, ImagesAssumption DEF Body
  <2>3. ~TakeDexEvent(k, img) /\ ~TakeFailure(k, img)
    BY <2>1, <2>2, JobType DEF TakeDexEvent, TakeFailure
  <2>4. ASSUME NEW idx \in Methods, NEW code \in {<<>>, <<Junk>>}, TakeMethod(k, img, idx, code)
        PROVE  FALSE
    <3>1. [NoJob EXCEPT !.key = k, !.size = Len(img), !.at = idx, !.bytes = code] \in Job
      BY <2>2, JobType, BoundsAssumption
    <3> QED
      BY <2>1, <2>4, <3>1 DEF TakeMethod
  <2>5. ~TakeScanned(k, img)
    <3>1. ASSUME TakeScanned(k, img)
          PROVE  \E b \in ScannedJob : Goto("main", "saveEnter", b)
      BY <3>1, ScannedBodyType DEF TakeScanned, Later
    <3> QED
      BY <1>1, <1>2, <3>1, GotoEffect DEF Quarantining
  <2> QED
    BY <2>3, <2>4, <2>5
<1>7. CASE UNCHANGED <<pc, job>>
  BY <1>2, <1>7 DEF HoldsChunk
<1> QED
  BY <1>3, <1>4, <1>5, <1>6, <1>7, AloneMoves

(* The locals handle_dex_chunk starts with. *)
LEMMA ChunkTaken ==
  ASSUME TypeOK, NEW k \in Keys, NEW img \in Images, NEW at \in 1..Len(img), TakeChunk(k, img, at)
  PROVE  /\ job'["main"].size = Len(img) /\ job'["main"].at = at
         /\ job'["main"].bytes[1] = img[at]
<1> DEFINE j == [NoJob EXCEPT !.key = k, !.size = Len(img), !.at = at, !.bytes = <<img[at]>>]
<1>1. "main" \in Threads /\ j \in Job
  <2>1. <<img[at]>> \in Body /\ at \in Nat /\ Len(img) \in Nat
    BY ImageType
  <2> QED
    BY <2>1, JobType DEF Threads
<1>2. j.size = Len(img) /\ j.at = at /\ j.bytes = <<img[at]>>
  BY DEF NoJob
<1>3. Goto("main", "chunkAmbiguous", j) \/ Quarantine("main", j, "chunkAmbiguous")
  BY DEF TakeChunk, ObserveThen
<1> HIDE DEF j
<1>4. job'["main"].size = j.size /\ job'["main"].at = j.at /\ job'["main"].bytes = j.bytes
  BY <1>1, <1>3, GotoEffect, QuarantineEffect, QuarantineSize
<1> QED
  BY <1>2, <1>4

LEMMA ChunkOfImageNext ==
  ASSUME TypeOK, ChunkOfImage, ScanIdle, ScanIdle', [Next]_vars
  PROVE  ChunkOfImage'
<1> SUFFICES ASSUME HoldsChunk', NEW n, n = job'["main"].size, NEW p, p = job'["main"].at,
                    NEW x, x = job'["main"].bytes[1]
             PROVE  PartOf(n, p, x)
  BY DEF ChunkOfImage, PartOf
<1>1. CASE HoldsChunk /\ job'["main"].size = job["main"].size
           /\ job'["main"].at = job["main"].at /\ job'["main"].bytes = job["main"].bytes
  BY <1>1 DEF ChunkOfImage
<1>2. ASSUME NEW k \in Keys, NEW img \in Images, NEW at \in 1..Len(img), TakeChunk(k, img, at)
      PROVE  PartOf(n, p, x)
  <2>1. n = Len(img) /\ p = at /\ x = img[at]
    BY <1>2, ChunkTaken
  <2> QED
    BY <2>1 DEF PartOf
<1> QED
  BY <1>1, <1>2, HoldsChunkFrom

(* Every part received is one of a DEX as long as its entry. *)
LEMMA PartsReceived ==
  ASSUME TypeInv, CollectorInv, ScanIdle, KeyInHand, ChunkOfImage, EntriesOfImages, ChunkPending
  PROVE  LET r == Received(Entry(job["main"]), job["main"])
         IN \A p \in DOMAIN r.got : PartOf(r.total, p, r.got[p])
<1> DEFINE j == job["main"]
           e == Entry(j)
           r == Received(e, j)
<1> USE DEF TypeInv
<1>1. pc["main"] = "chunkPending" /\ j.key \in Keys /\ HoldsChunk
  BY DEF TypeOK, Threads, Job, ChunkPending, At, HoldsChunk
<1>2. ~Doubted(j.key)
  BY <1>1 DEF Doubted, KeyInHand, ScanIdle, Threads
<1>3. Observed(j.key, j.size)
  BY <1>1 DEF CollectorInv, SizesObserved, Sized, Threads
<1>4. e.total = j.size
  BY <1>1, <1>2, <1>3 DEF CollectorInv, EntriesObserved, Entry, Observed
<1>5. \A p \in DOMAIN e.got : PartOf(e.total, p, e.got[p])
  BY <1>1 DEF Entry, EntriesOfImages
<1>6. PartOf(e.total, j.at, j.bytes[1])
  BY <1>1, <1>4 DEF ChunkOfImage
<1>7. r.total = e.total
  BY DEF Received
<1>8. ASSUME NEW p \in DOMAIN r.got
      PROVE  \/ p = j.at /\ r.got[p] = j.bytes[1]
             \/ p \in DOMAIN e.got /\ r.got[p] = e.got[p]
  <2>1. IsPending(e)
    BY <1>1, PendingType DEF ChunkInHand, TypeOK, Threads
  <2>2. CASE j.at > e.total
    BY <1>8, <2>2 DEF Received
  <2>3. CASE ~(j.at > e.total)
    <3> DEFINE got == [q \in DOMAIN e.got \cup {j.at} |-> IF q = j.at THEN j.bytes[1] ELSE e.got[q]]
    <3>1. r.got = got
      BY <2>1, <2>3 DEF Received, IsPending
    <3>2. p \in DOMAIN e.got \cup {j.at}
      BY <1>8, <3>1
    <3> QED
      BY <3>1, <3>2
  <2> QED
    BY <2>2, <2>3
<1> HIDE DEF e, r
<1> QED
  BY <1>5, <1>6, <1>7, <1>8 DEF r, e

LEMMA EntriesOfImagesNext ==
  ASSUME TypeInv, CollectorInv, ScanIdle, KeyInHand, ChunkOfImage, EntriesOfImages, [Next]_vars
  PROVE  EntriesOfImages'
<1> DEFINE r == Received(Entry(job["main"]), job["main"])
<1>1. \A p \in DOMAIN NoPending.got : FALSE
  BY DEF NoPending
<1>2. CASE ChunkPending
  <2>1. \A k \in Keys : pending'[k] \in {pending[k], NoPending, r}
    BY <1>2, ChunkPends DEF CollectorInv
  <2>2. \A p \in DOMAIN r.got : PartOf(r.total, p, r.got[p])
    BY <1>2, PartsReceived
  <2> HIDE DEF r
  <2> QED
    BY <1>1, <2>1, <2>2 DEF EntriesOfImages, PartOf
<1>3. CASE ~ChunkPending
  <2>1. \A k \in Keys : pending'[k] \in {pending[k], NoPending}
    BY <1>3, WhoChanges DEF TypeInv, TypeOK
  <2> QED
    BY <1>1, <2>1 DEF EntriesOfImages, PartOf
<1> QED
  BY <1>2, <1>3

(* The locals handle_read_failure starts with. *)
LEMMA FailureTaken ==
  ASSUME TypeOK, NEW k \in Keys, NEW img \in Images, TakeFailure(k, img)
  PROVE  job'["main"].at = 0
<1> DEFINE j == [NoJob EXCEPT !.key = k, !.size = Len(img)]
<1>1. "main" \in Threads /\ j \in Job
  BY ImageType, JobType DEF Threads
<1>2. j.at = 0
  BY DEF NoJob
<1>3. Goto("main", "failCached", j) \/ Quarantine("main", j, "failCached")
  BY DEF TakeFailure, ObserveThen
<1> HIDE DEF j
<1> QED
  BY <1>1, <1>2, <1>3, GotoEffect, QuarantineSize

(* A record other than a failure leads elsewhere. *)
LEMMA FailureFromTake ==
  ASSUME TypeOK, HoldsFailure', TakeStep
  PROVE  job'["main"].at = 0
<1> DEFINE q == pc'["main"]
           i == job'["main"]
<1>1. "main" \in Threads
  BY DEF Threads
<1> PICK k \in Keys, img \in Images :
      \/ TakeDexEvent(k, img)
      \/ \E at \in 1..Len(img) : TakeChunk(k, img, at)
      \/ \E idx \in Methods, code \in {<<>>, <<Junk>>} : TakeMethod(k, img, idx, code)
      \/ TakeFailure(k, img)
      \/ TakeScanned(k, img)
  BY DEF TakeStep
<1>2. ASSUME NEW j \in Job, NEW next \in {"idle", "methodAmbiguous", "chunkAmbiguous"},
             ObserveThen("main", j, next)
      PROVE  FALSE
  <2>1. Goto("main", next, j) \/ Quarantine("main", j, next)
    BY <1>2 DEF ObserveThen
  <2>2. q = next \/ (q = "mark" /\ i.ret = next)
    BY <1>1, <2>1, GotoEffect, QuarantineEffect
  <2> QED
    BY <2>2 DEF HoldsFailure, Quarantining
<1>3. img \in Body /\ Len(img) \in Nat /\ <<>> \in Body /\ <<Junk>> \in Body
  BY ImageType, ImagesAssumption DEF Body
<1>4. ~TakeDexEvent(k, img)
  BY <1>2, <1>3, JobType DEF TakeDexEvent
<1>5. ASSUME NEW idx \in Methods, NEW code \in {<<>>, <<Junk>>}, TakeMethod(k, img, idx, code)
      PROVE  FALSE
  <2>1. [NoJob EXCEPT !.key = k, !.size = Len(img), !.at = idx, !.bytes = code] \in Job
    BY <1>3, JobType, BoundsAssumption
  <2> QED
    BY <1>2, <1>5, <2>1 DEF TakeMethod
<1>6. ASSUME NEW at \in 1..Len(img), TakeChunk(k, img, at)
      PROVE  FALSE
  <2>1. <<img[at]>> \in Body /\ at \in Nat
    BY <1>3, ImageType
  <2>2. [NoJob EXCEPT !.key = k, !.size = Len(img), !.at = at, !.bytes = <<img[at]>>] \in Job
    BY <1>3, <2>1, JobType
  <2> QED
    BY <1>2, <1>6, <2>2 DEF TakeChunk
<1>7. ~TakeScanned(k, img)
  <2>1. ASSUME TakeScanned(k, img)
        PROVE  \E b \in ScannedJob : Goto("main", "saveEnter", b)
    BY <2>1, ScannedBodyType DEF TakeScanned, Later
  <2> QED
    BY <1>1, <2>1, GotoEffect DEF HoldsFailure, Quarantining
<1> QED
  BY <1>4, <1>5, <1>6, <1>7, FailureTaken

LEMMA NoPartInHandNext ==
  ASSUME TypeOK, NoPartInHand, ScanIdle, ScanIdle', [Next]_vars
  PROVE  NoPartInHand'
<1> DEFINE p == pc["main"]
           q == pc'["main"]
           j == job["main"]
           i == job'["main"]
<1> SUFFICES ASSUME HoldsFailure' PROVE i.at = 0
  BY DEF NoPartInHand
<1>1. "main" \in Threads /\ j \in Job /\ j.ret \in Returns
  BY DEF TypeOK, Threads, Job
<1>2. \/ q \in {"failCached", "failAmbiguous", "failRead", "failForget"}
      \/ q \in Quarantining /\ i.ret = "failCached"
  BY DEF HoldsFailure
<1>3. CASE QuarantineStep("main")
  <2>1. q # "idle" /\ p \in Quarantining /\ i = j
    BY <1>1, <1>2, <1>3, QuarantineEffects DEF Quarantining
  <2>2. j.ret = "failCached"
    BY <1>1, <1>2, <1>3, <2>1, QuarantineEffects DEF Returns, Quarantining
  <2> QED
    BY <2>1, <2>2 DEF HoldsFailure, NoPartInHand
<1>4. ~SaveStep("main")
  BY <1>1, <1>2, SaveEffect DEF SaveSection, Quarantining
<1>5. CASE HandlerStep
  <2>1. i.at = j.at /\ p \in {"failCached", "failAmbiguous", "failRead"}
    BY <1>2, <1>5, HandlerEdge DEF Quarantining
  <2> QED
    BY <2>1 DEF HoldsFailure, NoPartInHand
<1>6. CASE TakeStep
  BY <1>6, FailureFromTake
<1>7. CASE UNCHANGED <<pc, job>>
  BY <1>2, <1>7 DEF HoldsFailure, NoPartInHand
<1> QED
  BY <1>3, <1>4, <1>5, <1>6, <1>7, AloneMoves

(* Complete(r): what the buffer holds is all of r's parts, no zero fill. *)
LEMMA BufferWhole ==
  ASSUME NEW r, r.total \in Nat \ {0}, Complete(r),
         \A p \in DOMAIN r.got : PartOf(r.total, p, r.got[p])
  PROVE  LET b == Buffer(r)
         IN /\ b[1] \in Headers /\ Len(b) = HeaderSize[b[1]]
            /\ \A p \in 1..Len(b) : b[p] # Zero
<1> DEFINE b == Buffer(r)
<1>1. Len(b) = r.total
  BY DEF Buffer
<1>2. \A p \in 1..r.total : p \in DOMAIN r.got /\ b[p] = r.got[p]
  BY DEF Buffer, Complete
<1> HIDE DEF b
<1>3. \A p \in 1..r.total : PartOf(r.total, p, b[p])
  BY <1>2
<1>4. PartOf(r.total, 1, b[1])
  BY <1>3
<1>5. PICK img \in Images : Len(img) = r.total /\ img[1] = b[1]
  BY <1>4 DEF PartOf
<1>6. b[1] \in Headers /\ Len(b) = HeaderSize[b[1]]
  BY <1>1, <1>5, ImagesAssumption
<1>7. \A p \in 1..Len(b) : b[p] # Zero
  BY <1>1, <1>3, MarkersAssumption DEF PartOf
<1> QED
  BY <1>6, <1>7 DEF b

LEMMA ChunkAssembles ==
  ASSUME TypeInv, CollectorInv, ScanIdle, KeyInHand, ChunkOfImage, EntriesOfImages, ChunkPending,
         pc'["main"] = "saveEnter"
  PROVE  LET b == job'["main"].bytes
         IN /\ b[1] \in Headers /\ Len(b) = HeaderSize[b[1]]
            /\ \A p \in 1..Len(b) : b[p] # Zero
<1> DEFINE j == job["main"]
           e == Entry(j)
           r == Received(e, j)
<1> USE DEF TypeInv
<1>1. "main" \in Threads /\ j \in Job
  BY DEF TypeOK, Threads
<1>2. Complete(r) /\ Goto("main", "saveEnter", [j EXCEPT !.bytes = Buffer(r)])
  <2> HIDE DEF r
  <2> QED
    BY <1>1, GotoEffect, QuarantineEffect DEF ChunkPending, r
<1>3. job'["main"].bytes = Buffer(r)
  <2>1. job'["main"] = [j EXCEPT !.bytes = Buffer(r)]
    BY <1>1, <1>2, GotoEffect
  <2> QED
    BY <1>1, <2>1 DEF Job
<1>4. \A p \in DOMAIN r.got : PartOf(r.total, p, r.got[p])
  BY PartsReceived
<1>5. r.total \in Nat
  BY ChunkPends DEF CollectorInv, IsPending
<1>6. r.total # 0
  <2>1. HoldsChunk
    BY DEF ChunkPending, At, HoldsChunk
  <2>2. PartOf(j.size, j.at, j.bytes[1]) /\ j.size \in Nat
    BY <1>1, <2>1 DEF ChunkOfImage, Job
  <2>3. j.size # 0
    BY <2>2 DEF PartOf
  <2>4. r.total = e.total
    BY DEF Received
  <2>5. e.total = j.size \/ (pending[j.key] # NoPending /\ e.total = pending[j.key].total)
    BY DEF Entry
  <2>6. Observed(j.key, r.total) /\ ~Doubted(j.key)
    BY ChunkPends DEF CollectorInv, Doubted, KeyInHand, ScanIdle, Threads, ChunkPending, At
  <2> QED
    BY <2>6 DEF Observed
<1> HIDE DEF r
<1> QED
  BY <1>2, <1>3, <1>4, <1>5, <1>6, BufferWhole

LEMMA AssembledWholeNext ==
  ASSUME TypeInv, CollectorInv, AloneInv, ScanIdle', AssemblyInv, [Next]_vars
  PROVE  AssembledWhole'
<1> DEFINE p == pc["main"]
           q == pc'["main"]
           j == job["main"]
           i == job'["main"]
           Whole(b) == /\ b[1] \in Headers /\ Len(b) = HeaderSize[b[1]]
                       /\ \A n \in 1..Len(b) : b[n] # Zero
<1> USE DEF TypeInv
<1> SUFFICES ASSUME q = "saveEnter" \/ InSave("main")', i.at # 0
             PROVE  Whole(i.bytes)
  BY DEF AssembledWhole
<1>1. "main" \in Threads /\ j \in Job /\ j.ret \in Returns
  BY DEF TypeOK, Threads, Job
<1>2. ASSUME p = "saveEnter" \/ InSave("main"), i.at = j.at, i.bytes = j.bytes
      PROVE  Whole(i.bytes)
  BY <1>2 DEF AssemblyInv, AssembledWhole
<1> HIDE DEF Whole
<1>3. q # "idle" /\ (q \in Quarantining => i.ret \in {"saveCompare", "saveWrite"})
  BY DEF InSave, SaveSection, Quarantining
<1>4. CASE QuarantineStep("main")
  <2>1. p \in Quarantining /\ i = j
    BY <1>1, <1>3, <1>4, QuarantineEffects
  <2>2. j.ret \in {"saveCompare", "saveWrite"}
    BY <1>1, <1>3, <1>4, <2>1, QuarantineEffects DEF InSave, SaveSection, Quarantining, Returns
  <2>3. InSave("main")
    BY <2>1, <2>2 DEF InSave
  <2> QED
    BY <1>2, <2>1, <2>3
<1>5. CASE SaveStep("main")
  <2>1. i.at = j.at /\ i.bytes = j.bytes /\ p \in {"saveEnter"} \cup SaveSection
    BY <1>1, <1>3, <1>5, SaveEffect
  <2>2. p = "saveEnter" \/ InSave("main")
    BY <2>1 DEF InSave
  <2> QED
    BY <1>2, <2>1, <2>2
<1>6. ~TakeStep
  <2>1. ASSUME NEW k \in Job, NEW next \in {"idle", "chunkAmbiguous", "methodAmbiguous", "failCached"},
               ObserveThen("main", k, next)
        PROVE  FALSE
    <3>1. next \notin SaveSection \cup Quarantining /\ q \in {"mark", next}
      BY <1>1, <2>1, ObserveGoes DEF SaveSection, Quarantining
    <3> QED
      BY <1>1, <2>1, <3>1, ObserveOutside
  <2>2. ASSUME NEW k \in ScannedJob, Goto("main", "saveEnter", k)
        PROVE  FALSE
    BY <1>1, <2>2, GotoEffect DEF ScannedJob
  <2> QED
    BY <2>1, <2>2, TakeEffect
<1>7. CASE HandlerStep
  <2>1. q \notin SaveSection
    BY <1>7, HandlerLands DEF HandlerLabels, SaveSection
  <2>2. q # "mark"
    BY <1>3, <1>7, HandlerEdge DEF Quarantining
  <2>3. q = "saveEnter"
    BY <1>7, <2>2, HandlerLands DEF InSave, HandlerLabels, SaveSection, Quarantining
  <2>4. ChunkPending \/ (p = "failForget" /\ i.at = j.at)
    BY <1>7, <2>3, HandlerEdge
  <2>5. p # "failForget" \/ j.at = 0
    BY DEF AssemblyInv, NoPartInHand, HoldsFailure
  <2> QED
    BY <2>3, <2>4, <2>5, ChunkAssembles DEF AssemblyInv, AloneInv, Whole
<1>8. CASE UNCHANGED <<pc, job>>
  <2>1. p = "saveEnter" \/ InSave("main")
    BY <1>8 DEF InSave
  <2> QED
    BY <1>2, <1>8, <2>1
<1> QED
  BY <1>4, <1>5, <1>6, <1>7, <1>8, AloneMoves DEF AloneInv

LEMMA AssemblyInit == Init => AssemblyInv
BY DEF Init, AssemblyInv, ChunkOfImage, HoldsChunk, EntriesOfImages, NoPending, NoPartInHand,
       HoldsFailure, AssembledWhole, InSave, SaveSection, Quarantining, Threads

LEMMA AssemblyNext ==
  TypeInv /\ CollectorInv /\ AloneInv /\ AloneInv' /\ AssemblyInv /\ [Next]_vars => AssemblyInv'
<1> SUFFICES ASSUME TypeInv, CollectorInv, AloneInv, AloneInv', AssemblyInv, [Next]_vars
             PROVE  AssemblyInv'
  OBVIOUS
<1>1. TypeOK /\ ScanIdle /\ ScanIdle' /\ KeyInHand
  BY DEF TypeInv, AloneInv
<1>2. ChunkOfImage /\ EntriesOfImages /\ NoPartInHand
  BY DEF AssemblyInv
<1> QED
  BY <1>1, <1>2, ChunkOfImageNext, EntriesOfImagesNext, NoPartInHandNext, AssembledWholeNext
  DEF AssemblyInv

(* Without the maps scan, a body assembled from chunks reaches save_dex only *)
(* whole: all of its parts received from images as long as its header says,  *)
(* none of them the zero fill of the buffer, in whatever order they arrived. *)
THEOREM Assembled == ASSUME ~MapsScan PROVE Spec => []AssembledWhole
<1>1. AssemblyInv => AssembledWhole
  BY DEF AssemblyInv
<1> QED
  BY <1>1, AssemblyInit, AssemblyNext, TypeInvariance, CollectorInvariance, AloneInvariance, PTL
  DEF Spec
=============================================================================
