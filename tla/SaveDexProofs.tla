---------------------------- MODULE SaveDexProofs ----------------------------
(***************************************************************************)
(* The lock protocol around save_dex, for every number of keys, images and *)
(* events: SaveProtocol is inductive (given the types), and from it follow *)
(* that the seal is final and that a plainly named DEX is never rewritten. *)
(* A step of a thread is outside save_dex, inside it, or one of its ends.  *)
(***************************************************************************)
EXTENDS DumpStateProofs

(* What a step of t leaves alone. *)
OthersStay(t) == \A u \in Threads \ {t} : pc'[u] = pc[u] /\ job'[u] = job[u]

LEMMA CacheInSave == ASSUME NEW t, InCache(t) PROVE InSave(t)
BY DEF InCache, InSave, CacheSection, SaveSection

LEMMA NobodyIsNoThread == ASSUME NEW t \in Threads PROVE t # Nobody
BY DEF Threads, Nobody

LEMMA OtherStays ==
  ASSUME NEW t \in Threads, NEW u \in Threads \ {t}, OthersStay(t)
  PROVE  /\ InSave(u)' <=> InSave(u)
         /\ InCache(u)' <=> InCache(u)
BY DEF OthersStay, InSave, InCache

(* A step that neither starts nor ends in save_dex. *)
LEMMA OutsideStep ==
  ASSUME SaveProtocol, NEW t \in Threads, OthersStay(t), ~InSave(t), ~InSave(t)',
         UNCHANGED <<lockVars, dexCache, phase>>, ambiguous \subseteq ambiguous',
         t = "main" => ~sealed,
         t = "scan" => pc'["scan"] \in {"idle", "saveEnter"}
  PROVE  SaveProtocol'
<1> USE DEF SaveProtocol, lockVars
<1>1. ~InCache(t) /\ ~InCache(t)'
  BY CacheInSave DEF InCache, InSave, CacheSection, SaveSection
<1>2. LocksHeld'
  BY <1>1, OtherStays DEF LocksHeld
<1>3. SealedBetweenCaptures'
  <2>1. CASE t = "main"
    <3>1. "scan" \in Threads \ {t} /\ (InSave("scan")' <=> InSave("scan")) /\ pc'["scan"] = pc["scan"]
      BY <2>1, OtherStays DEF Threads, OthersStay
    <3> QED
      BY <2>1, <3>1 DEF SealedBetweenCaptures
  <2>2. CASE t = "scan"
    <3>1. pc'["main"] = pc["main"]
      BY <2>2 DEF Threads, OthersStay
    <3> QED
      BY <2>2, <3>1 DEF SealedBetweenCaptures
  <2> QED
    BY <2>1, <2>2 DEF Threads
<1>4. ComparedFirst'
  <2> SUFFICES ASSUME NEW u \in Threads
               PROVE  /\ InSave(u)' => job'[u].bytes # <<>>
                      /\ InCache(u)' /\ pc'[u] # "mark" /\ dexCache'[job'[u].key] # <<>>
                           => job'[u].key \in ambiguous'
    BY DEF ComparedFirst
  <2>1. CASE u = t
    BY <1>1, <2>1
  <2>2. CASE u # t
    BY <2>2, OtherStays DEF ComparedFirst, OthersStay
  <2> QED
    BY <2>1, <2>2
<1> QED
  BY <1>2, <1>3, <1>4

(* A step that starts and ends in save_dex with the same locks. *)
LEMMA InsideStep ==
  ASSUME SaveProtocol, NEW t \in Threads, OthersStay(t), InSave(t), InSave(t)',
         InCache(t)' <=> InCache(t),
         UNCHANGED <<lockVars, dexCache, phase>>, ambiguous \subseteq ambiguous',
         job'[t].bytes = job[t].bytes, job'[t].key = job[t].key,
         InCache(t) /\ pc'[t] # "mark" /\ dexCache[job[t].key] # <<>>
           => job[t].key \in ambiguous'
  PROVE  SaveProtocol'
<1> USE DEF SaveProtocol, lockVars
<1>1. LocksHeld'
  BY OtherStays DEF LocksHeld
<1>2. ~sealed /\ sealOwner = t
  BY NobodyIsNoThread DEF LocksHeld, SealedBetweenCaptures
<1>3. SealedBetweenCaptures'
  <2>1. CASE t = "main"
    <3>1. "scan" \in Threads \ {t} /\ (InSave("scan")' <=> InSave("scan")) /\ pc'["scan"] = pc["scan"]
      BY <2>1, OtherStays DEF Threads, OthersStay
    <3> QED
      BY <1>2, <3>1 DEF SealedBetweenCaptures
  <2>2. CASE t = "scan"
    BY <1>2, <2>2 DEF SealedBetweenCaptures
  <2> QED
    BY <2>1, <2>2 DEF Threads
<1>4. ComparedFirst'
  <2> SUFFICES ASSUME NEW u \in Threads
               PROVE  /\ InSave(u)' => job'[u].bytes # <<>>
                      /\ InCache(u)' /\ pc'[u] # "mark" /\ dexCache'[job'[u].key] # <<>>
                           => job'[u].key \in ambiguous'
    BY DEF ComparedFirst
  <2>1. CASE u = t
    BY <2>1 DEF ComparedFirst
  <2>2. CASE u # t
    BY <2>2, OtherStays DEF ComparedFirst, OthersStay
  <2> QED
    BY <2>1, <2>2
<1> QED
  BY <1>1, <1>3, <1>4

(* A step that leaves save_dex gives back what it held; it may insert a body. *)
LEMMA LeaveStep ==
  ASSUME SaveProtocol, NEW t \in Threads, OthersStay(t), InSave(t), pc'[t] = "idle",
         cacheOwner \in {t, Nobody}, sealOwner' = Nobody, cacheOwner' = Nobody,
         UNCHANGED <<sealed, phase, ambiguous>>
  PROVE  SaveProtocol'
<1> USE DEF SaveProtocol
<1>1. ~InSave(t)' /\ ~InCache(t)'
  BY DEF InSave, InCache, SaveSection, CacheSection, Quarantining
<1>2. ~sealed /\ sealOwner = t
  BY NobodyIsNoThread DEF LocksHeld, SealedBetweenCaptures
<1>3. \A u \in Threads \ {t} : ~InSave(u) /\ ~InCache(u) /\ ~InSave(u)' /\ ~InCache(u)'
  BY <1>2, OtherStays, NobodyIsNoThread DEF LocksHeld
<1>4. LocksHeld'
  BY <1>1, <1>3, NobodyIsNoThread DEF LocksHeld
<1>5. SealedBetweenCaptures'
  <2>1. CASE t = "main"
    <3>1. "scan" \in Threads \ {t} /\ pc'["scan"] = pc["scan"]
      BY <2>1 DEF Threads, OthersStay
    <3> QED
      BY <1>2, <1>3, <3>1 DEF SealedBetweenCaptures
  <2>2. CASE t = "scan"
    BY <1>2, <2>2 DEF SealedBetweenCaptures
  <2> QED
    BY <2>1, <2>2 DEF Threads
<1>6. ComparedFirst'
  BY <1>1, <1>3 DEF ComparedFirst
<1> QED
  BY <1>4, <1>5, <1>6
-----------------------------------------------------------------------------
(* Where a thread is after its step.                                         *)

LEMMA GotoEffect ==
  ASSUME TypeOK, NEW t \in Threads, NEW next, NEW j, Goto(t, next, j)
  PROVE  /\ OthersStay(t)
         /\ pc'[t] = next
         /\ next # "idle" => job'[t] = j
BY DEF TypeOK, Goto, OthersStay

LEMMA QuarantineEffect ==
  ASSUME TypeOK, NEW t \in Threads, NEW next, NEW j \in Job, Quarantine(t, j, next)
  PROVE  /\ OthersStay(t)
         /\ pc'[t] = "mark" /\ job'[t].ret = next
         /\ job'[t].bytes = j.bytes /\ job'[t].key = j.key
BY GotoEffect DEF Quarantine, Job

LEMMA GotoOutside ==
  ASSUME TypeOK, NEW t \in Threads, NEW next, NEW j, Goto(t, next, j),
         next \notin SaveSection \cup Quarantining
  PROVE  OthersStay(t) /\ ~InSave(t)' /\ pc'[t] = next
BY GotoEffect DEF InSave

LEMMA QuarantineOutside ==
  ASSUME TypeOK, NEW t \in Threads, NEW next, NEW j \in Job, Quarantine(t, j, next),
         next \notin {"saveCompare", "saveWrite"}
  PROVE  OthersStay(t) /\ ~InSave(t)'
BY QuarantineEffect DEF InSave, SaveSection

LEMMA ObserveOutside ==
  ASSUME TypeOK, NEW t \in Threads, NEW next, NEW j \in Job, ObserveThen(t, j, next),
         next \notin SaveSection \cup Quarantining
  PROVE  OthersStay(t) /\ ~InSave(t)'
<1>1. next \notin {"saveCompare", "saveWrite"}
  BY DEF SaveSection
<1> QED
  BY <1>1, GotoOutside, QuarantineOutside DEF ObserveThen

-----------------------------------------------------------------------------
(* Taking a record and handling it up to save_dex.                           *)
LEMMA TakeProtocol ==
  ASSUME TypeOK, SaveProtocol, TakeStep
  PROVE  SaveProtocol'
<1> PICK k \in Keys, img \in Images :
      \/ TakeDexEvent(k, img)
      \/ \E at \in 1..Len(img) : TakeChunk(k, img, at)
      \/ \E idx \in Methods, code \in {<<>>, <<Junk>>} : TakeMethod(k, img, idx, code)
      \/ TakeFailure(k, img)
      \/ TakeScanned(k, img)
  BY DEF TakeStep
<1>1. /\ img \in Body /\ Len(img) \in Nat /\ "main" \in Threads
      /\ <<>> \in Body /\ <<Junk>> \in Body
  BY ImageType, ImagesAssumption DEF Threads, Body
<1>2. PICK kind : Take(kind)
  BY DEF TakeDexEvent, TakeChunk, TakeMethod, TakeFailure, TakeScanned
<1>3. /\ ~sealed /\ ~InSave("main")
      /\ UNCHANGED <<lockVars, dexCache, phase, ambiguous>>
  BY <1>2
  DEF Take, At, SaveProtocol, SealedBetweenCaptures, InSave, SaveSection, Quarantining, runVars
<1>4. \A next \in {"idle", "chunkAmbiguous", "methodAmbiguous", "failCached", "saveEnter"} :
        next \notin SaveSection \cup Quarantining
  BY DEF SaveSection, Quarantining
<1>5. OthersStay("main") /\ ~InSave("main")'
  <2>1. [NoJob EXCEPT !.key = k, !.size = Len(img)] \in Job
    BY <1>1, JobType
  <2>2. CASE TakeDexEvent(k, img)
    BY <1>1, <1>4, <2>1, <2>2, ObserveOutside DEF TakeDexEvent
  <2>3. ASSUME NEW at \in 1..Len(img), TakeChunk(k, img, at)
        PROVE  OthersStay("main") /\ ~InSave("main")'
    <3>1. <<img[at]>> \in Body /\ at \in Nat
      BY <1>1, ImageType
    <3>2. [NoJob EXCEPT !.key = k, !.size = Len(img), !.at = at, !.bytes = <<img[at]>>] \in Job
      BY <1>1, <3>1, JobType
    <3> QED
      BY <1>1, <1>4, <2>3, <3>2, ObserveOutside DEF TakeChunk
  <2>4. ASSUME NEW idx \in Methods, NEW code \in {<<>>, <<Junk>>}, TakeMethod(k, img, idx, code)
        PROVE  OthersStay("main") /\ ~InSave("main")'
    <3>1. [NoJob EXCEPT !.key = k, !.size = Len(img), !.at = idx, !.bytes = code] \in Job
      BY <1>1, JobType, BoundsAssumption
    <3> QED
      BY <1>1, <1>4, <2>4, <3>1, ObserveOutside DEF TakeMethod
  <2>5. CASE TakeFailure(k, img)
    BY <1>1, <1>4, <2>1, <2>5, ObserveOutside DEF TakeFailure
  <2>6. CASE TakeScanned(k, img)
    <3>1. PICK j \in ScannedJob : Goto("main", "saveEnter", j)
      BY <2>6, ScannedBodyType DEF TakeScanned, Later
    <3> QED
      BY <1>1, <1>4, <3>1, GotoOutside
  <2> QED
    BY <2>2, <2>3, <2>4, <2>5, <2>6
<1> QED
  BY <1>1, <1>3, <1>5, OutsideStep

LEMMA HandlerProtocol ==
  ASSUME TypeOK, SaveProtocol, HandlerStep
  PROVE  SaveProtocol'
<1> DEFINE j == job["main"]
<1>1. "main" \in Threads /\ j \in Job
  BY DEF TypeOK, Threads
<1> DEFINE HandlerLabels == {"chunkAmbiguous", "chunkCached", "chunkPending",
             "methodAmbiguous", "methodSig", "methodResolve", "methodRemember", "methodPush",
             "failCached", "failAmbiguous", "failRead", "failForget"}
           Nexts == HandlerLabels \cup {"idle", "saveEnter"}
<1>2. /\ pc["main"] \in HandlerLabels
      /\ UNCHANGED <<lockVars, dexCache, phase, ambiguous>>
      /\ \/ \E next \in Nexts : \E k : Goto("main", next, k)
         \/ Quarantine("main", j, "idle")
  <2>1. CASE ChunkAmbiguous \/ ChunkCached
    BY <2>1 DEF ChunkAmbiguous, ChunkCached, At, storeVars, runVars
  <2>2. CASE ChunkPending
    BY <2>2 DEF ChunkPending, At, runVars
  <2>3. CASE MethodAmbiguous \/ MethodSig \/ MethodResolve
    BY <2>3 DEF MethodAmbiguous, MethodSig, MethodResolve, AfterName, At, storeVars, runVars
  <2>4. CASE MethodRemember \/ MethodPush
    BY <2>4 DEF MethodRemember, MethodPush, AfterName, At, runVars
  <2>5. CASE FailCached \/ FailAmbiguous
    BY <2>5 DEF FailCached, FailAmbiguous, At, storeVars, runVars
  <2>6. CASE FailForget
    BY <2>6 DEF FailForget, At, runVars
  <2>7. CASE \E img \in Images, ok \in SUBSET (1..MaxDexSize) : FailRead(img, ok)
    BY <2>7 DEF FailRead, At, storeVars, runVars
  <2> QED
    BY <2>1, <2>2, <2>3, <2>4, <2>5, <2>6, <2>7 DEF HandlerStep
<1>3. ~sealed /\ ~InSave("main")
  BY <1>2 DEF SaveProtocol, SealedBetweenCaptures, InSave, SaveSection, Quarantining
<1>4. \A next \in Nexts : next \notin SaveSection \cup Quarantining
  BY DEF SaveSection, Quarantining
<1>5. OthersStay("main") /\ ~InSave("main")'
  BY <1>1, <1>2, <1>4, GotoOutside, QuarantineOutside
<1> QED
  BY <1>1, <1>2, <1>3, <1>5, OutsideStep
(* quarantine_dex, whether its caller is save_dex or an event handler.       *)
LEMMA QuarantineProtocol ==
  ASSUME TypeOK, SaveProtocol, NEW t \in Threads, QuarantineStep(t)
  PROVE  SaveProtocol'
<1> DEFINE j == job[t]
<1>1. j \in Job /\ j.ret \in Returns
  BY DEF TypeOK, Job
<1>2. PICK next \in {"dropPending", "dropRecords", "dropNames", j.ret} : Goto(t, next, j)
  BY DEF QuarantineStep, Mark, DropPending, DropRecords, DropNames
<1>3. /\ pc[t] \in Quarantining
      /\ UNCHANGED <<lockVars, dexCache, phase>> /\ ambiguous \subseteq ambiguous'
      /\ pc[t] = "mark" => j.key \in ambiguous'
  BY DEF QuarantineStep, Mark, DropPending, DropRecords, DropNames, At, Quarantining,
         lockVars, runVars
<1>4. next # "mark"
  BY <1>1 DEF Returns
<1>5. CASE j.ret \in {"saveCompare", "saveWrite"}
  <2>1. OthersStay(t) /\ pc'[t] = next /\ job'[t] = j
    BY <1>2, <1>5, GotoEffect
  <2>2. InSave(t) /\ InSave(t)' /\ (InCache(t)' <=> InCache(t))
    BY <1>3, <1>5, <2>1 DEF InSave, InCache, SaveSection, CacheSection, Quarantining
  <2>3. InCache(t) /\ dexCache[j.key] # <<>> => j.key \in ambiguous'
    BY <1>3 DEF SaveProtocol, ComparedFirst
  <2> QED
    BY <1>3, <2>1, <2>2, <2>3, InsideStep
<1>6. CASE j.ret \notin {"saveCompare", "saveWrite"}
  <2>1. ~InSave(t)
    BY <1>3, <1>6 DEF InSave, SaveSection, Quarantining
  <2>2. t = "main" /\ ~sealed
    BY <1>3, <2>1 DEF SaveProtocol, SealedBetweenCaptures, Quarantining, Threads
  <2>3. OthersStay(t) /\ pc'[t] = next /\ (next # "idle" => job'[t] = j)
    BY <1>2, GotoEffect
  <2>4. ~InSave(t)'
    BY <1>1, <1>6, <2>3 DEF InSave, SaveSection, Quarantining, Returns
  <2> QED
    BY <1>3, <2>1, <2>2, <2>3, <2>4, OutsideStep
<1> QED
  BY <1>5, <1>6

-----------------------------------------------------------------------------
(* save_dex                                                                  *)

(* The mutex is taken: by t, from nobody, and with a body that parses.       *)
LEMMA EnterProtocol ==
  ASSUME TypeOK, SaveProtocol, NEW t \in Threads, SaveEnter(t) \/ SaveSkip(t)
  PROVE  SaveProtocol'
<1>1. /\ pc[t] = "saveEnter" /\ ~InSave(t) /\ ~InCache(t) /\ sealOwner = Nobody
      /\ UNCHANGED <<sealed, cacheOwner, dexCache, phase, ambiguous>>
  BY DEF SaveEnter, SaveSkip, At, InSave, InCache, SaveSection, CacheSection, Quarantining,
         storeVars, lockVars, runVars
<1>2. CASE Goto(t, "idle", job[t]) /\ UNCHANGED sealOwner
  <2>1. OthersStay(t) /\ ~InSave(t)' /\ pc'[t] = "idle"
    BY <1>2, GotoOutside DEF SaveSection, Quarantining
  <2>2. t = "main" => ~sealed
    BY <1>1 DEF SaveProtocol, SealedBetweenCaptures
  <2> QED
    BY <1>1, <1>2, <2>1, <2>2, OutsideStep DEF lockVars
<1>3. CASE /\ Goto(t, "saveObserve", job[t]) /\ sealOwner' = t
           /\ ~sealed /\ Parses(job[t].bytes)
  <2>1. OthersStay(t) /\ pc'[t] = "saveObserve" /\ job'[t] = job[t]
    BY <1>3, GotoEffect
  <2>2. InSave(t)' /\ ~InCache(t)'
    BY <2>1 DEF InSave, InCache, SaveSection, CacheSection, Quarantining
  <2>3. \A u \in Threads \ {t} : ~InSave(u) /\ ~InSave(u)' /\ (InCache(u)' <=> InCache(u))
    BY <1>1, <2>1, OtherStays, NobodyIsNoThread DEF SaveProtocol, LocksHeld
  <2>4. LocksHeld'
    BY <1>1, <1>3, <2>2, <2>3 DEF SaveProtocol, LocksHeld
  <2>5. SealedBetweenCaptures'
    <3>1. pc'["scan"] = pc["scan"] \/ t = "scan"
      BY <2>1 DEF OthersStay, Threads
    <3>2. t # "scan" => ~InSave("scan")
      BY <2>3 DEF Threads
    <3> QED
      BY <1>1, <1>3, <2>2, <3>1, <3>2 DEF SaveProtocol, SealedBetweenCaptures
  <2>6. ComparedFirst'
    <3>1. job[t].bytes # <<>>
      BY <1>3 DEF Parses
    <3>2. \A u \in Threads \ {t} : ~InCache(u) /\ ~InCache(u)'
      BY <2>3, CacheInSave
    <3> QED
      BY <2>1, <2>2, <2>3, <3>1, <3>2 DEF ComparedFirst
  <2> QED
    BY <2>4, <2>5, <2>6 DEF SaveProtocol
<1> QED
  BY <1>2, <1>3 DEF SaveEnter, SaveSkip, lockVars

LEMMA ObserveProtocol ==
  ASSUME TypeOK, SaveProtocol, NEW t \in Threads, SaveObserve(t)
  PROVE  SaveProtocol'
<1>1. job[t] \in Job
  BY DEF TypeOK
<1>2. /\ pc[t] = "saveObserve" /\ InSave(t) /\ ~InCache(t)
      /\ UNCHANGED <<lockVars, dexCache, phase, ambiguous>>
  BY DEF SaveObserve, At, InSave, InCache, SaveSection, CacheSection, Quarantining, runVars
<1>3. Quarantine(t, job[t], "saveCompare") \/ Goto(t, "saveCompare", job[t])
  BY DEF SaveObserve, ObserveThen
<1>4. /\ OthersStay(t) /\ InSave(t)' /\ ~InCache(t)'
      /\ job'[t].bytes = job[t].bytes /\ job'[t].key = job[t].key
  BY <1>1, <1>3, QuarantineEffect, GotoEffect
  DEF InSave, InCache, SaveSection, CacheSection, Quarantining
<1> QED
  BY <1>2, <1>4, InsideStep

LEMMA CompareProtocol ==
  ASSUME TypeOK, SaveProtocol, NEW t \in Threads, SaveCompare(t)
  PROVE  SaveProtocol'
<1> DEFINE j == job[t]
<1>1. j \in Job
  BY DEF TypeOK
<1>2. /\ InSave(t) /\ ~InCache(t) /\ cacheOwner = Nobody /\ sealOwner = t
      /\ UNCHANGED <<sealed, dexCache, phase, ambiguous>>
  BY DEF SaveCompare, At, InSave, InCache, SaveSection, CacheSection, Quarantining,
         SaveProtocol, LocksHeld, storeVars, runVars
<1>3. CASE dexCache[j.key] = j.bytes
  <2>1. OthersStay(t) /\ pc'[t] = "idle" /\ sealOwner' = Nobody /\ cacheOwner' = Nobody
    BY <1>2, <1>3, GotoEffect DEF SaveCompare
  <2> QED
    BY <1>2, <2>1, LeaveStep
<1>4. CASE dexCache[j.key] # j.bytes
  <2>1. /\ sealOwner' = t /\ cacheOwner' = t
        /\ \/ dexCache[j.key] = <<>> /\ Goto(t, "saveWrite", j)
           \/ Quarantine(t, j, "saveWrite")
    BY <1>2, <1>4 DEF SaveCompare
  <2>2. /\ OthersStay(t) /\ InSave(t)' /\ InCache(t)'
        /\ job'[t].bytes = j.bytes /\ job'[t].key = j.key
        /\ pc'[t] # "mark" => dexCache[j.key] = <<>>
    BY <1>1, <2>1, QuarantineEffect, GotoEffect
    DEF InSave, InCache, SaveSection, CacheSection, Quarantining
  <2>3. \A u \in Threads \ {t} : ~InSave(u)' /\ ~InCache(u)' /\ ~InSave(u)
    BY <1>2, <2>2, OtherStays, CacheInSave DEF SaveProtocol, LocksHeld
  <2>4. LocksHeld'
    BY <2>1, <2>2, <2>3 DEF LocksHeld
  <2>5. SealedBetweenCaptures'
    <3>1. pc'["scan"] = pc["scan"] \/ t = "scan"
      BY <2>2 DEF OthersStay, Threads
    <3>2. t # "scan" => ~InSave("scan")
      BY <2>3 DEF Threads
    <3>3. ~sealed
      BY <1>2, NobodyIsNoThread DEF SaveProtocol, SealedBetweenCaptures
    <3> QED
      BY <1>2, <2>2, <3>1, <3>2, <3>3 DEF SaveProtocol, SealedBetweenCaptures
  <2>6. ComparedFirst'
    BY <1>2, <2>2, <2>3 DEF SaveProtocol, ComparedFirst
  <2> QED
    BY <2>4, <2>5, <2>6 DEF SaveProtocol
<1> QED
  BY <1>3, <1>4

(* From the write of the file to the insertion of the body.                  *)
LEMMA WriteProtocol ==
  ASSUME TypeOK, SaveProtocol, NEW t \in Threads,
         \/ SaveWrite(t) \/ \E n \in 0..MaxDexSize : SaveWriteFails(t, n)
         \/ SaveForgetPending(t) \/ SaveForgetNames(t) \/ SaveInsert(t)
  PROVE  SaveProtocol'
<1>1. InSave(t) /\ InCache(t) /\ cacheOwner = t /\ pc[t] # "mark"
  BY DEF SaveWrite, SaveWriteFails, SaveForgetPending, SaveForgetNames, SaveInsert, At,
         InSave, InCache, SaveSection, CacheSection, SaveProtocol, LocksHeld
<1>2. CASE SaveWrite(t) \/ SaveForgetPending(t) \/ SaveForgetNames(t)
  <2>1. PICK next \in CacheSection : Goto(t, next, job[t])
    BY <1>2 DEF SaveWrite, SaveForgetPending, SaveForgetNames, CacheSection
  <2>2. UNCHANGED <<lockVars, dexCache, phase, ambiguous>>
    BY <1>2 DEF SaveWrite, SaveForgetPending, SaveForgetNames, storeVars, runVars
  <2>3. OthersStay(t) /\ job'[t] = job[t] /\ InSave(t)' /\ InCache(t)'
    BY <2>1, GotoEffect DEF InSave, InCache, SaveSection, CacheSection
  <2>4. dexCache[job[t].key] # <<>> => job[t].key \in ambiguous
    BY <1>1 DEF SaveProtocol, ComparedFirst
  <2> QED
    BY <1>1, <2>2, <2>3, <2>4, InsideStep
<1>3. CASE SaveInsert(t) \/ \E n \in 0..MaxDexSize : SaveWriteFails(t, n)
  <2>1. /\ Goto(t, "idle", job[t]) /\ sealOwner' = Nobody /\ cacheOwner' = Nobody
        /\ UNCHANGED <<sealed, phase, ambiguous>>
    BY <1>3 DEF SaveInsert, SaveWriteFails, storeVars, runVars
  <2>2. OthersStay(t) /\ pc'[t] = "idle"
    BY <2>1, GotoEffect
  <2> QED
    BY <1>1, <2>1, <2>2, LeaveStep
<1> QED
  BY <1>2, <1>3
LEMMA SaveStepProtocol ==
  ASSUME TypeOK, SaveProtocol, NEW t \in Threads, SaveStep(t)
  PROVE  SaveProtocol'
BY EnterProtocol, ObserveProtocol, CompareProtocol, WriteProtocol DEF SaveStep

-----------------------------------------------------------------------------
LEMMA ScanFoundProtocol ==
  ASSUME TypeOK, SaveProtocol, NEW k \in Keys, NEW head \in Images, ScanFound(k, head)
  PROVE  SaveProtocol'
<1>1. "scan" \in Threads
  BY DEF Threads
<1>2. ~InSave("scan") /\ UNCHANGED <<lockVars, dexCache, phase, ambiguous>>
  BY DEF ScanFound, At, InSave, SaveSection, Quarantining, storeVars, runVars
<1>3. PICK j : Goto("scan", "saveEnter", j)
  BY DEF ScanFound
<1>4. OthersStay("scan") /\ ~InSave("scan")' /\ pc'["scan"] = "saveEnter"
  BY <1>1, <1>3, GotoOutside DEF SaveSection, Quarantining
<1> QED
  BY <1>1, <1>2, <1>4, OutsideStep

(* A step that leaves both threads and the locks alone.                      *)
LEMMA StillProtocol ==
  ASSUME SaveProtocol, UNCHANGED <<pc, job, lockVars, dexCache, phase, ambiguous>>
  PROVE  SaveProtocol'
BY DEF SaveProtocol, LocksHeld, SealedBetweenCaptures, ComparedFirst, InSave, InCache, lockVars

LEMMA StopProtocol ==
  ASSUME TypeOK, SaveProtocol, StopStep
  PROVE  SaveProtocol'
<1> USE DEF SaveProtocol, LocksHeld, SealedBetweenCaptures, ComparedFirst, InSave, InCache
<1>1. CASE LeaveLoop
  BY <1>1 DEF LeaveLoop, storeVars, lockVars
<1>2. CASE Seal
  BY <1>2 DEF Seal, At, storeVars
<1>3. CASE \E written \in SUBSET Keys : FlushJson(written)
  BY <1>3 DEF FlushJson, lockVars
<1> QED
  BY <1>1, <1>2, <1>3 DEF StopStep

LEMMA SaveProtocolInit == Init => SaveProtocol
BY DEF Init, SaveProtocol, LocksHeld, SealedBetweenCaptures, ComparedFirst, InSave, InCache,
       SaveSection, CacheSection, Quarantining, Threads, Nobody

LEMMA SaveProtocolNext == TypeOK /\ SaveProtocol /\ [Next]_vars => SaveProtocol'
<1> SUFFICES ASSUME TypeOK, SaveProtocol, [Next]_vars
             PROVE  SaveProtocol'
  OBVIOUS
<1>1. "main" \in Threads /\ "scan" \in Threads
  BY DEF Threads
<1>2. CASE MainStep
  <2>1. CASE \E k \in Keys : ExpirePending(k)
    BY <2>1, StillProtocol DEF ExpirePending, runVars
  <2> QED
    BY <1>1, <1>2, <2>1, TakeProtocol, HandlerProtocol, QuarantineProtocol, SaveStepProtocol,
       StopProtocol DEF MainStep
<1>3. CASE ScanStep
  BY <1>1, <1>3, ScanFoundProtocol, QuarantineProtocol, SaveStepProtocol DEF ScanStep
<1>4. CASE Signal \/ UNCHANGED vars
  BY <1>4, StillProtocol DEF Signal, vars, storeVars, lockVars, runVars
<1> QED
  BY <1>2, <1>3, <1>4 DEF Next, Exited

(* The lock protocol of save_dex holds in every reachable state.             *)
THEOREM SaveProtocolHolds == Spec => []SaveProtocol
<1>1. TypeInv => TypeOK
  BY DEF TypeInv
<1> QED
  BY <1>1, SaveProtocolInit, SaveProtocolNext, TypeInvariance, PTL DEF Spec

-----------------------------------------------------------------------------
LEMMA SealedStep ==
  ASSUME SaveProtocol, sealed, [Next]_vars
  PROVE  UNCHANGED <<files, dexCache, ambiguous>>
<1>1. /\ pc["main"] = "idle" /\ pc["scan"] \in {"idle", "saveEnter"}
  BY NobodyIsNoThread DEF SaveProtocol, LocksHeld, SealedBetweenCaptures, Threads
<1>2. ASSUME NEW t \in Threads
      PROVE  ~QuarantineStep(t)
  BY <1>1 DEF QuarantineStep, Mark, DropPending, DropRecords, DropNames, At, Threads
<1>3. ASSUME NEW t \in Threads, SaveStep(t)
      PROVE  UNCHANGED <<files, dexCache, ambiguous>>
  <2>1. pc[t] \in {"idle", "saveEnter"}
    BY <1>1 DEF Threads
  <2>2. SaveEnter(t) \/ SaveSkip(t)
    BY <1>3, <2>1
    DEF SaveStep, SaveObserve, SaveCompare, SaveWrite, SaveWriteFails, SaveForgetPending,
        SaveForgetNames, SaveInsert, At
  <2> QED
    BY <2>2 DEF SaveEnter, SaveSkip, storeVars, diskVars
<1>4. CASE TakeStep
  BY <1>4
  DEF TakeStep, TakeDexEvent, TakeChunk, TakeMethod, TakeFailure, TakeScanned, Take, diskVars
<1>5. ~HandlerStep
  BY <1>1
  DEF HandlerStep, ChunkAmbiguous, ChunkCached, ChunkPending, MethodAmbiguous, MethodSig,
      MethodResolve, MethodRemember, MethodPush, FailCached, FailAmbiguous, FailForget,
      FailRead, At
<1>6. CASE (\E k \in Keys : ExpirePending(k)) \/ StopStep
  BY <1>6 DEF ExpirePending, StopStep, LeaveLoop, Seal, FlushJson, storeVars, diskVars
<1>7. CASE (\E k \in Keys, head \in Images : ScanFound(k, head)) \/ Signal \/ UNCHANGED vars
  BY <1>7 DEF ScanFound, Signal, vars, storeVars, diskVars
<1> QED
  BY <1>2, <1>3, <1>4, <1>5, <1>6, <1>7 DEF Next, MainStep, ScanStep, Exited, Threads

(* What flush_json and the repair read is final: after the seal no thread    *)
(* changes a DEX file, a saved body or the verdict on a key.                 *)
THEOREM SealFinal == Spec => SealIsFinal
<1>1. SaveProtocol /\ [Next]_vars => [sealed => UNCHANGED <<files, dexCache, ambiguous>>]_vars
  BY SealedStep
<1> QED
  BY <1>1, SaveProtocolHolds, PTL DEF Spec, SealIsFinal

-----------------------------------------------------------------------------
(* Only save_dex changes the directory's DEX files.                          *)
LEMMA WhoWrites ==
  ASSUME [Next]_vars, files' # files
  PROVE  \E t \in Threads : SaveWrite(t) \/ \E n \in 0..MaxDexSize : SaveWriteFails(t, n)
<1> USE DEF storeVars, lockVars, diskVars
<1>1. ASSUME NEW t \in Threads
      PROVE  ~QuarantineStep(t)
  BY DEF QuarantineStep, Mark, DropPending, DropRecords, DropNames
<1>2. ASSUME NEW t \in Threads, SaveStep(t)
      PROVE  SaveWrite(t) \/ \E n \in 0..MaxDexSize : SaveWriteFails(t, n)
  BY <1>2
  DEF SaveStep, SaveEnter, SaveSkip, SaveObserve, SaveCompare, SaveForgetPending,
      SaveForgetNames, SaveInsert
<1>3. ~TakeStep
  BY DEF TakeStep, TakeDexEvent, TakeChunk, TakeMethod, TakeFailure, TakeScanned, Take
<1>4. ~HandlerStep
  BY DEF HandlerStep, ChunkAmbiguous, ChunkCached, ChunkPending, MethodAmbiguous, MethodSig,
         MethodResolve, MethodRemember, MethodPush, FailCached, FailAmbiguous, FailForget,
         FailRead
<1>5. ~((\E k \in Keys : ExpirePending(k)) \/ StopStep)
  BY DEF ExpirePending, StopStep, LeaveLoop, Seal, FlushJson
<1>6. ~((\E k \in Keys, head \in Images : ScanFound(k, head)) \/ Signal \/ UNCHANGED vars)
  BY DEF ScanFound, Signal, vars
<1> QED
  BY <1>1, <1>2, <1>3, <1>4, <1>5, <1>6 DEF Next, MainStep, ScanStep, Exited, Threads

LEMMA PlainFilesStay ==
  ASSUME SaveProtocol, [Next]_vars,
         NEW f \in files, f.hash = <<>>, dexCache[f.key] # <<>>
  PROVE  f \in files'
<1>1. CASE files' = files
  BY <1>1
<1>2. CASE files' # files
  <2>1. PICK t \in Threads : SaveWrite(t) \/ \E n \in 0..MaxDexSize : SaveWriteFails(t, n)
    BY <1>2, WhoWrites
  <2>2. PICK b : WriteFile(FileName(job[t]), b)
    BY <1>2, <2>1 DEF SaveWrite, SaveWriteFails
  <2>3. InSave(t) /\ InCache(t) /\ pc[t] # "mark"
    BY <2>1 DEF SaveWrite, SaveWriteFails, At, InSave, InCache, SaveSection, CacheSection
  <2>4. job[t].bytes # <<>> /\ (dexCache[job[t].key] # <<>> => job[t].key \in ambiguous)
    BY <2>3 DEF SaveProtocol, ComparedFirst
  <2>5. ~SameName(f, FileName(job[t]))
    BY <2>4 DEF SameName, FileName
  <2> QED
    BY <2>2, <2>5 DEF WriteFile
<1> QED
  BY <1>1, <1>2

(* A key's first body is kept: its plainly named file is never rewritten or  *)
(* removed once the body is saved, by either thread or by a failing write.   *)
THEOREM PlainKept == Spec => PlainDexKept
<1>1. SaveProtocol /\ [Next]_vars
        => [\A f \in files : f.hash = <<>> /\ dexCache[f.key] # <<>> => f \in files']_vars
  BY PlainFilesStay
<1> QED
  BY <1>1, SaveProtocolHolds, PTL DEF Spec, PlainDexKept
=============================================================================
