------------------------------ MODULE DumpState ------------------------------
(***************************************************************************)
(* The user-space collector of src/dump.rs: DumpState, its event handlers  *)
(* on the main thread, the detached maps-scan thread, and the stop         *)
(* sequence of run().  A step is what the code does between two            *)
(* acquisitions of a lock another thread can hold: each RwLock'd map is    *)
(* read or written in one step, except dex_cache and captures_sealed,      *)
(* which save_dex keeps across several.                                    *)
(*                                                                         *)
(* A DEX body is a sequence of parts; the first part is the header and     *)
(* carries the magic and the file size.  The target process may remap an   *)
(* address at any time, so every event and every remote read may see any   *)
(* image; events may be lost, duplicated or reordered before they arrive.  *)
(***************************************************************************)
EXTENDS Naturals, Sequences, FiniteSets

CONSTANTS
  Keys,           \* (pid, begin) pairs
  Parts,          \* what one part of a body may hold
  Headers,        \* the parts that start a DEX
  HeaderSize,     \* HeaderSize[h] = the file size header h declares, in parts
  Images,         \* the DEX images an address may hold
  Scans,          \* bound: <<image of the header, image of the body>> a scan reads
  Zero,           \* a part that was never read: the buffer's zero fill
  Junk,           \* a mapped part behind the end of an image
  MaxDexSize,     \* MAX_DEX_FILE_SIZE, in parts
  Methods,        \* method indices
  Kinds,          \* the event kinds the probe mode delivers
  MapsScan,       \* FALSE under --no-maps-scan
  MaxEvents,      \* bound: ring records handled
  MaxScans,       \* bound: bodies the maps scan finds
  MaxWriteErrors  \* bound: failing fs::write calls

ASSUME KeysAssumption == Keys # {}

ASSUME ImagesAssumption ==
  /\ Headers \subseteq Parts
  /\ {Zero, Junk} \subseteq Parts \ Headers
  /\ HeaderSize \in [Headers -> Nat \ {0}]
  /\ \A img \in Images :
       /\ img \in Seq(Parts)
       /\ img # <<>> /\ img[1] \in Headers
       /\ Len(img) = HeaderSize[img[1]] /\ Len(img) <= MaxDexSize

(* Zero and Junk mark what a buffer holds that is of no image. *)
ASSUME MarkersAssumption ==
  \A img \in Images : \A p \in 1..Len(img) : img[p] \notin {Zero, Junk}

ASSUME BoundsAssumption ==
  /\ MaxDexSize \in Nat /\ Methods \subseteq Nat
  /\ MapsScan \in BOOLEAN
  /\ MaxEvents \in Nat /\ MaxScans \in Nat /\ MaxWriteErrors \in Nat

VARIABLES
  dexSizes,    \* dex_sizes: last size reported for a key, 0 = none
  ambiguous,   \* ambiguous_dex
  dexCache,    \* dex_cache: body saved last, <<>> = none
  pending,     \* pending_dex: body under assembly
  records,     \* method_records, as a set per key
  sigCache,    \* method_sig_cache: set of [key, idx, name]
  sealed,      \* *captures_sealed
  sealOwner,   \* the thread that holds the captures_sealed mutex
  cacheOwner,  \* the thread that holds the dex_cache write lock
  files,       \* the *.dex files of the output directory
  jsons,       \* the *_code.json files of the output directory
  stops,       \* shutdown state: 0 running, 1 stopping, 2 forced
  phase,       \* where run() is
  pc, job,     \* per thread: next step, and the locals it works on
  taken, scanned, errors  \* counters of the bounds

storeVars == <<dexSizes, ambiguous, dexCache, pending, records, sigCache>>
lockVars  == <<sealed, sealOwner, cacheOwner>>
diskVars  == <<files, jsons>>
runVars   == <<stops, phase>>
counters  == <<taken, scanned, errors>>
vars == <<storeVars, lockVars, diskVars, runVars, pc, job, counters>>

Threads == {"main", "scan"}
Nobody  == "nobody"

NoPending == [total |-> 0, got |-> <<>>]
NoJob == [key |-> CHOOSE k \in Keys : TRUE, size |-> 0, at |-> 0,
          bytes |-> <<>>, name |-> <<>>, ret |-> "idle"]

(* DexParser::new: long enough for a header, and the DEX magic. *)
Parses(b) == b # <<>> /\ b[1] \in Headers

(* The name of a method is resolved from a body with all of its tables (the *)
(* model value of the name is that body); else it stays "method_idx_N".     *)
Placeholder == <<>>
MethodName(b) == IF Parses(b) /\ Len(b) >= HeaderSize[b[1]] THEN b ELSE Placeholder

(* (DEX_HEADER_SIZE..=MAX_DEX_FILE_SIZE).contains(&size) *)
SizeOK(s) == s \in 1..MaxDexSize

-----------------------------------------------------------------------------
(* Control of a thread.                                                     *)

Goto(t, next, j) ==
  /\ pc' = [pc EXCEPT ![t] = next]
  /\ job' = [job EXCEPT ![t] = IF next = "idle" THEN NoJob ELSE j]

At(t, label) == pc[t] = label

(* quarantine_dex, then next. *)
Quarantine(t, j, next) == Goto(t, "mark", [j EXCEPT !.ret = next])

(* observe_dex: an impossible size, or one other than the last, quarantines. *)
Suspect(k, s) == ~SizeOK(s) \/ (dexSizes[k] # 0 /\ dexSizes[k] # s)

ObserveThen(t, j, next) ==
  /\ dexSizes' = IF SizeOK(j.size) THEN [dexSizes EXCEPT ![j.key] = j.size] ELSE dexSizes
  /\ IF Suspect(j.key, j.size) THEN Quarantine(t, j, next) ELSE Goto(t, next, j)

(* quarantine_dex takes and releases four locks one after the other. *)
Mark(t) ==
  /\ At(t, "mark")
  /\ ambiguous' = ambiguous \cup {job[t].key}
  /\ Goto(t, "dropPending", job[t])
  /\ UNCHANGED <<dexSizes, dexCache, pending, records, sigCache, lockVars, diskVars,
                 runVars, counters>>

DropPending(t) ==
  /\ At(t, "dropPending")
  /\ pending' = [pending EXCEPT ![job[t].key] = NoPending]
  /\ Goto(t, "dropRecords", job[t])
  /\ UNCHANGED <<dexSizes, ambiguous, dexCache, records, sigCache, lockVars, diskVars,
                 runVars, counters>>

DropRecords(t) ==
  /\ At(t, "dropRecords")
  /\ records' = [records EXCEPT ![job[t].key] = {}]
  /\ Goto(t, "dropNames", job[t])
  /\ UNCHANGED <<dexSizes, ambiguous, dexCache, pending, sigCache, lockVars, diskVars,
                 runVars, counters>>

DropNames(t) ==
  /\ At(t, "dropNames")
  /\ sigCache' = {e \in sigCache : e.key # job[t].key}
  /\ Goto(t, job[t].ret, job[t])
  /\ UNCHANGED <<dexSizes, ambiguous, dexCache, pending, records, lockVars, diskVars,
                 runVars, counters>>

QuarantineStep(t) == Mark(t) \/ DropPending(t) \/ DropRecords(t) \/ DropNames(t)

-----------------------------------------------------------------------------
(* Ring records, taken by the main thread in its loop and in the final drain. *)

Take(kind) ==
  /\ kind \in Kinds
  /\ phase \in {"loop", "final"} /\ At("main", "idle")
  /\ taken < MaxEvents
  /\ taken' = taken + 1
  /\ UNCHANGED <<ambiguous, dexCache, pending, records, sigCache, lockVars, diskVars,
                 runVars, scanned, errors>>

(* handle_dex_event *)
TakeDexEvent(k, img) ==
  /\ Take("dex")
  /\ ObserveThen("main", [NoJob EXCEPT !.key = k, !.size = Len(img)], "idle")

(* handle_dex_chunk: part at of an image. *)
TakeChunk(k, img, at) ==
  /\ Take("chunk")
  /\ ObserveThen("main", [NoJob EXCEPT !.key = k, !.size = Len(img), !.at = at,
                                       !.bytes = <<img[at]>>], "chunkAmbiguous")

(* handle_method_event: bytes stands for the bytecode, empty on a repeat. *)
TakeMethod(k, img, idx, code) ==
  /\ Take("method")
  /\ ObserveThen("main", [NoJob EXCEPT !.key = k, !.size = Len(img), !.at = idx,
                                       !.bytes = code], "methodAmbiguous")

(* handle_read_failure: dropped once a stop was requested. *)
TakeFailure(k, img) ==
  /\ Take("failure")
  /\ stops = 0
  /\ ObserveThen("main", [NoJob EXCEPT !.key = k, !.size = Len(img)], "failCached")

(* What the body read of a scan may meet after its header was head's. *)
Later(head) == {img \in Images : <<head, img>> \in Scans}

(* What a scan hands to save_dex: the first n parts of an address that holds  *)
(* img now, under the size of the header that was read before.                *)
ScannedBody(k, head, img, n) ==
  [NoJob EXCEPT !.key = k, !.size = Len(head),
                !.bytes = [p \in 1..n |-> IF p <= Len(img) THEN img[p] ELSE Junk]]

(* handle_layout_debug_event and handle_native_buffer_event, dropped once a   *)
(* stop was requested: read_remote_mem keeps what it got of a body when the   *)
(* read stops early.                                                          *)
TakeScanned(k, head) ==
  /\ Take("scanned")
  /\ stops = 0
  /\ \E img \in Later(head), n \in 1..Len(head) :
       Goto("main", "saveEnter", ScannedBody(k, head, img, n))
  /\ UNCHANGED dexSizes

(* The 30 s cleanup of the main loop. *)
ExpirePending(k) ==
  /\ phase = "loop" /\ At("main", "idle")
  /\ pending[k] # NoPending
  /\ pending' = [pending EXCEPT ![k] = NoPending]
  /\ UNCHANGED <<dexSizes, ambiguous, dexCache, records, sigCache, lockVars, diskVars,
                 runVars, pc, job, counters>>

-----------------------------------------------------------------------------
(* handle_dex_chunk after observe_dex                                       *)

ChunkAmbiguous ==
  /\ At("main", "chunkAmbiguous")
  /\ Goto("main", IF job["main"].key \in ambiguous THEN "idle" ELSE "chunkCached", job["main"])
  /\ UNCHANGED <<storeVars, lockVars, diskVars, runVars, counters>>

(* Mutant of ChunkCached: a late chunk is not compared with the saved body. *)
ChunkUncached ==
  /\ At("main", "chunkCached")
  /\ cacheOwner = Nobody
  /\ Goto("main", "chunkPending", job["main"])
  /\ UNCHANGED <<storeVars, lockVars, diskVars, runVars, counters>>

ChunkCached ==
  LET j == job["main"]
      c == dexCache[j.key]
      same == j.at <= Len(c) /\ c[j.at] = j.bytes[1]
  IN /\ At("main", "chunkCached")
     /\ cacheOwner = Nobody
     /\ IF c = <<>> THEN Goto("main", "chunkPending", j)
        ELSE IF same THEN Goto("main", "idle", j) ELSE Quarantine("main", j, "idle")
     /\ UNCHANGED <<storeVars, lockVars, diskVars, runVars, counters>>

(* The entry a chunk finds, or the one it creates from its own size. *)
Entry(j) == IF pending[j.key] = NoPending THEN [total |-> j.size, got |-> <<>>]
            ELSE pending[j.key]

(* The part is copied and recorded only when it fits the buffer. *)
Received(e, j) ==
  IF j.at > e.total THEN e
  ELSE [e EXCEPT !.got = [p \in DOMAIN e.got \cup {j.at} |->
                            IF p = j.at THEN j.bytes[1] ELSE e.got[p]]]

(* Mutant of Complete: the largest end received, instead of coverage. *)
CompleteByEnd(e) == e.total \in DOMAIN e.got

(* is_complete: one interval, from 0 to the total. *)
Complete(e) == 1..e.total \subseteq DOMAIN e.got

(* The receive buffer, allocated zeroed. *)
Buffer(e) == [p \in 1..e.total |-> IF p \in DOMAIN e.got THEN e.got[p] ELSE Zero]

ChunkPending ==
  LET j == job["main"]
      e == Entry(j)
      r == Received(e, j)
  IN /\ At("main", "chunkPending")
     /\ IF j.at \in DOMAIN e.got /\ e.got[j.at] # j.bytes[1]
        THEN Quarantine("main", j, "idle") /\ UNCHANGED pending
        ELSE IF Complete(r)
        THEN /\ pending' = [pending EXCEPT ![j.key] = NoPending]
             /\ Goto("main", "saveEnter", [j EXCEPT !.bytes = Buffer(r)])
        ELSE /\ pending' = [pending EXCEPT ![j.key] = r]
             /\ Goto("main", "idle", j)
     /\ UNCHANGED <<dexSizes, ambiguous, dexCache, records, sigCache, lockVars, diskVars,
                    runVars, counters>>

-----------------------------------------------------------------------------
(* handle_method_event after observe_dex                                    *)

MethodAmbiguous ==
  /\ At("main", "methodAmbiguous")
  /\ Goto("main", IF job["main"].key \in ambiguous THEN "idle" ELSE "methodSig", job["main"])
  /\ UNCHANGED <<storeVars, lockVars, diskVars, runVars, counters>>

AfterName(j) == IF j.bytes = <<>> THEN "idle" ELSE "methodPush"

MethodSig ==
  LET j == job["main"]
      hits == {e \in sigCache : e.key = j.key /\ e.idx = j.at}
  IN /\ At("main", "methodSig")
     /\ \/ hits = {} /\ Goto("main", "methodResolve", j)
        \/ \E e \in hits : Goto("main", AfterName(j), [j EXCEPT !.name = e.name])
     /\ UNCHANGED <<storeVars, lockVars, diskVars, runVars, counters>>

MethodResolve ==
  LET j == job["main"]
  IN /\ At("main", "methodResolve")
     /\ cacheOwner = Nobody
     /\ Goto("main", "methodRemember", [j EXCEPT !.name = MethodName(dexCache[j.key])])
     /\ UNCHANGED <<storeVars, lockVars, diskVars, runVars, counters>>

MethodRemember ==
  LET j == job["main"]
  IN /\ At("main", "methodRemember")
     /\ sigCache' = {e \in sigCache : e.key # j.key \/ e.idx # j.at}
                      \cup {[key |-> j.key, idx |-> j.at, name |-> j.name]}
     /\ Goto("main", AfterName(j), j)
     /\ UNCHANGED <<dexSizes, ambiguous, dexCache, pending, records, lockVars, diskVars,
                    runVars, counters>>

(* size is the size the event carried: history, the code does not keep it. *)
MethodPush ==
  LET j == job["main"]
  IN /\ At("main", "methodPush")
     /\ records' = [records EXCEPT ![j.key] =
                      @ \cup {[idx |-> j.at, name |-> j.name, size |-> j.size]}]
     /\ Goto("main", "idle", j)
     /\ UNCHANGED <<dexSizes, ambiguous, dexCache, pending, sigCache, lockVars, diskVars,
                    runVars, counters>>

-----------------------------------------------------------------------------
(* handle_read_failure after observe_dex                                    *)

FailCached ==
  /\ At("main", "failCached")
  /\ cacheOwner = Nobody
  /\ Goto("main", IF dexCache[job["main"].key] # <<>> THEN "idle" ELSE "failAmbiguous",
          job["main"])
  /\ UNCHANGED <<storeVars, lockVars, diskVars, runVars, counters>>

FailAmbiguous ==
  /\ At("main", "failAmbiguous")
  /\ Goto("main", IF job["main"].key \in ambiguous THEN "idle" ELSE "failRead", job["main"])
  /\ UNCHANGED <<storeVars, lockVars, diskVars, runVars, counters>>

(* read_remote_range over parts from..to of an address that holds img, of   *)
(* which only the parts in ok can be read: unread parts keep the zero fill. *)
Remote(img, from, to, ok) ==
  [p \in 1..(to + 1) - from |->
     LET q == from + p - 1
     IN IF q \notin ok THEN Zero ELSE IF q <= Len(img) THEN img[q] ELSE Junk]

(* The body the fallback keeps.  got counts the parts that were read, and   *)
(* the buffer is cut at that LENGTH; the header then shortens the body, or  *)
(* extends it when all the missing parts can be read.                       *)
Fallback(img, size, ok) ==
  LET got == Cardinality(ok \cap 1..size)
      buf == SubSeq(Remote(img, 1, size, ok), 1, got)
      claim == IF Parses(buf) THEN HeaderSize[buf[1]] ELSE 0
  IN IF ~SizeOK(claim) THEN buf
     ELSE IF claim <= got THEN SubSeq(buf, 1, claim)
     ELSE IF got + 1..claim \subseteq ok THEN buf \o Remote(img, got + 1, claim, ok)
     ELSE buf

FailRead(img, ok) ==
  LET j == job["main"]
      b == Fallback(img, j.size, ok)
  IN /\ At("main", "failRead")
     /\ IF ok \cap 1..j.size = {} THEN Goto("main", "idle", j)
        ELSE Goto("main", "failForget", [j EXCEPT !.bytes = b, !.size = Len(b)])
     /\ UNCHANGED <<storeVars, lockVars, diskVars, runVars, counters>>

FailForget ==
  /\ At("main", "failForget")
  /\ pending' = [pending EXCEPT ![job["main"].key] = NoPending]
  /\ Goto("main", "saveEnter", job["main"])
  /\ UNCHANGED <<dexSizes, ambiguous, dexCache, records, sigCache, lockVars, diskVars,
                 runVars, counters>>

-----------------------------------------------------------------------------
(* The maps-scan thread saves what a scan found, however long ago; it keeps *)
(* a body only when all of it was read.                                     *)

ScanFound(k, head) ==
  /\ MapsScan /\ At("scan", "idle")
  /\ scanned < MaxScans
  /\ scanned' = scanned + 1
  /\ \E img \in Later(head) :
       Goto("scan", "saveEnter", ScannedBody(k, head, img, Len(head)))
  /\ UNCHANGED <<storeVars, lockVars, diskVars, runVars, taken, errors>>

-----------------------------------------------------------------------------
(* save_dex: captures_sealed is held from SaveEnter to the return, and the  *)
(* dex_cache write lock from SaveCompare to the return.                     *)

SaveEnter(t) ==
  /\ At(t, "saveEnter")
  /\ sealOwner = Nobody
  /\ IF sealed \/ ~Parses(job[t].bytes)
     THEN Goto(t, "idle", job[t]) /\ UNCHANGED sealOwner
     ELSE Goto(t, "saveObserve", job[t]) /\ sealOwner' = t
  /\ UNCHANGED <<storeVars, sealed, cacheOwner, diskVars, runVars, counters>>

(* should_skip_system: the maps of the process may say so at any time. *)
SaveSkip(t) ==
  /\ At(t, "saveEnter")
  /\ sealOwner = Nobody
  /\ Goto(t, "idle", job[t])
  /\ UNCHANGED <<storeVars, lockVars, diskVars, runVars, counters>>

SaveObserve(t) ==
  /\ At(t, "saveObserve")
  /\ ObserveThen(t, job[t], "saveCompare")
  /\ UNCHANGED <<ambiguous, dexCache, pending, records, sigCache, lockVars, diskVars,
                 runVars, counters>>

SaveCompare(t) ==
  LET j == job[t]
      c == dexCache[j.key]
  IN /\ At(t, "saveCompare")
     /\ cacheOwner = Nobody
     /\ IF c = j.bytes
        THEN Goto(t, "idle", j) /\ sealOwner' = Nobody /\ UNCHANGED cacheOwner
        ELSE /\ cacheOwner' = t /\ UNCHANGED sealOwner
             /\ IF c = <<>> THEN Goto(t, "saveWrite", j) ELSE Quarantine(t, j, "saveWrite")
     /\ UNCHANGED <<storeVars, sealed, diskVars, runVars, counters>>

(* Mutant of FileName: the name never carries the hash. *)
PlainFileName(j) == [key |-> j.key, size |-> j.size, hash |-> <<>>]

(* The file name carries the content hash once the key is ambiguous. *)
FileName(j) == [key |-> j.key, size |-> j.size,
                hash |-> IF j.key \in ambiguous THEN j.bytes ELSE <<>>]

SameName(f, n) == f.key = n.key /\ f.size = n.size /\ f.hash = n.hash

WriteFile(n, b) ==
  files' = {f \in files : ~SameName(f, n)}
             \cup {[key |-> n.key, size |-> n.size, hash |-> n.hash, bytes |-> b]}

SaveWrite(t) ==
  /\ At(t, "saveWrite")
  /\ WriteFile(FileName(job[t]), job[t].bytes)
  /\ Goto(t, "saveForgetPending", job[t])
  /\ UNCHANGED <<storeVars, lockVars, jsons, runVars, counters>>

(* fs::write opens, truncates, then writes: an error leaves the disk as it   *)
(* was, or a strict prefix of the body.                                      *)
SaveWriteFails(t, n) ==
  /\ At(t, "saveWrite")
  /\ errors < MaxWriteErrors
  /\ errors' = errors + 1
  /\ n < Len(job[t].bytes)
  /\ \/ UNCHANGED files
     \/ WriteFile(FileName(job[t]), SubSeq(job[t].bytes, 1, n))
  /\ Goto(t, "idle", job[t])
  /\ sealOwner' = Nobody /\ cacheOwner' = Nobody
  /\ UNCHANGED <<storeVars, sealed, jsons, runVars, taken, scanned>>

SaveForgetPending(t) ==
  /\ At(t, "saveForgetPending")
  /\ pending' = [pending EXCEPT ![job[t].key] = NoPending]
  /\ Goto(t, "saveForgetNames", job[t])
  /\ UNCHANGED <<dexSizes, ambiguous, dexCache, records, sigCache, lockVars, diskVars,
                 runVars, counters>>

(* Mutant of SaveForgetNames: the names resolved so far are kept. *)
KeepNames(t) ==
  /\ At(t, "saveForgetNames")
  /\ Goto(t, "saveInsert", job[t])
  /\ UNCHANGED <<storeVars, lockVars, diskVars, runVars, counters>>

SaveForgetNames(t) ==
  /\ At(t, "saveForgetNames")
  /\ sigCache' = {e \in sigCache : e.key # job[t].key}
  /\ Goto(t, "saveInsert", job[t])
  /\ UNCHANGED <<dexSizes, ambiguous, dexCache, pending, records, lockVars, diskVars,
                 runVars, counters>>

SaveInsert(t) ==
  /\ At(t, "saveInsert")
  /\ dexCache' = [dexCache EXCEPT ![job[t].key] = job[t].bytes]
  /\ Goto(t, "idle", job[t])
  /\ sealOwner' = Nobody /\ cacheOwner' = Nobody
  /\ UNCHANGED <<dexSizes, ambiguous, pending, records, sigCache, sealed, diskVars,
                 runVars, counters>>

SaveStep(t) ==
  \/ SaveEnter(t) \/ SaveSkip(t) \/ SaveObserve(t) \/ SaveCompare(t) \/ SaveWrite(t)
  \/ \E n \in 0..MaxDexSize : SaveWriteFails(t, n)
  \/ SaveForgetPending(t) \/ SaveForgetNames(t) \/ SaveInsert(t)

-----------------------------------------------------------------------------
(* Stop requests, and the end of run().                                     *)

(* Mutant of Signal: the shutdown state does not saturate. *)
SignalUncapped ==
  /\ stops' = stops + 1
  /\ UNCHANGED <<storeVars, lockVars, diskVars, phase, pc, job, counters>>

(* signal_handler: the shutdown state saturates at FORCE. *)
Signal ==
  /\ stops < 2
  /\ stops' = stops + 1
  /\ UNCHANGED <<storeVars, lockVars, diskVars, phase, pc, job, counters>>

(* Mutant of LeaveLoop: while keep_finalizing(). *)
LeaveLoopOnForce ==
  /\ phase = "loop" /\ At("main", "idle") /\ stops > 1
  /\ phase' = "final"
  /\ UNCHANGED <<storeVars, lockVars, diskVars, stops, pc, job, counters>>

(* The loop condition; the probes are detached before the final drain. *)
LeaveLoop ==
  /\ phase = "loop" /\ At("main", "idle") /\ stops > 0
  /\ phase' = "final"
  /\ UNCHANGED <<storeVars, lockVars, diskVars, stops, pc, job, counters>>

(* Mutant of Seal: the flag is set without waiting for the mutex. *)
SealAtOnce ==
  /\ phase = "final" /\ At("main", "idle")
  /\ sealed' = TRUE
  /\ phase' = "sealed"
  /\ UNCHANGED <<storeVars, sealOwner, cacheOwner, diskVars, stops, pc, job, counters>>

(* The rings are empty, or a second signal cut the drain short. *)
Seal ==
  /\ phase = "final" /\ At("main", "idle")
  /\ sealOwner = Nobody
  /\ sealed' = TRUE
  /\ phase' = "sealed"
  /\ UNCHANGED <<storeVars, sealOwner, cacheOwner, diskVars, stops, pc, job, counters>>

(* Mutant of Flushable: ambiguous keys are not skipped. *)
FlushableAny == {k \in Keys : records[k] # {} /\ dexCache[k] # <<>>}

(* The keys flush_json writes a file for; the others are skipped. *)
Flushable == {k \in Keys : k \notin ambiguous /\ records[k] # {} /\ dexCache[k] # <<>>}

(* The first file that cannot be written ends flush_json; run() then returns. *)
FlushJson(written) ==
  /\ phase = "sealed"
  /\ cacheOwner = Nobody
  /\ jsons' = jsons \cup {[key |-> k, size |-> Len(dexCache[k]), records |-> records[k]] :
                            k \in written \cap Flushable}
  /\ records' = [k \in Keys |-> {}]
  /\ phase' = "done"
  /\ UNCHANGED <<dexSizes, ambiguous, dexCache, pending, sigCache, lockVars, files, stops,
                 pc, job, counters>>

-----------------------------------------------------------------------------

Init ==
  /\ dexSizes = [k \in Keys |-> 0]
  /\ ambiguous = {}
  /\ dexCache = [k \in Keys |-> <<>>]
  /\ pending = [k \in Keys |-> NoPending]
  /\ records = [k \in Keys |-> {}]
  /\ sigCache = {}
  /\ sealed = FALSE /\ sealOwner = Nobody /\ cacheOwner = Nobody
  /\ files = {} /\ jsons = {}
  /\ stops = 0 /\ phase = "loop"
  /\ pc = [t \in Threads |-> "idle"]
  /\ job = [t \in Threads |-> NoJob]
  /\ taken = 0 /\ scanned = 0 /\ errors = 0

TakeStep ==
  \E k \in Keys, img \in Images :
    \/ TakeDexEvent(k, img)
    \/ \E at \in 1..Len(img) : TakeChunk(k, img, at)
    \/ \E idx \in Methods, code \in {<<>>, <<Junk>>} : TakeMethod(k, img, idx, code)
    \/ TakeFailure(k, img)
    \/ TakeScanned(k, img)

HandlerStep ==
  \/ ChunkAmbiguous \/ ChunkCached \/ ChunkPending
  \/ MethodAmbiguous \/ MethodSig \/ MethodResolve \/ MethodRemember \/ MethodPush
  \/ FailCached \/ FailAmbiguous \/ FailForget
  \/ \E img \in Images, ok \in SUBSET (1..MaxDexSize) : FailRead(img, ok)

StopStep == LeaveLoop \/ Seal \/ \E written \in SUBSET Keys : FlushJson(written)

MainStep ==
  \/ TakeStep \/ HandlerStep \/ \E k \in Keys : ExpirePending(k)
  \/ QuarantineStep("main") \/ SaveStep("main") \/ StopStep

ScanStep ==
  \/ \E k \in Keys, head \in Images : ScanFound(k, head)
  \/ QuarantineStep("scan") \/ SaveStep("scan")

(* The process has exited: the detached thread is gone with it. *)
Exited == phase = "done" /\ UNCHANGED vars

Next ==
  \/ phase # "done" /\ (MainStep \/ ScanStep \/ Signal)
  \/ Exited

Spec == Init /\ [][Next]_vars

(* Both threads are scheduled; signals need not come. *)
FairSpec == Spec /\ WF_vars(phase # "done" /\ MainStep) /\ WF_vars(phase # "done" /\ ScanStep)
=============================================================================
