--------------------------- MODULE DumpStateProps ---------------------------
(***************************************************************************)
(* What the collector of DumpState must keep, whatever the interleaving.   *)
(***************************************************************************)
EXTENDS DumpState

Labels == {"idle", "mark", "dropPending", "dropRecords", "dropNames",
           "chunkAmbiguous", "chunkCached", "chunkPending",
           "methodAmbiguous", "methodSig", "methodResolve", "methodRemember", "methodPush",
           "failCached", "failAmbiguous", "failRead", "failForget",
           "saveEnter", "saveObserve", "saveCompare", "saveWrite",
           "saveForgetPending", "saveForgetNames", "saveInsert"}

(* Where a quarantine returns to. *)
Returns == {"idle", "chunkAmbiguous", "methodAmbiguous", "failCached", "saveCompare", "saveWrite"}

Body    == Seq(Parts)
Job     == [key : Keys, size : Nat, at : Nat, bytes : Body, name : Body, ret : Returns]
Record  == [idx : Nat, name : Body, size : Nat]
Name    == [key : Keys, idx : Nat, name : Body]
DexFile == [key : Keys, size : Nat, hash : Body, bytes : Body]

IsPending(e) ==
  /\ e = [total |-> e.total, got |-> e.got]
  /\ e.total \in Nat
  /\ DOMAIN e.got \subseteq 1..e.total
  /\ e.got = [p \in DOMAIN e.got |-> e.got[p]]
  /\ \A p \in DOMAIN e.got : e.got[p] \in Parts

(* Type invariant of the collector's state (DumpState and the locals of its *)
(* two threads).                                                            *)
TypeOK ==
  /\ dexSizes \in [Keys -> Nat]
  /\ ambiguous \subseteq Keys
  /\ dexCache \in [Keys -> Body]
  /\ DOMAIN pending = Keys /\ \A k \in Keys : IsPending(pending[k])
  /\ DOMAIN records = Keys /\ \A k \in Keys : \A r \in records[k] : r \in Record
  /\ \A e \in sigCache : e \in Name
  /\ sealed \in BOOLEAN
  /\ sealOwner \in Threads \cup {Nobody} /\ cacheOwner \in Threads \cup {Nobody}
  /\ \A f \in files : f \in DexFile
  /\ \A j \in jsons : j.key \in Keys /\ j.size \in Nat
                      /\ \A r \in j.records : r \in Record
  /\ stops \in 0..2
  /\ phase \in {"loop", "final", "sealed", "done"}
  /\ pc \in [Threads -> Labels]
  /\ job \in [Threads -> Job]
  /\ taken \in Nat /\ scanned \in Nat /\ errors \in Nat

-----------------------------------------------------------------------------

SaveSection  == {"saveObserve", "saveCompare", "saveWrite",
                 "saveForgetPending", "saveForgetNames", "saveInsert"}
CacheSection == {"saveWrite", "saveForgetPending", "saveForgetNames", "saveInsert"}
Quarantining == {"mark", "dropPending", "dropRecords", "dropNames"}

InSave(t)  == \/ pc[t] \in SaveSection
              \/ pc[t] \in Quarantining /\ job[t].ret \in {"saveCompare", "saveWrite"}
InCache(t) == \/ pc[t] \in CacheSection
              \/ pc[t] \in Quarantining /\ job[t].ret = "saveWrite"

(* Each lock that save_dex keeps across steps is held by exactly the thread  *)
(* that is between its two ends, on every early return and error path.       *)
LocksHeld ==
  \A t \in Threads : (sealOwner = t <=> InSave(t)) /\ (cacheOwner = t <=> InCache(t))

(* The seal is set between captures, the main thread is done with its        *)
(* records by then, and the scan thread quarantines inside save_dex only.    *)
SealedBetweenCaptures ==
  /\ sealed <=> phase \in {"sealed", "done"}
  /\ sealed => sealOwner = Nobody /\ pc["main"] = "idle"
  /\ pc["scan"] \in {"idle", "saveEnter"} \/ InSave("scan")

(* A body is written only as a key's first, or after its quarantine: the     *)
(* verdict cannot be overtaken by the other thread's capture of the key.     *)
ComparedFirst ==
  \A t \in Threads :
    /\ InSave(t) => job[t].bytes # <<>>
    /\ InCache(t) /\ pc[t] # "mark" /\ dexCache[job[t].key] # <<>> => job[t].key \in ambiguous

(* The lock protocol of save_dex, run() and quarantine_dex as one invariant. *)
SaveProtocol == LocksHeld /\ SealedBetweenCaptures /\ ComparedFirst

(* A method record file belongs to one DEX: its key was never seen with two  *)
(* identities, the body the collector holds is on disk under the plain name  *)
(* of the size that every record was reported with, and a record is named by *)
(* that body or by its index only.  The record file has the DEX's name, or a *)
(* smaller size in it where the body was read short of its header's size.    *)
JsonDescribesItsDex ==
  \A j \in jsons :
    /\ j.key \notin ambiguous
    /\ \E f \in files :
         /\ f.key = j.key /\ f.hash = <<>> /\ f.bytes = dexCache[j.key]
         /\ j.size = Len(f.bytes) /\ j.size <= f.size
         /\ \A r \in j.records :
              r.size = f.size /\ r.name \in {Placeholder, MethodName(f.bytes)}

(* "the fix stage would never find a matching DEX [...] they only happen when *)
(* [...] the DEX body was never captured" (flush_json): each record file has  *)
(* the DEX of its own name beside it.                                        *)
JsonFindsItsDex ==
  \A j \in jsons : \E f \in files : f.key = j.key /\ f.size = j.size /\ f.hash = <<>>

(* Once a body of a key was saved, its plainly named file is never rewritten *)
(* or removed, not even by a write that fails: later bodies get a hashed name. *)
PlainDexKept ==
  [][\A f \in files : f.hash = <<>> /\ dexCache[f.key] # <<>> => f \in files']_vars

(* After captures_sealed is set neither thread changes a DEX file, a saved   *)
(* body or the verdict on a key: what flush_json and the repair read is final. *)
SealIsFinal == [][sealed => UNCHANGED <<files, dexCache, ambiguous>>]_vars

(* save_dex's several lock regions act as the one atomic capture of the      *)
(* abstract store; a body counts as captured from the moment it is on disk.  *)
Captured ==
  [k \in Keys |->
     LET W == {t \in Threads : /\ pc[t] \in {"saveForgetPending", "saveForgetNames", "saveInsert"}
                               /\ job[t].key = k}
     IN IF W = {} THEN dexCache[k] ELSE job[CHOOSE t \in W : TRUE].bytes]

Store == INSTANCE CaptureStore WITH
           Bodies <- Body \ {<<>>}, Entries <- Record, captured <- Captured,
           tainted <- ambiguous, published <- jsons

ImplementsStore == Store!Spec

(* A stop request always ends the run: no lock is left held, and neither the *)
(* backlog nor the scan thread keeps the main thread from sealing.           *)
StopEndsRun == stops > 0 ~> phase = "done"

-----------------------------------------------------------------------------
(* Between two records of the main thread.                                   *)

Quiet == \A t \in Threads : pc[t] = "idle"

(* A key whose body is saved has no body under assembly: late chunks do not  *)
(* rebuild a pending entry that never completes again.                       *)
NoPendingOnceCached ==
  Quiet => \A k \in Keys : dexCache[k] # <<>> => pending[k] = NoPending

(* The name cache never keeps a name that differs from what the saved body   *)
(* would give: placeholders are dropped when the body arrives.               *)
NamesMatchBody ==
  Quiet => \A e \in sigCache : e.name = MethodName(dexCache[e.key])

(* An ambiguous key keeps neither records nor a partial body.                *)
AmbiguousForgotten ==
  Quiet => \A k \in ambiguous : records[k] = {} /\ pending[k] = NoPending

(* What is over, by a save or by ambiguity, leaves nothing under assembly.   *)
NothingLeftOver == NoPendingOnceCached /\ AmbiguousForgotten

(* A body assembled from chunks is handed to save_dex only when all of it    *)
(* was received, and it is as long as its own header says.                   *)
AssembledWhole ==
  LET j == job["main"]
  IN (pc["main"] = "saveEnter" \/ InSave("main")) /\ j.at # 0 =>
       /\ j.bytes[1] \in Headers /\ Len(j.bytes) = HeaderSize[j.bytes[1]]
       /\ \A p \in 1..Len(j.bytes) : j.bytes[p] # Zero

(* No half-truncated file is left on disk (the comment in save_dex).         *)
NoHalfTruncatedFile ==
  errors = 0 => \A f \in files : Len(f.bytes) >= HeaderSize[f.bytes[1]]
=============================================================================
