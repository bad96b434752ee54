--------------------------- MODULE RepairDirectory ---------------------------
(***************************************************************************)
(* repair_directory of src/fix.rs, called by the repair command and at the *)
(* end of a dump: the directory repair/ over several runs, between which   *)
(* the captures change and which may fail, be interrupted or crash at any  *)
(* step.  An input is the content of a DEX with its bytecode records; what *)
(* repair_one_dex makes of it is a function of it, so that a file of       *)
(* repair/ is described by the input it was made from.                     *)
(***************************************************************************)
EXTENDS Naturals, Sequences

CONSTANTS
  N,          \* inputs in the directory, in the order of their names
  Inputs,     \* what an input may hold: records [dex, records]
  Repairable, \* inputs repair_one_dex repairs, with no capture it cannot use
  NoFile,
  MaxRuns, MaxErrors \* bounds: calls of repair_directory, failing file operations

(* A file as atomic_write makes it, of the input it was repaired from. *)
Written == [of : Inputs, whole : BOOLEAN, synced : BOOLEAN]

ASSUME RepairAssumption ==
  /\ N \in Nat \ {0}
  /\ Repairable \subseteq Inputs
  /\ NoFile \notin Inputs \cup Written
  /\ MaxRuns \in Nat /\ MaxErrors \in Nat

VARIABLES
  input, dedup,       \* the directory and --no-dedup of this run
  pc,
  scanned, seen, work,\* dedup_dex_files: files looked at, identities, files retained
  at, failures,       \* next file of work, files that were not written
  body,               \* the bytes in hand, of file work[at]
  temp,               \* the temporary file of atomic_write
  repair,             \* the directory repair/
  prior,              \* what a power loss may bring back of it
  result,             \* what the run returned
  forced,             \* the second stop signal has arrived
  runs, errors        \* counters of the bounds

loopVars  == <<scanned, seen, work, at, failures>>
fileVars  == <<body, temp, repair, prior>>
runVars   == <<input, dedup, result, forced, runs>>
vars == <<pc, loopVars, fileVars, runVars, errors>>

Files == 1..N

Init ==
  /\ input \in [Files -> Inputs] /\ dedup = FALSE
  /\ pc = "off" /\ scanned = 0 /\ seen = {} /\ work = <<>> /\ at = 1 /\ failures = {}
  /\ body = NoFile /\ temp = NoFile
  /\ repair = [f \in Files |-> NoFile] /\ prior = [f \in Files |-> NoFile]
  /\ result = "none" /\ forced = FALSE /\ runs = 0 /\ errors = 0

IoError == errors < MaxErrors /\ errors' = errors + 1

(* A dump runs it with deduplication when its captures are sealed, perhaps   *)
(* after the second signal; the repair command handles no signal.            *)
Begin(in, d) ==
  /\ pc \in {"off", "done", "crashed"} /\ runs < MaxRuns
  /\ runs' = runs + 1
  /\ input' = in /\ dedup' = d /\ result' = "none"
  /\ forced' \in {FALSE, d}
  /\ scanned' = IF d THEN 0 ELSE N
  /\ seen' = {} /\ work' = IF d THEN <<>> ELSE [n \in Files |-> n]
  /\ at' = 1 /\ failures' = {} /\ body' = NoFile /\ temp' = NoFile
  /\ pc' = "dedup"
  /\ UNCHANGED <<repair, prior, errors>>

Retain(f) == work' = Append(work, f)

(* Mutant of Identity: records are not compared. *)
IdentityOfDex(f) == input[f].dex

Identity(f) == input[f]

DedupOne ==
  LET f == scanned + 1
  IN /\ pc = "dedup" /\ scanned < N
     /\ scanned' = f
     /\ \/ Identity(f) \in seen /\ UNCHANGED <<seen, work, errors>>
        \/ /\ Identity(f) \notin seen /\ Retain(f)
           /\ seen' = seen \cup {Identity(f)} /\ UNCHANGED errors
        \/ IoError /\ Retain(f) /\ UNCHANGED seen  \* cannot be read now
     /\ UNCHANGED <<pc, at, failures, fileVars, runVars>>

Return(r) == pc' = "done" /\ result' = r

CreateDir ==
  /\ pc = "dedup" /\ scanned = N
  /\ \/ pc' = "next" /\ UNCHANGED <<result, errors>>
     \/ IoError /\ Return("error")
  /\ UNCHANGED <<loopVars, fileVars, input, dedup, forced, runs>>

(* Mutant of NextFile: failures are printed, and success is returned.        *)
NextReported ==
  /\ pc = "next"
  /\ IF at > Len(work) THEN Return("ok")
     ELSE IF forced THEN Return("interrupted")
     ELSE pc' = "repair" /\ UNCHANGED result
  /\ UNCHANGED <<loopVars, fileVars, input, dedup, forced, runs, errors>>

NextFile ==
  /\ pc = "next"
  /\ IF at > Len(work) THEN Return(IF failures = {} THEN "ok" ELSE "error")
     ELSE IF forced THEN Return("interrupted")
     ELSE pc' = "repair" /\ UNCHANGED result
  /\ UNCHANGED <<loopVars, fileVars, input, dedup, forced, runs, errors>>

Advance == at' = at + 1 /\ pc' = "next" /\ body' = NoFile

Fail == Advance /\ failures' = failures \cup {work[at]}

(* The records and the DEX are read and repaired, or one of them fails.      *)
RepairBytes ==
  LET in == input[work[at]]
  IN /\ pc = "repair"
     /\ \/ /\ in \in Repairable
           /\ body' = in /\ pc' = "create" /\ UNCHANGED <<at, failures, errors>>
        \/ in \notin Repairable /\ Fail /\ UNCHANGED errors
        \/ IoError /\ Fail
     /\ UNCHANGED <<scanned, seen, work, temp, repair, prior, runVars>>

CreateTemp ==
  /\ pc = "create"
  /\ \/ /\ temp' = [of |-> body, whole |-> FALSE, synced |-> FALSE]
        /\ pc' = "write" /\ UNCHANGED <<at, failures, body, errors>>
     \/ IoError /\ Fail /\ UNCHANGED temp
  /\ UNCHANGED <<scanned, seen, work, repair, prior, runVars>>

WriteAll ==
  /\ pc = "write"
  /\ \/ temp' = [temp EXCEPT !.whole = TRUE] /\ pc' = "sync" /\ UNCHANGED errors
     \/ IoError /\ pc' = "cleanup" /\ UNCHANGED temp
  /\ UNCHANGED <<loopVars, body, repair, prior, runVars>>

(* Mutant of SyncAll: the file is closed without being synced.               *)
NoSync ==
  /\ pc = "sync"
  /\ pc' = "rename"
  /\ UNCHANGED <<loopVars, fileVars, runVars, errors>>

SyncAll ==
  /\ pc = "sync"
  /\ \/ temp' = [temp EXCEPT !.synced = TRUE] /\ pc' = "rename" /\ UNCHANGED errors
     \/ IoError /\ pc' = "cleanup" /\ UNCHANGED temp
  /\ UNCHANGED <<loopVars, body, repair, prior, runVars>>

Rename ==
  LET f == work[at]
  IN /\ pc = "rename"
     /\ \/ /\ repair' = [repair EXCEPT ![f] = temp]
           /\ prior' = [prior EXCEPT ![f] = repair[f]]
           /\ temp' = NoFile /\ Advance /\ UNCHANGED errors
        \/ IoError /\ pc' = "cleanup" /\ UNCHANGED <<at, fileVars>>
     /\ UNCHANGED <<scanned, seen, work, failures, runVars>>

(* Mutant of RemoveTemp: the output is removed with the temporary file.      *)
RemoveOutput ==
  /\ pc = "cleanup"
  /\ Fail /\ temp' = NoFile
  /\ repair' = [repair EXCEPT ![work[at]] = NoFile]
  /\ UNCHANGED <<scanned, seen, work, prior, runVars, errors>>

(* Mutant of RemoveTemp: only the failure is noted.                          *)
LeaveTemp ==
  /\ pc = "cleanup"
  /\ Fail
  /\ UNCHANGED <<scanned, seen, work, temp, repair, prior, runVars, errors>>

(* A temporary file that cannot be removed stays behind, and is no output.   *)
RemoveTemp ==
  /\ pc = "cleanup"
  /\ Fail /\ temp' = NoFile
  /\ UNCHANGED errors \/ IoError
  /\ UNCHANGED <<scanned, seen, work, repair, prior, runVars>>

Signal ==
  /\ dedup /\ ~forced /\ pc \notin {"off", "done", "crashed"}
  /\ forced' = TRUE
  /\ UNCHANGED <<pc, loopVars, fileVars, input, dedup, result, runs, errors>>

(* What was not synced is cut off by a power loss. *)
AfterPowerLoss(x) == IF x = NoFile THEN x ELSE [x EXCEPT !.whole = @ /\ x.synced]

(* The process is killed, or the power fails: the renames of the files in    *)
(* lost have not reached the disk, as the directory is never synced.         *)
Crash(lost) ==
  /\ pc \notin {"off", "crashed"}
  /\ pc' = "crashed"
  /\ repair' = [f \in Files |-> AfterPowerLoss(IF f \in lost THEN prior[f] ELSE repair[f])]
  /\ prior' = repair'
  /\ temp' = NoFile /\ body' = NoFile /\ result' = "none"
  /\ UNCHANGED <<loopVars, input, dedup, forced, runs, errors>>

Next ==
  \/ \E in \in [Files -> Inputs], d \in BOOLEAN : Begin(in, d)
  \/ DedupOne \/ CreateDir \/ NextFile \/ RepairBytes
  \/ CreateTemp \/ WriteAll \/ SyncAll \/ Rename \/ RemoveTemp
  \/ Signal
  \/ \E lost \in SUBSET Files : Crash(lost)

Spec == Init /\ [][Next]_vars

-----------------------------------------------------------------------------

File == Written \cup {NoFile}

LoopType ==
  /\ pc \in {"off", "dedup", "next", "repair", "create", "write", "sync", "rename",
             "cleanup", "done", "crashed"}
  /\ scanned \in 0..N /\ work \in Seq(Files) /\ at \in 1..Len(work) + 1
  /\ failures \subseteq Files
  /\ pc \in {"repair", "create", "write", "sync", "rename", "cleanup"} => at <= Len(work)

FileType ==
  /\ body \in Inputs \cup {NoFile} /\ temp \in File
  /\ pc \in {"create", "write", "sync", "rename", "cleanup"} => body = input[work[at]]
  /\ temp # NoFile <=> pc \in {"write", "sync", "rename", "cleanup"}
  /\ repair \in [Files -> File] /\ prior \in [Files -> File]

RunType ==
  /\ input \in [Files -> Inputs] /\ dedup \in BOOLEAN /\ forced \in BOOLEAN
  /\ result \in {"none", "ok", "error", "interrupted"}
  /\ runs \in 0..MaxRuns /\ errors \in 0..MaxErrors

(* Type invariant; the temporary file exists only inside atomic_write.       *)
TypeOK == LoopType /\ FileType /\ RunType

(* A file in repair/ is always a whole repaired DEX: no failing operation,   *)
(* signal, kill or power loss leaves a part of one (atomic_write).           *)
OutputsWhole == \A f \in Files : repair[f] # NoFile => repair[f].whole

(* A run that returned success repaired every input, or another one with the *)
(* same DEX and the same records; without deduplication, each one.           *)
SuccessMeansRepaired ==
  result = "ok" =>
    \A f \in Files : \E e \in Files : /\ input[e] = input[f] /\ (~dedup => e = f)
                                      /\ repair[e] # NoFile /\ repair[e].of = input[f]

(* An output is only ever replaced by what its present input was repaired    *)
(* to; a repair that fails, whatever the reason, leaves the previous output. *)
FailureKeepsOutput ==
  [][pc' # "crashed" =>
       \A f \in Files : repair'[f] # repair[f] =>
         repair'[f] # NoFile /\ repair'[f].of = input[f] /\ input[f] \in Repairable]_vars
=============================================================================
