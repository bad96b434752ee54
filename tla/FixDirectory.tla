---------------------------- MODULE FixDirectory -----------------------------
(***************************************************************************)
(* fix_dex_directory_with of src/fix.rs, which only the fix command calls: *)
(* each DEX with a JSON beside it is fixed into fix/ and copied to final/, *)
(* any other is copied as it is, and so is one that cannot be fixed.  The  *)
(* files are written over, not renamed into place.  The command handles no *)
(* signal: a stop is a kill.                                               *)
(***************************************************************************)
EXTENDS RepairDirectory

CONSTANTS
  Bases,     \* the DEXes found, of those the directory may hold
  FixInputs, \* what an input of the fix command may hold
  NoRecords, \* the records of an input without a JSON
  Fixable,   \* inputs with a DEX and a JSON that can be read and applied
  Covered    \* inputs of Fixable whose JSON names every method that has code

(* A file of fix/ or final/ (or a report), of the input it was made from.    *)
FixFile == [of : FixInputs, fixed : BOOLEAN, whole : BOOLEAN]

ASSUME FixAssumption ==
  /\ Bases \subseteq Files /\ Bases # {} /\ NoFile \notin FixFile
  /\ Covered \subseteq Fixable /\ Fixable \subseteq FixInputs
  /\ \A a \in Fixable : a.records # NoRecords

VARIABLES
  dumped,      \* the DEXes of the directory
  stage,
  left,        \* dex_files not yet taken, in the order of a hash map
  fixing,      \* the DEX the loop is at
  fixDir, finalDir,  \* fix/ and final/
  reports,     \* the _missed.json files of final/
  fixFailures, \* DEXes counted in failures
  ended        \* what the run returned

fixLoop == <<left, fixing, fixFailures>>
fixOut  == <<fixDir, finalDir, reports>>
fixVars == <<dumped, stage, fixLoop, fixOut, ended>>

FixInit ==
  /\ dumped \in [Bases -> FixInputs]
  /\ stage = "off" /\ ended = "none"
  /\ left = {} /\ fixing = (CHOOSE f \in Bases : TRUE) /\ fixFailures = {}
  /\ fixDir = [f \in Bases |-> NoFile] /\ finalDir = fixDir /\ reports = fixDir

(* A file being written over, of the fixed or the original bytes of an input. *)
Torn(in, fixed) == [of |-> in, fixed |-> fixed, whole |-> FALSE]

Whole(dir, f) == [dir EXCEPT ![f].whole = TRUE]

FixReturn(r) == stage' = "ended" /\ ended' = r

(* The two directories of output are created, or one of them cannot be.      *)
FixBegin(in) ==
  /\ stage \in {"off", "ended", "killed"} /\ runs < MaxRuns /\ runs' = runs + 1
  /\ dumped' = in /\ left' = Bases /\ fixFailures' = {}
  /\ \/ stage' = "next" /\ ended' = "none" /\ UNCHANGED errors
     \/ IoError /\ FixReturn("aborted")
  /\ UNCHANGED <<fixing, fixOut>>

FixNext(f) ==
  /\ stage = "next"
  /\ left' = left \ {f} /\ fixing' = f
  /\ stage' = IF dumped[f].records # NoRecords THEN "fix" ELSE "original"
  /\ UNCHANGED <<dumped, fixFailures, fixOut, ended, runs, errors>>

FixReturns ==
  /\ stage = "next" /\ left = {}
  /\ FixReturn(IF fixFailures = {} THEN "ok" ELSE "failed")
  /\ UNCHANGED <<dumped, fixLoop, fixOut, runs, errors>>

(* Mutant of Counted: the fallback copy is not a failure. *)
NotCounted == UNCHANGED fixFailures

Counted == fixFailures' = fixFailures \cup {fixing}

(* fix_one_dex, up to the opening of its output. *)
FixOne ==
  /\ stage = "fix"
  /\ \/ /\ dumped[fixing] \in Fixable
        /\ fixDir' = [fixDir EXCEPT ![fixing] = Torn(dumped[fixing], TRUE)]
        /\ stage' = "write" /\ UNCHANGED <<fixFailures, errors>>
     \/ /\ (dumped[fixing] \notin Fixable /\ UNCHANGED errors) \/ IoError
        /\ stage' = "fallback" /\ Counted /\ UNCHANGED fixDir
  /\ UNCHANGED <<dumped, left, fixing, finalDir, reports, ended, runs>>

WriteFix ==
  /\ stage = "write"
  /\ \/ fixDir' = Whole(fixDir, fixing) /\ stage' = "fixed" /\ UNCHANGED <<fixFailures, errors>>
     \/ IoError /\ stage' = "fallback" /\ Counted /\ UNCHANGED fixDir
  /\ UNCHANGED <<dumped, left, fixing, finalDir, reports, ended, runs>>

(* copy_file: the fixed bytes, or the original. *)
OpenFinal ==
  /\ stage \in {"fixed", "fallback", "original"}
  /\ \/ /\ finalDir' = [finalDir EXCEPT ![fixing] = Torn(dumped[fixing], stage = "fixed")]
        /\ stage' = "copying" /\ UNCHANGED <<ended, errors>>
     \/ IoError /\ FixReturn("aborted") /\ UNCHANGED finalDir
  /\ UNCHANGED <<dumped, fixLoop, fixDir, reports, runs>>

Reported == finalDir[fixing].fixed /\ dumped[fixing] \notin Covered

(* Mutant of CopyFails: the loop goes on with the next file. *)
CopyCounted == IoError /\ Counted /\ stage' = "next" /\ UNCHANGED ended

CopyFails == IoError /\ FixReturn("aborted") /\ UNCHANGED fixFailures

CopyFinal ==
  /\ stage = "copying"
  /\ \/ /\ finalDir' = Whole(finalDir, fixing)
        /\ stage' = IF Reported THEN "report" ELSE "next"
        /\ UNCHANGED <<fixFailures, ended, errors>>
     \/ CopyFails /\ UNCHANGED finalDir
  /\ UNCHANGED <<dumped, left, fixing, fixDir, reports, runs>>

(* write_coverage_report, up to its opening of the file and then to its end. *)
OpenReport ==
  /\ stage = "report"
  /\ \/ /\ reports' = [reports EXCEPT ![fixing] = Torn(dumped[fixing], TRUE)]
        /\ stage' = "reporting" /\ UNCHANGED <<fixFailures, errors>>
     \/ IoError /\ stage' = "next" /\ Counted /\ UNCHANGED reports
  /\ UNCHANGED <<dumped, left, fixing, fixDir, finalDir, ended, runs>>

WriteReport ==
  /\ stage = "reporting" /\ stage' = "next"
  /\ \/ reports' = Whole(reports, fixing) /\ UNCHANGED <<fixFailures, errors>>
     \/ IoError /\ Counted /\ UNCHANGED reports
  /\ UNCHANGED <<dumped, left, fixing, fixDir, finalDir, ended, runs>>

Kill ==
  /\ stage \notin {"off", "ended", "killed"} /\ stage' = "killed"
  /\ UNCHANGED <<dumped, fixLoop, fixOut, ended, runs, errors>>

FixStep ==
  \/ \E in \in [Bases -> FixInputs] : FixBegin(in)
  \/ \E f \in left : FixNext(f)
  \/ FixReturns \/ FixOne \/ WriteFix \/ OpenFinal \/ CopyFinal
  \/ OpenReport \/ WriteReport \/ Kill

FixSpec == FixInit /\ runs = 0 /\ errors = 0 /\ [][FixStep]_<<fixVars, runs, errors>>

-----------------------------------------------------------------------------

(* Whatever an earlier run, cut short anywhere, has left in final/: a run    *)
(* that got through its list, with or without failures, leaves there a whole *)
(* file of every DEX dumped now, fixed only with that DEX's own records.     *)
FinalWhole ==
  ended \in {"ok", "failed"} => \A f \in Bases :
    /\ finalDir[f] # NoFile /\ finalDir[f].whole /\ finalDir[f].of = dumped[f]
    /\ finalDir[f].fixed => dumped[f] \in Fixable

(* "fallback copies are not repaired outputs": a run that returns success    *)
(* has fixed every DEX with records, in fix/ as in final/, and reported the  *)
(* methods that are missing of each.                                         *)
SuccessMeansFixed ==
  ended = "ok" => \A f \in Bases : dumped[f].records # NoRecords =>
    /\ finalDir[f].fixed /\ fixDir[f] = finalDir[f]
    /\ dumped[f] \notin Covered => reports[f] # NoFile /\ reports[f].whole /\ reports[f].of = dumped[f]
=============================================================================
