------------------------ MODULE RepairDirectoryProofs ------------------------
(***************************************************************************)
(* Proofs about repair_directory and fix_dex_directory_with, for any       *)
(* number of inputs, any set of contents and any number of runs and        *)
(* failing operations.                                                     *)
(***************************************************************************)
EXTENDS FixDirectory, SequenceTheorems, TLAPS

Writing == {"create", "write", "sync", "rename", "cleanup"}

(* Type correctness, with the life of the temporary file.                    *)
THEOREM TypeCorrect == Spec => []TypeOK
<1> USE DEF Files
<1>1. Init => TypeOK
  <2> SUFFICES ASSUME Init
               PROVE  TypeOK
    OBVIOUS
  <2>1. LoopType
    BY RepairAssumption DEF Init, LoopType
  <2>2. FileType
    BY DEF Init, FileType, File
  <2>3. runs \in 0..MaxRuns /\ errors \in 0..MaxErrors
    BY RepairAssumption DEF Init
  <2>4. RunType
    BY <2>3 DEF Init, RunType
  <2> QED
    BY <2>1, <2>2, <2>4 DEF TypeOK
<1>2. TypeOK /\ [Next]_vars => TypeOK'
  <2> SUFFICES ASSUME TypeOK, [Next]_vars
               PROVE  TypeOK'
    OBVIOUS
  <2> N \in Nat \ {0} /\ MaxRuns \in Nat /\ MaxErrors \in Nat /\ NoFile \notin Inputs \cup Written
    BY RepairAssumption
  <2> Len(work) \in Nat /\ at \in Nat \ {0} /\ errors \in 0..MaxErrors
    BY DEF TypeOK, LoopType, RunType
  <2>e. IoError => errors' \in 0..MaxErrors
    BY DEF IoError
  <2>f. pc \in {"repair", "create", "write", "sync", "rename", "cleanup"} =>
          /\ at \in 1..Len(work) /\ at + 1 \in 1..Len(work) + 1 /\ at + 1 \in Nat
          /\ work[at] \in Files /\ input[work[at]] \in Inputs
          /\ failures \cup {work[at]} \subseteq Files
    <3> SUFFICES ASSUME pc \in {"repair", "create", "write", "sync", "rename", "cleanup"}
                 PROVE  /\ at \in 1..Len(work) /\ work[at] \in Files
                        /\ input[work[at]] \in Inputs /\ failures \subseteq Files
      OBVIOUS
    <3>1. at \in 1..Len(work) /\ work \in Seq(Files) /\ failures \subseteq Files
      BY DEF TypeOK, LoopType
    <3>2. input \in [Files -> Inputs]
      BY DEF TypeOK, RunType
    <3> QED
      BY <3>1, <3>2
  <2> USE DEF loopVars, fileVars, runVars, TypeOK
  <2>1. ASSUME NEW in \in [Files -> Inputs], NEW d \in BOOLEAN, Begin(in, d)
        PROVE  TypeOK'
    <3>a. scanned' \in 0..N /\ runs' \in 0..MaxRuns /\ errors' \in 0..MaxErrors
      BY <2>1 DEF Begin, RunType
    <3>b. <<>> \in Seq(Files) /\ [n \in Files |-> n] \in Seq(Files)
      BY SeqDef
    <3>c. work' \in Seq(Files)
      BY <2>1, <3>b, Zenon DEF Begin
    <3>0. /\ scanned' \in 0..N /\ work' \in Seq(Files) /\ Len(work') \in Nat
          /\ runs' \in 0..MaxRuns /\ errors' \in 0..MaxErrors
      BY <3>a, <3>c
    <3>1. LoopType'
      BY <2>1, <3>0 DEF Begin, LoopType
    <3>2. FileType'
      BY <2>1 DEF Begin, FileType, File
    <3>3. RunType'
      BY <2>1, <3>0 DEF Begin, RunType
    <3> QED
      BY <3>1, <3>2, <3>3
  <2>2. CASE DedupOne
    <3>0. work' \in Seq(Files) /\ Len(work') \in Nat /\ Len(work') >= Len(work)
      <4>1. scanned + 1 \in Files /\ work \in Seq(Files)
        BY <2>2 DEF DedupOne, LoopType
      <4>2. work' \in {work, Append(work, scanned + 1)}
        BY <2>2 DEF DedupOne, Retain
      <4> QED
        BY <4>1, <4>2
    <3>1. LoopType'
      BY <2>2, <3>0 DEF DedupOne, LoopType
    <3>2. FileType'
      BY <2>2 DEF DedupOne, Retain, FileType, File
    <3>3. RunType'
      BY <2>2, <2>e DEF DedupOne, Retain, RunType
    <3> QED
      BY <3>1, <3>2, <3>3
  <2>3. CASE CreateDir
    <3>1. LoopType'
      BY <2>3 DEF CreateDir, Return, LoopType
    <3>2. FileType'
      BY <2>3 DEF CreateDir, Return, FileType, File
    <3>3. RunType'
      BY <2>3, <2>e DEF CreateDir, Return, RunType
    <3> QED
      BY <3>1, <3>2, <3>3
  <2>4. CASE NextFile
    <3>1. LoopType'
      BY <2>4 DEF NextFile, Return, LoopType
    <3>2. FileType'
      BY <2>4 DEF NextFile, Return, FileType, File
    <3>3. RunType'
      BY <2>4 DEF NextFile, Return, RunType
    <3> QED
      BY <3>1, <3>2, <3>3
  <2>5. CASE RepairBytes
    <3>1. LoopType'
      BY <2>5, <2>f DEF RepairBytes, Fail, Advance, LoopType
    <3>2. FileType'
      BY <2>5, <2>f DEF RepairBytes, Fail, Advance, FileType, File
    <3>3. RunType'
      BY <2>5, <2>e DEF RepairBytes, Fail, Advance, RunType
    <3> QED
      BY <3>1, <3>2, <3>3
  <2>6. CASE CreateTemp
    <3>1. LoopType'
      BY <2>6, <2>f DEF CreateTemp, Fail, Advance, LoopType
    <3>0. body \in Inputs /\ body = input[work[at]]
      BY <2>6, <2>f DEF CreateTemp, FileType
    <3>2. FileType'
      <4>1. [of |-> body, whole |-> FALSE, synced |-> FALSE] \in Written
        BY <3>0 DEF Written
      <4>2. CASE pc' = "write" /\ temp' = [of |-> body, whole |-> FALSE, synced |-> FALSE]
        BY <2>6, <3>0, <4>1, <4>2 DEF CreateTemp, FileType, File
      <4>3. CASE Fail /\ UNCHANGED temp
        BY <2>6, <2>f, <4>3 DEF CreateTemp, Fail, Advance, FileType, File
      <4> QED
        BY <2>6, <4>2, <4>3 DEF CreateTemp
    <3>3. RunType'
      BY <2>6, <2>e DEF CreateTemp, Fail, Advance, RunType
    <3> QED
      BY <3>1, <3>2, <3>3
  <2>7. CASE WriteAll
    <3>1. LoopType'
      BY <2>7 DEF WriteAll, LoopType
    <3>2. FileType'
      BY <2>7, ZenonT(60) DEF WriteAll, FileType, File, Written
    <3>3. RunType'
      BY <2>7, <2>e DEF WriteAll, RunType
    <3> QED
      BY <3>1, <3>2, <3>3
  <2>8. CASE SyncAll
    <3>1. LoopType'
      BY <2>8 DEF SyncAll, LoopType
    <3>2. FileType'
      BY <2>8, ZenonT(60) DEF SyncAll, FileType, File, Written
    <3>3. RunType'
      BY <2>8, <2>e DEF SyncAll, RunType
    <3> QED
      BY <3>1, <3>2, <3>3
  <2>9. CASE Rename
    <3>1. LoopType'
      BY <2>9 DEF Rename, Advance, LoopType
    <3>2. FileType'
      <4>0. /\ pc = "rename" /\ input' = input /\ work' = work
            /\ \/ /\ repair' = [repair EXCEPT ![work[at]] = temp]
                  /\ prior' = [prior EXCEPT ![work[at]] = repair[work[at]]]
                  /\ temp' = NoFile /\ body' = NoFile /\ pc' = "next"
               \/ pc' = "cleanup" /\ UNCHANGED <<at, body, temp, repair, prior>>
        BY <2>9 DEF Rename, Advance, fileVars, runVars
      <4>1. body \in Inputs \cup {NoFile} /\ body = input[work[at]] /\ temp # NoFile /\ temp \in File
        BY <4>0 DEF FileType
      <4>2. repair' \in [Files -> File] /\ prior' \in [Files -> File]
        BY <2>f, <4>0, <4>1 DEF FileType
      <4> QED
        BY <4>0, <4>1, <4>2 DEF FileType, File
    <3>3. RunType'
      BY <2>9, <2>e DEF Rename, Advance, RunType
    <3> QED
      BY <3>1, <3>2, <3>3
  <2>10. CASE RemoveTemp
    <3>1. LoopType'
      BY <2>10, <2>f DEF RemoveTemp, Fail, Advance, LoopType
    <3>2. FileType'
      BY <2>10, <2>f DEF RemoveTemp, Fail, Advance, FileType, File
    <3>3. RunType'
      BY <2>10, <2>e DEF RemoveTemp, Fail, Advance, RunType
    <3> QED
      BY <3>1, <3>2, <3>3
  <2>11. CASE Signal
    <3>1. LoopType'
      BY <2>11 DEF Signal, LoopType
    <3>2. FileType'
      BY <2>11 DEF Signal, FileType, File
    <3>3. RunType'
      BY <2>11 DEF Signal, RunType
    <3> QED
      BY <3>1, <3>2, <3>3
  <2>12. ASSUME NEW lost \in SUBSET Files, Crash(lost)
         PROVE  TypeOK'
    <3>1. LoopType'
      BY <2>12 DEF Crash, AfterPowerLoss, LoopType
    <3>2. FileType'
      BY <2>12 DEF Crash, AfterPowerLoss, FileType, File, Written
    <3>3. RunType'
      BY <2>12 DEF Crash, AfterPowerLoss, RunType
    <3> QED
      BY <3>1, <3>2, <3>3
  <2>13. CASE UNCHANGED vars
    <3>1. LoopType'
      BY <2>13 DEF vars, LoopType
    <3>2. FileType'
      BY <2>13 DEF vars, FileType, File
    <3>3. RunType'
      BY <2>13 DEF vars, RunType
    <3> QED
      BY <3>1, <3>2, <3>3
  <2> QED
    BY <2>1, <2>2, <2>3, <2>4, <2>5, <2>6, <2>7, <2>8, <2>9, <2>10, <2>11, <2>12, <2>13
    DEF Next
<1> QED
  BY <1>1, <1>2, PTL DEF Spec

-----------------------------------------------------------------------------

Kept(x) == x # NoFile => x.whole /\ x.synced

(* What a power loss leaves: every output, and the one it replaced, is       *)
(* synced; the temporary file is whole before it is synced, and synced       *)
(* before it is renamed.                                                     *)
Durable ==
  /\ \A f \in Files : Kept(repair[f]) /\ Kept(prior[f])
  /\ pc \in {"sync", "rename"} => temp.whole
  /\ pc = "rename" => temp.synced
  /\ temp # NoFile => temp.of = body
  /\ pc \in Writing => body \in Repairable

LEMMA DurableInductive == Spec => []Durable
<1> USE DEF Files, Kept, Writing
<1>1. Init => Durable
  BY DEF Init, Durable
<1>2. TypeOK /\ TypeOK' /\ Durable /\ [Next]_vars => Durable'
  <2> SUFFICES ASSUME TypeOK, TypeOK', Durable, [Next]_vars
               PROVE  Durable'
    OBVIOUS
  <2>1. ASSUME NEW in \in [Files -> Inputs], NEW d \in BOOLEAN, Begin(in, d)
        PROVE  Durable'
    BY <2>1 DEF Begin, Durable
  <2>2. CASE DedupOne
    BY <2>2 DEF DedupOne, Durable, fileVars
  <2>3. CASE CreateDir
    BY <2>3 DEF CreateDir, Return, Durable, fileVars
  <2>4. CASE NextFile
    BY <2>4 DEF NextFile, Return, Durable, fileVars
  <2>5. CASE RepairBytes
    BY <2>5 DEF RepairBytes, Fail, Advance, Durable, TypeOK, LoopType, FileType, RunType
  <2>6. CASE CreateTemp
    BY <2>6 DEF CreateTemp, Fail, Advance, Durable, TypeOK, LoopType, FileType, RunType
  <2>7. CASE WriteAll
    BY <2>7 DEF WriteAll, Durable, TypeOK, LoopType, FileType, RunType, File, Written
  <2>8. CASE SyncAll
    BY <2>8 DEF SyncAll, Durable, TypeOK, LoopType, FileType, RunType, File, Written
  <2>9. CASE Rename
    BY <2>9, SMTT(30) DEF Rename, Advance, Durable, TypeOK, LoopType, FileType, RunType, fileVars
  <2>10. CASE RemoveTemp
    BY <2>10 DEF RemoveTemp, Fail, Advance, Durable
  <2>11. CASE Signal
    BY <2>11 DEF Signal, Durable, fileVars
  <2>12. ASSUME NEW lost \in SUBSET Files, Crash(lost)
         PROVE  Durable'
    <3>1. \A f \in Files : Kept(repair'[f])
      BY <2>12 DEF Crash, AfterPowerLoss, Durable, TypeOK, LoopType, FileType, RunType, File, Written
    <3> QED
      BY <2>12, <3>1 DEF Crash, Durable
  <2>13. CASE UNCHANGED vars
    BY <2>13 DEF vars, Durable, loopVars, fileVars
  <2> QED
    BY <2>1, <2>2, <2>3, <2>4, <2>5, <2>6, <2>7, <2>8, <2>9, <2>10, <2>11, <2>12, <2>13
    DEF Next
<1> QED
  BY <1>1, <1>2, TypeCorrect, PTL DEF Spec

(* Every file of repair/ is a whole repaired DEX, in every state: a crash    *)
(* brings back a synced output, the newest or the one before it.             *)
THEOREM AlwaysWhole == Spec => []OutputsWhole
<1>1. Durable => OutputsWhole
  BY DEF Durable, OutputsWhole, Kept
<1> QED
  BY <1>1, DurableInductive, PTL

(* An output changes, crashes apart, only by the rename of what the present  *)
(* input of that name was repaired to.                                       *)
THEOREM OutputsKept == Spec => FailureKeepsOutput
<1> DEFINE Keeps == \A f \in Files : repair'[f] # repair[f] =>
                      repair'[f] # NoFile /\ repair'[f].of = input[f] /\ input[f] \in Repairable
<1>1. TypeOK /\ Durable /\ [Next]_vars => [pc' # "crashed" => Keeps]_vars
  <2> SUFFICES ASSUME TypeOK, Durable, Next, pc' # "crashed"
               PROVE  Keeps
    OBVIOUS
  <2>1. CASE Rename
    BY <2>1 DEF Rename, Durable, TypeOK, LoopType, FileType, RunType, Writing, fileVars
  <2>2. CASE UNCHANGED repair
    BY <2>2
  <2>3. Rename \/ UNCHANGED repair
    BY DEF Next, Begin, DedupOne, CreateDir, NextFile, RepairBytes, CreateTemp, WriteAll,
           SyncAll, RemoveTemp, Signal, Crash, fileVars
  <2> QED
    BY <2>1, <2>2, <2>3
<1> QED
  BY <1>1, TypeCorrect, DurableInductive, PTL DEF Spec, FailureKeepsOutput

-----------------------------------------------------------------------------

(* Every file looked at has its content among the files retained; without    *)
(* deduplication it is retained itself.                                      *)
Represented ==
  /\ ~dedup => scanned = N /\ \A f \in Files : f <= Len(work) /\ work[f] = f
  /\ \A x \in seen : \E n \in 1..Len(work) : input[work[n]] = x
  /\ \A f \in 1..scanned : \E n \in 1..Len(work) : input[work[n]] = input[f]

(* Every retained file before at has its output, or has failed.              *)
Processed ==
  /\ pc \notin {"off", "crashed"} =>
       /\ Represented
       /\ failures = {} => \A n \in 1..at - 1 : /\ repair[work[n]] # NoFile
                                                /\ repair[work[n]].of = input[work[n]]
  /\ pc \notin {"off", "dedup", "done", "crashed"} => scanned = N
  /\ pc = "dedup" => at = 1
  /\ result = "ok" => pc = "done" /\ failures = {} /\ at > Len(work) /\ scanned = N

LEMMA SeenRepresented ==
  ASSUME TypeOK, Represented, DedupOne, dedup
  PROVE  Represented'
<1> DEFINE f == scanned + 1
<1>0. scanned \in Nat /\ N \in Nat /\ work \in Seq(Files) /\ input' = input /\ dedup' = dedup
      /\ scanned' = f
  BY RepairAssumption DEF TypeOK, LoopType, FileType, RunType, DedupOne, runVars
<1>1. \A n \in 1..Len(work) : n \in 1..Len(work') /\ work'[n] = work[n]
  BY <1>0 DEF DedupOne, Retain
<1>2. \/ Identity(f) \in seen /\ seen' = seen
      \/ /\ Len(work') = Len(work) + 1 /\ work'[Len(work) + 1] = f
         /\ seen' \subseteq seen \cup {Identity(f)}
  BY <1>0 DEF DedupOne, Retain
<1>3. \E n \in 1..Len(work') : input[work'[n]] = input[f]
  BY <1>0, <1>1, <1>2, SMTT(30) DEF Represented, Identity
<1>4. \A x \in seen' : \E n \in 1..Len(work') : input[work'[n]] = x
  BY <1>1, <1>2, <1>3 DEF Represented, Identity
<1>5. \A g \in 1..scanned' : \E n \in 1..Len(work') : input[work'[n]] = input[g]
  <2> TAKE g \in 1..scanned'
  <2>1. CASE g = f
    BY <2>1, <1>3
  <2>2. CASE g \in 1..scanned
    BY <2>2, <1>1 DEF Represented
  <2> QED
    BY <2>1, <2>2, <1>0
<1> QED
  BY <1>0, <1>4, <1>5 DEF Represented

LEMMA ProcessedInductive == Spec => []Processed
<1> USE DEF Files
<1>1. Init => Processed
  BY DEF Init, Processed
<1>2. TypeOK /\ TypeOK' /\ Durable /\ Processed /\ [Next]_vars => Processed'
  <2> SUFFICES ASSUME TypeOK, TypeOK', Durable, Processed, [Next]_vars
               PROVE  Processed'
    OBVIOUS
  <2> N \in Nat \ {0} /\ NoFile \notin Written /\ at \in Nat \ {0} /\ Len(work) \in Nat
    BY RepairAssumption DEF TypeOK, LoopType, FileType, RunType
  <2>1. ASSUME NEW in \in [Files -> Inputs], NEW d \in BOOLEAN, Begin(in, d)
        PROVE  Processed'
    BY <2>1 DEF Begin, Processed, Represented
  <2>2. CASE DedupOne
    <3>1. dedup
      BY <2>2 DEF DedupOne, Processed, Represented
    <3>2. Represented'
      BY <2>2, <3>1, SeenRepresented DEF DedupOne, Processed
    <3> QED
      BY <2>2, <3>2 DEF DedupOne, Processed, runVars, fileVars
  <2>3. CASE CreateDir
    BY <2>3 DEF CreateDir, Return, Processed, Represented, loopVars, fileVars
  <2>4. CASE NextFile
    BY <2>4 DEF NextFile, Return, Processed, Represented, loopVars, fileVars
  <2>5. CASE RepairBytes
    BY <2>5, ZenonT(60) DEF RepairBytes, Fail, Advance, Processed, Represented, runVars
  <2>6. CASE CreateTemp
    BY <2>6, ZenonT(60) DEF CreateTemp, Fail, Advance, Processed, Represented, runVars
  <2>7. CASE WriteAll
    BY <2>7 DEF WriteAll, Processed, Represented, runVars, loopVars
  <2>8. CASE SyncAll
    BY <2>8 DEF SyncAll, Processed, Represented, runVars, loopVars
  <2>9. CASE Rename
    <3>1. /\ at \in 1..Len(work) /\ work[at] \in Files /\ pc \in Writing
          /\ temp' = NoFile \/ repair' = repair
      BY <2>9 DEF Rename, TypeOK, LoopType, fileVars, Writing
    <3>2. CASE pc' = "cleanup"
      BY <2>9, <3>2 DEF Rename, Advance, Processed, Represented, runVars, fileVars
    <3>3. CASE pc' = "next"
      <4>1. /\ temp # NoFile /\ temp.of = input[work[at]] /\ at' = at + 1
            /\ repair' = [repair EXCEPT ![work[at]] = temp]
        BY <2>9, <3>3 DEF Rename, Advance, Durable, TypeOK, FileType
      <4>2. repair \in [Files -> File]
        BY DEF TypeOK, FileType
      <4>3. ASSUME NEW n \in 1..at, failures = {}
            PROVE  repair'[work[n]] # NoFile /\ repair'[work[n]].of = input[work[n]]
        <5> work[n] \in Files
          BY <3>1 DEF TypeOK, LoopType
        <5>1. CASE work[n] = work[at]
          BY <4>1, <4>2, <5>1
        <5>2. CASE work[n] # work[at]
          <6>1. n \in 1..at - 1
            BY <5>2
          <6> QED
            BY <4>1, <4>2, <4>3, <5>2, <6>1, <2>9 DEF Rename, Processed
        <5> QED
          BY <5>1, <5>2
      <4>4. at' - 1 = at
        BY <4>1
      <4> QED
        BY <2>9, <3>3, <4>3, <4>4 DEF Rename, Advance, Processed, Represented, runVars
    <3> QED
      BY <2>9, <3>2, <3>3 DEF Rename, Advance
  <2>10. CASE RemoveTemp
    BY <2>10 DEF RemoveTemp, Fail, Advance, Processed, Represented, runVars
  <2>11. CASE Signal
    BY <2>11 DEF Signal, Processed, Represented, loopVars, fileVars
  <2>12. ASSUME NEW lost \in SUBSET Files, Crash(lost)
         PROVE  Processed'
    BY <2>12 DEF Crash, Processed
  <2>13. CASE UNCHANGED vars
    BY <2>13 DEF vars, Processed, Represented, loopVars, fileVars, runVars
  <2> QED
    BY <2>1, <2>2, <2>3, <2>4, <2>5, <2>6, <2>7, <2>8, <2>9, <2>10, <2>11, <2>12, <2>13
    DEF Next
<1> QED
  BY <1>1, <1>2, TypeCorrect, DurableInductive, PTL DEF Spec

(* A run that returned success left an output for every input, its own or    *)
(* that of an input with the same DEX and records.                           *)
THEOREM SuccessRepaired == Spec => []SuccessMeansRepaired
<1>1. TypeOK /\ Processed => SuccessMeansRepaired
  <2> SUFFICES ASSUME TypeOK, Processed, result = "ok", NEW f \in Files
               PROVE  \E e \in Files : /\ input[e] = input[f] /\ (~dedup => e = f)
                                       /\ repair[e] # NoFile /\ repair[e].of = input[f]
    BY DEF SuccessMeansRepaired
  <2> USE DEF Files
  <2>1. /\ Represented /\ scanned = N /\ at > Len(work)
        /\ \A n \in 1..at - 1 : /\ repair[work[n]] # NoFile
                                /\ repair[work[n]].of = input[work[n]]
    BY DEF Processed
  <2>2. PICK n \in 1..Len(work) : input[work[n]] = input[f] /\ (~dedup => n = f)
    BY <2>1, SMTT(30) DEF Represented, TypeOK, LoopType, FileType, RunType
  <2>3. work[n] \in Files /\ (~dedup => work[n] = f) /\ n \in 1..at - 1
    BY <2>1, <2>2, SMTT(30) DEF TypeOK, LoopType, FileType, RunType, Represented
  <2> QED
    BY <2>1, <2>2, <2>3
<1> QED
  BY <1>1, TypeCorrect, ProcessedInductive, PTL

-----------------------------------------------------------------------------
(* fix_dex_directory_with.                                                   *)

FixType ==
  /\ dumped \in [Bases -> FixInputs] /\ left \subseteq Bases /\ fixing \in Bases
  /\ fixDir \in [Bases -> FixFile \cup {NoFile}]
  /\ finalDir \in [Bases -> FixFile \cup {NoFile}]
  /\ reports \in [Bases -> FixFile \cup {NoFile}]

(* A file written to its end. *)
Made(in, fixed) == [of |-> in, fixed |-> fixed, whole |-> TRUE]

(* What the loop leaves of a DEX without counting a failure. *)
Reached(f) ==
  /\ finalDir[f] = Made(dumped[f], TRUE) /\ fixDir[f] = finalDir[f]
  /\ dumped[f] \in Fixable

(* What the loop leaves of a DEX it is done with.                            *)
Settled(f) ==
  /\ \/ finalDir[f] = Made(dumped[f], FALSE)
     \/ finalDir[f] = Made(dumped[f], TRUE) /\ dumped[f] \in Fixable
  /\ \/ f \in fixFailures \/ dumped[f].records = NoRecords
     \/ Reached(f) /\ (dumped[f] \notin Covered => reports[f] = Made(dumped[f], TRUE))

(* What is known of the DEX in hand at each stage of the loop.               *)
InHand ==
  /\ stage = "write" => /\ dumped[fixing] \in Fixable
                        /\ fixDir[fixing] = Torn(dumped[fixing], TRUE)
  /\ stage = "fixed" => /\ dumped[fixing] \in Fixable
                        /\ fixDir[fixing] = Made(dumped[fixing], TRUE)
  /\ stage = "fallback" => fixing \in fixFailures
  /\ stage = "original" => dumped[fixing].records = NoRecords
  /\ stage = "copying" =>
       \/ /\ finalDir[fixing] = Torn(dumped[fixing], FALSE)
          /\ fixing \in fixFailures \/ dumped[fixing].records = NoRecords
       \/ /\ finalDir[fixing] = Torn(dumped[fixing], TRUE) /\ dumped[fixing] \in Fixable
          /\ fixDir[fixing] = Made(dumped[fixing], TRUE)
  /\ stage \in {"report", "reporting"} => Reached(fixing)
  /\ stage = "reporting" => reports[fixing] = Torn(dumped[fixing], TRUE)

Inside == {"fix", "write", "fixed", "fallback", "original", "copying", "report", "reporting"}

(* Every DEX taken is settled but the one in hand, and a run that got to the *)
(* end of its list took them all.                                            *)
FixInv ==
  /\ FixType /\ InHand
  /\ stage \in Inside => fixing \notin left
  /\ stage \in Inside \cup {"next"} =>
       \A f \in Bases \ left : stage = "next" \/ f # fixing => Settled(f)
  /\ ended \in {"ok", "failed"} => stage = "ended" /\ \A f \in Bases : Settled(f)
  /\ ended = "ok" => fixFailures = {}

(* What the loop writes are files, of fix/ and final/.                       *)
LEMMA MadeIsFile ==
  ASSUME NEW in \in FixInputs, NEW b \in BOOLEAN
  PROVE  Torn(in, b) \in FixFile /\ Made(in, b) \in FixFile /\ Made(in, b) # NoFile
<1>1. Torn(in, b) \in FixFile /\ Made(in, b) \in FixFile
  BY DEF Torn, Made, FixFile
<1> QED
  BY <1>1, FixAssumption

LEMMA MadeFields ==
  ASSUME NEW in
  PROVE  /\ Made(in, TRUE).whole /\ Made(in, TRUE).fixed /\ Made(in, TRUE).of = in
         /\ Made(in, FALSE).whole /\ ~Made(in, FALSE).fixed /\ Made(in, FALSE).of = in
BY DEF Made

LEMMA ReplaceWhole ==
  ASSUME NEW in, NEW fixed, NEW s, NEW t
  PROVE  [[of |-> in, fixed |-> fixed, whole |-> s] EXCEPT !.whole = t]
           = [of |-> in, fixed |-> fixed, whole |-> t]
OBVIOUS

(* Writing a torn file of some input to its end makes it whole.              *)
LEMMA TornMade ==
  ASSUME NEW in, NEW fixed
  PROVE  [Torn(in, fixed) EXCEPT !.whole = TRUE] = Made(in, fixed)
BY ReplaceWhole, Zenon DEF Torn, Made

LEMMA WholeMade ==
  ASSUME NEW dir, NEW b, NEW in, dir[b] = Torn(in, TRUE)
  PROVE  Whole(dir, b) = [dir EXCEPT ![b] = Made(in, TRUE)]
<1>1. ASSUME NEW torn, NEW made, dir[b] = torn, [torn EXCEPT !.whole = TRUE] = made
      PROVE  Whole(dir, b) = [dir EXCEPT ![b] = made]
  BY <1>1 DEF Whole
<1>2. [Torn(in, TRUE) EXCEPT !.whole = TRUE] = Made(in, TRUE)
  BY TornMade, Zenon
<1> QED
  BY <1>1, <1>2, Zenon

LEMMA WholeCopy ==
  ASSUME NEW dir, NEW b, NEW in, dir[b] = Torn(in, FALSE)
  PROVE  Whole(dir, b) = [dir EXCEPT ![b] = Made(in, FALSE)]
<1>1. ASSUME NEW torn, NEW made, dir[b] = torn, [torn EXCEPT !.whole = TRUE] = made
      PROVE  Whole(dir, b) = [dir EXCEPT ![b] = made]
  BY <1>1 DEF Whole
<1>2. [Torn(in, FALSE) EXCEPT !.whole = TRUE] = Made(in, FALSE)
  BY TornMade, Zenon
<1> QED
  BY <1>1, <1>2, Zenon

(* A DEX the step does not touch stays settled.                              *)
LEMMA StaysSettled ==
  ASSUME NEW f \in Bases, Settled(f), dumped' = dumped, fixFailures \subseteq fixFailures',
         finalDir'[f] = finalDir[f], fixDir'[f] = fixDir[f], reports'[f] = reports[f]
  PROVE  Settled(f)'
BY DEF Settled, Reached

LEMMA FixInductive == FixInv /\ [FixStep]_<<fixVars, runs, errors>> => FixInv'
<1> SUFFICES ASSUME FixInv, [FixStep]_<<fixVars, runs, errors>>
             PROVE  FixInv'
  OBVIOUS
<1> USE DEF Inside
<1>t. /\ FixType /\ InHand /\ dumped \in [Bases -> FixInputs] /\ fixing \in Bases /\ left \subseteq Bases
      /\ fixDir \in [Bases -> FixFile \cup {NoFile}]
      /\ finalDir \in [Bases -> FixFile \cup {NoFile}]
      /\ reports \in [Bases -> FixFile \cup {NoFile}]
  BY DEF FixInv, FixType
<1>i. /\ stage \in Inside => fixing \notin left
      /\ stage \in Inside \cup {"next"} =>
           \A f \in Bases \ left : stage = "next" \/ f # fixing => Settled(f)
      /\ ended \in {"ok", "failed"} => stage = "ended" /\ \A f \in Bases : Settled(f)
      /\ ended = "ok" => fixFailures = {}
  BY DEF FixInv
<1>f. /\ \A b \in BOOLEAN : /\ Torn(dumped[fixing], b) \in FixFile
                            /\ Made(dumped[fixing], b) \in FixFile
  <2>1. dumped[fixing] \in FixInputs
    BY <1>t
  <2> QED
    BY <2>1, MadeIsFile
<1>1. ASSUME NEW in \in [Bases -> FixInputs], FixBegin(in)
      PROVE  FixInv'
  <2>1. FixType'
    BY <1>1, <1>t DEF FixBegin, FixReturn, FixType, fixOut
  <2>2. /\ left' = Bases /\ stage' \in {"next", "ended"}
        /\ ended' \in {"none", "aborted"}
    BY <1>1 DEF FixBegin, FixReturn
  <2> QED
    BY <2>1, <2>2 DEF FixInv, InHand
<1>2. ASSUME NEW g \in left, FixNext(g)
      PROVE  FixInv'
  <2>1. /\ stage = "next" /\ stage' \in {"fix", "original"} /\ left' = left \ {g} /\ fixing' = g
        /\ stage' = "original" => dumped[g].records = NoRecords
        /\ g \in Bases /\ dumped' = dumped /\ fixFailures' = fixFailures /\ ended' = ended
        /\ fixDir' = fixDir /\ finalDir' = finalDir /\ reports' = reports
    BY <1>2, <1>t DEF FixNext, fixOut
  <2>2. FixType'
    BY <2>1, <1>t DEF FixType
  <2>3. InHand'
    BY <2>1 DEF InHand
  <2>4. ASSUME NEW f \in Bases \ left', f # g
        PROVE  Settled(f)'
    BY <2>1, <2>4, <1>i, StaysSettled
  <2>5. ended' \notin {"ok", "failed"}
    BY <2>1, <1>i
  <2> QED
    BY <2>1, <2>2, <2>3, <2>4, <2>5 DEF FixInv
<1>3. CASE FixReturns
  <2>1. /\ stage = "next" /\ left = {} /\ stage' = "ended" /\ dumped' = dumped
        /\ left' = left /\ fixing' = fixing /\ fixFailures' = fixFailures
        /\ fixDir' = fixDir /\ finalDir' = finalDir /\ reports' = reports
        /\ ended' = "ok" => fixFailures = {}
    BY <1>3 DEF FixReturns, FixReturn, fixLoop, fixOut
  <2>2. FixType'
    BY <2>1, <1>t DEF FixType
  <2>3. ASSUME NEW f \in Bases
        PROVE  Settled(f)'
    BY <2>1, <1>i, StaysSettled
  <2> QED
    BY <2>1, <2>2, <2>3 DEF FixInv, InHand
(* The steps inside the loop: each touches the files of the DEX in hand.     *)
<1>o. ASSUME stage \in Inside, dumped' = dumped, left' = left, fixing' = fixing,
             fixFailures \subseteq fixFailures', FixType', InHand',
             \A f \in Bases \ {fixing} :
               /\ finalDir'[f] = finalDir[f] /\ fixDir'[f] = fixDir[f] /\ reports'[f] = reports[f],
             \/ stage' \in Inside /\ ended' = ended
             \/ stage' = "next" /\ ended' = ended /\ Settled(fixing)'
             \/ stage' = "ended" /\ ended' = "aborted"
      PROVE  FixInv'
  <2>1. ended' \notin {"ok", "failed"}
    BY <1>o, <1>i
  <2>2. ASSUME NEW f \in Bases \ left', f # fixing
        PROVE  Settled(f)'
    <3>1. Settled(f)
      BY <1>o, <1>i, <2>2
    <3> QED
      BY <3>1, <2>2, <1>o, StaysSettled
  <2> QED
    BY <1>o, <1>i, <2>1, <2>2 DEF FixInv
<1>4. CASE FixOne
  <2>1. /\ stage = "fix" /\ dumped' = dumped /\ left' = left /\ fixing' = fixing /\ ended' = ended
        /\ finalDir' = finalDir /\ reports' = reports
        /\ \/ /\ dumped[fixing] \in Fixable /\ stage' = "write" /\ fixFailures' = fixFailures
              /\ fixDir' = [fixDir EXCEPT ![fixing] = Torn(dumped[fixing], TRUE)]
           \/ /\ stage' = "fallback" /\ fixDir' = fixDir
              /\ fixFailures' = fixFailures \cup {fixing}
    BY <1>4 DEF FixOne, Counted
  <2>2. FixType'
    BY <2>1, <1>t, <1>f DEF FixType
  <2>3. InHand'
    BY <2>1, <1>t DEF InHand
  <2>4. \A f \in Bases \ {fixing} : fixDir'[f] = fixDir[f]
    BY <2>1, <1>t
  <2> QED
    BY <2>1, <2>2, <2>3, <2>4, <1>o
<1>5. CASE WriteFix
  <2>1. /\ stage = "write" /\ dumped' = dumped /\ left' = left /\ fixing' = fixing /\ ended' = ended
        /\ finalDir' = finalDir /\ reports' = reports
        /\ \/ /\ stage' = "fixed" /\ fixFailures' = fixFailures
              /\ fixDir' = [fixDir EXCEPT ![fixing] = Made(dumped[fixing], TRUE)]
           \/ /\ stage' = "fallback" /\ fixDir' = fixDir
              /\ fixFailures' = fixFailures \cup {fixing}
    <3>1. fixDir[fixing] = Torn(dumped[fixing], TRUE)
      BY <1>5, <1>t DEF WriteFix, InHand
    <3>2. Whole(fixDir, fixing) = [fixDir EXCEPT ![fixing] = Made(dumped[fixing], TRUE)]
      BY <3>1, WholeMade, Zenon
    <3> QED
      BY <1>5, <3>2 DEF WriteFix, Counted
  <2>2. FixType'
    BY <2>1, <1>t, <1>f DEF FixType
  <2>3. InHand'
    BY <2>1, <1>t DEF InHand
  <2>4. \A f \in Bases \ {fixing} : fixDir'[f] = fixDir[f]
    BY <2>1, <1>t
  <2> QED
    BY <2>1, <2>2, <2>3, <2>4, <1>o
<1>6. CASE OpenFinal
  <2>1. /\ stage \in {"fixed", "fallback", "original"} /\ dumped' = dumped
        /\ left' = left /\ fixing' = fixing /\ fixFailures' = fixFailures
        /\ fixDir' = fixDir /\ reports' = reports
        /\ \/ /\ stage' = "copying" /\ ended' = ended
              /\ finalDir' = [finalDir EXCEPT ![fixing] = Torn(dumped[fixing], stage = "fixed")]
           \/ /\ stage' = "ended" /\ ended' = "aborted" /\ finalDir' = finalDir
    BY <1>6 DEF OpenFinal, FixReturn, fixLoop
  <2>b. /\ Torn(dumped[fixing], stage = "fixed") \in FixFile
        /\ stage = "fixed" => Torn(dumped[fixing], stage = "fixed") = Torn(dumped[fixing], TRUE)
        /\ stage # "fixed" => Torn(dumped[fixing], stage = "fixed") = Torn(dumped[fixing], FALSE)
    <3>1. (stage = "fixed") \in BOOLEAN
      OBVIOUS
    <3>2. stage = "fixed" => (stage = "fixed") = TRUE
      OBVIOUS
    <3>3. stage # "fixed" => (stage = "fixed") = FALSE
      OBVIOUS
    <3> QED
      BY <3>1, <3>2, <3>3, <1>f, Zenon
  <2> DEFINE torn == Torn(dumped[fixing], stage = "fixed")
  <2> HIDE DEF torn
  <2>c. /\ torn \in FixFile
        /\ stage = "fixed" => torn = Torn(dumped[fixing], TRUE)
        /\ stage # "fixed" => torn = Torn(dumped[fixing], FALSE)
        /\ \/ /\ stage' = "copying" /\ ended' = ended
              /\ finalDir' = [finalDir EXCEPT ![fixing] = torn]
           \/ /\ stage' = "ended" /\ ended' = "aborted" /\ finalDir' = finalDir
    BY <2>1, <2>b, Zenon DEF torn
  <2>2. FixType'
    BY <2>1, <2>c, <1>t DEF FixType
  <2>3. InHand'
    BY <2>1, <2>c, <1>t DEF InHand
  <2>4. \A f \in Bases \ {fixing} : finalDir'[f] = finalDir[f]
    BY <2>1, <2>c, <1>t
  <2> QED
    BY <2>1, <2>2, <2>3, <2>4, <1>o
<1>7. CASE CopyFinal
  <2>0. /\ stage = "copying" /\ dumped' = dumped /\ left' = left /\ fixing' = fixing
        /\ fixFailures' = fixFailures /\ fixDir' = fixDir /\ reports' = reports
        /\ \/ /\ finalDir' = Whole(finalDir, fixing) /\ ended' = ended
              /\ stage' = IF Reported THEN "report" ELSE "next"
           \/ stage' = "ended" /\ ended' = "aborted" /\ finalDir' = finalDir
    BY <1>7 DEF CopyFinal, CopyFails, FixReturn
  <2>1. CASE finalDir' = finalDir /\ stage' = "ended" /\ ended' = "aborted"
    <3>1. FixType' /\ InHand'
      BY <2>0, <2>1, <1>t DEF FixType, InHand
    <3> QED
      BY <2>0, <2>1, <3>1, <1>o
  <2>2. CASE /\ finalDir' = Whole(finalDir, fixing) /\ ended' = ended
             /\ stage' = IF Reported THEN "report" ELSE "next"
    <3>1. CASE /\ finalDir[fixing] = Torn(dumped[fixing], FALSE)
               /\ fixing \in fixFailures \/ dumped[fixing].records = NoRecords
      <4>0. Whole(finalDir, fixing) = [finalDir EXCEPT ![fixing] = Made(dumped[fixing], FALSE)]
        <5>1. finalDir[fixing] = Torn(dumped[fixing], FALSE)
          BY <3>1
        <5> QED
          BY <5>1, WholeCopy, Zenon
      <4>1. finalDir' = [finalDir EXCEPT ![fixing] = Made(dumped[fixing], FALSE)]
        BY <2>2, <4>0, Zenon
      <4>2. ~Reported /\ stage' = "next"
        BY <2>2, <3>1 DEF Reported, Torn
      <4>3. FixType' /\ InHand'
        BY <2>0, <4>1, <4>2, <1>t, <1>f DEF FixType, InHand
      <4>4. Settled(fixing)'
        BY <2>0, <3>1, <4>1, <1>t DEF Settled
      <4>5. \A f \in Bases \ {fixing} : finalDir'[f] = finalDir[f]
        BY <4>1, <1>t
      <4> QED
        BY <2>0, <2>2, <4>2, <4>3, <4>4, <4>5, <1>o
    <3>2. CASE /\ finalDir[fixing] = Torn(dumped[fixing], TRUE) /\ dumped[fixing] \in Fixable
               /\ fixDir[fixing] = Made(dumped[fixing], TRUE)
      <4>0. Whole(finalDir, fixing) = [finalDir EXCEPT ![fixing] = Made(dumped[fixing], TRUE)]
        <5>1. finalDir[fixing] = Torn(dumped[fixing], TRUE)
          BY <3>2
        <5> QED
          BY <5>1, WholeMade, Zenon
      <4>1. finalDir' = [finalDir EXCEPT ![fixing] = Made(dumped[fixing], TRUE)]
        BY <2>2, <4>0, Zenon
      <4>2. stage' = IF dumped[fixing] \notin Covered THEN "report" ELSE "next"
        BY <2>2, <3>2 DEF Reported, Torn
      <4>3. Reached(fixing)'
        BY <2>0, <3>2, <4>1, <1>t DEF Reached
      <4>4. FixType' /\ InHand'
        BY <2>0, <4>1, <4>2, <4>3, <1>t, <1>f DEF FixType, InHand
      <4>5. dumped[fixing] \in Covered => Settled(fixing)'
        BY <2>0, <3>2, <4>1, <4>3, <1>t DEF Settled
      <4>6. \A f \in Bases \ {fixing} : finalDir'[f] = finalDir[f]
        BY <4>1, <1>t
      <4> QED
        BY <2>0, <2>2, <4>2, <4>4, <4>5, <4>6, <1>o
    <3> QED
      BY <2>0, <3>1, <3>2, <1>t DEF InHand
  <2> QED
    BY <2>0, <2>1, <2>2
<1>8. CASE OpenReport
  <2>1. /\ stage = "report" /\ dumped' = dumped /\ left' = left /\ fixing' = fixing
        /\ ended' = ended /\ fixDir' = fixDir /\ finalDir' = finalDir
        /\ \/ /\ reports' = [reports EXCEPT ![fixing] = Torn(dumped[fixing], TRUE)]
              /\ stage' = "reporting" /\ fixFailures' = fixFailures
           \/ /\ stage' = "next" /\ reports' = reports
              /\ fixFailures' = fixFailures \cup {fixing}
    BY <1>8 DEF OpenReport, Counted
  <2>2. FixType'
    BY <2>1, <1>t, <1>f DEF FixType
  <2>3. Reached(fixing)'
    BY <2>1, <1>t DEF InHand, Reached
  <2>4. InHand'
    BY <2>1, <2>3, <1>t DEF InHand
  <2>5. stage' = "next" => Settled(fixing)'
    BY <2>1, <2>3 DEF Settled, Reached
  <2>6. \A f \in Bases \ {fixing} : reports'[f] = reports[f]
    BY <2>1, <1>t
  <2> QED
    BY <2>1, <2>2, <2>4, <2>5, <2>6, <1>o
<1>9. CASE WriteReport
  <2>1. /\ stage = "reporting" /\ dumped' = dumped /\ left' = left /\ fixing' = fixing
        /\ ended' = ended /\ fixDir' = fixDir /\ finalDir' = finalDir /\ stage' = "next"
        /\ \/ /\ reports' = [reports EXCEPT ![fixing] = Made(dumped[fixing], TRUE)]
              /\ fixFailures' = fixFailures
           \/ reports' = reports /\ fixFailures' = fixFailures \cup {fixing}
    <3>1. reports[fixing] = Torn(dumped[fixing], TRUE)
      BY <1>9, <1>t DEF WriteReport, InHand
    <3>2. Whole(reports, fixing) = [reports EXCEPT ![fixing] = Made(dumped[fixing], TRUE)]
      BY <3>1, WholeMade, Zenon
    <3> QED
      BY <1>9, <3>2 DEF WriteReport, Counted
  <2>2. FixType'
    BY <2>1, <1>t, <1>f DEF FixType
  <2>3. Reached(fixing)'
    BY <2>1, <1>t DEF InHand, Reached
  <2>4. Settled(fixing)'
    BY <2>1, <2>3, <1>t DEF Settled, Reached
  <2>5. \A f \in Bases \ {fixing} : reports'[f] = reports[f]
    BY <2>1, <1>t
  <2> QED
    BY <2>1, <2>2, <2>4, <2>5, <1>o DEF InHand
<1>10. CASE Kill
  <2>1. FixType' /\ InHand'
    BY <1>10, <1>t DEF Kill, fixLoop, fixOut, FixType, InHand
  <2> QED
    BY <1>10, <2>1, <1>i DEF Kill, FixInv
<1>11. CASE UNCHANGED <<fixVars, runs, errors>>
  <2> USE <1>11 DEF fixVars, fixLoop, fixOut
  <2>1. FixType' /\ InHand'
    BY <1>t DEF FixType, InHand, Reached
  <2>2. \A f \in Bases : Settled(f) => Settled(f)'
    BY StaysSettled
  <2> QED
    BY <2>1, <2>2, <1>i DEF FixInv
<1> QED
  BY <1>1, <1>2, <1>3, <1>4, <1>5, <1>6, <1>7, <1>8, <1>9, <1>10, <1>11 DEF FixStep

LEMMA FixInvariance == FixSpec => []FixInv
<1>1. FixInit => FixInv
  BY FixAssumption DEF FixInit, FixInv, FixType, InHand, Inside
<1> QED
  BY <1>1, FixInductive, PTL DEF FixSpec

(* A run of the fix command that got through its list leaves a whole file of *)
(* every DEX in final/, whatever earlier runs, cut short anywhere, had left. *)
THEOREM FinalSettled == FixSpec => []FinalWhole
<1>1. FixInv => FinalWhole
  <2> SUFFICES ASSUME FixInv, ended \in {"ok", "failed"}, NEW f \in Bases
               PROVE  /\ finalDir[f] # NoFile /\ finalDir[f].whole /\ finalDir[f].of = dumped[f]
                      /\ finalDir[f].fixed => dumped[f] \in Fixable
    BY DEF FinalWhole
  <2>1. Settled(f) /\ dumped[f] \in FixInputs
    BY DEF FixInv, FixType
  <2>2. \A b \in BOOLEAN : Made(dumped[f], b) # NoFile
    BY <2>1, MadeIsFile
  <2> QED
    BY <2>1, <2>2, MadeFields, Zenon DEF Settled
<1> QED
  BY <1>1, FixInvariance, PTL

(* A run of the fix command that returned success fixed every DEX that has   *)
(* records, and reported what is missing of it.                              *)
THEOREM SuccessFixed == FixSpec => []SuccessMeansFixed
<1>1. FixInv => SuccessMeansFixed
  <2> SUFFICES ASSUME FixInv, ended = "ok", NEW f \in Bases, dumped[f].records # NoRecords
               PROVE  /\ finalDir[f].fixed /\ fixDir[f] = finalDir[f]
                      /\ dumped[f] \notin Covered =>
                           reports[f] # NoFile /\ reports[f].whole /\ reports[f].of = dumped[f]
    BY DEF SuccessMeansFixed
  <2>1. Settled(f) /\ dumped[f] \in FixInputs /\ fixFailures = {}
    BY DEF FixInv, FixType
  <2>2. Made(dumped[f], TRUE) # NoFile
    BY <2>1, MadeIsFile
  <2> QED
    BY <2>1, <2>2, MadeFields, Zenon DEF Settled, Reached
<1> QED
  BY <1>1, FixInvariance, PTL
=============================================================================
