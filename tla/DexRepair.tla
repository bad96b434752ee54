------------------------------ MODULE DexRepair ------------------------------
(***************************************************************************)
(* restore_bytecode of src/fix.rs and the validation after it: captured    *)
(* bytecode goes into the code_items it fits exactly, and every other      *)
(* method with a capture gets a new code_item when all live items are      *)
(* copied to the end of the file.  A body is Old or the number of the      *)
(* record it came from; what it decodes to, the map's other sections and   *)
(* the header, which are rebuilt from what is found, are left out.         *)
(***************************************************************************)
EXTENDS Naturals, Sequences

CONSTANTS
  MaxMethod,   \* method indices are 1..MaxMethod, in the order of class_data
  Lens,        \* lengths of a body
  MaxRecords,  \* bound: records of the DEX
  Nulled, Outside,  \* a code_off of 0, and one that leads to no whole code_item
  Old, NoBody  \* the body a code_item came with, and none

MethodIds == 1..MaxMethod

ASSUME DexAssumption ==
  /\ MaxMethod \in Nat /\ MaxRecords \in Nat /\ Lens \subseteq Nat /\ 1 \in Lens
  /\ Nulled \notin MethodIds /\ Outside \notin MethodIds
  /\ Old # NoBody /\ Old \notin 0..MaxRecords /\ NoBody \notin 0..MaxRecords

VARIABLES
  records,   \* the JSON's records: [m, len, decodes]
  force,     \* --force-mismatch
  codeless,  \* abstract and native methods
  offs,      \* code_off: a code_item, named for the first method it was written for
  lens,      \* insns_size of each code_item
  sound,     \* code_items whose tries and handlers can be read
  mapped,    \* code_items the map counts
  body,      \* what each code_item holds
  step,      \* "in_place", "plan", "relocate", "validate", "repaired", "failed"
  next,      \* record the in-place pass is at
  by_method, \* the record that counts for a method, or 0
  pending,   \* pending_code: the record of a method's new code_item, or 0
  inline,    \* records written in place
  failed, unrecovered,  \* methods counted as append_failed, unrecovered
  final,     \* per method, in the end: its body
  offs0      \* history: code_off in the input

input   == <<records, force, codeless, lens, sound, mapped, offs0>>
dexVars == <<input, offs, body, step, next, by_method, pending, inline, failed, unrecovered, final>>

DexInit ==
  /\ records \in UNION {[1..n -> [m : MethodIds, len : Lens, decodes : BOOLEAN]] : n \in 0..MaxRecords}
  /\ force \in BOOLEAN /\ codeless \in SUBSET MethodIds
  /\ offs \in [MethodIds -> MethodIds \cup {Nulled, Outside}]
  /\ \A m \in MethodIds : offs[m] \in MethodIds => offs[m] <= m
  /\ lens \in [MethodIds -> Lens \ {0}]
  /\ sound \in SUBSET MethodIds
  /\ \A k \in MethodIds \ {offs[m] : m \in MethodIds} : k \in sound /\ lens[k] = 1
  /\ mapped \in SUBSET MethodIds
  /\ body = [m \in MethodIds |-> Old]
  /\ step = "in_place" /\ next = 1 /\ by_method = [m \in MethodIds |-> 0]
  /\ pending = [m \in MethodIds |-> 0]
  /\ inline = {} /\ failed = {} /\ unrecovered = {}
  /\ final = [m \in MethodIds |-> NoBody] /\ offs0 = offs

(* code_item_insns_len gives a length. *)
OnDisk(m) == offs[m] \in MethodIds

(* Mutant of Fits: the flag diverts a mismatch into the old code_item. *)
FitsForced(r) == OnDisk(r.m) /\ (force \/ r.len = lens[offs[r.m]])

Fits(r) == OnDisk(r.m) /\ r.len = lens[offs[r.m]]

(* Mutant of ByMethod: the first record of a method counts. *)
FirstByMethod(m, n) == [by_method EXCEPT ![m] = IF @ = 0 THEN n ELSE @]

(* by_method is collected from the records: the last of a method counts. *)
ByMethod(m, n) == [by_method EXCEPT ![m] = n]

(* One record: apply_records_to_dex with force_mismatch off, and by_method. *)
TakeRecord ==
  LET r == records[next]
  IN /\ step = "in_place" /\ next <= Len(records)
     /\ next' = next + 1
     /\ by_method' = ByMethod(r.m, next)
     /\ IF Fits(r)
        THEN body' = [body EXCEPT ![offs[r.m]] = next] /\ inline' = inline \cup {next}
        ELSE UNCHANGED <<body, inline>>
     /\ UNCHANGED <<input, offs, step, pending, failed, unrecovered, final>>

RecordsTaken ==
  /\ step = "in_place" /\ next > Len(records)
  /\ step' = "plan"
  /\ UNCHANGED <<input, offs, body, next, by_method, pending, inline, failed, unrecovered, final>>

(* synthesize_code_item succeeds. *)
Usable(r) == r.len > 0 /\ (r.decodes \/ force)

(* Methods whose record is not the one the in-place pass wrote. *)
Rebuilt ==
  {m \in MethodIds \ codeless :
     by_method[m] # 0 /\ ~(OnDisk(m) /\ records[by_method[m]].len = lens[offs[m]])}

(* Mutant of Bodyless: a method without a record and a body is passed over. *)
NoneBodyless == {}

Bodyless == {m \in MethodIds \ codeless : by_method[m] = 0 /\ ~OnDisk(m)}

(* append_missing_code_items up to the relocation. *)
Plan ==
  /\ step = "plan"
  /\ IF \E m \in MethodIds \ codeless : OnDisk(m) /\ offs[m] \notin sound
     THEN step' = "failed" /\ UNCHANGED <<offs, pending, failed, unrecovered>>
     ELSE LET built == {m \in Rebuilt : Usable(records[by_method[m]])}
          IN /\ pending' = [m \in MethodIds |-> IF m \in built THEN by_method[m] ELSE 0]
             /\ failed' = Rebuilt \ built
             /\ unrecovered' = Bodyless
             /\ offs' = [m \in MethodIds |-> IF m \in Bodyless THEN Nulled ELSE offs[m]]
             /\ step' = IF built \cup Bodyless = {} THEN "validate" ELSE "relocate"
  /\ UNCHANGED <<input, body, next, by_method, inline, final>>

(* Mutant of Copied: only the new code_items are written. *)
OnlyNew(m) == pending[m] # 0

(* Methods that have a code_item after the relocation. *)
Copied(m) == pending[m] # 0 \/ offs[m] # Nulled

(* The relocation, which reads each old code_item to its end. *)
Relocate ==
  /\ step = "relocate"
  /\ IF \E m \in MethodIds : pending[m] = 0 /\ offs[m] # Nulled /\ offs[m] \notin sound
     THEN step' = "failed" /\ UNCHANGED final
     ELSE /\ final' = [m \in MethodIds |->
                IF ~Copied(m) THEN NoBody ELSE IF pending[m] # 0 THEN pending[m] ELSE body[offs[m]]]
          /\ step' = "repaired"
  /\ UNCHANGED <<input, offs, body, next, by_method, pending, inline, failed, unrecovered>>

(* validate_repaired_dex of a file that was not relocated: the live code_items *)
(* can be read and are those the map counts.  A relocated one passes.          *)
Validate ==
  LET live == {offs[m] : m \in MethodIds} \ {Nulled}
  IN /\ step = "validate"
     /\ IF live \subseteq sound /\ live = mapped
        THEN /\ final' = [m \in MethodIds |-> IF offs[m] = Nulled THEN NoBody ELSE body[offs[m]]]
             /\ step' = "repaired"
        ELSE step' = "failed" /\ UNCHANGED final
     /\ UNCHANGED <<input, offs, body, next, by_method, pending, inline, failed, unrecovered>>

Ended == step \in {"repaired", "failed"} /\ UNCHANGED dexVars

DexNext == TakeRecord \/ RecordsTaken \/ Plan \/ Relocate \/ Validate \/ Ended

DexSpec == DexInit /\ [][DexNext]_dexVars

-----------------------------------------------------------------------------

(* The two passes are disjoint whether or not --force-mismatch is given: no  *)
(* record is both written in place and wrapped in a new code_item.           *)
PassesDisjoint == \A m \in MethodIds : pending[m] \notin inline

(* Who may have written the code_item m had. *)
Sharing(m) == {k \in MethodIds : offs0[k] = offs0[m]}

RecordsOf(m) == {n \in DOMAIN records : records[n].m = m}

(* A method whose last capture is usable has it in the end, and no other     *)
(* bytecode unless it shared its code_item: an earlier capture that fitted   *)
(* in place does not survive a later one that did not.                       *)
LastCaptureWins ==
  step = "repaired" => \A m \in MethodIds \ codeless : \A n \in RecordsOf(m) :
    Usable(records[n]) /\ (\A k \in RecordsOf(m) : k <= n) =>
      \/ final[m] = n
      \/ \E k \in Sharing(m) \ {m} : final[m] \in RecordsOf(k)

(* A method without a capture keeps the body it had, also when its file is   *)
(* laid out anew, unless it shares its code_item with one that has captures. *)
OthersKept ==
  step = "repaired" => \A m \in MethodIds :
    RecordsOf(m) = {} /\ offs0[m] \in MethodIds =>
      final[m] = Old \/ \E k \in Sharing(m) : final[m] \in RecordsOf(k)

(* No method is left without a body and uncounted. *)
LossCounted ==
  step = "repaired" => \A m \in MethodIds \ codeless :
    final[m] = NoBody => m \in failed \cup unrecovered
=============================================================================
