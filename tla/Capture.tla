------------------------------- MODULE Capture -------------------------------
(***************************************************************************)
(* The probes of BpfCapture and the user-space loop of src/dump.rs that    *)
(* drains their rings: is a DEX that stays mapped captured?  The collector *)
(* is reduced to the life of one body: under assembly, saved, or forgotten. *)
(* Its threads and its quarantine are DumpState's.                         *)
(***************************************************************************)
EXTENDS BpfCapture

CONSTANT Lossy  \* saves may be refused, and pending bodies may expire

ASSUME LossyAssumption == Lossy \in BOOLEAN

VARIABLES
  pending,   \* pending_dex: parts received of a body under assembly
  saved,     \* dex_cache
  recorded,  \* method_records: methods with a bytecode record
  forgotten  \* history: DEXes whose pending body was dropped unsaved

userVars == <<pending, saved, recorded, forgotten>>
vars == <<bpfVars, userVars>>

Init ==
  /\ BpfInit
  /\ pending = [d \in Dexes |-> {}]
  /\ saved = {} /\ recorded = {} /\ forgotten = {}

(* save_dex writes the body, or returns early: a system path, an unreadable *)
(* header, a failing write, the seal.  The pending body is gone either way. *)
SaveDex(d) ==
  /\ pending' = [pending EXCEPT ![d] = {}]
  /\ \/ saved' = saved \cup {d} /\ UNCHANGED forgotten
     \/ Lossy /\ forgotten' = forgotten \cup {d} /\ UNCHANGED saved

HandleDexEvent ==
  /\ TakeFrom("events")
  /\ UNCHANGED userVars

(* Mutant of HandleDexChunk: the last part received stands for completion. *)
HandleTail ==
  LET x == Head(ring["dex_chunks"])
      got == pending[x.dex] \cup {x.part}
  IN /\ TakeFrom("dex_chunks")
     /\ IF x.dex \in saved THEN UNCHANGED <<pending, saved, forgotten>>
        ELSE IF x.part = Size[x.dex] - 1
        THEN pending' = [pending EXCEPT ![x.dex] = {}] /\ UNCHANGED <<saved, forgotten>>
        ELSE pending' = [pending EXCEPT ![x.dex] = got] /\ UNCHANGED <<saved, forgotten>>
     /\ UNCHANGED recorded

HandleDexChunk ==
  LET x == Head(ring["dex_chunks"])
      got == pending[x.dex] \cup {x.part}
  IN /\ TakeFrom("dex_chunks")
     /\ IF x.dex \in saved THEN UNCHANGED <<pending, saved, forgotten>>
        ELSE IF got = Parts(x.dex) THEN SaveDex(x.dex)
        ELSE pending' = [pending EXCEPT ![x.dex] = got] /\ UNCHANGED <<saved, forgotten>>
     /\ UNCHANGED recorded

(* The fallback reads nothing, or a body that goes to save_dex. *)
HandleReadFailure ==
  LET d == Head(ring["read_failures"])
  IN /\ TakeFrom("read_failures")
     /\ \/ UNCHANGED <<pending, saved, forgotten>>
        \/ d \notin saved /\ SaveDex(d)
     /\ UNCHANGED recorded

HandleMethodEvent ==
  LET x == Head(ring["method_events"])
  IN /\ TakeFrom("method_events")
     /\ recorded' = IF x.code THEN recorded \cup {x.method} ELSE recorded
     /\ UNCHANGED <<pending, saved, forgotten>>

(* No chunk for 30 s, or the key was quarantined. *)
Expire(d) ==
  /\ Lossy /\ pending[d] # {}
  /\ pending' = [pending EXCEPT ![d] = {}]
  /\ forgotten' = forgotten \cup {d}
  /\ UNCHANGED <<bpfVars, saved, recorded>>

UserStep == HandleDexEvent \/ HandleDexChunk \/ HandleReadFailure \/ HandleMethodEvent

Next ==
  \/ ProbeStep /\ UNCHANGED userVars
  \/ UserStep
  \/ \E d \in Dexes : Expire(d)

Spec == Init /\ [][Next]_vars

(* The program keeps executing methods of every DEX, a probe that was hit    *)
(* runs to its end, and the loop comes back to every ring.                   *)
BusySpec ==
  /\ Spec
  /\ \A c \in CPUs : WF_vars(CPUStep(c) /\ UNCHANGED userVars)
  /\ \A d \in Dexes :
       SF_vars(\E c \in CPUs, m \in Methods \cup {NoMethod} : Hit(c, d, m) /\ UNCHANGED userVars)
  /\ WF_vars(HandleDexEvent) /\ WF_vars(HandleDexChunk)
  /\ WF_vars(HandleReadFailure) /\ WF_vars(HandleMethodEvent)

-----------------------------------------------------------------------------

(* Type invariant of the composition. *)
TypeOK ==
  /\ MapsType /\ RingsType /\ CPUsType /\ HistType
  /\ DOMAIN pending = Dexes /\ \A d \in Dexes : pending[d] \subseteq Parts(d)
  /\ saved \subseteq Dexes /\ recorded \subseteq Methods /\ forgotten \subseteq Dexes

(* Every part that was sent is waiting, under assembly, saved, or was        *)
(* forgotten with its body; a body under assembly is never a whole one.      *)
PartsKept ==
  \A d \in Dexes :
    /\ d \in saved => pending[d] = {}
    /\ pending[d] # Parts(d)
    /\ d \notin saved \cup forgotten =>
         \A p \in sent[d] : p \in pending[d] \/ [dex |-> d, part |-> p] \in Waiting("dex_chunks")

(* A DEX the probes take for finished, and will never send again, is saved   *)
(* once its chunks are drained, unless its body was dropped in user space:   *)
(* overwritten progress, evicted entries, full rings and failed reads lose   *)
(* no part of it.                                                            *)
FinishedIsSaved ==
  \A d \in Dexes \ forgotten :
    dexProgress[d] >= Size[d] /\ (\A x \in Waiting("dex_chunks") : x.dex # d) => d \in saved

(* Bytecode of a method the probes will not read again is on its way or in   *)
(* the records, unless its ring was full.                                    *)
MarkedMethodRecorded ==
  \A m \in methodCodeCache \ lost :
    \/ m \in recorded
    \/ [method |-> m, code |-> TRUE] \in Waiting("method_events")
    \/ \E c \in CPUs : run[c].method = m /\ run[c].code

(* A DEX whose methods keep being executed is saved in the end on one CPU,    *)
(* although a call ends after MaxChunks parts, the rings it shares with        *)
(* another DEX fill up, and its progress may be evicted; nothing is dropped in *)
(* user space and every page is resident.                                      *)
EventuallySaved == \A d \in Dexes : <>(d \in saved)
=============================================================================
