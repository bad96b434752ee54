------------------------------- MODULE SoWatch -------------------------------
(***************************************************************************)
(* watch_and_dump of src/so.rs: each pass lists a process's modules, takes *)
(* a fingerprint of each, marks those that are new or changed, and dumps   *)
(* them, while the process goes on loading, unloading and rewriting.  A    *)
(* fingerprint samples a module, so two contents may share one.            *)
(***************************************************************************)
EXTENDS Naturals

CONSTANTS
  Keys,       \* pid, base and end of a module: no part of a key tells its library
  Contents,   \* what a module's memory may hold
  Gone,       \* nothing is mapped there
  None,       \* no file, no fingerprint
  Damaged,    \* a file with holes or cut short
  FP,         \* FP[c] = module_fingerprint of content c, and of Gone
  MaxRedumps, \* WATCH_MAX_REDUMPS
  MaxChanges  \* bound: changes of the process

ASSUME WatchAssumption ==
  /\ DOMAIN FP = Contents \cup {Gone} /\ Gone \notin Contents
  /\ \A c \in Contents \cup {Gone} : FP[c] # None
  /\ MaxRedumps \in Nat /\ MaxChanges \in Nat

VARIABLES
  memory,    \* memory[k] = what is mapped at k
  at,        \* where watch_and_dump is
  mods,      \* modules listed and not looked at yet
  fresh,     \* modules to dump in this pass
  seen,      \* [fp, dumps] of each key; no dumps: not in the map
  file,      \* file[k] = what the output for k holds
  stopping,  \* ~keep_running()
  expired,   \* the deadline has passed
  steady,    \* history: modules unchanged since this pass listed them
  spoilt,    \* history: keys the last capture of which failed, in part or whole,
             \* or met another content than the one that was marked
  changes    \* counter of the bound

watchVars == <<memory, at, mods, fresh, seen, file, stopping, expired, steady, spoilt,
               changes>>

WatchInit ==
  /\ memory \in [Keys -> Contents \cup {Gone}]
  /\ at = "scan" /\ mods = {} /\ fresh = {}
  /\ seen = [k \in Keys |-> [fp |-> None, dumps |-> 0]]
  /\ file = [k \in Keys |-> None]
  /\ stopping = FALSE /\ expired = FALSE /\ steady = {} /\ spoilt = {}
  /\ changes = 0

(* The process loads, unloads or rewrites a module. *)
Change(k, c) ==
  /\ changes < MaxChanges /\ memory[k] # c
  /\ memory' = [memory EXCEPT ![k] = c]
  /\ steady' = steady \ {k}
  /\ changes' = changes + 1
  /\ UNCHANGED <<at, mods, fresh, seen, file, stopping, expired, spoilt>>

(* scan_so_modules, or its failure, which passes the process over. *)
Scan ==
  /\ at = "scan"
  /\ \/ /\ mods' = {k \in Keys : memory[k] # Gone}
        /\ at' = "look"
        /\ steady' = mods'
     \/ at' = "check" /\ steady' = {} /\ UNCHANGED mods
  /\ UNCHANGED <<memory, fresh, seen, file, stopping, expired, spoilt, changes>>

(* One module: settled, unchanged since its last capture, or marked. *)
Look(k) ==
  LET fp == FP[memory[k]]
  IN /\ at = "look" /\ k \in mods
     /\ mods' = mods \ {k}
     /\ IF seen[k].dumps >= MaxRedumps \/ seen[k].fp = fp
        THEN UNCHANGED <<seen, fresh>>
        ELSE /\ seen' = [seen EXCEPT ![k] = [fp |-> fp, dumps |-> @.dumps + 1]]
             /\ fresh' = fresh \cup {k}
     /\ UNCHANGED <<memory, at, file, stopping, expired, steady, spoilt, changes>>

Looked ==
  /\ at = "look" /\ mods = {}
  /\ at' = "dump"
  /\ UNCHANGED <<memory, mods, fresh, seen, file, stopping, expired, steady, spoilt, changes>>

(* Mutant of DumpOne: a module that cannot be read ends the list. *)
DumpUntilFailure(k) ==
  /\ at = "dump" /\ k \in fresh
  /\ IF memory[k] = Gone THEN fresh' = {} /\ spoilt' = spoilt \cup {k} /\ UNCHANGED file
     ELSE /\ fresh' = fresh \ {k} /\ file' = [file EXCEPT ![k] = memory[k]]
          /\ spoilt' = IF FP[memory[k]] = seen[k].fp THEN spoilt \ {k} ELSE spoilt \cup {k}
  /\ UNCHANGED <<memory, at, mods, seen, stopping, expired, steady, changes>>

(* dump_so_modules, one module: nothing could be read, or the output is     *)
(* replaced, by the whole module or with holes, or the write broke off.     *)
DumpOne(k) ==
  /\ at = "dump" /\ k \in fresh
  /\ fresh' = fresh \ {k}
  /\ \/ spoilt' = spoilt \cup {k} /\ UNCHANGED file
     \/ /\ memory[k] # Gone
        /\ file' = [file EXCEPT ![k] = memory[k]]
        /\ spoilt' = IF FP[memory[k]] = seen[k].fp THEN spoilt \ {k} ELSE spoilt \cup {k}
     \/ /\ memory[k] # Gone
        /\ file' = [file EXCEPT ![k] = Damaged]
        /\ spoilt' = spoilt \cup {k}
  /\ UNCHANGED <<memory, at, mods, seen, stopping, expired, steady, changes>>

Dumped ==
  /\ at = "dump" /\ fresh = {}
  /\ at' = "check"
  /\ UNCHANGED <<memory, mods, fresh, seen, file, stopping, expired, steady, spoilt, changes>>

(* Mutant of Leaves: the deadline is not looked at. *)
NoDeadline == stopping

(* The two conditions after a pass. *)
Leaves == stopping \/ expired

(* The end of a pass, and the sleep, which a stop request cuts short. *)
EndPass ==
  /\ at = "check"
  /\ at' = IF Leaves THEN "done" ELSE "sleep"
  /\ UNCHANGED <<memory, mods, fresh, seen, file, stopping, expired, steady, spoilt, changes>>

Sleep ==
  /\ at = "sleep"
  /\ at' = IF stopping THEN "done" ELSE "scan"
  /\ UNCHANGED <<memory, mods, fresh, seen, file, stopping, expired, steady, spoilt, changes>>

(* A stop signal, or the deadline. *)
Interrupt ==
  /\ at # "done"
  /\ \/ stopping' = TRUE /\ UNCHANGED expired
     \/ expired' = TRUE /\ UNCHANGED stopping
  /\ UNCHANGED <<memory, at, mods, fresh, seen, file, steady, spoilt, changes>>

WatchStep ==
  \/ Scan \/ Looked \/ Dumped \/ EndPass \/ Sleep
  \/ \E k \in Keys : Look(k) \/ DumpOne(k)

WatchNext ==
  \/ WatchStep \/ Interrupt
  \/ at # "done" /\ \E k \in Keys, c \in Contents \cup {Gone} : Change(k, c)

WatchSpec == WatchInit /\ [][WatchNext]_watchVars

-----------------------------------------------------------------------------

Settled(k) == seen[k].dumps >= MaxRedumps

(* After a pass, the output of each module that did not change in it has a  *)
(* content of its fingerprint, unless its key was captured too often        *)
(* already, or its last capture is spoilt: failed, or made of what the      *)
(* module became after it was marked, which returning to the marked content *)
(* hides from every later pass.                                             *)
CapturedInPass ==
  at = "check" => \A k \in steady :
    \/ Settled(k) \/ k \in spoilt
    \/ file[k] \in Contents /\ FP[file[k]] = FP[memory[k]]

(* A stop signal or the deadline ends the watch, though the process goes on  *)
(* loading and changing modules: either is only looked at between passes.    *)
StopEndsWatch == stopping \/ expired ~> at = "done"
=============================================================================
