------------------------------- MODULE MCNative ------------------------------
(* What the program does about native code: a session either has the native  *)
(* buffer probes at work, or sees a process register native methods, and     *)
(* dumpso groups the maps of a process.  They share no state.                *)
EXTENDS NativeCapture, JniSymbols, SoModules, TLC
CONSTANTS MaxPage, Unmapped, t1, t2, b1, p1, p2, f1, m1, m2, la, lb, lc, ld, sa, sb

(* Two libraries of one name, and one whose name is sanitized to another's. *)
MCNameOf == (la :> "x") @@ (lb :> "x") @@ (lc :> "y+") @@ (ld :> "y_")
MCFileOf == ("x" :> "x") @@ ("y+" :> "y_") @@ ("y_" :> "y_")

(* Every content of the pages 1..MaxPage. *)
Pages ==
  {[path |-> p, head |-> "plain"] : p \in SoPaths \cup {Named, Unmapped}}
    \cup {[path |-> Nameless, head |-> h] : h \in {"elf", "plain", "unreadable"}}

MCLayouts ==
  {SelectSeq([n \in 1..MaxPage |->
                [start |-> n, end |-> n + 1, path |-> page[n].path, head |-> page[n].head]],
             LAMBDA e : e.path # Unmapped) : page \in [1..MaxPage -> Pages]}

NoLibs  == home = [p \in Pids |-> [f \in Fns |-> NoLib]]
NoGroup == maps = <<>> /\ options.filter = {} /\ ~options.anon /\ ~options.system

VARIABLE part
MCInit ==
  /\ Init /\ JniInit /\ GroupInit
  /\ \/ part = "buffers" /\ NoLibs /\ NoGroup
     \/ part = "methods" /\ NoGroup
     \/ part = "modules" /\ NoLibs

MCNext ==
  /\ UNCHANGED part
  /\ \/ part = "buffers" /\ Next /\ UNCHANGED <<jniVars, groupVars>>
     \/ part = "methods" /\ JniNext /\ UNCHANGED <<vars, groupVars>>
     \/ part = "modules" /\ GroupNext /\ UNCHANGED <<vars, jniVars>>

MCSpec == MCInit /\ [][MCNext]_<<part, vars, jniVars, groupVars>>

Symmetric == Permutations(Threads) \cup Permutations(Pids) \cup Permutations(Names)
=============================================================================
