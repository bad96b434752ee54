----------------------------- MODULE MCAlgorithms ------------------------------
(* Three of the algorithms, each from every input of a small set: the chunk   *)
(* intervals of the collector, the way from a method to its DEX in the        *)
(* probes, and the restoring of bytecode in the repair.  They share nothing.  *)
EXTENDS RecordIntervals, ArtChain, DexRepair
CONSTANTS m1, m2

MCSearch == <<1, 2>>
MCBegin  == <<2>>
At(c, k, b) == [class |-> c, cache |-> k, begin |-> b]

(* Two layouts within reach of the search, and one it can only be told of. *)
MCLayouts == {At(0, 0, 0), At(1, 2, 2), At(2, 1, 0)}

(* A word of m1's chain, in a slot of the search, that may point where a field *)
(* of its object would lead in m2's; another object of m2's leads nowhere.     *)
MCWords ==
  UNION {{f[1]} \X {1, 2} \X {f[2]} :
           f \in {<<Class(m1), Cache(m2)>>, <<Cache(m1), File(m2)>>, <<File(m1), Dex(m2)>>}}

NoChain ==
  /\ layout = At(0, 0, 0) /\ actual = layout /\ strays = {} /\ hasCode = {} /\ intact = {}
  /\ config = [fallback |-> TRUE, debug |-> FALSE]
  /\ ArtInit

NoRepair ==
  /\ records = <<>> /\ force = FALSE /\ codeless = {} /\ sound = MethodIds /\ mapped = {}
  /\ offs = [m \in MethodIds |-> Nulled] /\ lens = [m \in MethodIds |-> 1]
  /\ DexInit

(* bound: a file whose bodies do not all decode has a map that counts them all. *)
OneDefect == sound = MethodIds \/ mapped = MethodIds

VARIABLE runs
MCInit ==
  \/ runs = "intervals" /\ Init /\ NoChain /\ NoRepair
  \/ runs = "chain" /\ ArtInit /\ Init /\ NoRepair
  \/ runs = "repair" /\ DexInit /\ OneDefect /\ Init /\ NoChain

MCNext ==
  /\ UNCHANGED runs
  /\ \/ runs = "intervals" /\ Next /\ UNCHANGED <<artVars, dexVars>>
     \/ runs = "chain" /\ ArtNext /\ UNCHANGED <<vars, dexVars>>
     \/ runs = "repair" /\ DexNext /\ UNCHANGED <<vars, artVars>>

MCSpec == MCInit /\ [][MCNext]_<<runs, vars, artVars, dexVars>>
=============================================================================
