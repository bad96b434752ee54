------------------------- MODULE MCRepairDirectory ---------------------------
(* The repair and the fix command, each over several runs of its own; they    *)
(* read the same files and write different ones.                              *)
EXTENDS FixDirectory
CONSTANTS dexA, dexB, rec, all

In(d, r) == [dex |-> d, records |-> r]

(* Two DEXes, one of them with and without records; the other is broken.     *)
MCInputs == {In(dexA, NoRecords), In(dexA, rec), In(dexB, NoRecords)}
MCRepairable == {a \in MCInputs : a.dex = dexA}

(* With records that name some of its methods or all, and broken.            *)
MCFixInputs == {In(dexA, NoRecords), In(dexA, rec), In(dexA, all), In(dexB, rec)}
MCFixable == {In(dexA, rec), In(dexA, all)}
MCCovered == {In(dexA, all)}

NoRepair == Init /\ input = [f \in Files |-> In(dexA, rec)]
NoFix    == FixInit /\ dumped = [f \in Bases |-> In(dexA, rec)]

VARIABLE command
MCInit ==
  \/ command = "repair" /\ Init /\ NoFix
  \/ command = "fix" /\ FixInit /\ NoRepair

MCNext ==
  /\ UNCHANGED command
  /\ \/ command = "repair" /\ Next /\ UNCHANGED fixVars
     \/ /\ command = "fix" /\ FixStep
        /\ UNCHANGED <<pc, loopVars, fileVars, input, dedup, result, forced>>

MCSpec == MCInit /\ [][MCNext]_<<vars, fixVars, command>>
=============================================================================
