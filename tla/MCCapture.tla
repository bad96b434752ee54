------------------------------ MODULE MCCapture ------------------------------
EXTENDS Capture, TLC
CONSTANTS c1, c2, d1, d2, m1
(* Small rings: chunks do not fit in one call, and what does not fit is lost. *)
MCRoom   == [events |-> 1, dex_chunks |-> 1, read_failures |-> 1, method_events |-> 1]
LiveRoom == [MCRoom EXCEPT !["events"] = 0, !["dex_chunks"] = 2]
Size3 == [d \in Dexes |-> 3]
Size21 == (d1 :> 2) @@ (d2 :> 1)
TwoCPUs == Permutations(CPUs)
=============================================================================
