------------------------------ MODULE MCRunLoop ------------------------------
(* The two commands that run until a stop: dump, with three of the seven     *)
(* rings, an ungated one on each side of a gated one, or dumpso --watch.     *)
EXTENDS RunLoop, SoWatch, TLC
CONSTANTS k1, k2, c1, c2, c3

MCOrder == <<"dex_chunks", "read_failures", "jni_events">>
MCGated == {"read_failures"}

(* Two contents that the windows of the fingerprint do not tell apart. *)
MCFP == (c1 :> "a") @@ (c2 :> "b") @@ (c3 :> "a") @@ (Gone :> "gone")

(* The command that was not given is over. *)
NoDump ==
  /\ backlog = [r \in Rings |-> 0] /\ attached = FALSE /\ phase = "done"
  /\ cur = 1 /\ left = Batch /\ stops = 0 /\ dropped = {}
NoWatch ==
  /\ memory = [k \in Keys |-> Gone] /\ at = "done" /\ mods = {} /\ fresh = {}
  /\ seen = [k \in Keys |-> [fp |-> None, dumps |-> 0]] /\ file = [k \in Keys |-> None]
  /\ stopping = FALSE /\ expired = FALSE /\ steady = {} /\ spoilt = {} /\ changes = 0

MCInit ==
  \/ Init /\ NoWatch
  \/ NoDump /\ WatchInit /\ memory[k2] = c1
MCNext ==
  \/ Next /\ UNCHANGED watchVars
  \/ WatchNext /\ UNCHANGED vars
MCSpec ==
  /\ MCInit /\ [][MCNext]_<<vars, watchVars>>
  /\ WF_<<vars, watchVars>>(MainStep /\ UNCHANGED watchVars)
  /\ WF_<<vars, watchVars>>(WatchStep /\ UNCHANGED vars)
=============================================================================
