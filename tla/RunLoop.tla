------------------------------- MODULE RunLoop -------------------------------
(***************************************************************************)
(* The main thread of run() in src/dump.rs over its ring buffers: the      *)
(* batched drain loop, the stop request of src/shutdown.rs, the detaching  *)
(* of the probes, the final drain, the seal, and the steps up to the exit. *)
(* What a handler does with a record is DumpState's; here a record is only *)
(* handled, or dropped by a handler that returns once a stop was asked.    *)
(***************************************************************************)
EXTENDS Naturals, Sequences

CONSTANTS
  Order,     \* the rings, in the order they are drained
  Gated,     \* the rings whose handler returns at once when ~keep_running()
  Batch,     \* DRAIN_BATCH_LIMIT
  Capacity   \* records a ring holds

Rings == {Order[n] : n \in 1..Len(Order)}

ASSUME OrderAssumption ==
  /\ Order \in Seq(Rings) /\ Len(Order) > 0
  /\ \A m, n \in 1..Len(Order) : Order[m] = Order[n] => m = n
  /\ Gated \subseteq Rings

ASSUME LimitsAssumption == Batch \in Nat \ {0} /\ Capacity \in Nat

VARIABLES
  backlog,   \* backlog[r] = records waiting in ring r
  attached,  \* the probes are attached and may produce
  phase,     \* where run() is
  cur,       \* index of the ring being drained
  left,      \* what is left of the batch
  stops,     \* shutdown state: 0 running, 1 stopping, 2 forced
  dropped    \* history: rings a record of which was consumed but not handled

vars == <<backlog, attached, phase, cur, left, stops, dropped>>

keep_running    == stops = 0
keep_finalizing == stops < 2

Init ==
  /\ backlog = [r \in Rings |-> 0]
  /\ attached = TRUE
  /\ phase = "check"
  /\ cur = 1 /\ left = Batch
  /\ stops = 0
  /\ dropped = {}

(* A probe fires; when the ring is full its record is lost. *)
Produce(r) ==
  /\ attached
  /\ backlog[r] < Capacity
  /\ backlog' = [backlog EXCEPT ![r] = @ + 1]
  /\ UNCHANGED <<attached, phase, cur, left, stops, dropped>>

(* request_stop from the signal handler. *)
Signal ==
  /\ phase # "done"
  /\ keep_finalizing
  /\ stops' = stops + 1
  /\ UNCHANGED <<backlog, attached, phase, cur, left, dropped>>

(* ring.next() and the handler. *)
Consume(r) ==
  /\ backlog[r] > 0
  /\ backlog' = [backlog EXCEPT ![r] = @ - 1]
  /\ dropped' = IF r \in Gated /\ ~keep_running THEN dropped \cup {r} ELSE dropped

(* Mutant of Check: while keep_finalizing(). *)
CheckFinalizing ==
  /\ phase = "check"
  /\ phase' = IF keep_finalizing THEN "loop" ELSE "detach"
  /\ UNCHANGED <<backlog, attached, cur, left, stops, dropped>>

(* while keep_running() *)
Check ==
  /\ phase = "check"
  /\ phase' = IF keep_running THEN "loop" ELSE "detach"
  /\ UNCHANGED <<backlog, attached, cur, left, stops, dropped>>

(* Mutant of DrainOne: a ring is drained until it is empty. *)
DrainUnbounded ==
  /\ phase = "loop"
  /\ Consume(Order[cur])
  /\ UNCHANGED <<attached, phase, cur, left, stops>>

(* drain_ring handles one record of its batch. *)
DrainOne ==
  /\ phase = "loop" /\ left > 0
  /\ Consume(Order[cur])
  /\ left' = left - 1
  /\ UNCHANGED <<attached, phase, cur, stops>>

(* drain_ring returns: the batch is used up or the ring is empty.  After the *)
(* last ring the loop sleeps and checks its condition again.                 *)
DrainNext ==
  /\ phase = "loop"
  /\ left = 0 \/ backlog[Order[cur]] = 0
  /\ left' = Batch
  /\ IF cur < Len(Order) THEN cur' = cur + 1 /\ UNCHANGED phase
     ELSE cur' = 1 /\ phase' = "check"
  /\ UNCHANGED <<backlog, attached, stops, dropped>>

(* Mutant of Detach: the probes stay attached through the final drain. *)
DetachLate ==
  /\ phase = "detach"
  /\ phase' = "final"
  /\ UNCHANGED <<backlog, attached, cur, left, stops, dropped>>

(* drop(ebpf) *)
Detach ==
  /\ phase = "detach"
  /\ attached' = FALSE
  /\ phase' = "final"
  /\ UNCHANGED <<backlog, cur, left, stops, dropped>>

(* drain_until_idle: keep_finalizing() && consume_one() *)
FinalOne ==
  /\ phase = "final" /\ keep_finalizing
  /\ Consume(Order[cur])
  /\ UNCHANGED <<attached, phase, cur, left, stops>>

FinalNext ==
  /\ phase = "final"
  /\ ~keep_finalizing \/ backlog[Order[cur]] = 0
  /\ IF cur < Len(Order) THEN cur' = cur + 1 /\ UNCHANGED phase
     ELSE cur' = 1 /\ phase' = "seal"
  /\ UNCHANGED <<backlog, attached, left, stops, dropped>>

(* What may follow in run(): an error of flush_json returns before the repair, *)
(* as auto_fix = false does.                                                   *)
Following(p) ==
  CASE p = "seal" -> {"write"} [] p = "write" -> {"repair", "done"} [] OTHER -> {"done"}

(* The seal, write_jni_symbols and flush_json, the repair, the exit. *)
Finish ==
  /\ phase \in {"seal", "write", "repair"}
  /\ phase' \in Following(phase)
  /\ UNCHANGED <<backlog, attached, cur, left, stops, dropped>>

MainStep ==
  Check \/ DrainOne \/ DrainNext \/ Detach \/ FinalOne \/ FinalNext \/ Finish

Exited == phase = "done" /\ UNCHANGED vars

Next == MainStep \/ Signal \/ (\E r \in Rings : Produce(r)) \/ Exited

(* The main thread is scheduled; probes and signals need not come. *)
Spec == Init /\ [][Next]_vars /\ WF_vars(MainStep)

-----------------------------------------------------------------------------

(* Type invariant of run()'s loop variables. *)
TypeOK ==
  /\ backlog \in [Rings -> 0..Capacity]
  /\ attached \in BOOLEAN
  /\ phase \in {"check", "loop", "detach", "final", "seal", "write", "repair", "done"}
  /\ cur \in 1..Len(Order) /\ left \in 0..Batch
  /\ stops \in 0..2
  /\ dropped \subseteq Gated

Finalized == phase \in {"seal", "write", "repair", "done"}

(* Unless a second signal came, no ring holds a record when the output is    *)
(* written: detaching first keeps the probes from refilling a drained ring.  *)
NormalStopDrains == Finalized /\ keep_finalizing => \A r \in Rings : backlog[r] = 0

(* Why: once the probes are detached, a ring that was drained stays drained. *)
DrainedBehind ==
  /\ ~attached <=> phase \notin {"check", "loop", "detach"}
  /\ phase \in {"check", "detach"} => cur = 1
  /\ phase = "final" /\ keep_finalizing => \A n \in 1..cur - 1 : backlog[Order[n]] = 0
  /\ NormalStopDrains

(* A stop request ends the run even while the probes produce without pause.  *)
StopEndsRun == stops > 0 ~> phase = "done"

(* A flood on one ring starves no other: each ring's turn comes again.       *)
EveryRingServed == \A n \in 1..Len(Order) : []<>(cur = n \/ ~attached)

(* Normal shutdown drains the event queues (README): with one signal only,   *)
(* every record that was queued is handled.                                  *)
NormalStopHandles == phase = "done" /\ keep_finalizing => dropped = {}
=============================================================================
