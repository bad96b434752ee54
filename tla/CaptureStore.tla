---------------------------- MODULE CaptureStore ----------------------------
(***************************************************************************)
(* What the user-space collector promises of its output directory, with    *)
(* every lock, thread and ring buffer of src/dump.rs left out.             *)
(*                                                                         *)
(* A key is a (pid, begin address) pair.  Until a key is tainted its first *)
(* body goes to one plainly named file and nothing replaces it; a tainted  *)
(* key's bodies go to files named by their content.  Once the store is     *)
(* sealed the files are final, and only then the method records of         *)
(* untainted keys are published, under the length of the body they are of. *)
(***************************************************************************)
EXTENDS Naturals, Sequences

CONSTANTS
  Keys,      \* (pid, begin) pairs
  Bodies,    \* every byte string that may be saved as a DEX body
  Entries    \* every method record that may be published

VARIABLES
  files,     \* the *.dex files: [key, size, hash, bytes]; hash <<>> = plain name
  captured,  \* captured[k] = last body saved for k, <<>> when none
  tainted,   \* keys seen with two identities: no bytecode association
  sealed,    \* no further capture is accepted
  published  \* the *_code.json files: [key, size, records]

vars == <<files, captured, tainted, sealed, published>>

SameName(f, g) == f.key = g.key /\ f.size = g.size /\ f.hash = g.hash

Stored(f) == {g \in files : ~SameName(g, f)} \cup {f}

(* The file that b, a body of k, is written to.  The plain name says the size *)
(* it was declared with: b is that long, or shorter.                          *)
Names(f, k, b) ==
  /\ f.key = k
  /\ IF k \in tainted THEN f.hash = b ELSE f.hash = <<>> /\ Len(b) <= f.size

Init ==
  /\ files = {} /\ published = {} /\ tainted = {}
  /\ captured = [k \in Keys |-> <<>>]
  /\ sealed = FALSE

(* Two different identities were seen at k. *)
Taint(k) ==
  /\ ~sealed
  /\ tainted' = tainted \cup {k}
  /\ UNCHANGED <<files, captured, sealed, published>>

(* A body of k reaches the disk.  A second body needs a tainted key. *)
Capture(k) ==
  LET b == captured'[k]
  IN /\ ~sealed
     /\ captured[k] # <<>> => k \in tainted
     /\ b \in Bodies
     /\ captured' = [captured EXCEPT ![k] = b]
     /\ \E f \in files' : f.bytes = b /\ Names(f, k, b) /\ files' = Stored(f)
     /\ UNCHANGED <<tainted, sealed, published>>

(* The write stops early: a strict prefix is left and nothing is captured. *)
CaptureFails(k) ==
  /\ ~sealed
  /\ captured[k] # <<>> => k \in tainted
  /\ \E f \in files' :
       /\ f.key = k
       /\ IF k \in tainted
          THEN \E n \in 0..Len(f.hash) - 1 : f.bytes = SubSeq(f.hash, 1, n)
          ELSE f.hash = <<>> /\ Len(f.bytes) < f.size
       /\ files' = Stored(f)
  /\ UNCHANGED <<captured, tainted, sealed, published>>

Seal ==
  /\ ~sealed
  /\ sealed' = TRUE
  /\ UNCHANGED <<files, captured, tainted, published>>

(* At most one record file per key, for captured keys that are not tainted. *)
Publish ==
  /\ sealed
  /\ published = {}
  /\ \A j \in published' :
       /\ j.key \in Keys \ tainted
       /\ captured[j.key] # <<>> /\ j.size = Len(captured[j.key])
       /\ j.records \subseteq Entries
       /\ \A i \in published' : i.key = j.key => i = j
  /\ UNCHANGED <<files, captured, tainted, sealed>>

Next ==
  \/ \E k \in Keys : Taint(k) \/ Capture(k) \/ CaptureFails(k)
  \/ Seal
  \/ Publish

Spec == Init /\ [][Next]_vars
=============================================================================
