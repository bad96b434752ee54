----------------------------- MODULE BpfCapture ------------------------------
(***************************************************************************)
(* The probe side of bpf/bpf.c: what a hit of an ART method does on the CPU *)
(* it happens on, over the maps and rings all CPUs share.  A step is one    *)
(* access to a map or a ring; a record is reserved, filled and submitted    *)
(* (or discarded) in one step, as the reader waits for a reserved record.   *)
(* A DEX is one key (process, address, size, header identity) and consists  *)
(* of parts 0..Size[d]-1, a part being the payload of one chunk record.     *)
(***************************************************************************)
EXTENDS Naturals, Sequences, FiniteSets

CONSTANTS
  CPUs,
  Dexes,       \* keys of dexFileCache_map and dexProgress_map
  Size,        \* Size[d] = number of parts of d
  Methods,     \* keys of methodCodeCache_map
  NoMethod,    \* hit of a probe that sees a DEX and no method
  MaxChunks,   \* MAX_CHUNKS_PER_CALL
  Room,        \* Room[r] = records ring r holds
  MaxEvictions,\* bound: entries the LRU maps evict
  MaxFaults    \* bound: reads of pages that are not resident

Rings == {"events", "dex_chunks", "read_failures", "method_events"}

ASSUME BpfAssumption ==
  /\ Size \in [Dexes -> Nat \ {0}]
  /\ Dexes # {} /\ NoMethod \notin Methods
  /\ MaxChunks \in Nat \ {0}
  /\ Room \in [Rings -> Nat]
  /\ MaxEvictions \in Nat /\ MaxFaults \in Nat

VARIABLES
  dexFileCache,    \* DEXes announced
  dexProgress,     \* next part to send; 0 = no entry
  methodCodeCache, \* methods whose bytecode was read
  ring,            \* ring[r] = the records waiting in r, oldest first
  pc, run,         \* per CPU: next step, and the locals of the handler
  sent,            \* history: sent[d] = parts submitted to dex_chunks
  lost,            \* history: methods whose bytecode did not fit the ring
  evictions, faults \* counters of the bounds

Parts(d) == 0..Size[d] - 1

mapVars  == <<dexFileCache, dexProgress, methodCodeCache>>
histVars == <<sent, lost>>
counters == <<evictions, faults>>
bpfVars  == <<mapVars, ring, pc, run, histVars, counters>>

(* dex and method of the hit; fresh: the DEX was not announced; next: the part *)
(* to send next; n: chunks sent by this call; code: bytecode was read.         *)
Started(d, m) ==
  [dex |-> d, method |-> m, fresh |-> FALSE, next |-> 0, n |-> 0, code |-> FALSE]

Idle == Started(CHOOSE d \in Dexes : TRUE, NoMethod)

Advanced(l) == [[l EXCEPT !.next = @ + 1] EXCEPT !.n = @ + 1]

BpfInit ==
  /\ dexFileCache = {} /\ dexProgress = [d \in Dexes |-> 0] /\ methodCodeCache = {}
  /\ ring = [r \in Rings |-> <<>>]
  /\ pc = [c \in CPUs |-> "idle"] /\ run = [c \in CPUs |-> Idle]
  /\ sent = [d \in Dexes |-> {}] /\ lost = {}
  /\ evictions = 0 /\ faults = 0

Goto(c, label, r) ==
  /\ pc' = [pc EXCEPT ![c] = label]
  /\ run' = [run EXCEPT ![c] = IF label = "idle" THEN Idle ELSE r]

(* bpf_ringbuf_reserve fails when the ring is full. *)
Full(r) == Len(ring[r]) >= Room[r]

Submit(r, rec) == ring' = [ring EXCEPT ![r] = Append(@, rec)]

SubmitIfRoom(r, rec) == IF Full(r) THEN UNCHANGED ring ELSE Submit(r, rec)

(* handle_art_method finds the method that is executed and its DEX; the probes *)
(* of the constructor, registerDexFile and verifyClass find a DEX alone.       *)
Hit(c, d, m) ==
  /\ pc[c] = "idle"
  /\ Goto(c, "cached", Started(d, m))
  /\ UNCHANGED <<mapVars, ring, histVars, counters>>

(* submit_dex_from_begin *)
Cached(c) ==
  LET seen == run[c].dex \in dexFileCache
  IN /\ pc[c] = "cached"
     /\ Goto(c, IF seen THEN "load" ELSE "announce", [run[c] EXCEPT !.fresh = ~seen])
     /\ UNCHANGED <<mapVars, ring, histVars, counters>>

Announce(c) ==
  /\ pc[c] = "announce"
  /\ SubmitIfRoom("events", run[c].dex)
  /\ Goto(c, "load", run[c])
  /\ UNCHANGED <<mapVars, histVars, counters>>

(* Where submit_dex_from_begin returns to. *)
AfterDex(c) == IF run[c].method = NoMethod THEN "idle" ELSE "bytecode"

(* Where submit_dex_chunks_partial returns to. *)
AfterChunks(c) == IF run[c].fresh THEN "remember" ELSE AfterDex(c)

(* submit_dex_chunks_partial: what is complete is not sent again. *)
Load(c) ==
  LET p == dexProgress[run[c].dex]
  IN /\ pc[c] = "load"
     /\ IF p >= Size[run[c].dex] THEN Goto(c, AfterChunks(c), run[c])
        ELSE Goto(c, "chunk", [run[c] EXCEPT !.next = p])
     /\ UNCHANGED <<mapVars, ring, histVars, counters>>

ChunksDone(c) == run[c].next >= Size[run[c].dex] \/ run[c].n = MaxChunks

SendChunk(c) ==
  LET d == run[c].dex
  IN /\ pc[c] = "chunk" /\ ~ChunksDone(c) /\ ~Full("dex_chunks")
     /\ Submit("dex_chunks", [dex |-> d, part |-> run[c].next])
     /\ sent' = [sent EXCEPT ![d] = @ \cup {run[c].next}]
     /\ Goto(c, "chunk", Advanced(run[c]))
     /\ UNCHANGED <<mapVars, lost, counters>>

(* No room, or the page is not resident: the failure is reported if it fits. *)
ChunkFails(c) ==
  /\ pc[c] = "chunk" /\ ~ChunksDone(c)
  /\ \/ Full("dex_chunks") /\ UNCHANGED faults
     \/ faults < MaxFaults /\ faults' = faults + 1
  /\ SubmitIfRoom("read_failures", run[c].dex)
  /\ Goto(c, "store", run[c])
  /\ UNCHANGED <<mapVars, histVars, evictions>>

EndChunks(c) ==
  /\ pc[c] = "chunk" /\ ChunksDone(c)
  /\ Goto(c, "store", run[c])
  /\ UNCHANGED <<mapVars, ring, histVars, counters>>

(* Mutant of Store: the part that failed is not sent again. *)
StorePast(c) ==
  /\ pc[c] = "store"
  /\ dexProgress' = [dexProgress EXCEPT ![run[c].dex] = run[c].next + 1]
  /\ Goto(c, AfterChunks(c), run[c])
  /\ UNCHANGED <<dexFileCache, methodCodeCache, ring, histVars, counters>>

(* Not atomic with Load: another CPU's progress is overwritten. *)
Store(c) ==
  /\ pc[c] = "store"
  /\ dexProgress' = [dexProgress EXCEPT ![run[c].dex] = run[c].next]
  /\ Goto(c, AfterChunks(c), run[c])
  /\ UNCHANGED <<dexFileCache, methodCodeCache, ring, histVars, counters>>

Remember(c) ==
  /\ pc[c] = "remember"
  /\ dexFileCache' = dexFileCache \cup {run[c].dex}
  /\ Goto(c, AfterDex(c), run[c])
  /\ UNCHANGED <<dexProgress, methodCodeCache, ring, histVars, counters>>

(* Mutant of NoBytecode: the method is cached before it is read. *)
MarkUnread(c) ==
  /\ pc[c] = "bytecode"
  /\ methodCodeCache' = methodCodeCache \cup {run[c].method}
  /\ Goto(c, "output", run[c])
  /\ UNCHANGED <<dexFileCache, dexProgress, ring, histVars, counters>>

(* read_method_bytecode finds the method cached, or cannot read it. *)
NoBytecode(c) ==
  /\ pc[c] = "bytecode"
  /\ Goto(c, "output", run[c])
  /\ UNCHANGED <<mapVars, ring, histVars, counters>>

(* It reads the bytecode into the CPU's buffer; only then is it cached. *)
ReadBytecode(c) ==
  /\ pc[c] = "bytecode" /\ run[c].method \notin methodCodeCache
  /\ Goto(c, "mark", [run[c] EXCEPT !.code = TRUE])
  /\ UNCHANGED <<mapVars, ring, histVars, counters>>

MarkMethod(c) ==
  /\ pc[c] = "mark"
  /\ methodCodeCache' = methodCodeCache \cup {run[c].method}
  /\ Goto(c, "output", run[c])
  /\ UNCHANGED <<dexFileCache, dexProgress, ring, histVars, counters>>

(* submit_method_event_with_bytecode *)
Output(c) ==
  LET m == run[c].method
  IN /\ pc[c] = "output"
     /\ SubmitIfRoom("method_events", [method |-> m, code |-> run[c].code])
     /\ lost' = IF run[c].code /\ Full("method_events") THEN lost \cup {m} ELSE lost
     /\ Goto(c, "idle", run[c])
     /\ UNCHANGED <<mapVars, sent, counters>>

CPUStep(c) ==
  \/ Cached(c) \/ Announce(c) \/ Load(c)
  \/ SendChunk(c) \/ ChunkFails(c) \/ EndChunks(c) \/ Store(c) \/ Remember(c)
  \/ NoBytecode(c) \/ ReadBytecode(c) \/ MarkMethod(c) \/ Output(c)

(* The maps are LRU: entries of other processes push these out. *)
Evict ==
  /\ evictions < MaxEvictions
  /\ evictions' = evictions + 1
  /\ \/ \E d \in dexFileCache : dexFileCache' = dexFileCache \ {d}
                                /\ UNCHANGED <<dexProgress, methodCodeCache>>
     \/ \E d \in Dexes : dexProgress' = [dexProgress EXCEPT ![d] = 0]
                         /\ UNCHANGED <<dexFileCache, methodCodeCache>>
     \/ \E m \in methodCodeCache : methodCodeCache' = methodCodeCache \ {m}
                                   /\ UNCHANGED <<dexFileCache, dexProgress>>
  /\ UNCHANGED <<ring, pc, run, histVars, faults>>

(* ring.next() of the user-space loop. *)
TakeFrom(r) ==
  /\ ring[r] # <<>>
  /\ ring' = [ring EXCEPT ![r] = Tail(@)]
  /\ UNCHANGED <<mapVars, pc, run, histVars, counters>>

ProbeStep ==
  \/ \E c \in CPUs : CPUStep(c) \/ \E d \in Dexes, m \in Methods \cup {NoMethod} : Hit(c, d, m)
  \/ Evict

-----------------------------------------------------------------------------

(* The values of the maps, the rings, the CPUs' locals and the history. *)
MapsType ==
  /\ dexFileCache \subseteq Dexes /\ methodCodeCache \subseteq Methods
  /\ dexProgress \in [Dexes -> Nat] /\ \A d \in Dexes : dexProgress[d] <= Size[d]

Chunks == {x \in [dex : Dexes, part : Nat] : x.part < Size[x.dex]}

Payload(r) ==
  CASE r = "dex_chunks"    -> Chunks
    [] r = "method_events" -> [method : Methods, code : BOOLEAN]
    [] OTHER               -> Dexes

RingsType ==
  /\ DOMAIN ring = Rings
  /\ \A r \in Rings : ring[r] \in Seq(Payload(r)) /\ Len(ring[r]) <= Room[r]

Labels == {"idle", "cached", "announce", "load", "chunk", "store", "remember",
           "bytecode", "mark", "output"}

Locals ==
  {l \in [dex : Dexes, method : Methods \cup {NoMethod}, fresh : BOOLEAN, next : Nat,
          n : 0..MaxChunks, code : BOOLEAN] : l.next <= Size[l.dex]}

(* Only a hit of a method goes on to its bytecode. *)
CPUsType ==
  /\ pc \in [CPUs -> Labels] /\ run \in [CPUs -> Locals]
  /\ \A c \in CPUs : pc[c] \in {"bytecode", "mark", "output"} => run[c].method \in Methods

HistType ==
  /\ DOMAIN sent = Dexes /\ \A d \in Dexes : sent[d] \subseteq Parts(d)
  /\ lost \subseteq Methods
  /\ evictions \in 0..MaxEvictions /\ faults \in 0..MaxFaults

Waiting(r) == {ring[r][n] : n \in 1..Len(ring[r])}

(* Progress is never ahead of what was sent: every part below it was         *)
(* submitted, whichever CPUs sent, overwrote each other or lost their entry. *)
ProgressSent ==
  /\ \A d \in Dexes : \A p \in Parts(d) : p < dexProgress[d] => p \in sent[d]
  /\ \A c \in CPUs : \A p \in Parts(run[c].dex) : p < run[c].next => p \in sent[run[c].dex]
=============================================================================
