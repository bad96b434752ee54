----------------------------- MODULE JniSymbols ------------------------------
(***************************************************************************)
(* Names of native methods: the RegisterNatives probe of bpf/bpf.c walks a *)
(* table of {name, function}; src/dump.rs keeps what arrives and, at the   *)
(* stop, looks each function up in the maps its process has then, and      *)
(* writes one file of symbols per library name.  An offset in a library    *)
(* stands for the function.  A forced stop, which cuts the final drain     *)
(* short, is RunLoop's.                                                    *)
(***************************************************************************)
EXTENDS Naturals, Sequences, SequencesExt

CONSTANTS
  Pids,
  Fns, NullFn,     \* addresses, and the fn_ptr of an empty entry
  Names, NoName,   \* method names, and a name that could not be read
  Libs, NoLib,     \* mapped libraries, by path
  NameOf,          \* NameOf[l] = its file name
  FileOf,          \* FileOf[n] = the output for name n, after sanitize_so_name
  Limit,           \* JNI_MAX_METHODS
  Capacity,        \* records jni_events holds
  MaxTables, MaxLength, MaxRemaps  \* bounds: tables, their length, remaps

LibNames == {NameOf[l] : l \in Libs}
Files    == {FileOf[n] : n \in LibNames}

ASSUME JniAssumption ==
  /\ NullFn \notin Fns /\ NoName \notin Names /\ NoLib \notin Libs
  /\ Limit \in Nat /\ Capacity \in Nat
  /\ MaxTables \in Nat /\ MaxLength \in Nat /\ MaxRemaps \in Nat

VARIABLES
  table,      \* per process: entries the probe has still to walk
  home,       \* home[p][f] = the library mapped at f
  jni_events, \* the ring
  methods,    \* jni_methods
  phase,      \* "capture", "drain" once the probes are detached, "done"
  raw,        \* jni_symbols_raw.txt: its lines
  symbols,    \* jni_symbols_<lib>.txt: their lines
  unwritten,  \* history: files whose write failed
  registered, \* history: entries walked, with the library they were in
  first,      \* history: first[p][f] = name first submitted for f
  moved,      \* history: functions whose library changed
  tables, remaps \* counters of the bounds

jniVars == <<table, home, jni_events, methods, phase, raw, symbols, unwritten,
             registered, first, moved, tables, remaps>>

Entries == [fn : Fns \cup {NullFn}, name : Names \cup {NoName}]

JniInit ==
  /\ table = [p \in Pids |-> <<>>]
  /\ home \in [Pids -> [Fns -> Libs \cup {NoLib}]]
  /\ jni_events = <<>> /\ methods = <<>> /\ phase = "capture"
  /\ raw = {} /\ symbols = [f \in Files |-> {}] /\ unwritten = {}
  /\ registered = {} /\ moved = {}
  /\ first = [p \in Pids |-> [f \in Fns |-> NoName]]
  /\ tables = 0 /\ remaps = 0

(* A call of RegisterNatives; entries past the limit are not walked. *)
RegisterNatives(p, ms) ==
  /\ phase = "capture" /\ table[p] = <<>> /\ tables < MaxTables
  /\ table' = [table EXCEPT ![p] = SubSeq(ms, 1, IF Len(ms) > Limit THEN Limit ELSE Len(ms))]
  /\ tables' = tables + 1
  /\ UNCHANGED <<home, jni_events, methods, phase, raw, symbols, unwritten, registered,
                 first, moved, remaps>>

(* One round of the probe's loop: an empty entry is passed over, and so is  *)
(* an entry for which the ring has no room.                                 *)
WalkEntry(p) ==
  LET e == Head(table[p])
  IN /\ phase = "capture" /\ table[p] # <<>>
     /\ table' = [table EXCEPT ![p] = Tail(@)]
     /\ IF e.fn = NullFn \/ Len(jni_events) >= Capacity
        THEN UNCHANGED <<jni_events, registered, first>>
        ELSE /\ jni_events' = Append(jni_events, [pid |-> p, fn |-> e.fn, name |-> e.name])
             /\ registered' = registered \cup
                  {[pid |-> p, fn |-> e.fn, name |-> e.name, lib |-> home[p][e.fn]]}
             /\ first' = IF first[p][e.fn] = NoName
                         THEN [first EXCEPT ![p][e.fn] = e.name] ELSE first
     /\ UNCHANGED <<home, methods, phase, raw, symbols, unwritten, moved, tables, remaps>>

(* handle_jni_event *)
HandleJniEvent ==
  /\ phase # "done" /\ jni_events # <<>>
  /\ jni_events' = Tail(jni_events)
  /\ methods' = IF Head(jni_events).name = NoName THEN methods
                ELSE Append(methods, Head(jni_events))
  /\ UNCHANGED <<table, home, phase, raw, symbols, unwritten, registered, first, moved,
                 tables, remaps>>

(* The process unloads a library, loads another one there, or exits. *)
Remap(p, f, l) ==
  /\ phase # "done" /\ remaps < MaxRemaps /\ home[p][f] # l
  /\ home' = [home EXCEPT ![p][f] = l]
  /\ moved' = moved \cup {<<p, f>>}
  /\ remaps' = remaps + 1
  /\ UNCHANGED <<table, jni_events, methods, phase, raw, symbols, unwritten, registered,
                 first, tables>>

(* The stop request: no probe runs from here on. *)
Detach ==
  /\ phase = "capture"
  /\ phase' = "drain"
  /\ table' = [p \in Pids |-> <<>>]
  /\ UNCHANGED <<home, jni_events, methods, raw, symbols, unwritten, registered, first,
                 moved, tables, remaps>>

(* Mutant of SeenKey: functions are told apart by their address alone. *)
AddressOnly(m) == m.fn

SeenKey(m) == <<m.pid, m.fn>>

(* The methods that write_jni_symbols keeps: the first of each key. *)
Kept ==
  {methods[n] : n \in {n \in DOMAIN methods :
                         \A k \in 1..n - 1 : SeenKey(methods[k]) # SeenKey(methods[n])}}

(* Libraries of one file name share a body. *)
Group(l) == NameOf[l]

(* Mutant of Home: the modules of the first process serve for all. *)
HomeInFirst(m) == home[methods[1].pid][m.fn]

(* modules_for_pid, once for a process, and the lookup in its ranges. *)
Home(m) == home[m.pid][m.fn]

(* per_mod: the body a library's group gets. *)
Body(g) == {[fn |-> m.fn, name |-> m.name] : m \in {m \in Kept : Home(m) # NoLib /\ Group(Home(m)) = g}}

(* Bodies with a line whose output is file f, written in the order of a HashMap. *)
Bodies(f) == {Body(Group(l)) : l \in {l \in Libs : FileOf[NameOf[l]] = f}} \ {{}}

(* What file f may hold in the end: of bodies that go to it the last one written. *)
Outcomes(f, bad) == IF f \in bad \/ Bodies(f) = {} THEN {{}} ELSE Bodies(f)

(* write_jni_symbols: each file is written, or its write fails. *)
WriteJniSymbols ==
  /\ phase = "drain" /\ jni_events = <<>>
  /\ phase' = "done"
  /\ \E bad \in SUBSET (Files \cup {"raw"}) :
       /\ unwritten' = bad
       /\ raw' = IF "raw" \in bad THEN {} ELSE Kept
       /\ symbols' \in [Files -> UNION {Outcomes(f, bad) : f \in Files}]
       /\ \A f \in Files : symbols'[f] \in Outcomes(f, bad)
  /\ UNCHANGED <<table, home, jni_events, methods, registered, first, moved, tables, remaps>>

Exited == phase = "done" /\ UNCHANGED jniVars

JniNext ==
  \/ \E p \in Pids :
       \/ \E ms \in BoundedSeq(Entries, MaxLength) \ {<<>>} : RegisterNatives(p, ms)
       \/ WalkEntry(p)
       \/ \E f \in Fns, l \in Libs \cup {NoLib} : Remap(p, f, l)
  \/ HandleJniEvent \/ Detach \/ WriteJniSymbols \/ Exited

JniSpec == JniInit /\ [][JniNext]_jniVars

-----------------------------------------------------------------------------

(* The raw dump names each captured function of each process once, by the   *)
(* name that was first registered for it: a function registered again, or   *)
(* at the same address in another process, confuses nothing.                *)
RawNamesFirst ==
  phase = "done" /\ "raw" \notin unwritten =>
    raw = {[pid |-> x[1], fn |-> x[2], name |-> first[x[1]][x[2]]] :
             x \in {x \in Pids \X Fns : first[x[1]][x[2]] # NoName}}

(* A line of a library's file names a function that was registered while it *)
(* was in a library of that file, unless the library there changed before   *)
(* the stop: functions are looked up in the maps of the end.                *)
SymbolsInTheirLibrary ==
  \A f \in Files : \A s \in symbols[f] : \E r \in registered :
    /\ r.fn = s.fn /\ r.name = s.name
    /\ \/ <<r.pid, r.fn>> \in moved
       \/ r.lib # NoLib /\ FileOf[NameOf[r.lib]] = f

(* Every function in the raw dump that is in a library at the end has its    *)
(* line in the library's file, unless a library of another name has the same *)
(* file once its name is sanitized, or the write failed.                     *)
Shared(n) == \E k \in LibNames \ {n} : FileOf[k] = FileOf[n]

SymbolsComplete ==
  phase = "done" => \A m \in raw :
    LET l == home[m.pid][m.fn]
    IN l = NoLib \/ Shared(NameOf[l]) \/ FileOf[NameOf[l]] \in unwritten
       \/ [fn |-> m.fn, name |-> m.name] \in symbols[FileOf[NameOf[l]]]

(* The files of the libraries name their functions, and no others. *)
SymbolsExact == SymbolsInTheirLibrary /\ SymbolsComplete
=============================================================================
