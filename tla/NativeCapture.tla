---------------------------- MODULE NativeCapture ----------------------------
(***************************************************************************)
(* The libc probes of bpf/bpf.c: the arguments of a copy or an mmap are    *)
(* kept under the thread's id between the probes of its entry and of its   *)
(* return, which announces the buffer; and the loop of src/dump.rs that    *)
(* scans the announced buffers within a budget.  What a scan reads is an   *)
(* outcome: a DEX goes to save_dex (CaptureStore), an ELF image to a file. *)
(***************************************************************************)
EXTENDS Naturals, Sequences, FiniteSets

CONSTANTS
  Threads,         \* pid_tgid of the traced threads
  Buffers, Failed, \* addresses, and MAP_FAILED
  NoArgs,          \* no entry under a key
  Sizes,
  MinSize, MaxSize, \* NATIVE_MIN_COPY_SIZE, NATIVE_MAX_COPY_SIZE
  MaxEntries,      \* max_entries of either args map
  Room,            \* records native_buffer_events holds
  Budget,          \* events scanned in a window
  Window,          \* ticks in the second of the window
  MaxCalls, MaxDepth, MaxTime  \* bounds: calls, nested calls, ticks

ASSUME NativeAssumption ==
  /\ Failed \notin Buffers
  /\ Sizes \subseteq Nat /\ MinSize \in Nat \ {0} /\ MaxSize \in Nat
  /\ MaxEntries \in Nat /\ Room \in Nat /\ Budget \in Nat /\ Window \in Nat
  /\ MaxCalls \in Nat /\ MaxDepth \in Nat /\ MaxTime \in Nat

VARIABLES
  calls,      \* per thread: the probed calls it is in, outermost first
  args,       \* native_copy_args_map, native_alloc_args_map
  ring,       \* native_buffer_events
  running,    \* keep_running()
  now,        \* clock
  budget,     \* native_buffer_budget.0
  window,     \* native_buffer_budget.1
  elfCache,   \* native_elf_cache
  elfFiles,   \* images under native_elf/
  abandoned,  \* history: threads killed in a call, or that jumped out of one
  nested,     \* history: threads with a call inside a call of the same map
  mixed,      \* history: threads whose mmap was announced with other arguments
  scans,      \* history: when an event was scanned, in order
  skipped,    \* history: when an event was skipped for want of budget, and how
              \* many were scanned before
  ncalls      \* counter of the bound

probeVars == <<calls, args, abandoned, nested, mixed, ncalls>>
userVars  == <<running, now, budget, window, elfCache, elfFiles, scans, skipped>>
vars      == <<probeVars, ring, userVars>>

Maps == {"copy", "alloc"}

(* A copy has a destination; an mmap has a protection and only returns an address. *)
Args(m) ==
  IF m = "copy" THEN [buf : Buffers, size : Sizes, exec : {FALSE}]
  ELSE [buf : {Failed}, size : Sizes, exec : BOOLEAN]

ASSUME NoArgsAssumption == \A m \in Maps : NoArgs \notin Args(m)

Init ==
  /\ calls = [t \in Threads |-> <<>>]
  /\ args = [m \in Maps |-> [t \in Threads |-> NoArgs]]
  /\ ring = <<>> /\ running = TRUE /\ now = 0 /\ budget = Budget /\ window = 0
  /\ elfCache = {} /\ elfFiles = {}
  /\ abandoned = {} /\ nested = {} /\ mixed = {}
  /\ scans = <<>> /\ skipped = {} /\ ncalls = 0

(* Mutant of Key: the entries are kept under the process. *)
KeyByProcess(t) == CHOOSE u \in Threads : TRUE

Key(t) == t

(* A HASH map takes no new entry when it is full; nothing leaves it but by a delete. *)
Takes(m, t) ==
  \/ args[m][Key(t)] # NoArgs
  \/ Cardinality({u \in Threads : args[m][u] # NoArgs}) < MaxEntries

Within(t, m) == \E n \in 1..Len(calls[t]) : calls[t][n].map = m

(* The frames of t, those of map m no longer sure to find their arguments. *)
Disturbed(t, m) ==
  [n \in 1..Len(calls[t]) |->
     [calls[t][n] EXCEPT !.kept = @ /\ calls[t][n].map # m]]

(* uprobe_libc_memcpy, uprobe_libc_memmove, uprobe_libc_mmap: what another *)
(* call of the thread left is overwritten, or stays if this one is refused. *)
Enter(t, m, a) ==
  LET stored == a.size # 0 /\ a.size <= MaxSize /\ Takes(m, t)
  IN /\ ncalls < MaxCalls /\ Len(calls[t]) < MaxDepth
     /\ args' = IF stored THEN [args EXCEPT ![m][Key(t)] = a] ELSE args
     /\ calls' = [calls EXCEPT ![t] = Append(Disturbed(t, m),
                                             [map |-> m, args |-> a, kept |-> stored])]
     /\ nested' = IF Within(t, m) THEN nested \cup {t} ELSE nested
     /\ ncalls' = ncalls + 1
     /\ UNCHANGED <<abandoned, mixed, ring, userVars>>

(* submit_native_buffer_event *)
Announce(e) ==
  ring' = IF e.size < MinSize \/ e.size > MaxSize \/ Len(ring) >= Room THEN ring ELSE Append(ring, e)

Top(t) == calls[t][Len(calls[t])]

(* The innermost call returns; its probe deletes the entry, whosever it is. *)
Leave(t, m) ==
  /\ calls[t] # <<>> /\ Top(t).map = m
  /\ calls' = [calls EXCEPT ![t] = SubSeq(@, 1, Len(@) - 1)]
  /\ args' = [args EXCEPT ![m][Key(t)] = NoArgs]
  /\ UNCHANGED <<abandoned, nested, ncalls, userVars>>

(* uretprobe_libc_memcpy, uretprobe_libc_memmove: a DEX of some size may be  *)
(* at the destination; the size announced is that of its header.             *)
ReturnCopy(t) ==
  LET a == args["copy"][Key(t)]
  IN /\ Leave(t, "copy")
     /\ \/ ring' = ring
        \/ /\ a # NoArgs
           /\ \E s \in Sizes : Announce([buf |-> a.buf, size |-> s, exec |-> FALSE])
     /\ UNCHANGED mixed

(* uretprobe_libc_mmap *)
ReturnMmap(t, b) ==
  LET a == args["alloc"][Key(t)]
  IN /\ Leave(t, "alloc")
     /\ IF a = NoArgs \/ b = Failed THEN UNCHANGED <<ring, mixed>>
        ELSE /\ Announce([buf |-> b, size |-> a.size, exec |-> a.exec])
             /\ mixed' = IF a = Top(t).args THEN mixed ELSE mixed \cup {t}

(* uprobe_libc_mprotect has no return probe. *)
Mprotect(b, s, x) ==
  /\ ncalls < MaxCalls
  /\ ncalls' = ncalls + 1
  /\ Announce([buf |-> b, size |-> s, exec |-> x])
  /\ UNCHANGED <<calls, args, abandoned, nested, mixed, userVars>>

(* The thread is killed in its calls, or a longjmp leaves them: no return   *)
(* probe runs.  The id may come back with another thread.                   *)
Abandon(t) ==
  /\ calls[t] # <<>>
  /\ calls' = [calls EXCEPT ![t] = <<>>]
  /\ abandoned' = abandoned \cup {t}
  /\ UNCHANGED <<args, nested, mixed, ncalls, ring, userVars>>

(* Mutant of SaveNativeElf: an image whose write failed is tried again. *)
SaveElfRetrying(b) ==
  IF b \in elfFiles THEN UNCHANGED <<elfCache, elfFiles>>
  ELSE /\ elfCache' = elfCache \cup {b}
       /\ elfFiles' = elfFiles \/ elfFiles' = elfFiles \cup {b}

(* save_native_elf: the image is marked, then written, or not. *)
SaveNativeElf(b) ==
  IF b \in elfCache THEN UNCHANGED <<elfCache, elfFiles>>
  ELSE /\ elfCache' = elfCache \cup {b}
       /\ elfFiles' = elfFiles \/ elfFiles' = elfFiles \cup {b}

(* dump_dex_from_native_buffer, whose bodies go to save_dex, and            *)
(* dump_native_elf_from_event, which may find an image below the buffer.    *)
Scan(e) ==
  /\ scans' = Append(scans, now)
  /\ \/ UNCHANGED <<elfCache, elfFiles>>
     \/ e.exec /\ \E b \in Buffers : SaveNativeElf(b)

(* Mutant of Expired: each tick has a budget of its own. *)
ExpiredEarly == now > window

Expired == now - window > Window

(* handle_native_buffer_event: the budget is only refilled by an event that *)
(* finds the window over.                                                   *)
HandleNativeBuffer ==
  /\ ring # <<>>
  /\ ring' = Tail(ring)
  /\ IF ~running THEN UNCHANGED <<budget, window, elfCache, elfFiles, scans, skipped>>
     ELSE LET have == IF Expired THEN Budget ELSE budget
          IN /\ window' = IF Expired THEN now ELSE window
             /\ IF have = 0
                THEN /\ budget' = 0 /\ skipped' = skipped \cup {[at |-> now, after |-> Len(scans)]}
                     /\ UNCHANGED <<elfCache, elfFiles, scans>>
                ELSE budget' = have - 1 /\ Scan(Head(ring)) /\ UNCHANGED skipped
  /\ UNCHANGED <<probeVars, running, now>>

RequestStop ==
  /\ running' = FALSE
  /\ UNCHANGED <<probeVars, ring, now, budget, window, elfCache, elfFiles, scans, skipped>>

Tick ==
  /\ now < MaxTime
  /\ now' = now + 1
  /\ UNCHANGED <<probeVars, ring, running, budget, window, elfCache, elfFiles, scans, skipped>>

Next ==
  \/ \E t \in Threads :
       \/ \E m \in Maps : \E a \in Args(m) : Enter(t, m, a)
       \/ ReturnCopy(t)
       \/ \E b \in Buffers \cup {Failed} : ReturnMmap(t, b)
       \/ Abandon(t)
  \/ \E b \in Buffers, s \in Sizes, x \in BOOLEAN : Mprotect(b, s, x)
  \/ HandleNativeBuffer \/ RequestStop \/ Tick

Spec == Init /\ [][Next]_vars

-----------------------------------------------------------------------------

Frames == UNION {[map : {m}, args : Args(m), kept : BOOLEAN] : m \in Maps}

Events == [buf : Buffers, size : MinSize..MaxSize, exec : BOOLEAN]

ProbeType ==
  /\ calls \in [Threads -> Seq(Frames)]
  /\ DOMAIN args = Maps /\ \A m \in Maps : args[m] \in [Threads -> Args(m) \cup {NoArgs}]
  /\ abandoned \subseteq Threads /\ nested \subseteq Threads /\ mixed \subseteq Threads
  /\ ncalls \in 0..MaxCalls

UserType ==
  /\ running \in BOOLEAN /\ now \in 0..MaxTime /\ window \in 0..now /\ budget \in 0..Budget
  /\ elfFiles \subseteq elfCache /\ elfCache \subseteq Buffers
  /\ scans \in Seq(0..MaxTime) /\ skipped \subseteq [at : 0..MaxTime, after : Nat]

(* Type invariant of the probes' maps, the ring and the collector's state. *)
TypeOK ==
  /\ ProbeType /\ UserType
  /\ ring \in Seq(Events) /\ Len(ring) <= Room

(* An entry of an args map is of a call its thread is in, or is what a      *)
(* thread left that was killed in a call: only those fill the maps up.      *)
EntriesOwned ==
  \A m \in Maps, t \in Threads :
    args[m][t] # NoArgs => Within(t, m) \/ t \in abandoned

(* A call whose arguments were kept finds its own at its return, whatever   *)
(* other threads and calls of the other kind did, unless a call of the same *)
(* kind ran inside it.                                                      *)
ArgsKept ==
  \A t \in Threads : \A n \in 1..Len(calls[t]) :
    calls[t][n].kept => args[calls[t][n].map][t] = calls[t][n].args

(* Only a thread that nested its calls or abandoned one has a mapping        *)
(* announced with the size or protection of another call: a refused call     *)
(* returns to the entry an earlier one left.                                 *)
OwnSize == mixed \subseteq abandoned \cup nested

(* What the args maps hold is accounted for, call by call. *)
ArgsMatchCalls == EntriesOwned /\ ArgsKept /\ OwnSize

(* "max 200 events/second" is a bound of twice the budget over a second that *)
(* starts anywhere: a window opens with the first event after the last one.  *)
RateBounded ==
  \A n \in DOMAIN scans : n + 2 * Budget <= Len(scans) => scans[n + 2 * Budget] > scans[n] + Window

(* An event is only skipped when the budget was spent within the second      *)
(* before it: an early burst silences nothing that comes later.              *)
SkipsUnderLoad ==
  Budget > 0 => \A s \in skipped :
    s.after >= Budget /\ scans[s.after - Budget + 1] + Window >= s.at

(* The budget bounds the scans, and only the scans that were made use it up. *)
BudgetHeld == RateBounded /\ SkipsUnderLoad

(* An ELF image is marked before it is written, so it is tried once: an      *)
(* image whose write failed never appears, whatever is announced later.      *)
ElfTriedOnce == [][\A b \in elfCache : b \in elfFiles <=> b \in elfFiles']_vars
=============================================================================
