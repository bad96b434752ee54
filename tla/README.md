# eBPFDexDumper-rs in TLA+

The program attaches uprobes to ART, collects DEX files and method bytecode
from a running Android application, writes them to a directory, and repairs
them. This directory models its concurrent and failure-prone parts, checks them
with TLC, and proves the central invariants with TLAPS. Source positions below
are relative to the repository.

## 1. The system

| Part | Source | State it keeps | Operations | What makes it correct |
|---|---|---|---|---|
| eBPF probes | `bpf/bpf.c`, `bpf/header.h` | maps `dexFileCache`, `dexProgress`, `methodCodeCache`, `native_copy_args`, `native_alloc_args`; seven rings | one handler per probed function, on any CPU | every DEX that stays mapped is sent completely, or a read failure says it was not; no method's bytecode is marked sent and then lost |
| collector | `src/dump.rs` `DumpState` | `dex_sizes`, `ambiguous_dex`, `dex_cache`, `pending_dex`, `method_records`, `method_sig_cache`, `captures_sealed`, files | one handler per ring, `save_dex`, `quarantine_dex`, `flush_json` | bytecode is never filed with another DEX; saved files are kept; nothing changes after the seal |
| chunk coverage | `src/dump.rs` `DexRecvState` | interval vector, buffer | `record`, `is_complete` | complete exactly when every byte arrived |
| run loop, shutdown | `src/dump.rs` `run`, `src/shutdown.rs` | stop state 0/1/2 | batched drains, stop, detach, final drain, seal, write, repair | stops promptly, loses nothing that was queued unless forced |
| maps scan, native scan | `src/dump.rs` 1814–2312 | budget and cache of the native buffers | read `/proc/<pid>/maps`, find DEX and ELF headers | every DEX in a readable region is found once; the budget bounds the scans |
| fix and repair | `src/fix.rs` | output directory, DEX buffer | `fix_dex_directory_with`, `repair_directory`, `repair_one_dex` | originals kept, failures reported, output valid or absent |
| instruction scan | `src/bytecode.rs` | none | `scan_insns` | ends exactly at the end or reports where it stopped |
| library dump | `src/so.rs` | `seen` map of the watcher | `watch_and_dump`, `group_so_modules` | modules are whole and not missed; each change is dumped, a bounded number of times |
| library repair | `src/so_fix.rs` | none | `rebuild_so_sections` | section table consistent with the image |
| ART offsets, DEX parser, platform, CLI, device runner, build | `src/art.rs`, `src/dex.rs`, `src/platform.rs`, `src/main.rs`, `skills/`, `build.rs` | none | lookups, decoding, dispatch | — |

Interaction: the probes fill seven ring buffers; the main thread drains them
one after the other and calls the collector's handlers; a detached thread scans
process maps and calls `save_dex` on the same `DumpState`; a signal handler
moves the stop state; after the seal, the repair reads the files.

What is hard: two threads that share seven locks, and give them up between a
check and its use; chunks that are lost, repeated and reordered; an address that is
remapped to another DEX while events of the first are queued; fallback reads of
a process that keeps running; write errors; a stop request at any point. The
list, line by line, is `hazards` in PROJECT.json.

## 2. Modules

* **DumpState** — the collector. `pc[t]` and `job[t]` are the program counter
  and the locals of the main and the scan thread. A step is the code between
  two acquisitions of a lock another thread can hold; `captures_sealed` and
  `dex_cache`, which `save_dex` holds across several, are explicit
  (`sealOwner`, `cacheOwner`). The Take actions are the heads of the ring
  handlers up to and including the size insert of `observe_dex`; the actions
  named after a program counter are what follows. A DEX body is a sequence of
  parts: the first part is the header and determines the declared size, so
  "two bodies", "same size", "shorter than its header says" and "a hole of
  zeros" are all expressible; what else is in a part never matters.
  Every event and every remote read may see any image at the address, and
  events come in any order, any number of times or never: this stands for
  loss, duplication, reordering and remapping at once. A scan reads a header and then
  the body the header declares: in between, the address may be remapped (`Scans` bounds
  which images may follow which). `read_remote_mem` keeps what a partial read got, so that
  the scans of layout and native-buffer events (`TakeScanned`) hand over any first part of
  the body under the declared size; the maps scan (`ScanFound`) drops a body it could not read
  whole. The fallback of a read failure (`FailRead`) may also leave parts out in the middle.
* **CaptureStore** — what the collector promises, without locks: per key one
  body saved last, a taint that is never taken back, and record files published
  once, for untainted keys, after the seal. A plain file is named by the size its body was
  declared with, a record file by the length of the body: the two names differ where a body was read short.
* **DumpStateProps** — types, invariants and action properties of DumpState, and
  the refinement mapping to CaptureStore.
* **RecordIntervals** — `DexRecvState::record`, one action per loop iteration, so
  that the merge itself can be checked and proved. DumpState uses the set of
  received parts, which `CoverageExact` justifies.
* **BpfCapture** — the probes on several CPUs: what one hit does between two
  accesses of a map or a ring, the three LRU maps (any entry may be evicted) and
  four bounded rings. `run[c]` are the locals of the handler on CPU `c`.
* **Capture** — BpfCapture composed with the loop that drains its rings. The
  collector is reduced to the life of one body (under assembly, saved, forgotten),
  as DumpState has its threads and its quarantine.
* **RepairDirectory** — `repair_directory`, `dedup_dex_files` and `atomic_write` over
  several runs. A file of `repair/` is described by the input it was made from, as
  `repair_one_dex` is a function of it. Every file operation may fail, the captures
  may change between runs, and a crash may undo renames that have not
  reached the disk and cuts off what was not synced.
* **FixDirectory** — `fix_dex_directory_with`, of which the `fix` command is the only
  caller: it takes over `Files`, `NoFile` and the bounds of RepairDirectory, but its files are
  written over, so that a file may be torn; the command handles no signal, and a stop is a kill.
* **DexRepair** — `restore_bytecode`: one action per record of the in-place pass, then
  the plan of the appended code_items, the relocation and the validation. A code_item is named
  for the method it was written for, so that shared, nulled and stray `code_off`s are
  expressible; a body is `Old` or the number of the record it came from.
* **RunLoop** — `run` over its rings as record counters: batches, the stop check,
  detach, final drain, seal, exit; the probes may produce at any time while attached.
* **ArtChain** — `handle_art_method` from a method to its DEX: a heap of objects with
  slots, a layout the probes believe in and one the runtime has, words that point elsewhere, and
  `handle_layout_debug_event`, which searches memory for what the chain did not find. A search finds the
  DEX, finds that there is no header, or fails whatever is there (pages that cannot be read, the limit of the back-scan,
  the stop); an event handled after the stop is dropped.
* **NativeCapture** — the entry and return probes of copies and mappings over the two args
  maps, the ring, the handler with its budget and the ELF files. A thread may nest calls, be
  killed in one or jump out of one; a map may be full. `scans` and `skipped` are histories, for what the
  budget is to bound.
* **JniSymbols** — the `RegisterNatives` probe, the collector's `jni_methods`, and the files
  of symbols at the stop, while libraries are unloaded or replaced.
* **SoWatch** — `watch_and_dump` against a process that changes between any two steps. A
  fingerprint is a function of the content that need not tell two contents apart.
* **SoModules** — `group_so_modules`, one action per entry of each of its passes. The layouts it may
  meet are a constant, of which only what the kernel guarantees is assumed: entries are not empty, in order and apart.
* **MCDumpState, MCRunLoop, MCCapture, MCRepairDirectory, MCAlgorithms, MCNative** — images,
  rings, inputs and bounds for TLC. Four of them are sums: the initial state chooses one
  of several specifications that share nothing, and the others stay as they are, so the state space
  is the sum of theirs and not the product. MCRunLoop is RunLoop or
  SoWatch (the commands that run until a stop); MCRepairDirectory is RepairDirectory or FixDirectory (the
  commands that work on a directory); MCAlgorithms is RecordIntervals,
  ArtChain or DexRepair; MCNative is NativeCapture, JniSymbols or SoModules.
* **DumpStateProofs, SaveDexProofs, CollectorProofs** (DumpState and its refinement of CaptureStore),
  **CaptureProofs** (BpfCapture, Capture), **RunLoopProofs** (RunLoop, SoWatch), **RepairDirectoryProofs**
  (RepairDirectory, FixDirectory), **AlgorithmsProofs** (RecordIntervals, DexRepair, ArtChain),
  **NativeProofs** (NativeCapture, JniSymbols, SoModules) — the proofs.

An operator commented "Mutant of X" is a plausible bug in X; it is not part of
any specification, and the property it is listed with fails when it replaces X.

## 3. Runs

| Run | Question | Bounds |
|---|---|---|
| `threads` | Do the lock regions of the two threads compose? `SaveProtocol`, `JsonDescribesItsDex`, `PlainDexKept`, `SealIsFinal`; is a `save_dex` atomic? `ImplementsStore`; does a stop end the run? `StopEndsRun` | 3 images of two sizes, 2 events out of chunks, methods and scanned bodies that may be short, or of another image than their header (`ShortScans`), 1 body of the maps scan, 1 write error, stops at any time |
| `main` | Is what the collector keeps about a key consistent between handlers? `TypeOK`, `NothingLeftOver`, `NamesMatchBody`; can chunks be assembled into anything but a whole body? `AssembledWhole` | 3 images of two sizes that share parts, all 5 event kinds, 5 events, 1 write error, `--no-maps-scan` |
| `run_loop` | Does a normal stop drain the rings, and is every ring served? `NormalStopDrains`, `StopEndsRun`, `EveryRingServed`. Is what changed captured in each pass of the watcher, and does it end? `CapturedInPass`, `StopEndsWatch` | 3 rings, batch 2, capacity 3 (a full batch and a rest); 2 modules, 3 contents of which two share a fingerprint, 2 re-dumps, 2 changes |
| `algorithms` | Is the merge right? `CompleteIffAllReceived`. Does a method get its own DEX, and the fallback what the chain misses? `OwnDexFirst`, `ReachableResolved`, `FallbackOff`, `FallbackSearches`. Do the two passes of the repair and the relocation compose? `PassesDisjoint`, `LastCaptureWins`, `OthersKept`, `LossCounted` | a DEX of 7 bytes: 3 separate intervals with gaps, and a fourth that touches, overlaps or bridges them; 2 methods, 3 layouts of which one is out of reach, 6 stray words, 2 hits, 1 wiped header, a ring of 1, a stop at any time; 2 methods, bodies of length 0 to 2, 2 records, one kind of damage in a file |
| `capture` | Do the probes lose a part? `PartsKept`, `FinishedIsSaved` | 2 CPUs, a DEX of 3 parts, 2 chunks a call, 1 eviction, 1 page fault, refused saves and expiry |
| `capture_live` | Is each DEX saved in the end, and the bytecode of a marked method kept? `EventuallySaved`, `MarkedMethodRecorded` | 1 CPU, 2 DEXes of 2 parts and 1 part, 1 method, 1 eviction, rings of one or two records, no room for announcements, nothing dropped in user space |
| `repair` | Does a failing repair keep what it has? `TypeOK`, `OutputsWhole`, `FailureKeepsOutput`, `SuccessMeansRepaired`. What does `fix` leave in `final/`? `FinalWhole`, `SuccessMeansFixed` | 3 files, 2 runs, 1 failing operation, 1 signal, a crash in each run; 2 DEXes with 4 kinds of input, 2 runs, 1 failing operation, a kill in each |
| `native` | Does a return probe find the arguments of its own call? `ArgsMatchCalls`; what do budget and cache bound? `BudgetHeld`, `ElfTriedOnce`. Are native methods named for what they are? `RawNamesFirst`, `SymbolsExact`. Are the maps grouped into whole modules? `ModulesExact` | 2 threads, 3 calls, 2 deep, a map of one entry, a ring of one record, budget 1, a window of 2 ticks out of 3; 2 processes, 4 libraries (two of one name, two whose names are sanitized to one), 2 tables of 2, a limit of 1, 1 remap; 4 pages, 2 libraries, every choice of options |
| `fallback`, `assembly_scan`, `gated_drain`, `partial_scan` | divergences from what comments, tests and README say; section 6 | the smallest that show them |

`CHECK_DEADLOCK FALSE` is set where the program ends: the three algorithms, and the two
directory commands.

One key is enough in the DumpState runs: every map is keyed by (pid, begin), a
handler touches one key, and the two locks held across steps are global. Two
threads on one key is the worst case for every property; the proofs hold for
any set of keys. Two bodies of one size and one of another are the cases the
code tells apart; a scanned body against two events puts the scan
thread's `save_dex` before, inside and after each handler; the longer sequences of events, which need no second
thread, are those of `main`. Two records of one method is where the passes of the
repair can collide, and two methods where one takes the code_item of another; 4 pages give a nameless run with an image on either side of its end.

Fairness: `FairSpec` assumes that the main thread and the scan thread are
scheduled when they can take a step (operating-system threads; the locks they
wait for are released by the other one's steps), never that a signal or an event
comes. RunLoop assumes the same of the main thread and nothing of the probes,
which may produce for ever. `BusySpec` of Capture assumes weak fairness of each
CPU (a handler that was entered runs to its end, as eBPF programs do) and of each ring's
handler, and that the application keeps executing methods of every DEX (strong
fairness of Hit): without that no probe is ever hit again and an unfinished
DEX stays unfinished. It holds for one CPU and with pages that are resident. With two
CPUs there is a counterexample: one keeps loading the progress, and storing it after
the other advanced, so that both send the same parts for ever. No real schedule is so
unfair for long, but the code does not exclude it, and `capture_live` does not claim it.
The safety properties of `capture` hold on two CPUs with page faults. The watcher is given weak
fairness of its own steps (`WatchStep`) and nothing of the process, which may change modules until the bound.

`FinishedIsSaved` excepts a DEX whose pending body user space dropped
(`forgotten`: the expiry after 30 s, a refused save), and `MarkedMethodRecorded` a
method whose record did not fit its ring (`lost`): the probes will not send either
again before an LRU map evicts its entry.

## 4. Proofs

Every safety invariant and action property a passing run checks is also a theorem, for all values of
the constants that the named assumptions allow. In each, an inductive invariant is proved of `Init` and of
each action; it was checked by TLC first, on the runs' instances.

Collector (DumpStateProofs, SaveDexProofs, CollectorProofs), for all keys, images, sizes and bounds:

* `TypeCorrect`: `TypeOK` is not inductive alone: `ChunkPending` indexes the single part of the chunk
  in hand. `TypeInv == TypeOK /\ ChunkInHand` adds that while a chunk is handled `job` holds one
  part at an index of at least 1.
* `SaveProtocolHolds`: `SaveProtocol` is inductive on top of `TypeInv`. It
  says who holds the two long locks at each program counter, that the seal falls between
  captures, and that a second body is written only after its key was marked. The crux is
  `ComparedFirst`: the other thread cannot capture the key in between, as it would
  need `captures_sealed`.
* `SealFinal`, `PlainKept`: action properties, from `SaveProtocol`: after the seal
  no thread is inside `save_dex`; a write to a saved key carries a hash.
* `JsonDescribes`: by `CollectorInv` on top of those. `JsonDescribesItsDex` speaks of the state at the end; what
  makes it true is what every map says of a key all along: each size in use, in a table or in the hands
  of a thread, was the last one observed for its key, or the key is in doubt (`Doubted`: ambiguous, or a thread stands right
  before marking it). Doubt is the point of the invariant: `observe_dex` replaces the size in one lock region and the key is marked in
  a later one, and in between the two tables contradict each other (`SizesObserved`, `EntriesObserved`,
  `RecordsObserved`, `BodiesObserved`). At the seal nobody stands there, so a key that is not ambiguous has one size.
  `OnDisk` and `NamesResolved` say the same of its plain file and of the names. `BodiesFit` says of the bodies in hand only that
  none is longer than the size it is declared with: a scanned one may be shorter. So a record file stands for the DEX its records were
  reported for, but not always under that DEX's name; the rest is run `partial_scan`.
* `StoreImplemented`: `ImplementsStore`, action by action under the refinement mapping: a step maps to
  a capture, a taint, a record, the seal, a publication, or a stutter. The steps of `save_dex` before and after the insert
  stutter because `SaveProtocol` says no other thread can see them.
* `NothingLeft`, `NamesMatch` by `AloneInv`, and `Assembled` by `AssemblyInv`, under the hypothesis `~MapsScan`
  (`--no-maps-scan`). It cannot be dropped: run `assembly_scan` violates `AssembledWhole` with the scan thread, and
  section 6 says how a pending entry outlives its save. `AloneInv` says what a quarantine has dropped so far at each of its
  steps, `AssemblyInv` that each part of a pending entry is the part at that index of an image of the entry's size;
  it uses `MarkersAssumption`, that the values which stand for a hole and for unreadable memory are no image's parts.

Probes (CaptureProofs), for any CPUs, DEXes, methods and ring sizes:

* `NothingLost`: `ProgressSent /\ PartsKept` on top of `TypeOK`. Progress in
  the map and in each CPU's locals never passes a part that was not sent, although
  a CPU overwrites another's, because parts sent stay sent; and a part sent moves from the
  ring to the pending table to the cache. `FinishedSaved` follows: with all parts
  sent and none waiting, a body not saved would be whole and still pending.
* `MarkedRecorded`: `MarkedMethodRecorded`, strengthened by who holds bytecode at which step (`CodeHeld`).

Loops that run until a stop (RunLoopProofs):

* `StopDrains`: by `DrainedBehind`: detached exactly from the final drain on, and rings before `cur` are empty.
* `PassCaptures`: `CapturedInPass`, for any modules, contents and fingerprint function, by `WatchInv`: a key in `seen` has its output
  of a content with that fingerprint, unless it waits in `fresh` or its last capture is spoilt (`SeenCaptured`), and
  a module that was looked at and is steady has its present fingerprint there (`LookedAt`).

Directory commands (RepairDirectoryProofs), for any number of inputs and runs:

* `AlwaysWhole`, `OutputsKept`: by `Durable`: every output, and the one
  it replaced, is synced, and the temporary file is whole before it is synced and synced
  before it is renamed.
* `SuccessRepaired`: by the loop invariant `Processed`: every file
  looked at has its content among the files retained (`Represented`), and every retained file
  before `at` has an output of its content or `failures` is not empty.
* `FinalSettled`, `SuccessFixed`: by `FixInv`: each DEX already taken is settled (`Settled`: its file in `final/` is whole and its
  own, and it is fixed and reported or counted as a failure), and what is known of the one in hand at each stage (`InHand`),
  where files are torn. What earlier runs left is not mentioned: it is overwritten or does not matter.

Algorithms (AlgorithmsProofs):

* `RecordExact`, `CompleteExact`: by the loop invariant `Merging`:
  what is merged, the interval in hand and the rest of the old vector cover
  the received bytes, each left of the next. Completeness follows since a normal vector
  that covers one gapless range is one interval.
* `Disjoint`, `LastWins`, `UncapturedKept`, `LossesCounted`: from `Inv`, carried through both
  passes: `LastTaken` (`by_method` is the last record looked at of each method), `Inlined`
  (a record is in place only where its length fits, with the last one on top), `Planned`
  (a code_item is planned for exactly what the first pass could not place) and `Finished`
  (the body of a method in the end follows from the plan and from whoever shares its code_item).
* `OwnFirst`, `ReachedResolved`, `FallbackIsOff`, `MissedIsSearched`, for any methods, slots, layouts, search orders and stray words:
  the first two from what the chain returns (`FirstDexIs`: the first read that finds a DEX; `OwnRead`: at the offsets of the running ART the reads end in the method's own file),
  the others from `ArtInv`: what the queue may hold without the fallback (`NoneWaits`), and that a code
  item in `layout_events_seen` was searched for (`SeenSearched`), so that dropping a repeat loses nothing but a second try, each method
  once (`SearchedOnce`), and that events are dropped only after the stop (`DroppedAtStop`).

Native code (NativeProofs):

* `EntriesMatch`: `ArgsMatchCalls` is inductive with the type invariant as
  `Matched`: an entry left in a map belongs to a call its thread is in, or to a thread
  that abandoned one; a call that nobody disturbed returns to its own arguments; an mmap
  is announced with another call's size only after an abandoned or nested call. `TriedOnce` follows
  from the order of the cache and the write.
* `BudgetBounds`: `BudgetHeld`, for any budget and window length, by `WindowInv`: the budget spent counts the last scans, all made since the window
  opened; those before are older than it, and all but the last `Budget` of those a whole window older.
* `NamedFirst`, `SymbolsPlaced`: by `JniInv`. A function's first name is the first in `jni_methods`, or, while
  it has none there, the first in the ring (`FirstInv`: this is what taking a record from the ring keeps); every record comes from an
  entry that was walked, and an entry's library is the one mapped now unless it moved (`RegisteredInv`).
* `ModulesWhole`: `ModulesExact`, for every layout the kernel may list and any options, by `GroupInv`: each library met so
  far has one module, which spans exactly its entries so far (`SpansInv`); each nameless module is a gapless run of entries, the modules follow each
  other, and every image before the entry in hand is in one (`AnonInv`).

`LeastOf`, the least element of a set of numbers, is what the arguments by a first counterexample rest on (the end of a run, the
first gap): the induction principles of the library take operators as parameters, which the provers cannot instantiate, and
the well-foundedness of `<` serves instead.

The type invariants of RunLoop, RecordIntervals, Capture and NativeCapture are proved
and not listed in a run, as are `CoverageExact` and `ProgressSent`, on which others rest. The theorems
speak of each component's own specification; that the sums the runs check (MCRunLoop and the like) leave the other components
as they are is by their definition.

Only model-checked: all liveness (`StopEndsRun`, `EveryRingServed`, `StopEndsWatch`, `EventuallySaved`), as fairness
and ENABLED are outside the prover.

## 5. Not modelled

* Most lines of the repository's C files are the generated `vmlinux/*.h` and the vendored
  libbpf headers, declarations without behaviour. Of the program's own C, `bpf/bpf.c`,
  every probe is modelled.
* The search for DEX and ELF headers in the bytes of a range, and the reading of sections out
  of them: what a scan finds is a free choice. The maps cache behind `should_skip_system`:
  its verdict is a free choice as well.
* What `flush_json` leaves of the keys after a write error; a half-written JSON is an input that cannot be applied.
  RunLoop has the error itself: `run` then returns without the repair (`Following`).
* The maps-only mode of `dump` (dump.rs 1077–1111): one thread scans once, without probes, saves what it found, and
  ends as `run` does. Its `save_dex`, `flush_json` and repair are those modelled; there are no events they could interleave with,
  and no records to publish.
* Header, map and format fields of a repaired DEX, and the bytes of tries and handlers:
  DexRepair takes as inputs whether a code_item can be read to its end (`sound`)
  and whether bytecode decodes (`decodes`). `src/bytecode.rs` computes the latter, and
  is a walk over one method's bytes without state.
* `src/so_fix.rs` writes an ELF section table from bytes; its loop over a directory keeps nothing
  between files. Two things in it are worth a look: symbols are matched by a suffix of
  the name (1294), so that `test_libfoo` takes the symbols of `libfoo`, and files of one name
  in two directories share an output (1248).
* The single pass of `dumpso` without `--watch` (the body of one pass of SoWatch), and the
  sum of read pages that tells a partial read from a whole one.
* `src/art.rs`, `src/dex.rs`, `src/platform.rs`, the command line, the device runner under `skills/`
  and the build: decoding, layout or I/O, with no state to interleave.

## 6. Where the code and its documentation part

* `fallback`: a fallback read with holes is cut at the *number* of bytes read and
  saved, although `save_dex` promises not to leave half-truncated files.
* `assembly_scan`: between the scan thread's size insert and its quarantine, a
  chunk of the new DEX completes the old pending entry; a body shorter than its header is saved.
* `gated_drain`: the final drain consumes read-failure, layout and native-buffer
  records whose handlers return at once, although the README says queues are drained.
* `partial_scan`: a body of which a scan read only the first part is saved under the size in its header, and its records are
  written under the length of what was read. The repair and `fix` look for records by the DEX's name and never apply these, although `flush_json` says
  it does not write a file for which "the fix stage would never find a matching DEX".

Worth knowing, though nothing says otherwise:

* `NothingLeftOver`, `NamesMatchBody` and `AssembledWhole` hold where one thread captures (`main`); they say nothing of races between
  two, which are `threads` and `assembly_scan`. With the maps scan, a body saved between a
  late chunk's cache check and its insert leaves a pending entry for a saved DEX, until it expires.
* A duplicate that is skipped keeps the output an earlier repair wrote for it.
* The `repair` command installs no signal handler, so that its check of the stop state
  only ever matters at the end of a dump.
* `fix` never removes the `_missed.json` an earlier run left in `final/`: it may stand beside a DEX it
  does not describe.
* The watcher dumps a module again only when its fingerprint changed: content that changes
  while it is captured, and back before the next pass, stays captured wrong (`spoilt`).

## 7. Plan

What is left, in order of importance:

1. **ScanMaps**: header search over a range that is read in pieces, against a search of the
   whole, to replace the free choice of what a scan finds; the theorem is that the pieces miss no header.
2. A bound on how often SoWatch dumps a module, as a theorem next to `PassCaptures`.
3. **InsnScan**: `scan_insns` with its payload sizes, to replace `decodes`.
4. **FixSo**: the matching of symbol files to libraries, and outputs that share a name.
