------------------------------- MODULE ArtChain -------------------------------
(***************************************************************************)
(* From an ArtMethod to its DEX: handle_art_method of bpf/bpf.c follows    *)
(* method, class, DEX cache, DEX file and begin_ through a heap whose      *)
(* layout it only believes to know, and searches nearby slots when that    *)
(* fails.  A failed chain sends the code item to src/dump.rs, which looks  *)
(* for the DEX around it, once for a code item.  A word that is no field of *)
(* a chain may point to anything.                                          *)
(***************************************************************************)
EXTENDS Naturals, Sequences

CONSTANTS
  Methods,       \* methods, each with a chain of its own
  Slots,         \* offsets in an object
  Search,        \* the offsets tried for Class::dex_cache_ and DexCache::dex_file_
  BeginSlots,    \* the fixed offsets tried for DexFile::begin_
  Layouts,       \* [class, cache, begin : Slots], configured or true
  Words,         \* words <<object, slot, object>> that may hold another pointer
  MaxHits, MaxFlips, \* bounds: method entries, headers wiped or restored
  Room           \* records layout_debug_events holds

Null  == [of |-> "null"]
NoDex == Null

(* The objects of a method's chain. *)
Class(m) == [of |-> "class", m |-> m]
Cache(m) == [of |-> "cache", m |-> m]
File(m)  == [of |-> "file",  m |-> m]
Dex(m)   == [of |-> "dex",   m |-> m]
Objects  == UNION {{Class(m), Cache(m), File(m), Dex(m)} : m \in Methods}

ASSUME ArtAssumption ==
  /\ Search \in Seq(Slots) /\ BeginSlots \in Seq(Slots)
  /\ Layouts \subseteq [class : Slots, cache : Slots, begin : Slots]
  /\ Words \subseteq Objects \X Slots \X Objects
  /\ MaxHits \in Nat /\ MaxFlips \in Nat /\ Room \in Nat

VARIABLES
  layout,     \* art_layout_map
  actual,     \* the layout of this ART
  strays,     \* the word, if any, that points elsewhere
  hasCode,    \* methods whose data field holds a code item
  config,     \* code_item_fallback, debug_layout
  intact,     \* methods whose DEX has its header
  layout_debug_events,
  seen,       \* layout_events_seen
  announced,  \* history: DEXes handed to submit_dex_from_begin
  searched,   \* history: [m, outcome] of each search around a code item
  missed,     \* history: methods whose chain failed, and what was intact then
  lost,       \* history: methods an event of which found no room
  dropped,    \* history: methods an event of which came after the stop
  stopping,   \* ~keep_running()
  hits, flips \* counters of the bounds

setup   == <<layout, actual, strays, hasCode, config>>
artVars == <<setup, intact, layout_debug_events, seen, announced, searched, missed,
             lost, dropped, stopping, hits, flips>>

(* The fields of m's chain, where this ART has them. *)
Chain(m) ==
  {<<Class(m), actual.class, Cache(m)>>, <<Cache(m), actual.cache, File(m)>>,
   <<File(m), actual.begin, Dex(m)>>}

Fields == UNION {Chain(m) : m \in Methods}

(* What a read of a word gives. *)
Word(o, s) ==
  LET W == {w \in Fields \cup strays : w[1] = o /\ w[2] = s}
  IN IF W = {} THEN Null ELSE (CHOOSE w \in W : TRUE)[3]

ArtInit ==
  /\ layout \in Layouts /\ actual \in Layouts
  /\ strays \in {{}} \cup {{w} : w \in Words}
  /\ \A w \in strays, f \in Fields : <<w[1], w[2]>> # <<f[1], f[2]>>
  /\ hasCode \in SUBSET Methods
  /\ config \in [fallback : BOOLEAN, debug : BOOLEAN]
  /\ intact \in SUBSET Methods
  /\ layout_debug_events = <<>> /\ seen = {} /\ announced = {} /\ searched = {}
  /\ missed = {} /\ lost = {} /\ dropped = {} /\ stopping = FALSE
  /\ hits = 0 /\ flips = 0

(* looks_like_dex_header *)
LooksLikeDex(a) == \E m \in intact : a = Dex(m)

(* What the first read of several that finds a DEX gives. *)
FirstDex(reads) ==
  LET F == {n \in DOMAIN reads : reads[n] # NoDex}
  IN IF F = {} THEN NoDex ELSE reads[CHOOSE n \in F : \A k \in F : n <= k]

(* read_valid_dex_begin *)
ReadValidBegin(f) ==
  LET slots == <<layout.begin>> \o BeginSlots
      word(n) == Word(f, slots[n])
  IN FirstDex([n \in DOMAIN slots |-> IF LooksLikeDex(word(n)) THEN word(n) ELSE NoDex])

(* read_dex_from_art_method, from the class on *)
ReadDex(m, slots) ==
  LET cache == Word(Class(m), slots[1])
      file  == Word(cache, slots[2])
  IN IF cache = Null \/ file = Null THEN NoDex ELSE ReadValidBegin(file)

(* Mutant of SlotPairs: the configured layout is tried last. *)
SearchFirst(s) ==
  LET L == Len(s)
  IN [n \in 1..L * L |-> <<s[((n - 1) \div L) + 1], s[((n - 1) % L) + 1]>>]
       \o <<<<layout.class, layout.cache>>>>

(* The configured pair of offsets, then each pair of the search. *)
SlotPairs(s) ==
  LET L == Len(s)
  IN <<<<layout.class, layout.cache>>>> \o
     [n \in 1..L * L |-> <<s[((n - 1) \div L) + 1], s[((n - 1) % L) + 1]>>]

ReadAll(m, pairs) == [n \in DOMAIN pairs |-> ReadDex(m, pairs[n])]

(* Mutant of Resolve: the loops end one slot early. *)
ResolveShort(m) == FirstDex(ReadAll(m, SlotPairs(SubSeq(Search, 1, Len(Search) - 1))))

(* resolve_dex_from_art_method *)
Resolve(m) == FirstDex(ReadAll(m, SlotPairs(Search)))

(* Mutant of Submits: debugging sends the fallback's events too. *)
SubmitsInDebug(e) == config.debug \/ (e.reason # "none" /\ config.fallback)

(* The early returns of submit_layout_debug_event. *)
Submits(e) ==
  /\ config.debug \/ (e.reason # "none" /\ config.fallback)
  /\ config.fallback \/ e.source # "code_item"

Submit(e) ==
  IF ~Submits(e) THEN UNCHANGED <<layout_debug_events, lost>>
  ELSE IF Len(layout_debug_events) >= Room
  THEN lost' = lost \cup {e.m} /\ UNCHANGED layout_debug_events
  ELSE layout_debug_events' = Append(layout_debug_events, e) /\ UNCHANGED lost

(* handle_art_method: m is entered.  What follows an announcement is BpfCapture's. *)
HandleArtMethod(m) ==
  LET d == Resolve(m)
  IN /\ hits < MaxHits
     /\ hits' = hits + 1
     /\ IF d = NoDex
        THEN /\ Submit([m |-> m, code |-> m \in hasCode, begin |-> NoDex, source |-> "code_item",
                        reason |-> IF m \in hasCode THEN "chain" ELSE "code_item"])
             /\ missed' = missed \cup {[m |-> m, intact |-> m \in intact]}
             /\ UNCHANGED announced
        ELSE /\ Submit([m |-> m, code |-> FALSE, begin |-> d, source |-> "art_chain", reason |-> "none"])
             /\ announced' = announced \cup {[m |-> m, dex |-> d, intact |-> m \in intact]}
             /\ UNCHANGED missed
     /\ UNCHANGED <<setup, intact, seen, searched, dropped, stopping, flips>>

(* Mutant of Identity: events are told apart by their reason alone. *)
ReasonOnly(e) == <<e.reason, e.source>>

(* What layout_events_seen keeps of an event. *)
Identity(e) ==
  <<IF e.begin # NoDex THEN e.begin ELSE [of |-> IF e.code THEN "code" ELSE "method", m |-> e.m],
    e.reason, e.source>>

(* How dump_dex_from_code_item may end.  Whatever is there, its back-scan may *)
(* skip a page it cannot read, reach its limit, be stopped by the signal, or  *)
(* find the header and then fail to read the body.                            *)
Outcomes(m) == {"failed", IF m \in intact THEN "found" ELSE "absent"}

(* handle_layout_debug_event: the event is marked before it is searched for. *)
HandleLayoutEvent ==
  LET e == Head(layout_debug_events)
  IN /\ layout_debug_events # <<>> /\ ~stopping
     /\ layout_debug_events' = Tail(layout_debug_events)
     /\ seen' = seen \cup {Identity(e)}
     /\ IF e.code /\ Identity(e) \notin seen
        THEN \E o \in Outcomes(e.m) : searched' = searched \cup {[m |-> e.m, outcome |-> o]}
        ELSE UNCHANGED searched
     /\ UNCHANGED <<setup, intact, announced, missed, lost, dropped, stopping, hits, flips>>

(* Its early return once a stop was requested. *)
DropLayoutEvent ==
  /\ layout_debug_events # <<>> /\ stopping
  /\ layout_debug_events' = Tail(layout_debug_events)
  /\ dropped' = dropped \cup {Head(layout_debug_events).m}
  /\ UNCHANGED <<setup, intact, seen, announced, searched, missed, lost, stopping, hits, flips>>

(* The first signal.  The probes are not detached yet. *)
Stop ==
  /\ ~stopping
  /\ stopping' = TRUE
  /\ UNCHANGED <<setup, intact, layout_debug_events, seen, announced, searched, missed, lost,
                 dropped, hits, flips>>

(* A packer wipes a header, or puts it in place. *)
Flip(m) ==
  /\ flips < MaxFlips
  /\ flips' = flips + 1
  /\ intact' = IF m \in intact THEN intact \ {m} ELSE intact \cup {m}
  /\ UNCHANGED <<setup, layout_debug_events, seen, announced, searched, missed, lost,
                 dropped, stopping, hits>>

ArtNext ==
  \/ \E m \in Methods : HandleArtMethod(m) \/ Flip(m)
  \/ HandleLayoutEvent \/ DropLayoutEvent \/ Stop

ArtSpec == ArtInit /\ [][ArtNext]_artVars

-----------------------------------------------------------------------------

(* With the layout of this ART, a method never gets another method's DEX     *)
(* while its own is intact, whatever the words of the search point to.       *)
OwnDexFirst ==
  layout = actual => \A a \in announced : a.intact => a.dex = Dex(a.m)

(* The offsets the search can reach: both of the configured pair, or both of *)
(* the search; and begin_ at a configured or fixed offset.                   *)
Reachable ==
  /\ \/ layout.class = actual.class /\ layout.cache = actual.cache
     \/ \A s \in {actual.class, actual.cache} : \E n \in DOMAIN Search : Search[n] = s
  /\ actual.begin = layout.begin \/ \E n \in DOMAIN BeginSlots : BeginSlots[n] = actual.begin

(* A layout within the search's reach is found though the configured one is  *)
(* wrong: no intact DEX goes to the fallback.                                *)
ReachableResolved == Reachable => \A e \in missed : ~e.intact

(* "--no-code-item-fallback" holds with "--debug-layout" too: no memory is   *)
(* searched for a code item.                                                 *)
FallbackOff == ~config.fallback => searched = {}

(* A method with a code item whose chain failed has its DEX searched for,    *)
(* unless its event still waits, found no room or came after the stop.  It   *)
(* is searched for once: a search that failed, or came before the packer put *)
(* the header in place, is not repeated.                                     *)
FallbackSearches ==
  /\ config.fallback => \A e \in missed :
       e.m \in hasCode =>
         \/ \E s \in searched : s.m = e.m
         \/ e.m \in lost \/ (stopping /\ e.m \in dropped)
         \/ \E n \in DOMAIN layout_debug_events : layout_debug_events[n].m = e.m
  /\ \A s, u \in searched : s.m = u.m => s = u
=============================================================================
