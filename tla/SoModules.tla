------------------------------ MODULE SoModules ------------------------------
(***************************************************************************)
(* group_so_modules of src/so.rs: the mappings of a process, in order and  *)
(* apart as the kernel lists them, are grouped into the modules dumpso     *)
(* reads: one span for each library, and one for each run of nameless      *)
(* mappings that begins with an ELF image.                                 *)
(***************************************************************************)
EXTENDS Naturals, Sequences

CONSTANTS
  Layouts,   \* what /proc/<pid>/maps may list: sequences of entries
  SoPaths,   \* libraries, by path
  Firmware,  \* those is_system_lib_path tells
  Nameless, Named, \* no path, a path of no library
  NoFilter

(* head: whether the memory begins with the magic of an ELF image.           *)
Entry == [start : Nat, end : Nat, path : SoPaths \cup {Nameless, Named},
          head : {"elf", "plain", "unreadable"}]

ASSUME SoAssumption ==
  /\ Firmware \subseteq SoPaths
  /\ \A s \in SUBSET SoPaths : s # NoFilter
  /\ {Nameless, Named} \cap SoPaths = {} /\ Nameless # Named
  /\ \A s \in Layouts :
       /\ s \in Seq(Entry)
       /\ \A n \in DOMAIN s : s[n].start < s[n].end
       /\ \A n \in DOMAIN s : \A m \in 1..n - 1 : s[m].end <= s[n].start

VARIABLES
  maps,    \* the entries
  options, \* the libraries that match lib_filter, include_anon, include_system
  pass,    \* "files", "anon", "done"
  at_entry, \* entry the pass is at
  modules  \* mods: [path, base, end]

groupVars == <<maps, options, pass, at_entry, modules>>

GroupInit ==
  /\ maps \in Layouts
  /\ options \in [filter : SUBSET SoPaths \cup {NoFilter}, anon : BOOLEAN, system : BOOLEAN]
  /\ pass = "files" /\ at_entry = 1 /\ modules = <<>>

Selected(e) ==
  /\ e.path \in SoPaths
  /\ IF options.filter # NoFilter THEN e.path \in options.filter
     ELSE options.system \/ e.path \notin Firmware

Extended(m, e) == [m EXCEPT !.base = IF e.start < @ THEN e.start ELSE @,
                            !.end = IF e.end > @ THEN e.end ELSE @]

FileEntry ==
  LET e == maps[at_entry]
  IN /\ pass = "files" /\ at_entry <= Len(maps)
     /\ at_entry' = at_entry + 1
     /\ IF ~Selected(e) THEN UNCHANGED modules
        ELSE IF \E k \in DOMAIN modules : modules[k].path = e.path
        THEN modules' = [k \in DOMAIN modules |->
                           IF modules[k].path = e.path THEN Extended(modules[k], e) ELSE modules[k]]
        ELSE modules' = Append(modules, [path |-> e.path, base |-> e.start, end |-> e.end])
     /\ UNCHANGED <<maps, options, pass>>

(* A filter, which no nameless mapping can match, takes include_anon away.   *)
FilesGrouped ==
  /\ pass = "files" /\ at_entry > Len(maps)
  /\ pass' = IF options.anon /\ options.filter = NoFilter THEN "anon" ELSE "done"
  /\ at_entry' = 1
  /\ UNCHANGED <<maps, options, modules>>

(* Entry n goes on with the run of the one before it. *)
Joins(n) == maps[n].path = Nameless /\ maps[n].start = maps[n - 1].end

RunEnd(n) == CHOOSE j \in n + 1..Len(maps) + 1 :
               /\ \A k \in n + 1..j - 1 : Joins(k)
               /\ j <= Len(maps) => ~Joins(j)

(* Mutant of AfterRun: the entry that ended the run is not looked at. *)
PastRun(j) == j + 1

AfterRun(j) == j

AnonEntry ==
  /\ pass = "anon" /\ at_entry <= Len(maps)
  /\ IF maps[at_entry].path # Nameless \/ maps[at_entry].head # "elf"
     THEN at_entry' = at_entry + 1 /\ UNCHANGED modules
     ELSE /\ modules' = Append(modules, [path |-> Nameless, base |-> maps[at_entry].start,
                                         end |-> maps[RunEnd(at_entry) - 1].end])
          /\ at_entry' = AfterRun(RunEnd(at_entry))
  /\ UNCHANGED <<maps, options, pass>>

Grouped ==
  /\ pass = "anon" /\ at_entry > Len(maps)
  /\ pass' = "done"
  /\ UNCHANGED <<maps, options, at_entry, modules>>

Returned == pass = "done" /\ UNCHANGED groupVars

GroupNext == FileEntry \/ FilesGrouped \/ AnonEntry \/ Grouped \/ Returned

GroupSpec == GroupInit /\ [][GroupNext]_groupVars

-----------------------------------------------------------------------------

Of(p) == {k \in DOMAIN modules : modules[k].path = p}
Anons == Of(Nameless)

(* A library that is asked for is one module, from the first of its mappings *)
(* to the last, whatever else is mapped between them; no other library is.   *)
SpansExact ==
  pass = "done" => \A p \in SoPaths :
    LET its == {n \in DOMAIN maps : maps[n].path = p /\ Selected(maps[n])}
    IN /\ its = {} <=> Of(p) = {}
       /\ \A k, l \in Of(p) : k = l
       /\ \A k \in Of(p) : /\ \A n \in its : modules[k].base <= maps[n].start /\ maps[n].end <= modules[k].end
                           /\ \E n \in its : maps[n].start = modules[k].base
                           /\ \E n \in its : maps[n].end = modules[k].end

(* A nameless module has no gap and no named mapping in it, which would make *)
(* its offsets wrong or its reading fail.                                    *)
AnonWhole ==
  \A k \in Anons : \A a \in modules[k].base..modules[k].end - 1 :
    \E n \in DOMAIN maps : maps[n].path = Nameless /\ maps[n].start <= a /\ a < maps[n].end

(* No self-mapped image is passed over: each is in a nameless module, and in *)
(* one only.                                                                 *)
ElfFound ==
  pass = "done" /\ options.anon /\ options.filter = NoFilter =>
    \A n \in DOMAIN maps : maps[n].path = Nameless /\ maps[n].head = "elf" =>
      \E k \in Anons : /\ modules[k].base <= maps[n].start /\ maps[n].end <= modules[k].end
                       /\ \A l \in Anons \ {k} : modules[l].end <= maps[n].start \/ maps[n].end <= modules[l].base

(* Each library and each self-mapped image is one module, and whole. *)
ModulesExact == SpansExact /\ AnonWhole /\ ElfFound
=============================================================================
