--------------------------- MODULE HotReloadProofs ---------------------------
(***************************************************************************)
(* A reload leaves one module in charge, with stores as wide as it takes   *)
(* them to be, and a build that cannot be taken over is survived; and the  *)
(* program builds at most once for each save.                              *)
(***************************************************************************)
EXTENDS HotReload, FiniteSetTheorems, TLAPS

(***************************************************************************)
(* The inductive invariant, one part for each piece of the state.          *)
(***************************************************************************)
TypeInv ==
  /\ edits \in 0 .. MaxEdits /\ faults \in 0 .. MaxFaults
  /\ pc \in Running \cup Starting \cup Reloading \cup {"ended"}
  /\ file \in 1 .. FileCount + 1
  /\ requested \in BOOLEAN /\ stop \in BOOLEAN
  /\ listed \subseteq Files
  /\ exit \in {"none", "failed_to_start", "stopped", "system_failed", "no_pipeline",
              "not_restored"}

\* The disk, and what was read of it: no time is ahead of the saves.
DiskInv ==
  /\ disk \in [Files -> [content : Sources \cup {Absent}, mtime : Nat]]
  /\ seen \in [Files -> Sources \cup {Absent}]
  /\ walk \in [Files -> Nat] /\ watch \in [Files -> Nat]
  /\ \A f \in Files :
       disk[f].mtime <= edits + 1 /\ walk[f] <= edits + 1 /\ watch[f] <= edits + 1

\* The build under way has read what it has passed.
ReadInv ==
  /\ pc \in {"read", "read_again", "load", "load_again"} =>
       \A f \in listed : f < file => seen[f] \in Sources
  /\ pc \in {"load", "load_again"} => file = FileCount + 1

\* No generation is ahead of the last module loaded.
GenInv ==
  /\ next.gen \in Nat
  /\ module.gen \in 0 .. next.gen
  /\ managed \in 0 .. next.gen /\ functions \in 0 .. next.gen
  /\ \A e \in systems : e.gen \in 0 .. next.gen

\* A module built from sources: what it asks of the native systems, and how
\* it names its own.
Sound(m) ==
  /\ m.natives \subseteq {"core.Window", "core.Renderer"}
  /\ \A q \in m.systems : q.name \notin NativeNames \cup {"__ecsvm.HotReload"}

ModuleInv ==
  /\ pc \notin {"open", "list", "read", "load", "ended"} => Sound(module)
  /\ pc \in {"check", "components", "switch", "swap", "restore"} => Sound(next)

\* The program runs a module, or has not yet touched it in a reload.
Untouched ==
  Running \cup {"open_again", "list_again", "read_again", "load_again", "check", "components",
                "switch"}

(* The engine belongs to one module until a reload switches the functions; *)
(* from there only the watcher is registered until the systems of either   *)
(* module come.  The systems of the running module can be registered       *)
(* again, for they were once.                                              *)
EngineInv ==
  /\ pc \in {"open", "list", "read", "load", "prepare", "watch"} => systems = {}
  /\ pc \in {"watch", "register"} => functions = module.gen
  /\ pc \in {"register", "swap", "restore"} => systems = {Watcher}
  /\ pc = "swap" => functions = next.gen
  /\ pc \in Untouched =>
       /\ functions = module.gen /\ managed = module.gen
       /\ systems = Registered({Watcher}, module)
  /\ pc \in Running \cup Reloading => Unregistrable({Watcher}, module) = {}

\* The stores serve a module: each component of it has one, of its width
\* unless a failed reload made it.
Serve(m) ==
  \A c \in DOMAIN m.layouts :
    /\ c \in DOMAIN stores
    /\ c \notin orphans => stores[c].size = m.layouts[c].size

\* Only failed reloads made stores that the module does not have.
NoStrays(m) == DOMAIN stores \ DOMAIN m.layouts \subseteq orphans

StoresInv ==
  /\ orphans \subseteq DOMAIN stores
  /\ pc \in Starting => orphans = {}
  /\ pc \in {"watch", "register"} => stores = module.layouts
  /\ pc \in Running \cup Reloading => Serve(module)
  /\ pc \in (Running \cup Reloading) \ {"switch", "swap"} => NoStrays(module)
  /\ pc \in {"components", "switch", "swap"} => Compatible(module, next)
  /\ pc \in {"switch", "swap"} => Serve(next) /\ NoStrays(next)

IInv == TypeInv /\ DiskInv /\ ReadInv /\ GenInv /\ ModuleInv /\ EngineInv /\ StoresInv

-----------------------------------------------------------------------------
(***************************************************************************)
(* Builds are counted against saves.                                       *)
(***************************************************************************)

\* The files the last snapshot, or the one under way, has passed.
Passed ==
  IF pc \in {"open", "list", "read", "load", "prepare", "ended"} THEN {}
  ELSE IF pc = "watch" THEN 1 .. file - 1 ELSE Files

\* Those that were saved since.
SavedSince == {f \in Passed : disk[f].mtime # walk[f]}

\* Whether a build is under way or asked for.
Due ==
  IF \/ requested
     \/ pc \in {"open", "list", "read", "load",
               "open_again", "list_again", "read_again", "load_again"}
  THEN 1 ELSE 0

\* Whether the walk has found a save that no build was asked for.
Found == IF pc \notin Starting \cup {"ended"} /\ walk # watch THEN 1 ELSE 0

CountInv ==
  /\ requested => pc \in {"run", "consume", "ended"}
  /\ pc = "register" => walk = watch
  /\ next.gen + Due + Found + Cardinality(SavedSince) <= MostBuilds

-----------------------------------------------------------------------------
(***************************************************************************)
(* Modules and the system table.                                           *)
(***************************************************************************)

LEMMA Numbers == FileCount \in Nat /\ MaxEdits \in Nat /\ MaxFaults \in Nat
BY SourceAssumption

(* What a build loads is sound: its systems leave the program's names to   *)
(* it, and it asks for the native systems there are.                       *)
LEMMA BuiltModuleSound ==
  ASSUME NEW tree, NEW found, NEW g, \A f \in found : tree[f] \in Sources
  PROVE  Sound(ModuleOf(tree, found, g)) /\ ModuleOf(tree, found, g).gen = g
<1>1. /\ ModuleOf(tree, found, g).gen = g
      /\ ModuleOf(tree, found, g).systems = UNION {tree[f].systems : f \in found}
      /\ ModuleOf(tree, found, g).natives = UNION {tree[f].natives : f \in found}
  BY DEF ModuleOf
<1>2. \A f \in found : tree[f].natives \subseteq {"core.Window", "core.Renderer"}
  BY SourceAssumption
<1>3. \A f \in found : \A q \in tree[f].systems :
        q.name \notin NativeNames \cup {"__ecsvm.HotReload"}
  BY ReservedNames
<1> QED
  BY <1>1, <1>2, <1>3 DEF Sound

LEMMA EntryFields == \A n, g : Entry(n, g).name = n /\ Entry(n, g).gen = g
BY DEF Entry

LEMMA WatcherFields == Watcher.name = "__ecsvm.HotReload" /\ Watcher.gen = 0
BY DEF Watcher, Entry

(* The native systems a module asks for are among those that go with it.   *)
LEMMA NeededAreNative ==
  ASSUME NEW m, Sound(m)
  PROVE  NeededNatives(m) \subseteq NativeNames
BY DEF NeededNatives, Sound, NativeNames

LEMMA WatcherIsNotNative == "__ecsvm.HotReload" \notin NativeNames
BY DEF NativeNames

(* Beside the watcher, everything a module registers carries the name of a *)
(* native system it needs or of a system of its own.                       *)
LEMMA RegisteredEntries ==
  ASSUME NEW m, Sound(m), NEW e \in Registered({Watcher}, m)
  PROVE  \/ e = Watcher
         \/ e.name \in NeededNatives(m) /\ e.gen = 0
         \/ (\E q \in m.systems : e.name = q.name) /\ e.gen = m.gen
<1>1. \/ e = Watcher
      \/ \E n \in NeededNatives(m) : e = Entry(n, 0)
      \/ \E q \in m.systems : e = Entry(q.name, m.gen)
  BY DEF Registered, NativeEntries, ManagedEntries
<1> QED
  BY <1>1, EntryFields

(* Whatever part of a module's systems was registered, removing them by    *)
(* name leaves the watcher and nothing else.                               *)
LEMMA OnlyWatcherStays ==
  ASSUME NEW m, Sound(m), NEW t, {Watcher} \subseteq t, t \subseteq Registered({Watcher}, m)
  PROVE  WithoutSystems(t, m) = {Watcher}
<1>1. ASSUME NEW e \in t, e # Watcher PROVE e.name \in ProjectNames(m)
  BY <1>1, RegisteredEntries, NeededAreNative DEF ProjectNames
<1>2. Watcher.name \notin ProjectNames(m)
  BY WatcherFields, WatcherIsNotNative DEF ProjectNames, Sound
<1> QED
  BY <1>1, <1>2 DEF WithoutSystems

(* A module uses every native system it registers.                         *)
LEMMA NothingUnused ==
  ASSUME NEW m, Sound(m)
  PROVE  WithoutUnused(Registered({Watcher}, m), m) = Registered({Watcher}, m)
<1>1. ASSUME NEW e \in Registered({Watcher}, m)
      PROVE  e.name \in NeededNatives(m) \/ e.name \notin NativeNames
  BY RegisteredEntries, WatcherFields, WatcherIsNotNative DEF Sound
<1> QED
  BY <1>1 DEF WithoutUnused

LEMMA PartOfRegistered ==
  ASSUME NEW table, NEW m, NEW t \in PartlyRegistered(table, m)
  PROVE  table \subseteq t /\ t \subseteq Registered(table, m)
BY DEF PartlyRegistered

LEMMA RegisteredGens ==
  ASSUME NEW m, Sound(m), NEW t \in SUBSET Registered({Watcher}, m)
  PROVE  \A e \in t : e.gen \in {0, m.gen}
BY RegisteredEntries, WatcherFields

LEMMA RegisteredHasWatcher == \A m : {Watcher} \subseteq Registered({Watcher}, m)
BY DEF Registered

-----------------------------------------------------------------------------
(***************************************************************************)
(* Each step preserves the invariant.  One lemma for each action, one step *)
(* for each part that the action can disturb.                              *)
(***************************************************************************)

(* A save changes the disk alone.                                          *)
LEMMA SaveIInv ==
  ASSUME IInv, NEW f \in Files, NEW s \in Sources \cup {Absent}, Save(f, s)
  PROVE  IInv'
<1>0. TypeInv /\ DiskInv /\ ReadInv /\ GenInv /\ ModuleInv /\ EngineInv /\ StoresInv
  BY DEF IInv
<1>1. TypeInv'
  BY <1>0, Numbers DEF Save, failures, watcher, builder, engine, TypeInv, Running, Starting,
    Reloading
<1>2. DiskInv'
  BY <1>0, Numbers DEF Save, failures, watcher, builder, engine, TypeInv, DiskInv
<1>3. ReadInv'
  BY <1>0, Numbers DEF Save, failures, watcher, builder, engine, TypeInv, DiskInv, ReadInv
<1>4. GenInv'
  BY <1>0, Numbers DEF Save, failures, watcher, builder, engine, GenInv, TypeInv
<1>5. ModuleInv'
  BY <1>0, Numbers DEF Save, failures, watcher, builder, engine, TypeInv, ModuleInv, Running,
    Starting, Reloading
<1>6. EngineInv'
  BY <1>0, Numbers DEF Save, failures, watcher, builder, engine, TypeInv, EngineInv, ModuleInv,
    Untouched, Running, Starting, Reloading
<1>7. StoresInv'
  BY <1>0, Numbers DEF Save, failures, watcher, builder, engine, TypeInv, StoresInv, Serve,
    NoStrays, Running, Starting, Reloading
<1> QED
  BY <1>1, <1>2, <1>3, <1>4, <1>5, <1>6, <1>7 DEF IInv

(* Nothing but the manifest has been looked at.                            *)
LEMMA OpenIInv ==
  ASSUME IInv, Open
  PROVE  IInv'
<1>0. TypeInv /\ DiskInv /\ ReadInv /\ GenInv /\ ModuleInv /\ EngineInv /\ StoresInv
  BY DEF IInv
<1>1. TypeInv'
  BY <1>0, Numbers DEF Open, builder, editor, failures, watcher, engine, GiveUp, End, BadOr,
    Fault, Fails, TypeInv, Running, Starting, Reloading
<1>2. DiskInv'
  BY <1>0, Numbers DEF Open, builder, editor, failures, watcher, engine, GiveUp, End, BadOr,
    Fault, Fails, TypeInv, DiskInv
<1>3. ReadInv'
  BY <1>0, Numbers DEF Open, builder, GiveUp, End, BadOr, Fault, Fails, TypeInv, ReadInv,
    Starting
<1>4. GenInv'
  BY <1>0, Numbers DEF Open, builder, editor, failures, watcher, engine, GiveUp, End, BadOr,
    Fault, Fails, GenInv, TypeInv
<1>5. ModuleInv'
  BY <1>0, Numbers DEF Open, builder, editor, failures, watcher, engine, GiveUp, End, BadOr,
    Fault, Fails, TypeInv, ModuleInv, Running, Starting, Reloading
<1>6. EngineInv'
  BY <1>0, Numbers DEF Open, builder, editor, failures, watcher, engine, GiveUp, End, BadOr,
    Fault, Fails, TypeInv, EngineInv, ModuleInv, Untouched, Running, Starting, Reloading
<1>7. StoresInv'
  BY <1>0, Numbers DEF Open, builder, editor, failures, watcher, engine, GiveUp, End, BadOr,
    Fault, Fails, TypeInv, StoresInv, Serve, NoStrays, Running, Starting, Reloading
<1> QED
  BY <1>1, <1>2, <1>3, <1>4, <1>5, <1>6, <1>7 DEF IInv

(* The build starts afresh.                                                *)
LEMMA ListIInv ==
  ASSUME IInv, List
  PROVE  IInv'
<1>0. TypeInv /\ DiskInv /\ ReadInv /\ GenInv /\ ModuleInv /\ EngineInv /\ StoresInv
  BY DEF IInv
<1>1. TypeInv'
  BY <1>0, Numbers DEF List, Present, editor, failures, watcher, engine, GiveUp, End, BadOr,
    Fault, Fails, TypeInv, Running, Starting, Reloading
<1>2. DiskInv'
  BY <1>0, Numbers DEF List, editor, failures, watcher, engine, GiveUp, End, BadOr, Fault,
    Fails, TypeInv, DiskInv
<1>3. ReadInv'
  BY <1>0, Numbers DEF List, Present, GiveUp, End, BadOr, Fault, Fails, TypeInv, ReadInv,
    Files, Starting
<1>4. GenInv'
  BY <1>0, Numbers DEF List, editor, failures, watcher, engine, GiveUp, End, BadOr, Fault,
    Fails, GenInv, TypeInv
<1>5. ModuleInv'
  BY <1>0, Numbers DEF List, editor, failures, watcher, engine, GiveUp, End, BadOr, Fault,
    Fails, TypeInv, ModuleInv, Running, Starting, Reloading
<1>6. EngineInv'
  BY <1>0, Numbers DEF List, editor, failures, watcher, engine, GiveUp, End, BadOr, Fault,
    Fails, TypeInv, EngineInv, ModuleInv, Untouched, Running, Starting, Reloading
<1>7. StoresInv'
  BY <1>0, Numbers DEF List, editor, failures, watcher, engine, GiveUp, End, BadOr, Fault,
    Fails, TypeInv, StoresInv, Serve, NoStrays, Running, Starting, Reloading
<1> QED
  BY <1>1, <1>2, <1>3, <1>4, <1>5, <1>6, <1>7 DEF IInv

(* What was read is a source, or the build is over.                        *)
LEMMA ReadIInv ==
  ASSUME IInv, Read
  PROVE  IInv'
<1>0. TypeInv /\ DiskInv /\ ReadInv /\ GenInv /\ ModuleInv /\ EngineInv /\ StoresInv
  BY DEF IInv
<1>1. TypeInv'
  BY <1>0, Numbers DEF Read, editor, failures, watcher, engine, GiveUp, End, Fault, Fails,
    TypeInv, Running, Starting, Reloading
<1>2. DiskInv'
  BY <1>0, Numbers DEF Read, editor, failures, watcher, engine, GiveUp, End, Fault, Fails,
    TypeInv, DiskInv
<1>3. ReadInv'
  <2>1. file \in Files /\ file \in Nat /\ listed' = listed /\ listed \subseteq Nat
    BY <1>0, Numbers DEF Read, TypeInv, Files
  <2>2. CASE /\ seen' = [seen EXCEPT ![file] =
                           IF file \in listed THEN disk[file].content ELSE Absent]
             /\ Passes(file) /\ file' = file + 1 /\ pc' = pc
    <3>1. file \in listed => seen'[file] \in Sources
      <4>1. file \in listed => disk[file].content \in Sources
        BY <1>0, <2>1, <2>2 DEF DiskInv, Passes, Readable
      <4> QED
        BY <1>0, <2>1, <2>2, <4>1 DEF DiskInv
    <3>2. \A f \in listed : f # file => seen'[f] = seen[f]
      BY <1>0, <2>1, <2>2 DEF DiskInv
    <3>3. \A f \in listed : f < file => seen[f] \in Sources
      BY <1>0 DEF Read, ReadInv
    <3>4. \A f \in listed : f < file + 1 => seen'[f] \in Sources
      BY <2>1, <3>1, <3>2, <3>3
    <3> QED
      BY <2>1, <2>2, <3>4 DEF Read, ReadInv
  <2>3. CASE GiveUp
    BY <2>3 DEF Read, GiveUp, End, ReadInv, Starting
  <2> QED
    BY <2>2, <2>3 DEF Read
<1>4. GenInv'
  BY <1>0, Numbers DEF Read, editor, failures, watcher, engine, GiveUp, End, Fault, Fails,
    GenInv, TypeInv
<1>5. ModuleInv'
  BY <1>0, Numbers DEF Read, editor, failures, watcher, engine, GiveUp, End, Fault, Fails,
    TypeInv, ModuleInv, Running, Starting, Reloading
<1>6. EngineInv'
  BY <1>0, Numbers DEF Read, editor, failures, watcher, engine, GiveUp, End, Fault, Fails,
    TypeInv, EngineInv, ModuleInv, Untouched, Running, Starting, Reloading
<1>7. StoresInv'
  BY <1>0, Numbers DEF Read, editor, failures, watcher, engine, GiveUp, End, Fault, Fails,
    TypeInv, StoresInv, Serve, NoStrays, Running, Starting, Reloading
<1> QED
  BY <1>1, <1>2, <1>3, <1>4, <1>5, <1>6, <1>7 DEF IInv

(* All that was listed has been read.                                      *)
LEMMA BuildIInv ==
  ASSUME IInv, Build
  PROVE  IInv'
<1>0. TypeInv /\ DiskInv /\ ReadInv /\ GenInv /\ ModuleInv /\ EngineInv /\ StoresInv
  BY DEF IInv
<1>1. TypeInv'
  BY <1>0, Numbers DEF Build, editor, failures, watcher, builder, engine, GiveUp, End, BadOr,
    Fault, Fails, TypeInv, Running, Starting, Reloading
<1>2. DiskInv'
  BY <1>0, Numbers DEF Build, editor, failures, watcher, builder, engine, GiveUp, End, BadOr,
    Fault, Fails, TypeInv, DiskInv
<1>3. ReadInv'
  BY <1>0, Numbers DEF Build, editor, failures, watcher, builder, engine, GiveUp, End, BadOr,
    Fault, Fails, TypeInv, DiskInv, ReadInv
<1>4. GenInv'
  BY <1>0, Numbers DEF Build, editor, failures, watcher, builder, engine, GiveUp, End, BadOr,
    Fault, Fails, GenInv, TypeInv
<1>5. ModuleInv'
  BY <1>0, Numbers DEF Build, editor, failures, watcher, builder, engine, GiveUp, End, BadOr,
    Fault, Fails, TypeInv, ModuleInv, Running, Starting, Reloading
<1>6. EngineInv'
  BY <1>0, Numbers DEF Build, editor, failures, watcher, builder, engine, GiveUp, End, BadOr,
    Fault, Fails, TypeInv, EngineInv, ModuleInv, Untouched, Running, Starting, Reloading
<1>7. StoresInv'
  BY <1>0, Numbers DEF Build, editor, failures, watcher, builder, engine, GiveUp, End, BadOr,
    Fault, Fails, TypeInv, StoresInv, Serve, NoStrays, Running, Starting, Reloading
<1> QED
  BY <1>1, <1>2, <1>3, <1>4, <1>5, <1>6, <1>7 DEF IInv

(* A new module is ahead of every generation in use.                       *)
LEMMA LoadIInv ==
  ASSUME IInv, Load
  PROVE  IInv'
<1>0. TypeInv /\ DiskInv /\ ReadInv /\ GenInv /\ ModuleInv /\ EngineInv /\ StoresInv
  BY DEF IInv
<1>1. TypeInv'
  BY <1>0, Numbers DEF Load, editor, failures, watcher, engine, GiveUp, End, Fault, Fails,
    TypeInv, Running, Starting, Reloading
<1>2. DiskInv'
  BY <1>0, Numbers DEF Load, editor, failures, watcher, engine, GiveUp, End, Fault, Fails,
    TypeInv, DiskInv
<1>3. ReadInv'
  BY <1>0, Numbers DEF Load, editor, failures, watcher, engine, GiveUp, End, Fault, Fails,
    TypeInv, DiskInv, ReadInv
<1>4. GenInv'
  <2>1. ASSUME next' = ModuleOf(seen, listed, next.gen + 1)
        PROVE  Sound(next') /\ next'.gen = next.gen + 1
    <3>1. \A f \in listed : seen[f] \in Sources
      BY <1>0, Numbers DEF Load, ReadInv, TypeInv, Files
    <3> QED
      BY <2>1, <3>1, BuiltModuleSound
  <2>2. CASE UNCHANGED <<next, module>>
    BY <1>0, <2>2 DEF Load, engine, GenInv
  <2>3. CASE next' = ModuleOf(seen, listed, next.gen + 1) /\ module' \in {next', module}
    BY <1>0, <2>1, <2>3 DEF Load, engine, GenInv
  <2> QED
    BY <2>2, <2>3 DEF Load
<1>5. ModuleInv'
  <2>1. ASSUME next' = ModuleOf(seen, listed, next.gen + 1)
        PROVE  Sound(next') /\ next'.gen = next.gen + 1
    <3>1. \A f \in listed : seen[f] \in Sources
      BY <1>0, Numbers DEF Load, ReadInv, TypeInv, Files
    <3> QED
      BY <2>1, <3>1, BuiltModuleSound
  <2>2. CASE GiveUp /\ UNCHANGED <<next, module>>
    BY <1>0, <2>2 DEF Load, GiveUp, End, ModuleInv, Starting, TypeInv
  <2>3. CASE next' = ModuleOf(seen, listed, next.gen + 1)
    BY <1>0, <2>1, <2>3 DEF Load, GiveUp, End, ModuleInv, Starting, TypeInv
  <2> QED
    BY <2>2, <2>3 DEF Load
<1>6. EngineInv'
  BY <1>0, Numbers DEF Load, editor, failures, watcher, engine, GiveUp, End, Fault, Fails,
    TypeInv, EngineInv, ModuleInv, Untouched, Running, Starting, Reloading
<1>7. StoresInv'
  BY <1>0, Numbers DEF Load, editor, failures, watcher, engine, GiveUp, End, Fault, Fails,
    TypeInv, StoresInv, Serve, NoStrays, Running, Starting, Reloading
<1> QED
  BY <1>1, <1>2, <1>3, <1>4, <1>5, <1>6, <1>7 DEF IInv

(* The first module gets its stores and functions.                         *)
LEMMA PrepareIInv ==
  ASSUME IInv, Prepare
  PROVE  IInv'
<1>0. TypeInv /\ DiskInv /\ ReadInv /\ GenInv /\ ModuleInv /\ EngineInv /\ StoresInv
  BY DEF IInv
<1>1. TypeInv'
  BY <1>0, Numbers DEF Prepare, editor, failures, watcher, builder, GiveUp, End, Fault,
    Fails, TypeInv, Running, Starting, Reloading
<1>2. DiskInv'
  BY <1>0, Numbers DEF Prepare, editor, failures, watcher, builder, GiveUp, End, Fault,
    Fails, TypeInv, DiskInv
<1>3. ReadInv'
  BY <1>0, Numbers DEF Prepare, editor, failures, watcher, builder, GiveUp, End, Fault,
    Fails, TypeInv, DiskInv, ReadInv
<1>4. GenInv'
  BY <1>0, Numbers DEF Prepare, editor, failures, watcher, builder, GiveUp, End, Fault,
    Fails, GenInv, TypeInv
<1>5. ModuleInv'
  BY <1>0, Numbers DEF Prepare, editor, failures, watcher, builder, GiveUp, End, Fault,
    Fails, TypeInv, ModuleInv, Running, Starting, Reloading
<1>6. EngineInv'
  BY <1>0, Numbers DEF Prepare, editor, failures, watcher, builder, GiveUp, End, Fault,
    Fails, TypeInv, EngineInv, ModuleInv, Untouched, Running, Starting, Reloading
<1>7. StoresInv'
  BY <1>0, Numbers DEF Prepare, editor, failures, watcher, builder, GiveUp, End, Fault,
    Fails, TypeInv, StoresInv, Serve, NoStrays, Running, Starting, Reloading
<1> QED
  BY <1>1, <1>2, <1>3, <1>4, <1>5, <1>6, <1>7 DEF IInv

(* The walk reads times that saves have set.                               *)
LEMMA WalkIInv ==
  ASSUME IInv, Walk
  PROVE  IInv'
<1>0. TypeInv /\ DiskInv /\ ReadInv /\ GenInv /\ ModuleInv /\ EngineInv /\ StoresInv
  BY DEF IInv
<1>1. TypeInv'
  BY <1>0, Numbers DEF Walk, editor, failures, builder, engine, Fails, TypeInv, Running,
    Starting, Reloading
<1>2. DiskInv'
  BY <1>0, Numbers DEF Walk, editor, failures, builder, engine, TypeInv, DiskInv
<1>3. ReadInv'
  BY <1>0, Numbers DEF Walk, editor, failures, builder, engine, TypeInv, DiskInv, ReadInv
<1>4. GenInv'
  BY <1>0, Numbers DEF Walk, editor, failures, builder, engine, GenInv, TypeInv
<1>5. ModuleInv'
  BY <1>0, Numbers DEF Walk, editor, failures, builder, engine, TypeInv, ModuleInv, Running,
    Starting, Reloading
<1>6. EngineInv'
  BY <1>0, Numbers DEF Walk, editor, failures, builder, engine, TypeInv, EngineInv, ModuleInv,
    Untouched, Running, Starting, Reloading
<1>7. StoresInv'
  BY <1>0, Numbers DEF Walk, editor, failures, builder, engine, TypeInv, StoresInv, Serve,
    NoStrays, Running, Starting, Reloading
<1> QED
  BY <1>1, <1>2, <1>3, <1>4, <1>5, <1>6, <1>7 DEF IInv

(* The watcher is the first system.                                        *)
LEMMA WatchIInv ==
  ASSUME IInv, Watch
  PROVE  IInv'
<1>0. TypeInv /\ DiskInv /\ ReadInv /\ GenInv /\ ModuleInv /\ EngineInv /\ StoresInv
  BY DEF IInv
<1>1. TypeInv'
  BY <1>0, Numbers DEF Watch, editor, failures, builder, GiveUp, End, Fault, Fails, TypeInv,
    Running, Starting, Reloading
<1>2. DiskInv'
  BY <1>0, Numbers DEF Watch, editor, failures, builder, GiveUp, End, Fault, Fails, TypeInv,
    DiskInv
<1>3. ReadInv'
  BY <1>0, Numbers DEF Watch, editor, failures, builder, GiveUp, End, Fault, Fails, TypeInv,
    DiskInv, ReadInv
<1>4. GenInv'
  <2>1. systems' = {Watcher} \/ systems' = systems
    BY DEF Watch
  <2> QED
    BY <1>0, <2>1, WatcherFields DEF Watch, editor, failures, builder, GenInv
<1>5. ModuleInv'
  BY <1>0, Numbers DEF Watch, editor, failures, builder, GiveUp, End, Fault, Fails, TypeInv,
    ModuleInv, Running, Starting, Reloading
<1>6. EngineInv'
  BY <1>0, Numbers DEF Watch, editor, failures, builder, GiveUp, End, Fault, Fails, TypeInv,
    EngineInv, ModuleInv, Untouched, Running, Starting, Reloading
<1>7. StoresInv'
  BY <1>0, Numbers DEF Watch, editor, failures, builder, GiveUp, End, Fault, Fails, TypeInv,
    StoresInv, Serve, NoStrays, Running, Starting, Reloading
<1> QED
  BY <1>1, <1>2, <1>3, <1>4, <1>5, <1>6, <1>7 DEF IInv

(* The first module is in charge, or the run is over.                      *)
LEMMA RegisterIInv ==
  ASSUME IInv, Register
  PROVE  IInv'
<1>0. TypeInv /\ DiskInv /\ ReadInv /\ GenInv /\ ModuleInv /\ EngineInv /\ StoresInv
  BY DEF IInv
<1>1. TypeInv'
  BY <1>0, Numbers DEF Register, editor, failures, watcher, builder, GiveUp, End, BadOr,
    Fault, Fails, TypeInv, Running, Starting, Reloading
<1>2. DiskInv'
  BY <1>0, Numbers DEF Register, editor, failures, watcher, builder, GiveUp, End, BadOr,
    Fault, Fails, TypeInv, DiskInv
<1>3. ReadInv'
  BY <1>0, Numbers DEF Register, editor, failures, watcher, builder, GiveUp, End, BadOr,
    Fault, Fails, TypeInv, DiskInv, ReadInv
<1>4. GenInv'
  <2>1. Sound(module) /\ systems = {Watcher}
    BY <1>0 DEF Register, ModuleInv, EngineInv
  <2>2. systems' \subseteq Registered({Watcher}, module)
    BY <2>1, PartOfRegistered DEF Register
  <2>3. \A e \in systems' : e.gen \in {0, module.gen}
    BY <2>1, <2>2, RegisteredGens
  <2> QED
    BY <1>0, <2>3 DEF Register, builder, GenInv
<1>5. ModuleInv'
  BY <1>0, Numbers DEF Register, editor, failures, watcher, builder, GiveUp, End, BadOr,
    Fault, Fails, TypeInv, ModuleInv, Running, Starting, Reloading
<1>6. EngineInv'
  BY <1>0, Numbers DEF Register, editor, failures, watcher, builder, GiveUp, End, BadOr,
    Fault, Fails, TypeInv, EngineInv, ModuleInv, Untouched, Running, Starting, Reloading
<1>7. StoresInv'
  BY <1>0, Numbers DEF Register, editor, failures, watcher, builder, GiveUp, End, BadOr,
    Fault, Fails, TypeInv, StoresInv, Serve, NoStrays, Running, Starting, Reloading
<1> QED
  BY <1>1, <1>2, <1>3, <1>4, <1>5, <1>6, <1>7 DEF IInv

(* A tick changes nothing of the engine by itself.                         *)
LEMMA TickIInv ==
  ASSUME IInv, Tick
  PROVE  IInv'
<1>0. TypeInv /\ DiskInv /\ ReadInv /\ GenInv /\ ModuleInv /\ EngineInv /\ StoresInv
  BY DEF IInv
<1>1. TypeInv'
  BY <1>0, Numbers DEF Tick, editor, failures, watcher, builder, engine, End, TypeInv,
    Running, Starting, Reloading
<1>2. DiskInv'
  BY <1>0, Numbers DEF Tick, editor, failures, watcher, builder, engine, End, TypeInv, DiskInv
<1>3. ReadInv'
  BY <1>0, Numbers DEF Tick, editor, failures, watcher, builder, engine, End, TypeInv,
    DiskInv, ReadInv
<1>4. GenInv'
  BY <1>0, Numbers DEF Tick, editor, failures, watcher, builder, engine, End, GenInv, TypeInv
<1>5. ModuleInv'
  BY <1>0, Numbers DEF Tick, editor, failures, watcher, builder, engine, End, TypeInv,
    ModuleInv, Running, Starting, Reloading
<1>6. EngineInv'
  BY <1>0, Numbers DEF Tick, editor, failures, watcher, builder, engine, End, TypeInv,
    EngineInv, ModuleInv, Untouched, Running, Starting, Reloading
<1>7. StoresInv'
  BY <1>0, Numbers DEF Tick, editor, failures, watcher, builder, engine, End, TypeInv,
    StoresInv, Serve, NoStrays, Running, Starting, Reloading
<1> QED
  BY <1>1, <1>2, <1>3, <1>4, <1>5, <1>6, <1>7 DEF IInv

(* The snapshot becomes what the walk has read.                            *)
LEMMA CompareIInv ==
  ASSUME IInv, Compare
  PROVE  IInv'
<1>0. TypeInv /\ DiskInv /\ ReadInv /\ GenInv /\ ModuleInv /\ EngineInv /\ StoresInv
  BY DEF IInv
<1>1. TypeInv'
  <2>1. requested' \in BOOLEAN
    BY <1>0 DEF Compare, TypeInv
  <2>2. faults' \in 0 .. MaxFaults
    BY <1>0, Numbers DEF Compare, failures, TypeInv, Fails
  <2> QED
    BY <1>0, <2>1, <2>2
       DEF Compare, editor, failures, builder, engine, TypeInv, Running, Starting, Reloading
<1>2. DiskInv'
  BY <1>0, Numbers DEF Compare, editor, failures, builder, engine, Fault, Fails, TypeInv,
    DiskInv
<1>3. ReadInv'
  BY <1>0, Numbers DEF Compare, editor, failures, builder, engine, Fault, Fails, TypeInv,
    DiskInv, ReadInv
<1>4. GenInv'
  BY <1>0, Numbers DEF Compare, editor, failures, builder, engine, Fault, Fails, GenInv,
    TypeInv
<1>5. ModuleInv'
  BY <1>0, Numbers DEF Compare, editor, failures, builder, engine, Fault, Fails, TypeInv,
    ModuleInv, Running, Starting, Reloading
<1>6. EngineInv'
  BY <1>0, Numbers DEF Compare, editor, failures, builder, engine, Fault, Fails, TypeInv,
    EngineInv, ModuleInv, Untouched, Running, Starting, Reloading
<1>7. StoresInv'
  BY <1>0, Numbers DEF Compare, editor, failures, builder, engine, Fault, Fails, TypeInv,
    StoresInv, Serve, NoStrays, Running, Starting, Reloading
<1> QED
  BY <1>1, <1>2, <1>3, <1>4, <1>5, <1>6, <1>7 DEF IInv

(* The systems of a tick leave the registry alone.                         *)
LEMMA RunSystemsIInv ==
  ASSUME IInv, RunSystems
  PROVE  IInv'
<1>0. TypeInv /\ DiskInv /\ ReadInv /\ GenInv /\ ModuleInv /\ EngineInv /\ StoresInv
  BY DEF IInv
<1>1. TypeInv'
  BY <1>0, Numbers DEF RunSystems, editor, failures, watcher, builder, engine, End, TypeInv,
    Running, Starting, Reloading
<1>2. DiskInv'
  BY <1>0, Numbers DEF RunSystems, editor, failures, watcher, builder, engine, End, TypeInv,
    DiskInv
<1>3. ReadInv'
  BY <1>0, Numbers DEF RunSystems, editor, failures, watcher, builder, engine, End, TypeInv,
    DiskInv, ReadInv
<1>4. GenInv'
  BY <1>0, Numbers DEF RunSystems, editor, failures, watcher, builder, engine, End, GenInv,
    TypeInv
<1>5. ModuleInv'
  BY <1>0, Numbers DEF RunSystems, editor, failures, watcher, builder, engine, End, TypeInv,
    ModuleInv, Running, Starting, Reloading
<1>6. EngineInv'
  BY <1>0, Numbers DEF RunSystems, editor, failures, watcher, builder, engine, End, TypeInv,
    EngineInv, ModuleInv, Untouched, Running, Starting, Reloading
<1>7. StoresInv'
  BY <1>0, Numbers DEF RunSystems, editor, failures, watcher, builder, engine, End, TypeInv,
    StoresInv, Serve, NoStrays, Running, Starting, Reloading
<1> QED
  BY <1>1, <1>2, <1>3, <1>4, <1>5, <1>6, <1>7 DEF IInv

(* The request is forgotten as the reload begins.                          *)
LEMMA ConsumeIInv ==
  ASSUME IInv, Consume
  PROVE  IInv'
<1>0. TypeInv /\ DiskInv /\ ReadInv /\ GenInv /\ ModuleInv /\ EngineInv /\ StoresInv
  BY DEF IInv
<1>1. TypeInv'
  BY <1>0, Numbers DEF Consume, editor, failures, builder, engine, TypeInv, Running, Starting,
    Reloading
<1>2. DiskInv'
  BY <1>0, Numbers DEF Consume, editor, failures, builder, engine, TypeInv, DiskInv
<1>3. ReadInv'
  BY <1>0, Numbers DEF Consume, editor, failures, builder, engine, TypeInv, DiskInv, ReadInv
<1>4. GenInv'
  BY <1>0, Numbers DEF Consume, editor, failures, builder, engine, GenInv, TypeInv
<1>5. ModuleInv'
  BY <1>0, Numbers DEF Consume, editor, failures, builder, engine, TypeInv, ModuleInv,
    Running, Starting, Reloading
<1>6. EngineInv'
  BY <1>0, Numbers DEF Consume, editor, failures, builder, engine, TypeInv, EngineInv,
    ModuleInv, Untouched, Running, Starting, Reloading
<1>7. StoresInv'
  BY <1>0, Numbers DEF Consume, editor, failures, builder, engine, TypeInv, StoresInv, Serve,
    NoStrays, Running, Starting, Reloading
<1> QED
  BY <1>1, <1>2, <1>3, <1>4, <1>5, <1>6, <1>7 DEF IInv

(* A module that passes the check has the running module's components, as  *)
(* wide.                                                                   *)
LEMMA CheckIInv ==
  ASSUME IInv, Check
  PROVE  IInv'
<1>0. TypeInv /\ DiskInv /\ ReadInv /\ GenInv /\ ModuleInv /\ EngineInv /\ StoresInv
  BY DEF IInv
<1>1. TypeInv'
  BY <1>0, Numbers DEF Check, editor, failures, watcher, builder, engine, GiveUp, End, BadOr,
    Fault, Fails, TypeInv, Running, Starting, Reloading
<1>2. DiskInv'
  BY <1>0, Numbers DEF Check, editor, failures, watcher, builder, engine, GiveUp, End, BadOr,
    Fault, Fails, TypeInv, DiskInv
<1>3. ReadInv'
  BY <1>0, Numbers DEF Check, editor, failures, watcher, builder, engine, GiveUp, End, BadOr,
    Fault, Fails, TypeInv, DiskInv, ReadInv
<1>4. GenInv'
  BY <1>0, Numbers DEF Check, editor, failures, watcher, builder, engine, GiveUp, End, BadOr,
    Fault, Fails, GenInv, TypeInv
<1>5. ModuleInv'
  BY <1>0, Numbers DEF Check, editor, failures, watcher, builder, engine, GiveUp, End, BadOr,
    Fault, Fails, TypeInv, ModuleInv, Running, Starting, Reloading
<1>6. EngineInv'
  BY <1>0, Numbers DEF Check, editor, failures, watcher, builder, engine, GiveUp, End, BadOr,
    Fault, Fails, TypeInv, EngineInv, ModuleInv, Untouched, Running, Starting, Reloading
<1>7. StoresInv'
  BY <1>0, Numbers DEF Check, editor, failures, watcher, builder, engine, GiveUp, End, BadOr,
    Fault, Fails, TypeInv, StoresInv, Serve, NoStrays, Running, Starting, Reloading
<1> QED
  BY <1>1, <1>2, <1>3, <1>4, <1>5, <1>6, <1>7 DEF IInv

(* New stores serve the new module, or are known to be strays.             *)
LEMMA RegisterNewComponentsIInv ==
  ASSUME IInv, RegisterNewComponents
  PROVE  IInv'
<1>0. TypeInv /\ DiskInv /\ ReadInv /\ GenInv /\ ModuleInv /\ EngineInv /\ StoresInv
  BY DEF IInv
<1>1. TypeInv'
  BY <1>0, Numbers DEF RegisterNewComponents, editor, failures, watcher, builder, GiveUp, End,
    Fault, Fails, TypeInv, Running, Starting, Reloading
<1>2. DiskInv'
  BY <1>0, Numbers DEF RegisterNewComponents, editor, failures, watcher, builder, GiveUp, End,
    Fault, Fails, TypeInv, DiskInv
<1>3. ReadInv'
  BY <1>0, Numbers DEF RegisterNewComponents, editor, failures, watcher, builder, GiveUp, End,
    Fault, Fails, TypeInv, DiskInv, ReadInv
<1>4. GenInv'
  BY <1>0, Numbers DEF RegisterNewComponents, editor, failures, watcher, builder, GiveUp, End,
    Fault, Fails, GenInv, TypeInv
<1>5. ModuleInv'
  BY <1>0, Numbers DEF RegisterNewComponents, editor, failures, watcher, builder, GiveUp, End,
    Fault, Fails, TypeInv, ModuleInv, Running, Starting, Reloading
<1>6. EngineInv'
  BY <1>0, Numbers DEF RegisterNewComponents, editor, failures, watcher, builder, GiveUp, End,
    Fault, Fails, TypeInv, EngineInv, ModuleInv, Untouched, Running, Starting, Reloading
<1>7. StoresInv'
  <2>1. /\ pc = "components" /\ orphans \subseteq DOMAIN stores
        /\ Serve(module) /\ NoStrays(module) /\ Compatible(module, next)
    BY <1>0 DEF RegisterNewComponents, StoresInv, Reloading
  <2>2. PICK made \in SUBSET NewComponents :
          /\ stores' = StoresWith(made)
          /\ \/ made = NewComponents /\ pc' = "switch" /\ UNCHANGED orphans
             \/ pc' = "ready" /\ orphans' = orphans \cup made
    BY <2>1 DEF RegisterNewComponents, GiveUp, Starting
  <2>3. /\ DOMAIN stores' = DOMAIN stores \cup made
        /\ \A c \in DOMAIN stores : stores'[c] = stores[c]
        /\ \A c \in made : stores'[c] = next.layouts[c]
        /\ made \subseteq DOMAIN next.layouts /\ made \cap DOMAIN stores = {}
    BY <2>2 DEF StoresWith, NewComponents
  <2>4. UNCHANGED <<module, next>> /\ orphans \subseteq orphans'
    BY <2>2 DEF RegisterNewComponents, builder
  <2>5. orphans' \subseteq DOMAIN stores' /\ Serve(module)'
    BY <2>1, <2>2, <2>3, <2>4 DEF Serve
  <2>6. CASE pc' = "ready"
    <3>1. NoStrays(module)'
      BY <2>1, <2>2, <2>3, <2>4, <2>6 DEF NoStrays
    <3> QED
      BY <2>5, <2>6, <3>1 DEF StoresInv, Starting
  <2>7. CASE made = NewComponents /\ pc' = "switch" /\ UNCHANGED orphans
    <3>1. DOMAIN next.layouts \subseteq DOMAIN stores'
      BY <2>3, <2>7 DEF NewComponents
    <3>2. ASSUME NEW c \in DOMAIN next.layouts, c \notin orphans
          PROVE  stores'[c].size = next.layouts[c].size
      <4>1. CASE c \in made
        BY <2>3, <4>1
      <4>2. CASE c \notin made
        <5>1. c \in DOMAIN stores
          BY <2>3, <3>1, <4>2
        <5>2. c \in DOMAIN module.layouts
          BY <2>1, <3>2, <5>1 DEF NoStrays
        <5> QED
          BY <2>1, <2>3, <3>2, <5>1, <5>2 DEF Serve, Compatible, SameDefinition
      <4> QED
        BY <4>1, <4>2
    <3>3. Serve(next)'
      BY <2>4, <2>7, <3>1, <3>2 DEF Serve
    <3>4. NoStrays(next)'
      BY <2>1, <2>3, <2>4, <2>7 DEF NoStrays, Compatible
    <3>5. Compatible(module, next)'
      BY <2>1, <2>4
    <3> QED
      BY <2>5, <2>7, <3>3, <3>4, <3>5 DEF StoresInv, Starting
  <2> QED
    BY <2>2, <2>6, <2>7
<1> QED
  BY <1>1, <1>2, <1>3, <1>4, <1>5, <1>6, <1>7 DEF IInv

(* The old systems go; the watcher stays.                                  *)
LEMMA SwitchFunctionsIInv ==
  ASSUME IInv, SwitchFunctions
  PROVE  IInv'
<1>0. TypeInv /\ DiskInv /\ ReadInv /\ GenInv /\ ModuleInv /\ EngineInv /\ StoresInv
  BY DEF IInv
<1>1. TypeInv'
  BY <1>0, Numbers DEF SwitchFunctions, editor, failures, watcher, builder, Fault, Fails,
    TypeInv, Running, Starting, Reloading
<1>2. DiskInv'
  BY <1>0, Numbers DEF SwitchFunctions, editor, failures, watcher, builder, Fault, Fails,
    TypeInv, DiskInv
<1>3. ReadInv'
  BY <1>0, Numbers DEF SwitchFunctions, editor, failures, watcher, builder, Fault, Fails,
    TypeInv, DiskInv, ReadInv
<1>4. GenInv'
  <2>1. systems' \subseteq systems
    BY DEF SwitchFunctions, WithoutSystems
  <2> QED
    BY <1>0, <2>1 DEF SwitchFunctions, builder, GenInv
<1>5. ModuleInv'
  BY <1>0, Numbers DEF SwitchFunctions, editor, failures, watcher, builder, Fault, Fails,
    TypeInv, ModuleInv, Running, Starting, Reloading
<1>6. EngineInv'
  <2>1. Sound(module) /\ Sound(next) /\ systems = Registered({Watcher}, module)
    BY <1>0 DEF SwitchFunctions, ModuleInv, EngineInv, Untouched
  <2>2. WithoutSystems(systems, module) = {Watcher}
    BY <2>1, RegisteredHasWatcher, OnlyWatcherStays
  <2>3. WithoutSystems({Watcher}, next) = {Watcher}
    BY <2>1, RegisteredHasWatcher, OnlyWatcherStays
  <2>4. systems' = {Watcher}
    BY <2>2, <2>3 DEF SwitchFunctions
  <2>5. Unregistrable({Watcher}, module)' = {}
    BY <1>0 DEF SwitchFunctions, EngineInv, Reloading, Unregistrable
  <2> QED
    BY <2>4, <2>5 DEF SwitchFunctions, EngineInv, builder, Untouched, Running, Reloading
<1>7. StoresInv'
  <2>1. /\ orphans \subseteq DOMAIN stores
        /\ Serve(module) /\ Compatible(module, next) /\ Serve(next) /\ NoStrays(next)
    BY <1>0 DEF SwitchFunctions, StoresInv, Reloading
  <2>2. CASE UNCHANGED orphans /\ pc' = "swap"
    BY <2>1, <2>2 DEF SwitchFunctions, builder, StoresInv, Serve, NoStrays, Starting
  <2>3. CASE orphans' = orphans \cup Unowned /\ pc' = "restore"
    <3>1. orphans' \subseteq DOMAIN stores /\ orphans \subseteq orphans'
      BY <2>1, <2>3 DEF Unowned
    <3>2. Serve(module)' /\ NoStrays(module)'
      BY <2>1, <2>3, <3>1 DEF SwitchFunctions, Serve, NoStrays, Unowned
    <3> QED
      BY <2>3, <3>1, <3>2 DEF SwitchFunctions, StoresInv, Starting
  <2> QED
    BY <2>2, <2>3 DEF SwitchFunctions
<1> QED
  BY <1>1, <1>2, <1>3, <1>4, <1>5, <1>6, <1>7 DEF IInv

(* The new module is in charge, or nothing but the watcher is left.        *)
LEMMA SwapIInv ==
  ASSUME IInv, Swap
  PROVE  IInv'
<1>0. TypeInv /\ DiskInv /\ ReadInv /\ GenInv /\ ModuleInv /\ EngineInv /\ StoresInv
  BY DEF IInv
<1>1. TypeInv'
  BY <1>0, Numbers DEF Swap, editor, failures, watcher, builder, BadOr, Fault, Fails,
    TypeInv, Running, Starting, Reloading
<1>2. DiskInv'
  BY <1>0, Numbers DEF Swap, editor, failures, watcher, builder, BadOr, Fault, Fails,
    TypeInv, DiskInv
<1>3. ReadInv'
  BY <1>0, Numbers DEF Swap, editor, failures, watcher, builder, BadOr, Fault, Fails,
    TypeInv, DiskInv, ReadInv
<1>4. GenInv'
  <2>1. Sound(next) /\ systems = {Watcher}
    BY <1>0 DEF Swap, ModuleInv, EngineInv
  <2>2. systems' \subseteq Registered({Watcher}, next)
    BY <2>1, PartOfRegistered DEF Swap, WithoutUnused, WithoutSystems
  <2>3. \A e \in systems' : e.gen \in {0, next.gen}
    BY <2>1, <2>2, RegisteredGens
  <2> QED
    BY <1>0, <2>3 DEF Swap, builder, GenInv
<1>5. ModuleInv'
  BY <1>0, Numbers DEF Swap, editor, failures, watcher, builder, BadOr, Fault, Fails, TypeInv,
    ModuleInv, Running, Starting, Reloading
<1>6. EngineInv'
  <2>1. Sound(next) /\ systems = {Watcher} /\ functions = next.gen
    BY <1>0 DEF Swap, ModuleInv, EngineInv
  <2>2. CASE pc' = "ready" /\ module' = next /\ Unregistrable(systems, next) = {}
             /\ systems' = WithoutUnused(Registered(systems, next), next)
    <3>1. systems' = Registered({Watcher}, next)
      BY <2>1, <2>2, NothingUnused
    <3>2. Unregistrable({Watcher}, module)' = {}
      BY <2>1, <2>2 DEF Unregistrable
    <3>3. systems' = Registered({Watcher}, module)'
      BY <2>2, <3>1 DEF Registered, NativeEntries, ManagedEntries
    <3> QED
      BY <2>1, <2>2, <3>2, <3>3 DEF Swap, EngineInv, Untouched, Running, Reloading
  <2>3. CASE pc' = "restore" /\ UNCHANGED module
             /\ \E t \in PartlyRegistered(systems, next) : systems' = WithoutSystems(t, next)
    <3>1. systems' = {Watcher}
      BY <2>1, <2>3, PartOfRegistered, OnlyWatcherStays
    <3>2. Unregistrable({Watcher}, module)' = {}
      BY <1>0, <2>3 DEF Swap, EngineInv, Reloading, Unregistrable
    <3> QED
      BY <2>3, <3>1, <3>2 DEF EngineInv, Untouched, Running, Reloading
  <2> QED
    BY <2>2, <2>3 DEF Swap
<1>7. StoresInv'
  <2>1. /\ orphans \subseteq DOMAIN stores /\ UNCHANGED stores
        /\ Serve(module) /\ Serve(next) /\ NoStrays(next)
    BY <1>0 DEF Swap, StoresInv, Reloading
  <2>2. CASE pc' = "ready" /\ module' = next /\ UNCHANGED orphans
    BY <2>1, <2>2 DEF StoresInv, Serve, NoStrays, Starting
  <2>3. CASE pc' = "restore" /\ UNCHANGED module /\ orphans' = orphans \cup Unowned
    <3>1. orphans' \subseteq DOMAIN stores /\ orphans \subseteq orphans'
      BY <2>1, <2>3 DEF Unowned
    <3>2. Serve(module)' /\ NoStrays(module)'
      BY <2>1, <2>3, <3>1 DEF Serve, NoStrays, Unowned
    <3> QED
      BY <2>1, <2>3, <3>1, <3>2 DEF StoresInv, Starting
  <2> QED
    BY <2>2, <2>3 DEF Swap
<1> QED
  BY <1>1, <1>2, <1>3, <1>4, <1>5, <1>6, <1>7 DEF IInv

(* Bringing the old systems back fails for lack of memory alone: they were  *)
(* registered once, and nothing but the watcher is in their way.            *)
LEMMA RestoreOutcomes ==
  ASSUME IInv, Restore
  PROVE  /\ Sound(module) /\ Unregistrable({Watcher}, module) = {}
         /\ \/ /\ pc' = "ready" /\ UNCHANGED <<failures, exit>>
               /\ functions' = module.gen /\ managed' = module.gen
               /\ systems' = Registered({Watcher}, module)
            \/ /\ pc' = "ended" /\ exit' = "not_restored" /\ Fault
               /\ functions' \in {0, module.gen} /\ managed' \in {managed, module.gen}
               /\ systems' \subseteq Registered({Watcher}, module)
<1>1. Sound(module) /\ systems = {Watcher} /\ Unregistrable({Watcher}, module) = {}
  BY DEF IInv, Restore, ModuleInv, EngineInv, Reloading
<1>2. WithoutSystems(systems, module) = {Watcher}
  BY <1>1, RegisteredHasWatcher, OnlyWatcherStays
<1>3. CASE /\ pc' = "ready" /\ functions' = module.gen /\ managed' = module.gen
           /\ systems' = WithoutUnused(Registered({Watcher}, module), module)
           /\ UNCHANGED <<failures, exit>>
  BY <1>1, <1>3, NothingUnused
<1>4. CASE /\ Fault /\ functions' \in {0, module.gen} /\ End("not_restored")
           /\ managed' = IF functions' = 0 THEN managed ELSE module.gen
           /\ IF functions' = 0 THEN systems' = {Watcher}
              ELSE systems' \in PartlyRegistered({Watcher}, module)
  <2>1. systems' \in PartlyRegistered({Watcher}, module) =>
          systems' \subseteq Registered({Watcher}, module)
    BY PartOfRegistered
  <2>2. systems' \subseteq Registered({Watcher}, module)
    BY <1>4, <2>1, RegisteredHasWatcher
  <2> QED
    BY <1>1, <1>4, <2>2 DEF End
<1> QED
  BY <1>1, <1>2, <1>3, <1>4 DEF Restore, BadOr

(* The old module is in charge again, or the run is over.                  *)
LEMMA RestoreIInv ==
  ASSUME IInv, Restore
  PROVE  IInv'
<1>0. TypeInv /\ DiskInv /\ ReadInv /\ GenInv /\ ModuleInv /\ EngineInv /\ StoresInv
  BY DEF IInv
<1>1. TypeInv'
  BY <1>0, Numbers DEF Restore, editor, failures, watcher, builder, End, BadOr, Fault,
    Fails, TypeInv, Running, Starting, Reloading
<1>2. DiskInv'
  BY <1>0, Numbers DEF Restore, editor, failures, watcher, builder, End, BadOr, Fault,
    Fails, TypeInv, DiskInv
<1>3. ReadInv'
  BY <1>0, Numbers DEF Restore, editor, failures, watcher, builder, End, BadOr, Fault,
    Fails, TypeInv, DiskInv, ReadInv
<1>4. GenInv'
  <2>1. /\ systems' \subseteq Registered({Watcher}, module) /\ Sound(module)
        /\ functions' \in {0, module.gen} /\ managed' \in {managed, module.gen}
    BY RestoreOutcomes
  <2>2. \A e \in systems' : e.gen \in {0, module.gen}
    BY <2>1, RegisteredGens
  <2> QED
    BY <1>0, <2>1, <2>2 DEF Restore, builder, GenInv
<1>5. ModuleInv'
  BY <1>0, Numbers DEF Restore, editor, failures, watcher, builder, End, BadOr, Fault,
    Fails, TypeInv, ModuleInv, Running, Starting, Reloading
<1>6. EngineInv'
  <2>1. CASE /\ pc' = "ready" /\ functions' = module.gen /\ managed' = module.gen
             /\ systems' = Registered({Watcher}, module)
    <3>1. systems' = Registered({Watcher}, module)'
      BY <2>1 DEF Restore, Registered, NativeEntries, ManagedEntries
    <3>2. Unregistrable({Watcher}, module)' = {}
      BY RestoreOutcomes DEF Restore, Unregistrable
    <3> QED
      BY <2>1, <3>1, <3>2 DEF Restore, EngineInv, Untouched, Running, Reloading
  <2>2. CASE pc' = "ended"
    BY <2>2 DEF EngineInv, Untouched, Running, Reloading
  <2> QED
    BY <2>1, <2>2, RestoreOutcomes
<1>7. StoresInv'
  BY <1>0, Numbers DEF Restore, editor, failures, watcher, builder, End, BadOr, Fault,
    Fails, TypeInv, StoresInv, Serve, NoStrays, Running, Starting, Reloading
<1> QED
  BY <1>1, <1>2, <1>3, <1>4, <1>5, <1>6, <1>7 DEF IInv

-----------------------------------------------------------------------------
(***************************************************************************)
(* The invariant, and what follows from it.                                *)
(***************************************************************************)

LEMMA InitIInv ==
  ASSUME Init
  PROVE  IInv
<1>1. TypeInv
  <2>1. /\ edits = 0 /\ faults = 0 /\ cut = FALSE /\ pc = "open" /\ file = 1 /\ requested = FALSE
        /\ listed = {} /\ stop = FALSE /\ exit = "none"
    BY DEF Init
  <2>2. edits \in 0 .. MaxEdits /\ faults \in 0 .. MaxFaults /\ file \in 1 .. FileCount + 1
    BY ONLY <2>1, Numbers
  <2>3. pc \in Starting
    BY ONLY <2>1 DEF Starting
  <2> QED
    BY ONLY <2>1, <2>2, <2>3, Zenon DEF TypeInv
<1>2. DiskInv
  <2>1. PICK t \in Trees :
          disk = [f \in Files |-> [content |-> t[f], mtime |-> IF t[f] = Absent THEN 0 ELSE 1]]
    BY DEF Init
  <2>2. t \in [Files -> Sources \cup {Absent}]
    BY SourceAssumption
  <2> QED
    BY <2>1, <2>2 DEF Init, DiskInv
<1>3. ReadInv /\ ModuleInv
  BY DEF Init, ReadInv, ModuleInv
<1>4. GenInv
  BY DEF Init, GenInv, None
<1>5. EngineInv
  BY DEF Init, EngineInv, Untouched, Running, Reloading
<1>6. StoresInv
  BY DEF Init, StoresInv, Starting, Running, Reloading
<1> QED
  BY <1>1, <1>2, <1>3, <1>4, <1>5, <1>6 DEF IInv

(* Between steps nothing changes.                                          *)
LEMMA StutterIInv ==
  ASSUME IInv, UNCHANGED vars
  PROVE  IInv'
<1>1. TypeInv' /\ DiskInv' /\ ReadInv' /\ GenInv' /\ ModuleInv'
  BY DEF IInv, vars, editor, failures, watcher, builder, engine, TypeInv, DiskInv, ReadInv,
    GenInv, ModuleInv
<1>2. EngineInv' /\ StoresInv'
  BY DEF IInv, vars, editor, failures, watcher, builder, engine, EngineInv, StoresInv,
    Serve, NoStrays, Registered, NativeEntries, ManagedEntries, Unregistrable
<1> QED
  BY <1>1, <1>2 DEF IInv

LEMMA NextIInv ==
  ASSUME IInv, Next
  PROVE  IInv'
BY OpenIInv, ListIInv, ReadIInv, BuildIInv, LoadIInv, PrepareIInv, WalkIInv, WatchIInv,
  RegisterIInv, TickIInv, CompareIInv, RunSystemsIInv, ConsumeIInv, CheckIInv,
  RegisterNewComponentsIInv, SwitchFunctionsIInv, SwapIInv, RestoreIInv, SaveIInv DEF Next,
  Program

(* Whatever is saved and whatever fails, the engine, the stores and what   *)
(* was read keep to the module that is in charge.                          *)
THEOREM Invariance == Spec => []IInv
<1>1. Init => IInv
  BY InitIInv
<1>2. IInv /\ [Next]_vars => IInv'
  BY NextIInv, StutterIInv
<1> QED
  BY <1>1, <1>2, PTL DEF Spec

(* Whenever a tick starts, the function table, the module the interpreter  *)
(* resolves ids in, and the bindings of the systems belong to one module.  *)
THEOREM OneModule == Spec => []OneModuleRuns
<1>1. IInv => OneModuleRuns
  BY DEF IInv, EngineInv, OneModuleRuns, Untouched
<1> QED
  BY <1>1, Invariance, PTL

(* The rows of a store are as wide as the running module takes them to be, *)
(* for every component that no failed reload had a hand in.                *)
THEOREM StoresAlwaysFit == Spec => []StoresFit
<1>1. IInv => StoresFit
  BY DEF IInv, StoresInv, Serve, StoresFit
<1> QED
  BY <1>1, Invariance, PTL

(* A build that cannot be taken over ends the run only when bringing the   *)
(* previous systems back runs out of memory.                               *)
THEOREM Survives == Spec => BadBuildIsSurvived
<1> DEFINE Outlived == exit # "not_restored" /\ exit' = "not_restored" => faults' > faults
<1>1. ASSUME IInv, Restore PROVE Outlived
  <2>1. UNCHANGED exit \/ Fails
    BY <1>1, RestoreOutcomes DEF Fault
  <2>2. faults \in Nat
    BY <1>1, Numbers DEF IInv, TypeInv
  <2> QED
    BY <2>1, <2>2 DEF Fails
<1>2. ASSUME Program, ~Restore PROVE Outlived
  BY <1>2 DEF Program, Open, List, Read, Build, Load, Prepare, Walk, Watch, Register, Tick,
    Compare, RunSystems, Consume, Check, RegisterNewComponents, SwitchFunctions, Swap,
    GiveUp, End
<1>3. ASSUME NEW f \in Files, NEW s \in Sources \cup {Absent}, Save(f, s) PROVE Outlived
  BY <1>3 DEF Save
<1>4. UNCHANGED vars => Outlived
  BY DEF vars
<1>5. IInv /\ [Next]_vars => [Outlived]_vars
  BY <1>1, <1>2, <1>3, <1>4 DEF Next
<1> QED
  BY <1>5, Invariance, PTL DEF Spec, BadBuildIsSurvived

-----------------------------------------------------------------------------
(***************************************************************************)
(* Each build answers the start of the run or a save.                      *)
(***************************************************************************)

LEMMA SavedSinceFinite ==
  ASSUME TypeInv
  PROVE  Passed \subseteq Files /\ IsFiniteSet(SavedSince) /\ Cardinality(SavedSince) \in Nat
<1>1. Passed \subseteq Files
  BY Numbers DEF TypeInv, Passed, Files
<1>2. IsFiniteSet(Files)
  BY FS_Interval, Numbers DEF Files
<1>3. SavedSince \subseteq Files
  BY <1>1 DEF SavedSince
<1> QED
  BY <1>1, <1>2, <1>3, FS_Subset, FS_CardinalityType

(* What is due or found passes from one to the other, and no save is       *)
(* forgotten before a walk has found it.                                   *)
PassedOn ==
  /\ UNCHANGED <<edits, next>>
  /\ Due' + Found' <= Due + Found
  /\ SavedSince' \subseteq SavedSince
  /\ requested' => pc' \in {"run", "consume", "ended"}
  /\ pc' = "register" => walk' = watch'

(* The failures of calls are never taken back.                             *)
LEMMA FaultsGrow ==
  ASSUME TypeInv, Program
  PROVE  faults <= faults'
<1>1. UNCHANGED faults \/ Fails
  BY Zenon DEF Program, Open, List, Read, Build, Load, Prepare, Walk, Watch, Register, Tick,
    Compare, RunSystems, Consume, Check, RegisterNewComponents, SwitchFunctions, Swap,
    Restore, BadOr, Fault, failures
<1>2. faults \in Nat
  BY Numbers DEF TypeInv
<1> QED
  BY <1>1, <1>2 DEF Fails

(* Twice a greater number is greater.                                      *)
LEMMA Twice == \A m, n \in Nat : m <= n => 2 * m \in Nat /\ 2 * n \in Nat /\ 2 * m <= 2 * n
OBVIOUS

LEMMA PassedOnCounts ==
  ASSUME TypeInv, TypeInv', GenInv, CountInv, PassedOn, faults <= faults'
  PROVE  CountInv'
<1>1. Cardinality(SavedSince') <= Cardinality(SavedSince) /\ IsFiniteSet(SavedSince')
  BY SavedSinceFinite, FS_Subset DEF PassedOn
<1>2. Cardinality(SavedSince') \in Nat /\ Cardinality(SavedSince) \in Nat
  BY <1>1, SavedSinceFinite, FS_CardinalityType
<1>3. Due \in 0 .. 1 /\ Due' \in 0 .. 1 /\ Found \in 0 .. 1 /\ Found' \in 0 .. 1
  BY DEF Due, Found
<1>4. next.gen + Due + Found + Cardinality(SavedSince) <= edits + 1 + 2 * faults
  BY DEF CountInv, MostBuilds
<1>5. next' = next /\ edits' = edits /\ Due' + Found' <= Due + Found
  BY DEF PassedOn
<1>6. next.gen \in Nat /\ edits \in Nat /\ faults \in Nat /\ faults' \in Nat
  BY Numbers DEF GenInv, TypeInv
<1>7. next'.gen + Due' + Found' + Cardinality(SavedSince') <= edits' + 1 + 2 * faults'
  <2> DEFINE d == Due  d1 == Due'  f == Found  f1 == Found'  g == next.gen  g1 == next'.gen
             c == Cardinality(SavedSince)  c1 == Cardinality(SavedSince')
  <2> HIDE DEF d, d1, f, f1, g, g1, c, c1
  <2>1. /\ g + d + f + c <= edits + 1 + 2 * faults /\ faults <= faults'
        /\ d1 + f1 <= d + f /\ c1 <= c /\ g1 = g /\ edits' = edits
    BY <1>1, <1>4, <1>5 DEF d, d1, f, f1, g, g1, c, c1
  <2>2. g \in Nat /\ edits \in Nat /\ d \in Nat /\ d1 \in Nat /\ f \in Nat /\ f1 \in Nat
        /\ c \in Nat /\ c1 \in Nat /\ faults \in Nat /\ faults' \in Nat
    BY <1>2, <1>3, <1>6 DEF d, d1, f, f1, g, c, c1
  <2> DEFINE p == 2 * faults  p1 == 2 * faults'
  <2>3. p \in Nat /\ p1 \in Nat /\ p <= p1
    BY <1>6, Twice
  <2> HIDE DEF p, p1
  <2>4. g + d + f + c <= edits + 1 + p
    BY <2>1 DEF p
  <2>5. g1 + d1 + f1 + c1 <= edits' + 1 + p1
    BY ONLY <2>1, <2>2, <2>3, <2>4
  <2> QED
    BY <2>5 DEF d1, f1, g1, c1, p1
<1> QED
  BY <1>7 DEF CountInv, MostBuilds, PassedOn

(* A walk that finds a save has found one that counted; a file it misses   *)
(* is found gone now, and found again by the next.                         *)
LEMMA WalkCounts ==
  ASSUME IInv, CountInv, Walk
  PROVE  CountInv'
<1>0. TypeInv /\ TypeInv' /\ DiskInv /\ GenInv /\ file \in Nat /\ faults <= faults'
  BY NextIInv, FaultsGrow, Numbers DEF IInv, Next, Program, TypeInv
<1>1. /\ file \in Files /\ pc \in {"watch", "poll"} /\ file' = file + 1
      /\ UNCHANGED <<disk, pc, watch, requested, edits, next>>
  <2>1. file <= FileCount /\ file \in 1 .. FileCount + 1
    BY <1>0 DEF Walk, TypeInv
  <2>2. file \in Files
    BY ONLY <2>1, Numbers DEF Files
  <2> QED
    BY <2>2 DEF Walk, editor, builder
<1>2. Passed' \subseteq Passed \cup {file} /\ Passed \subseteq Files /\ Passed' \subseteq Files
  BY <1>0, <1>1, Numbers DEF Passed, Files, TypeInv
<1>3. /\ requested = FALSE /\ pc' # "register" /\ Due' = Due /\ Due \in Nat
      /\ Found \in 0 .. 1 /\ Found' \in 0 .. 1
  BY <1>1 DEF CountInv, Due, Found
<1>4. /\ next.gen + Due + Found + Cardinality(SavedSince) <= edits + 1 + 2 * faults
      /\ next.gen \in Nat /\ edits \in Nat /\ faults \in Nat
      /\ IsFiniteSet(SavedSince) /\ Cardinality(SavedSince) \in Nat
  BY <1>0, SavedSinceFinite, Numbers DEF CountInv, MostBuilds, GenInv, TypeInv
<1> DEFINE d == Due  f == Found  f1 == Found'
           c == Cardinality(SavedSince)  c1 == Cardinality(SavedSince')
<1>5. CASE walk' = [walk EXCEPT ![file] = disk[file].mtime] /\ faults' = faults
  <2>1. \A g \in Files : walk'[g] = IF g = file THEN disk[file].mtime ELSE walk[g]
    BY <1>0, <1>1, <1>5 DEF DiskInv
  <2>2. SavedSince' \subseteq SavedSince \ {file}
    BY <1>1, <1>2, <2>1 DEF SavedSince
  <2>3. CASE pc = "poll" /\ walk = watch /\ walk' # watch
    <3>1. walk'[file] # walk[file]
      BY <1>0, <1>1, <1>5, <2>1, <2>3 DEF DiskInv
    <3>2. file \in SavedSince
      BY <1>1, <2>1, <2>3, <3>1 DEF SavedSince, Passed
    <3>3. /\ IsFiniteSet(SavedSince \ {file})
          /\ Cardinality(SavedSince \ {file}) = Cardinality(SavedSince) - 1
      BY <1>4, <3>2, FS_RemoveElement
    <3>4. c1 <= c - 1 /\ c1 \in Nat
      BY <2>2, <3>3, FS_Subset, FS_CardinalityType
    <3>5. f = 0
      BY <2>3 DEF Found
    <3> HIDE DEF d, f, f1, c, c1
    <3>6. /\ next.gen + d + f + c <= edits + 1 + 2 * faults
          /\ d \in Nat /\ f1 \in 0 .. 1 /\ c \in Nat /\ next.gen \in Nat
          /\ edits \in Nat /\ faults \in Nat
          /\ next' = next /\ edits' = edits /\ faults' = faults
      BY <1>1, <1>3, <1>4, <1>5 DEF d, f, f1, c
    <3>7. next'.gen + d + f1 + c1 <= edits' + 1 + 2 * faults'
      BY ONLY <3>4, <3>5, <3>6
    <3> QED
      BY <1>1, <1>3, <3>7 DEF CountInv, MostBuilds, d, f1, c1
  <2>4. CASE ~(pc = "poll" /\ walk = watch /\ walk' # watch)
    <3>1. Due' + Found' <= Due + Found
      BY <1>1, <1>3, <2>4 DEF Due, Found, Starting
    <3>2. PassedOn
      BY <1>1, <1>3, <2>2, <3>1 DEF PassedOn
    <3> QED
      BY <1>0, <3>2, PassedOnCounts
  <2> QED
    BY <2>3, <2>4
<1>6. CASE walk' = [walk EXCEPT ![file] = 0] /\ faults' = faults + 1
  <2>1. SavedSince' \subseteq SavedSince \cup {file}
    BY <1>0, <1>1, <1>2, <1>6 DEF SavedSince, DiskInv
  <2>2. /\ IsFiniteSet(SavedSince \cup {file})
        /\ \/ Cardinality(SavedSince \cup {file}) = Cardinality(SavedSince)
           \/ Cardinality(SavedSince \cup {file}) = Cardinality(SavedSince) + 1
    BY <1>4, FS_AddElement
  <2>3. c1 <= c + 1 /\ c1 \in Nat
    BY <1>4, <2>1, <2>2, FS_Subset, FS_CardinalityType
  <2> HIDE DEF d, f, f1, c, c1
  <2>4. /\ next.gen + d + f + c <= edits + 1 + 2 * faults
        /\ d \in Nat /\ f \in 0 .. 1 /\ f1 \in 0 .. 1 /\ c \in Nat /\ next.gen \in Nat
        /\ edits \in Nat /\ faults \in Nat
        /\ next' = next /\ edits' = edits /\ faults' = faults + 1
    BY <1>1, <1>3, <1>4, <1>6 DEF d, f, f1, c
  <2>5. next'.gen + d + f1 + c1 <= edits' + 1 + 2 * faults'
    BY ONLY <2>3, <2>4
  <2> QED
    BY <1>1, <1>3, <2>5 DEF CountInv, MostBuilds, d, f1, c1
<1> QED
  BY <1>5, <1>6 DEF Walk, failures, Fails

(* A save counts for one.                                                  *)
LEMMA SaveCounts ==
  ASSUME IInv, CountInv, NEW f \in Files, NEW s \in Sources \cup {Absent}, Save(f, s)
  PROVE  CountInv'
<1>0. TypeInv /\ TypeInv' /\ DiskInv /\ GenInv
  BY SaveIInv DEF IInv
<1>1. /\ UNCHANGED <<pc, file, walk, watch, requested, next, faults>> /\ edits' = edits + 1
      /\ \A g \in Files \ {f} : disk'[g] = disk[g]
  BY <1>0 DEF Save, failures, watcher, builder, DiskInv
<1>2. Due' = Due /\ Found' = Found /\ Passed' = Passed
  BY <1>1 DEF Due, Found, Passed
<1>3. SavedSince' \subseteq SavedSince \cup {f}
  BY <1>0, <1>1, <1>2, SavedSinceFinite DEF SavedSince
<1>4. /\ IsFiniteSet(SavedSince \cup {f})
      /\ Cardinality(SavedSince \cup {f}) <= Cardinality(SavedSince) + 1
      /\ Cardinality(SavedSince \cup {f}) \in Nat
  <2>1. IsFiniteSet(SavedSince) /\ Cardinality(SavedSince) \in Nat
    BY <1>0, SavedSinceFinite
  <2>2. /\ IsFiniteSet(SavedSince \cup {f})
        /\ \/ Cardinality(SavedSince \cup {f}) = Cardinality(SavedSince)
           \/ Cardinality(SavedSince \cup {f}) = Cardinality(SavedSince) + 1
    BY <2>1, FS_AddElement
  <2> QED
    BY <2>1, <2>2
<1>5. Cardinality(SavedSince') <= Cardinality(SavedSince \cup {f}) /\ IsFiniteSet(SavedSince')
  BY <1>3, <1>4, FS_Subset
<1> DEFINE d == Due  e == Found  c == Cardinality(SavedSince)  c1 == Cardinality(SavedSince')
           cf == Cardinality(SavedSince \cup {f})
<1> HIDE DEF d, e, c, c1, cf
<1>6. d \in Nat /\ e \in Nat /\ c \in Nat /\ c1 \in Nat /\ cf \in Nat
  <2>1. d \in Nat /\ e \in Nat
    BY DEF d, e, Due, Found
  <2>2. c \in Nat /\ c1 \in Nat /\ cf \in Nat
    BY <1>0, <1>4, <1>5, SavedSinceFinite, FS_CardinalityType DEF c, c1, cf
  <2> QED
    BY <2>1, <2>2
<1>7. c1 <= cf /\ cf <= c + 1 /\ next.gen + d + e + c <= edits + 1 + 2 * faults
  BY <1>4, <1>5 DEF d, e, c, c1, cf, CountInv, MostBuilds
<1>8. /\ next.gen \in Nat /\ edits \in Nat /\ faults \in Nat
      /\ next' = next /\ edits' = edits + 1 /\ faults' = faults
  BY <1>0, <1>1, Numbers DEF GenInv, TypeInv
<1>9. next'.gen + d + e + c1 <= edits' + 1 + 2 * faults'
  BY ONLY <1>6, <1>7, <1>8
<1> QED
  BY <1>1, <1>2, <1>9 DEF CountInv, MostBuilds, d, e, c1

(* A build that was due has been made.                                     *)
LEMMA LoadCounts ==
  ASSUME IInv, CountInv, Load
  PROVE  CountInv'
<1>0. TypeInv /\ TypeInv' /\ DiskInv /\ GenInv /\ faults <= faults'
  BY NextIInv, FaultsGrow DEF IInv, Next, Program
<1>1. /\ pc \in {"load", "load_again"} /\ UNCHANGED <<disk, edits, file, walk, watch, requested>>
      /\ \/ next' = ModuleOf(seen, listed, next.gen + 1) /\ pc' \in {"prepare", "check"}
            /\ pc' = IF pc = "load" THEN "prepare" ELSE "check"
         \/ GiveUp /\ UNCHANGED next
  BY DEF Load, editor, failures, watcher
<1>2. requested = FALSE /\ Due = 1 /\ Due' = 0 /\ pc' # "register"
  BY <1>1 DEF CountInv, Due, GiveUp, End
<1>3. SavedSince' \subseteq SavedSince /\ Found' = Found
  BY <1>1 DEF SavedSince, Passed, Found, GiveUp, End, Starting
<1>4. CASE UNCHANGED next
  <2>1. Due' + Found' <= Due + Found
    BY <1>2, <1>3 DEF Found
  <2>2. PassedOn
    BY <1>1, <1>2, <1>3, <1>4, <2>1 DEF PassedOn
  <2> QED
    BY <1>0, <2>2, PassedOnCounts
<1>5. CASE next' = ModuleOf(seen, listed, next.gen + 1)
  <2>1. next'.gen = next.gen + 1
    BY <1>5 DEF ModuleOf
  <2>2. /\ Cardinality(SavedSince') <= Cardinality(SavedSince)
        /\ Cardinality(SavedSince') \in Nat /\ Cardinality(SavedSince) \in Nat
    <3>1. IsFiniteSet(SavedSince) /\ IsFiniteSet(SavedSince')
      BY <1>0, <1>3, SavedSinceFinite, FS_Subset
    <3> QED
      BY <1>3, <3>1, FS_Subset, FS_CardinalityType
  <2> DEFINE e == Found  c == Cardinality(SavedSince)  c1 == Cardinality(SavedSince')
  <2> HIDE DEF e, c, c1
  <2>3. /\ e \in Nat /\ c \in Nat /\ c1 \in Nat /\ c1 <= c /\ next.gen \in Nat
        /\ edits \in Nat /\ edits' = edits
        /\ faults \in Nat /\ faults' \in Nat /\ faults <= faults'
    BY <1>0, <1>1, <2>2, Numbers DEF e, c, c1, Found, GenInv, TypeInv
  <2>4. next.gen + 1 + e + c <= edits + 1 + 2 * faults
    BY <1>2 DEF e, c, CountInv, MostBuilds
  <2>5. next'.gen + 0 + e + c1 <= edits' + 1 + 2 * faults'
    BY ONLY <2>1, <2>3, <2>4
  <2> QED
    BY <1>1, <1>2, <1>3, <2>5 DEF CountInv, MostBuilds, e, c1
<1> QED
  BY <1>1, <1>4, <1>5

(* The other steps pass on what is due.                                    *)
LEMMA StepCounts ==
  ASSUME IInv, CountInv, Program, ~Walk, ~Load
  PROVE  CountInv'
<1>0. TypeInv /\ TypeInv' /\ DiskInv /\ GenInv /\ faults <= faults'
  BY NextIInv, FaultsGrow DEF IInv, Next
<1>1. file \in Nat
  BY <1>0, Numbers DEF TypeInv
<1>2. CASE Open
  <2>1. PassedOn
    BY <1>0, <1>1, <1>2, Numbers DEF Open, editor, failures, watcher, builder, GiveUp, End,
      PassedOn, CountInv, Due, Found, SavedSince, Passed, Running, Starting, Reloading
  <2> QED
    BY <1>0, <2>1, PassedOnCounts
<1>3. CASE List
  <2>1. PassedOn
    BY <1>0, <1>1, <1>3, Numbers DEF List, editor, failures, watcher, builder, GiveUp, End,
      PassedOn, CountInv, Due, Found, SavedSince, Passed, Running, Starting, Reloading
  <2> QED
    BY <1>0, <2>1, PassedOnCounts
<1>4. CASE Read
  <2>1. PassedOn
    BY <1>0, <1>1, <1>4, Numbers DEF Read, editor, failures, watcher, builder, GiveUp, End,
      PassedOn, CountInv, Due, Found, SavedSince, Passed, Running, Starting, Reloading
  <2> QED
    BY <1>0, <2>1, PassedOnCounts
<1>5. CASE Build
  <2>1. PassedOn
    BY <1>0, <1>1, <1>5, Numbers DEF Build, editor, failures, watcher, builder, GiveUp, End,
      BadOr, Fault, Fails, PassedOn, CountInv, Due, Found, SavedSince, Passed, Running,
      Starting, Reloading
  <2> QED
    BY <1>0, <2>1, PassedOnCounts
<1>6. CASE Prepare
  <2>1. PassedOn
    BY <1>0, <1>1, <1>6, Numbers DEF Prepare, editor, failures, watcher, builder, GiveUp, End,
      PassedOn, CountInv, Due, Found, SavedSince, Passed, Running, Starting, Reloading
  <2> QED
    BY <1>0, <2>1, PassedOnCounts
<1>7. CASE Watch
  <2>1. /\ UNCHANGED <<disk, walk, requested, edits, next>>
        /\ pc = "watch" /\ file > FileCount
        /\ (pc' = "register" /\ watch' = walk) \/ pc' = "ended"
    BY <1>7 DEF Watch, editor, failures, builder, GiveUp, End, Starting
  <2>2. SavedSince' \subseteq SavedSince
    BY <1>1, <2>1, Numbers DEF SavedSince, Passed, Files
  <2>3. Due' + Found' <= Due + Found
    BY <2>1 DEF Due, Found, Starting
  <2>4. PassedOn
    BY <2>1, <2>2, <2>3 DEF PassedOn, CountInv
  <2> QED
    BY <1>0, <2>4, PassedOnCounts
<1>8. CASE Register
  <2>1. PassedOn
    BY <1>0, <1>1, <1>8, Numbers DEF Register, editor, failures, watcher, builder, GiveUp,
      End, PassedOn, CountInv, Due, Found, SavedSince, Passed, Running, Starting, Reloading
  <2> QED
    BY <1>0, <2>1, PassedOnCounts
<1>9. CASE Tick
  <2>1. PassedOn
    BY <1>0, <1>1, <1>9, Numbers DEF Tick, editor, failures, watcher, builder, End, PassedOn,
      CountInv, Due, Found, SavedSince, Passed, Running, Starting, Reloading
  <2> QED
    BY <1>0, <2>1, PassedOnCounts
<1>10. CASE Compare
  <2>1. requested = FALSE /\ pc' = "run" /\ UNCHANGED <<disk, walk, edits, next>>
    BY <1>10 DEF Compare, CountInv, editor, failures, builder
  <2>2. SavedSince' = SavedSince
    BY <1>10, <2>1 DEF Compare, SavedSince, Passed
  <2>3. Due' + Found' <= Due + Found
    <3>1. CASE watch' = walk /\ requested' = (requested \/ walk # watch)
      <4>1. Found' = 0 /\ Due = 0
        BY <1>10, <2>1, <3>1 DEF Compare, Due, Found, Starting
      <4>2. Due' = Found
        BY <1>10, <2>1, <3>1 DEF Compare, Due, Found, Starting
      <4> QED
        BY <4>1, <4>2 DEF Found
    <3>2. CASE UNCHANGED <<watch, requested>>
      BY <1>10, <2>1, <3>2 DEF Compare, Due, Found, Starting
    <3> QED
      BY <1>10, <3>1, <3>2 DEF Compare
  <2>4. PassedOn
    BY <2>1, <2>2, <2>3 DEF PassedOn
  <2> QED
    BY <1>0, <2>4, PassedOnCounts
<1>11. CASE RunSystems
  <2>1. UNCHANGED <<disk, walk, watch, requested, edits, next>> /\ pc = "run"
        /\ pc' \in {"consume", "ended"}
    BY <1>11 DEF RunSystems, editor, failures, watcher, builder, End
  <2>2. SavedSince' \subseteq SavedSince
    BY <2>1 DEF SavedSince, Passed
  <2>3. Due' + Found' <= Due + Found
    BY <2>1 DEF Due, Found, Starting
  <2>4. PassedOn
    BY <2>1, <2>2, <2>3 DEF PassedOn
  <2> QED
    BY <1>0, <2>4, PassedOnCounts
<1>12. CASE Consume
  <2>1. PassedOn
    BY <1>0, <1>1, <1>12, Numbers DEF Consume, editor, failures, watcher, builder, PassedOn,
      CountInv, Due, Found, SavedSince, Passed, Running, Starting, Reloading
  <2> QED
    BY <1>0, <2>1, PassedOnCounts
<1>13. CASE Check
  <2>1. PassedOn
    BY <1>0, <1>1, <1>13, Numbers DEF Check, editor, failures, watcher, builder, GiveUp, End,
      PassedOn, CountInv, Due, Found, SavedSince, Passed, Running, Starting, Reloading
  <2> QED
    BY <1>0, <2>1, PassedOnCounts
<1>14. CASE RegisterNewComponents
  <2>1. PassedOn
    BY <1>0, <1>1, <1>14, Numbers DEF RegisterNewComponents, editor, failures, watcher,
      builder, GiveUp, End, PassedOn, CountInv, Due, Found, SavedSince, Passed, Running,
      Starting, Reloading
  <2> QED
    BY <1>0, <2>1, PassedOnCounts
<1>15. CASE SwitchFunctions
  <2>1. PassedOn
    BY <1>0, <1>1, <1>15, Numbers DEF SwitchFunctions, editor, failures, watcher, builder,
      PassedOn, CountInv, Due, Found, SavedSince, Passed, Running, Starting, Reloading
  <2> QED
    BY <1>0, <2>1, PassedOnCounts
<1>16. CASE Swap
  <2>1. PassedOn
    BY <1>0, <1>1, <1>16, Numbers DEF Swap, editor, failures, watcher, builder, PassedOn,
      CountInv, Due, Found, SavedSince, Passed, Running, Starting, Reloading
  <2> QED
    BY <1>0, <2>1, PassedOnCounts
<1>17. CASE Restore
  <2>1. PassedOn
    BY <1>0, <1>1, <1>17, Numbers DEF Restore, editor, failures, watcher, builder, End,
      PassedOn, CountInv, Due, Found, SavedSince, Passed, Running, Starting, Reloading
  <2> QED
    BY <1>0, <2>1, PassedOnCounts
<1> QED
  BY <1>2, <1>3, <1>4, <1>5, <1>6, <1>7, <1>8, <1>9, <1>10, <1>11, <1>12, <1>13, <1>14,
    <1>15, <1>16, <1>17 DEF Program

LEMMA InitCounts ==
  ASSUME Init
  PROVE  CountInv
<1>1. SavedSince = {} /\ Due = 1 /\ Found = 0
  BY DEF Init, SavedSince, Passed, Due, Found, Starting
<1>2. next.gen = 0 /\ edits = 0 /\ faults = 0 /\ requested = FALSE /\ pc = "open"
  BY DEF Init, None
<1> QED
  BY <1>1, <1>2, FS_EmptySet DEF CountInv, MostBuilds

(* Every module but the first was loaded for a save of its own: a save is  *)
(* found once, asks for one build, and is not found again, unless a walk   *)
(* misses a file.                                                          *)
THEOREM BuildsAreCounted == Spec => []CountInv
<1>1. Init => CountInv
  BY InitCounts
<1>2. ASSUME IInv, CountInv, [Next]_vars PROVE CountInv'
  <2>1. CASE Program
    BY <1>2, <2>1, WalkCounts, LoadCounts, StepCounts
  <2>2. CASE \E f \in Files, s \in Sources \cup {Absent} : Save(f, s)
    BY <1>2, <2>2, SaveCounts
  <2>3. CASE UNCHANGED vars
    BY <1>2, <2>3 DEF vars, editor, failures, watcher, builder, CountInv,
      MostBuilds, Due, Found, SavedSince, Passed
  <2> QED
    BY <1>2, <2>1, <2>2, <2>3 DEF Next
<1> QED
  BY <1>1, <1>2, Invariance, PTL DEF Spec

(* The history of failed reloads is kept by every step.                    *)
LEMMA CutIsBoolean == Spec => [](cut \in BOOLEAN)
<1> DEFINE CutInv == cut \in BOOLEAN
<1>1. Init => CutInv
  BY DEF Init
<1>2. CutInv /\ [Next]_vars => CutInv'
  <2> SUFFICES ASSUME CutInv, [Next]_vars PROVE cut' \in BOOLEAN
    OBVIOUS
  <2>1. CASE Program
    <3>1. \/ cut' = cut \/ cut' = TRUE \/ cut' = (cut /\ ~requested)
      BY <2>1, Zenon DEF Program, Open, List, Read, Build, Load, Prepare, Walk, Watch,
        Register, Tick, Compare, RunSystems, Consume, Check, RegisterNewComponents,
        SwitchFunctions, Swap, Restore, BadOr, Fault, failures
    <3> QED
      BY <3>1
  <2>2. CASE \E f \in Files, s \in Sources \cup {Absent} : Save(f, s)
    BY <2>2 DEF Save, failures
  <2>3. CASE UNCHANGED vars
    BY <2>3 DEF vars, failures
  <2> QED
    BY <2>1, <2>2, <2>3 DEF Next
<1> QED
  BY <1>1, <1>2, PTL DEF Spec

(* Every variable keeps its type, and no generation in use is ahead of the *)
(* saves: however often the watcher is asked, a build needs a save, or a   *)
(* walk that missed a file.                                                *)
THEOREM TypeCorrect == Spec => []TypeOK
<1>1. ASSUME IInv, CountInv, cut \in BOOLEAN PROVE TypeOK
  <2>1. /\ TypeInv /\ GenInv /\ orphans \subseteq DOMAIN stores
        /\ Cardinality(SavedSince) \in Nat
    BY <1>1, SavedSinceFinite DEF IInv, StoresInv
  <2>2. next.gen <= MostBuilds
    <3>1. Due \in Nat /\ Found \in Nat
      BY DEF Due, Found
    <3> DEFINE d == Due  e == Found  c == Cardinality(SavedSince)
    <3> HIDE DEF d, e, c
    <3>2. /\ d \in Nat /\ e \in Nat /\ c \in Nat /\ next.gen \in Nat
          /\ MostBuilds \in Nat
      BY <2>1, <3>1, Numbers DEF d, e, c, TypeInv, GenInv, MostBuilds
    <3>3. next.gen + d + e + c <= MostBuilds
      BY <1>1 DEF CountInv, d, e, c
    <3> DEFINE most == MostBuilds
    <3> HIDE DEF most
    <3>4. next.gen + d + e + c <= most /\ most \in Nat
      BY <3>2, <3>3 DEF most
    <3>5. next.gen <= most
      BY ONLY <3>2, <3>4
    <3> QED
      BY <3>5 DEF most
  <2>3. walk \in [Files -> 0 .. MaxEdits + 1] /\ watch \in [Files -> 0 .. MaxEdits + 1]
    <3>1. /\ walk \in [Files -> Nat] /\ watch \in [Files -> Nat]
          /\ \A f \in Files : walk[f] <= edits + 1 /\ watch[f] <= edits + 1
          /\ edits \in 0 .. MaxEdits
      BY <1>1 DEF IInv, DiskInv, TypeInv
    <3> QED
      BY ONLY <3>1, Numbers
  <2>4. /\ next.gen \in 0 .. MostBuilds /\ module.gen \in 0 .. MostBuilds
        /\ managed \in 0 .. MostBuilds /\ functions \in 0 .. MostBuilds
        /\ \A e \in systems : e.gen \in 0 .. MostBuilds
    BY <2>1, <2>2, Numbers DEF GenInv, TypeInv, MostBuilds
  <2> QED
    BY <1>1, <2>1, <2>3, <2>4, Zenon DEF TypeInv, TypeOK
<1> QED
  BY <1>1, Invariance, BuildsAreCounted, CutIsBoolean, PTL
=============================================================================
