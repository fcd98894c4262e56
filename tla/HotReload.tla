----------------------------- MODULE HotReload -----------------------------
(***************************************************************************)
(* ecsvm run <project>: build the sources, load and run the module, watch  *)
(* the .ecs files, and swap the running systems for those of a new build   *)
(* between two ticks (main.c, project.c, fswatch.c, system_hotreload.c,    *)
(* managed_runtime.c).  An editor changes the files at any moment; the     *)
(* program is one thread, and reads them one at a time.  Allocations and   *)
(* calls of the file system may fail, MaxFaults of them in a run.          *)
(***************************************************************************)
EXTENDS Naturals, FiniteSets

CONSTANTS
  FileCount,    \* .ecs paths, numbered in the order of a sorted listing
  EntryFile,    \* the one that project.toml names as entry
  Sources,      \* what a file may contain, see SourceAssumption
  Trees,        \* what the files may contain when the program starts
  StartupEdits, \* whether the editor may save before the watcher is set up
  MaxEdits,     \* bound on the saves of the editor
  MaxFaults     \* bound on the calls that fail

\* Stands for the content of a file that does not exist.
Absent == [absent |-> TRUE]
Files == 1 .. FileCount

(* parses: the file has no syntax error.                                   *)
(* layouts: the components it declares.  A layout's size stands for all a  *)
(* reload compares (row size, attributes, names and types of the fields),  *)
(* its inner for what it does not: what the structs used as fields hold.   *)
(* systems: the systems it declares, with the number of parameters and the *)
(* systems each must run before.  natives: the window and renderer systems *)
(* its own systems refer to.                                               *)
ASSUME SourceAssumption ==
  /\ FileCount \in Nat /\ EntryFile \in Files /\ MaxEdits \in Nat /\ MaxFaults \in Nat
  /\ StartupEdits \in BOOLEAN
  /\ \A s \in Sources :
       /\ s.parses \in BOOLEAN
       /\ \A c \in DOMAIN s.layouts : DOMAIN s.layouts[c] = {"size", "inner"}
       /\ \A q \in s.systems : DOMAIN q = {"name", "params", "before"}
       /\ s.natives \subseteq {"core.Window", "core.Renderer"}
  /\ Trees \subseteq [Files -> Sources \cup {Absent}]

(* The program knows the systems it removes by their names alone, and no   *)
(* check keeps a project from declaring one of these itself.  Projects are *)
(* taken to leave them to the program: the watcher would go with a build   *)
(* that is refused, or the project's own system with one that is taken.    *)
NativeNames == {"core.Renderer", "core.Window", "core.Time"}
ASSUME ReservedNames ==
  \A s \in Sources : \A q \in s.systems : q.name \notin NativeNames \cup {"__ecsvm.HotReload"}

VARIABLES
  disk,      \* content and modification time of each file; times are never reused
  edits,     \* saves so far
  faults,    \* calls that failed so far
  cut,       \* history: whether such a failure ended the last build, or hid a file from it
  pc,        \* where the program is
  file,      \* next file of the walk or the build under way
  walk,      \* modification times read by the walk under way
  watch,     \* watcher.entries: the times of the last snapshot; 0: no entry
  requested, \* hotreload_system.reload_requested
  listed,    \* the files the build under way has found
  seen,      \* the contents the last build read
  next,      \* the module loaded from the last build
  module,    \* runtime.module
  managed,   \* generation of managed_runtime.module, 0 for NULL
  functions, \* generation of the module engine->functions points into, 0 when empty
  systems,   \* engine->systems: names and generations of their bindings
  stores,    \* engine->components: the layout each store was made for
  orphans,   \* history: stores made by a reload that failed afterwards
  stop,      \* engine->stop_requested
  exit       \* why the run ended

editor == <<disk, edits>>
failures == <<faults, cut>>
watcher == <<walk, watch, requested>>
builder == <<listed, seen, next>>
engine == <<managed, functions, systems, stores, orphans>>
vars == <<editor, failures, pc, file, watcher, builder, module, engine, stop, exit>>

None == [gen |-> 0, layouts |-> <<>>, systems |-> {}, natives |-> {}]
Running == {"ready", "poll", "compare", "run", "consume"}
Starting == {"open", "list", "read", "load", "prepare", "watch", "register"}
Reloading == {"open_again", "list_again", "read_again", "load_again", "check", "components",
              "switch", "swap", "restore"}

\* One for the start and for each save, two for a file that a walk misses once.
MostBuilds == edits + 1 + 2 * faults

TypeOK ==
  /\ pc \in Running \cup Starting \cup Reloading \cup {"ended"}
  /\ file \in 1 .. FileCount + 1
  /\ walk \in [Files -> 0 .. MaxEdits + 1] /\ watch \in [Files -> 0 .. MaxEdits + 1]
  /\ requested \in BOOLEAN /\ stop \in BOOLEAN /\ cut \in BOOLEAN
  /\ listed \subseteq Files
  /\ next.gen \in 0 .. MostBuilds /\ module.gen \in 0 .. MostBuilds
  /\ managed \in 0 .. MostBuilds /\ functions \in 0 .. MostBuilds
  /\ \A e \in systems : e.gen \in 0 .. MostBuilds
  /\ orphans \subseteq DOMAIN stores
  /\ exit \in {"none", "failed_to_start", "stopped", "system_failed", "no_pipeline",
              "not_restored"}

-----------------------------------------------------------------------------
(***************************************************************************)
(* Modules.                                                                *)
(***************************************************************************)

\* The build stops at a file that is gone or has an error.
Readable(content) == content # Absent /\ content.parses

(* ecsvm_project_build_internal once all is read: a component or a system  *)
(* declared twice fails the build.                                         *)
Builds(tree, found) ==
  \A f, g \in found : f # g =>
    /\ DOMAIN tree[f].layouts \cap DOMAIN tree[g].layouts = {}
    /\ \A p \in tree[f].systems, q \in tree[g].systems : p.name # q.name

ModuleOf(tree, found, g) ==
  LET owner(c) == CHOOSE f \in found : c \in DOMAIN tree[f].layouts IN
  [gen |-> g,
   layouts |-> [c \in UNION {DOMAIN tree[f].layouts : f \in found} |-> tree[owner(c)].layouts[c]],
   systems |-> UNION {tree[f].systems : f \in found},
   natives |-> UNION {tree[f].natives : f \in found}]

\* ecsvm_pipeline_build refuses the module's systems.
Unordered(m) ==
  \E S \in SUBSET m.systems :
    S # {} /\ \A q \in S : \E p \in S : p # q /\ q.name \in p.before

\* Faulty: the sizes are not compared.
SameFields(old, new) == old.inner = new.inner

(* ecsvm_components_are_hotreload_compatible: no component is gone or has  *)
(* another size or other fields; a field's type is compared by its name,   *)
(* whatever the struct of that name holds.                                 *)
SameDefinition(old, new) == old.size = new.size

Compatible(old, new) ==
  \A c \in DOMAIN old.layouts :
    c \in DOMAIN new.layouts /\ SameDefinition(old.layouts[c], new.layouts[c])

-----------------------------------------------------------------------------
(***************************************************************************)
(* The system table.  A managed system's userdata points into the bindings *)
(* allocated for its module; the native systems and the watcher own theirs *)
(* and have generation 0 here.  Every module holds the structs of the core *)
(* library, so the core.Time component is always registered before them.   *)
(***************************************************************************)
\* Faulty: the bindings of a module that is not loaded.
EntryAhead(n, g) == [name |-> n, gen |-> g + 1]

Entry(n, g) == [name |-> n, gen |-> g]
Watcher == Entry("__ecsvm.HotReload", 0)
NamesIn(table) == {e.name : e \in table}

\* ecsvm_register_native_systems: each unless it is registered already.
NeededNatives(m) ==
  {"core.Time"} \cup m.natives
  \cup (IF "core.Renderer" \in m.natives THEN {"core.Window"} ELSE {})

NativeEntries(table, m) == {Entry(n, 0) : n \in NeededNatives(m) \ NamesIn(table)}

\* Faulty: the bindings of the running module, whichever is registered.
ManagedEntriesOfOld(m) == {Entry(q.name, module.gen) : q \in m.systems}

ManagedEntries(m) == {Entry(q.name, m.gen) : q \in m.systems}

\* ecsvm_register_module_runtime, when it succeeds.
Registered(table, m) == table \cup NativeEntries(table, m) \cup ManagedEntries(m)

(* A system with a parameter or whose name is in use cannot be registered. *)
Unregistrable(table, m) ==
  {q \in m.systems : q.params # 0 \/ q.name \in NamesIn(table \cup NativeEntries(table, m))}

\* What a failed ecsvm_register_module_runtime may leave.
PartlyRegistered(table, m) ==
  {t \in SUBSET Registered(table, m) :
     /\ table \subseteq t /\ t # Registered(table, m)
     /\ \A q \in Unregistrable(table, m) : Entry(q.name, m.gen) \notin t}

ProjectNames(m) == NativeNames \cup {q.name : q \in m.systems}

\* Faulty: the managed systems stay.
WithoutNatives(table, m) == {e \in table : e.name \notin NativeNames}

\* ecsvm_unregister_project_runtime_systems goes by name.
WithoutSystems(table, m) == {e \in table : e.name \notin ProjectNames(m)}

\* ecsvm_unregister_unused_native_systems.
WithoutUnused(table, m) ==
  {e \in table : e.name \in NeededNatives(m) \/ e.name \notin NativeNames}

-----------------------------------------------------------------------------
(***************************************************************************)
(* The editor.                                                             *)
(***************************************************************************)
Init ==
  /\ \E t \in Trees :
       disk = [f \in Files |-> [content |-> t[f], mtime |-> IF t[f] = Absent THEN 0 ELSE 1]]
  /\ edits = 0 /\ faults = 0 /\ cut = FALSE
  /\ pc = "open" /\ file = 1
  /\ walk = [f \in Files |-> 0] /\ watch = [f \in Files |-> 0] /\ requested = FALSE
  /\ listed = {} /\ seen = [f \in Files |-> Absent]
  /\ next = None /\ module = None
  /\ managed = 0 /\ functions = 0 /\ systems = {}
  /\ stores = <<>> /\ orphans = {}
  /\ stop = FALSE /\ exit = "none"

\* A file is saved or removed.
Save(f, s) ==
  /\ edits < MaxEdits
  /\ pc # "ended"
  /\ pc \in Starting => StartupEdits
  /\ s # disk[f].content
  /\ edits' = edits + 1
  /\ disk' = [disk EXCEPT ![f] = [content |-> s, mtime |-> IF s = Absent THEN 0 ELSE edits + 2]]
  /\ UNCHANGED <<failures, pc, file, watcher, builder, module, engine, stop, exit>>

-----------------------------------------------------------------------------
(***************************************************************************)
(* Steps of the program.                                                   *)
(***************************************************************************)
\* An allocation or a call of the file system fails.
Fails == faults < MaxFaults /\ faults' = faults + 1

\* It spoils the start or the reload it is part of.
Fault == Fails /\ cut' = TRUE

\* A step fails because of what it is given, or because a call fails.
BadOr(bad) == (bad /\ UNCHANGED failures) \/ Fault

End(why) == pc' = "ended" /\ exit' = why

\* A failed build, load or check: the run does not start, or goes on as it was.
GiveUp ==
  IF pc \in Starting THEN End("failed_to_start")
  ELSE pc' = "ready" /\ UNCHANGED exit

Present == {f \in Files : disk[f].content # Absent}

(* The build looks for the entry of the manifest, lists the directories,   *)
(* and reads the files it found in order; whatever fails, nobody asks for  *)
(* it again.                                                               *)
Open ==
  /\ pc \in {"open", "open_again"}
  /\ \/ /\ EntryFile \in Present
        /\ pc' = IF pc = "open" THEN "list" ELSE "list_again"
        /\ UNCHANGED <<failures, exit>>
     \/ BadOr(EntryFile \notin Present) /\ GiveUp
  /\ UNCHANGED <<editor, file, watcher, builder, module, engine, stop>>

\* What stat or opendir fails for is passed over.
List ==
  /\ pc \in {"list", "list_again"}
  /\ \/ /\ \/ Present # {} /\ listed' = Present /\ UNCHANGED failures
           \/ listed' \in (SUBSET Present) \ {{}, Present} /\ Fault
        /\ file' = 1
        /\ pc' = IF pc = "list" THEN "read" ELSE "read_again"
        /\ UNCHANGED exit
     \/ BadOr(Present = {}) /\ GiveUp /\ UNCHANGED <<listed, file>>
  /\ UNCHANGED <<editor, watcher, seen, next, module, engine, stop>>

\* Whether the build goes past a file: not if it is gone or has an error.
Passes(f) == f \in listed => Readable(disk[f].content)

Read ==
  /\ pc \in {"read", "read_again"} /\ file <= FileCount
  /\ \/ /\ seen' = [seen EXCEPT ![file] = IF file \in listed THEN disk[file].content ELSE Absent]
        /\ IF Passes(file) THEN file' = file + 1 /\ UNCHANGED <<pc, exit>>
           ELSE GiveUp /\ UNCHANGED file
        /\ UNCHANGED failures
     \/ file \in listed /\ Fault /\ GiveUp /\ UNCHANGED <<seen, file>>
  /\ UNCHANGED <<editor, watcher, listed, next, module, engine, stop>>

Build ==
  /\ pc \in {"read", "read_again"} /\ file > FileCount
  /\ \/ /\ Builds(seen, listed)
        /\ pc' = IF pc = "read" THEN "load" ELSE "load_again"
        /\ UNCHANGED <<failures, exit>>
     \/ BadOr(~Builds(seen, listed)) /\ GiveUp
  /\ UNCHANGED <<editor, file, watcher, builder, module, engine, stop>>

\* ecsvm_managed_load_module; only this program writes the .ecsbin.
Load ==
  /\ pc \in {"load", "load_again"}
  /\ \/ LET m == ModuleOf(seen, listed, next.gen + 1) IN
        /\ next' = m
        /\ module' = IF pc = "load" THEN m ELSE module
        /\ pc' = IF pc = "load" THEN "prepare" ELSE "check"
        /\ UNCHANGED <<failures, exit>>
     \/ Fault /\ GiveUp /\ UNCHANGED <<next, module>>
  /\ UNCHANGED <<editor, file, watcher, listed, seen, engine, stop>>

\* ecsvm_prepare_engine_for_module.
Prepare ==
  /\ pc = "prepare"
  /\ \/ /\ stores' = module.layouts
        /\ functions' = module.gen
        /\ pc' = "watch" /\ file' = 1
        /\ UNCHANGED <<failures, exit>>
     \/ Fault /\ GiveUp /\ UNCHANGED <<stores, functions, file>>
  /\ UNCHANGED <<editor, watcher, builder, module, managed, systems, orphans, stop>>

\* One file of ecsvm_fswatch_collect_recursive, which passes over it if stat fails.
Walk ==
  /\ pc \in {"watch", "poll"} /\ file <= FileCount
  /\ \/ walk' = [walk EXCEPT ![file] = disk[file].mtime] /\ UNCHANGED failures
     \/ file \in Present /\ walk' = [walk EXCEPT ![file] = 0] /\ Fails /\ UNCHANGED cut
  /\ file' = file + 1
  /\ UNCHANGED <<editor, pc, watch, requested, builder, module, engine, stop, exit>>

\* ecsvm_hotreload_system_init and _register, once the walk is done.
Watch ==
  /\ pc = "watch" /\ file > FileCount
  /\ \/ /\ watch' = walk
        /\ systems' = {Watcher}
        /\ pc' = "register"
        /\ UNCHANGED <<failures, exit>>
     \/ Fault /\ GiveUp /\ UNCHANGED <<watch, systems>>
  /\ UNCHANGED <<editor, file, walk, requested, builder, module, managed, functions, stores,
                 orphans, stop>>

\* ecsvm_allocate_and_register_module_runtime.
Register ==
  /\ pc = "register"
  /\ managed' = module.gen
  /\ \/ /\ Unregistrable(systems, module) = {}
        /\ systems' = Registered(systems, module)
        /\ pc' = "ready"
        /\ UNCHANGED <<failures, exit>>
     \/ /\ BadOr(Unregistrable(systems, module) # {})
        /\ systems' \in PartlyRegistered(systems, module)
        /\ GiveUp
  /\ UNCHANGED <<editor, file, watcher, builder, module, functions, stores, orphans, stop>>

(* The loop of ecsvm_run_project: a tick unless a stop was requested; the  *)
(* first one after a change of the systems orders them.                    *)
Tick ==
  /\ pc = "ready"
  /\ file' = 1
  /\ IF stop THEN End("stopped")
     ELSE IF Unordered(module) THEN End("no_pipeline")
     ELSE pc' = "poll" /\ UNCHANGED exit
  /\ UNCHANGED <<editor, failures, watcher, builder, module, engine, stop>>

\* Faulty: a poll that fails replaces the snapshot.
CompareLosing ==
  /\ pc = "poll" /\ file > FileCount
  /\ watch' = walk
  /\ \/ requested' = (requested \/ walk # watch) /\ UNCHANGED failures
     \/ Fails /\ UNCHANGED <<cut, requested>>
  /\ pc' = "run"
  /\ UNCHANGED <<editor, file, walk, builder, module, engine, stop, exit>>

\* ecsvm_fswatch_poll; a walk that failed leaves the old snapshot.
Compare ==
  /\ pc = "poll" /\ file > FileCount
  /\ \/ /\ watch' = walk
        /\ requested' = (requested \/ walk # watch)
        /\ UNCHANGED failures
     \/ Fails /\ UNCHANGED <<cut, watch, requested>>
  /\ pc' = "run"
  /\ UNCHANGED <<editor, file, walk, builder, module, engine, stop, exit>>

\* The other systems of the tick; one may request a stop, one may fail.
RunSystems ==
  /\ pc = "run"
  /\ \/ stop' \in {stop, TRUE} /\ pc' = "consume" /\ UNCHANGED exit
     \/ End("system_failed") /\ UNCHANGED stop
  /\ UNCHANGED <<editor, failures, file, watcher, builder, module, engine>>

\* ecsvm_hotreload_system_consume_reload.
Consume ==
  /\ pc = "consume"
  /\ requested' = FALSE
  /\ pc' = IF requested THEN "open_again" ELSE "ready"
  /\ cut' = (cut /\ ~requested)
  /\ UNCHANGED <<editor, faults, file, walk, watch, builder, module, engine, stop, exit>>

-----------------------------------------------------------------------------
(***************************************************************************)
(* ecsvm_project_runtime_reload, after the build and the load.             *)
(***************************************************************************)

\* The compatibility check and the allocation of the new bindings.
Check ==
  /\ pc = "check"
  /\ \/ Compatible(module, next) /\ pc' = "components" /\ UNCHANGED <<failures, exit>>
     \/ BadOr(~Compatible(module, next)) /\ GiveUp
  /\ UNCHANGED <<editor, file, watcher, builder, module, engine, stop>>

NewComponents == DOMAIN next.layouts \ DOMAIN stores
StoresWith(new) ==
  [c \in DOMAIN stores \cup new |-> IF c \in DOMAIN stores THEN stores[c] ELSE next.layouts[c]]

\* ecsvm_register_new_components: the stores made before a failure stay.
RegisterNewComponents ==
  /\ pc = "components"
  /\ \/ /\ stores' = StoresWith(NewComponents)
        /\ pc' = "switch"
        /\ UNCHANGED <<failures, orphans, exit>>
     \/ \E made \in SUBSET NewComponents :
        /\ made # NewComponents
        /\ Fault
        /\ stores' = StoresWith(made)
        /\ orphans' = orphans \cup made
        /\ GiveUp
  /\ UNCHANGED <<editor, file, watcher, builder, module, managed, functions, systems, stop>>

\* Stores of components that the running module does not have.
Unowned == DOMAIN stores \ DOMAIN module.layouts

(* The old systems go, and ecsvm_engine_load_functions clears the table    *)
(* before it fills it.                                                     *)
SwitchFunctions ==
  /\ pc = "switch"
  /\ \/ /\ systems' = WithoutSystems(systems, module)
        /\ functions' = next.gen
        /\ pc' = "swap"
        /\ UNCHANGED <<failures, orphans>>
     \/ /\ Fault
        /\ systems' = WithoutSystems(WithoutSystems(systems, module), next)
        /\ functions' = 0
        /\ orphans' = orphans \cup Unowned
        /\ pc' = "restore"
  /\ UNCHANGED <<editor, file, watcher, builder, module, managed, stores, stop, exit>>

\* The new systems come, and the new module takes over.
Swap ==
  /\ pc = "swap"
  /\ managed' = next.gen
  /\ \/ /\ Unregistrable(systems, next) = {}
        /\ systems' = WithoutUnused(Registered(systems, next), next)
        /\ module' = next
        /\ pc' = "ready"
        /\ UNCHANGED <<failures, orphans>>
     \/ /\ BadOr(Unregistrable(systems, next) # {})
        /\ \E t \in PartlyRegistered(systems, next) : systems' = WithoutSystems(t, next)
        /\ orphans' = orphans \cup Unowned
        /\ pc' = "restore"
        /\ UNCHANGED module
  /\ UNCHANGED <<editor, file, watcher, builder, functions, stores, stop, exit>>

\* ecsvm_restore_previous_project_runtime; the run ends when it fails.
Restore ==
  LET cleared == WithoutSystems(systems, module) IN
  /\ pc = "restore"
  /\ \/ /\ Unregistrable(cleared, module) = {}
        /\ functions' = module.gen /\ managed' = module.gen
        /\ systems' = WithoutUnused(Registered(cleared, module), module)
        /\ pc' = "ready"
        /\ UNCHANGED <<failures, exit>>
     \/ /\ BadOr(Unregistrable(cleared, module) # {})
        /\ functions' \in {0, module.gen}
        /\ managed' = IF functions' = 0 THEN managed ELSE module.gen
        /\ IF functions' = 0 THEN systems' = cleared
           ELSE systems' \in PartlyRegistered(cleared, module)
        /\ End("not_restored")
  /\ UNCHANGED <<editor, file, watcher, builder, module, stores, orphans, stop>>

Program ==
  \/ Open \/ List \/ Read \/ Build \/ Load \/ Prepare \/ Walk \/ Watch \/ Register
  \/ Tick \/ Compare \/ RunSystems \/ Consume
  \/ Check \/ RegisterNewComponents \/ SwitchFunctions \/ Swap \/ Restore

Next == Program \/ \E f \in Files, s \in Sources \cup {Absent} : Save(f, s)

Spec == Init /\ [][Next]_vars

\* The program never waits for anything; the editor may stop at any time.
FairSpec == Spec /\ WF_vars(Program)

-----------------------------------------------------------------------------
(* Whenever a tick starts, everything it uses belongs to one module: the   *)
(* function table, the module the interpreter resolves ids in, and the     *)
(* bindings of exactly its systems, beside its native systems and the      *)
(* watcher.  No failure between two ticks leaves a mixture or a pointer    *)
(* into a module that was freed.                                           *)
OneModuleRuns ==
  pc \in Running =>
    /\ functions = module.gen
    /\ managed = module.gen
    /\ systems = Registered({Watcher}, module)

(* The rows of a store are as wide as the running module takes them to be, *)
(* for every component that no failed reload had a hand in.                *)
StoresFit ==
  pc \in Running =>
    \A c \in DOMAIN module.layouts :
      /\ c \in DOMAIN stores
      /\ c \notin orphans => stores[c].size = module.layouts[c].size

(* A new build that cannot be taken over never ends the run by itself: the *)
(* previous systems come back unless bringing them back runs out of        *)
(* memory.                                                                 *)
BadBuildIsSurvived ==
  [][exit # "not_restored" /\ exit' = "not_restored" => faults' > faults]_vars

(* Whether the project, as it is now, gives a module that the running one  *)
(* can be replaced by.                                                     *)
Content == [f \in Files |-> disk[f].content]
Today == ModuleOf(Content, Present, 0)
Acceptable ==
  /\ \A f \in Present : Readable(Content[f])
  /\ Builds(Content, Present)
  /\ Compatible(module, Today)
  /\ \A q \in Today.systems : q.params = 0

(* Whatever is saved, and whenever, once the editor is done the program    *)
(* has read every file as it is, up to the first with an error, and runs   *)
(* what they say if that can be run: a poll that failed is made up for, a  *)
(* save during a walk or a build is found by the next.  Three kinds of     *)
(* runs are left out.  The entry file is gone: the build refuses that.  A  *)
(* file came and went between two snapshots, and the last build listed it: *)
(* no poll sees a difference.  A failing call ended the last reload: the   *)
(* poll that asked for it has already taken its snapshot, and the reload   *)
(* is not tried again before the next save (fswatch.c 417-422, project.c   *)
(* 811-857).                                                               *)
LastSaveIsBuilt ==
  <>[](\/ pc = "ended" \/ cut
       \/ EntryFile \notin Present \/ ~(listed \subseteq Present)
       \/ /\ \A f \in Files :
               (\A g \in Present : g < f => Readable(Content[g])) => seen[f] = Content[f]
          /\ Acceptable =>
               /\ module.layouts = Today.layouts
               /\ module.systems = Today.systems /\ module.natives = Today.natives)

-----------------------------------------------------------------------------
(***************************************************************************)
(* What README.md:27 promises and the code does not keep; see the findings *)
(* in README.md.                                                           *)
(***************************************************************************)

(* "Running a project directory now watches its .ecs files": a save is     *)
(* built whenever it comes (LastSaveIsBuilt, with StartupEdits).           *)
EverySaveIsBuilt == LastSaveIsBuilt

(* "edits to existing components still require a restart": the rows of     *)
(* every store have the layout the running module gives them.              *)
ComponentsAsDeclared ==
  pc \in Running => \A c \in DOMAIN module.layouts : stores[c] = module.layouts[c]

(* "Existing entities stay alive": a reload does not end the run.          *)
ReloadKeepsRunning == exit = "no_pipeline" => module.gen = 1
=============================================================================
