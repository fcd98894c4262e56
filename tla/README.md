# ecsvm in TLA+

Specifications of ecsvm, an entity-component-system virtual machine in C, its
model-checking runs and its machine-checked proofs.  Source paths below are
relative to the repository root; line numbers are those of the commit the
specifications were written against.

## The system

| component | state | operations | talks to |
|---|---|---|---|
| Entity table and component stores (`src/ecsvm.c`) | entity ids, the id counter, one growing pair of arrays per component | create an entity, register a component, set, get a row to write to | every system; the loader registers components |
| System registry and scheduler (`src/ecsvm.c`) | the system table, a cached order of indices, a dirty flag, a stop flag | register, unregister, tick, run, request and clear a stop | the pipeline builder; callbacks into every system |
| Pipeline builder (`src/pipeline.c`) | edge matrix, indegrees, order, all local to a call | build an order from Before and After | called by a tick when the flag is dirty |
| Project runtime (`src/managed_runtime.c`) | the loaded module, the bindings of its systems | start, loop, reload with roll-back, free | engine, build, loader, watcher |
| File watcher (`src/fswatch.c`, `src/system_hotreload.c`) | the last snapshot of paths and modification times; a reload request | init, poll (as a system of every tick), consume | the file system; the project loop |
| Project build (`src/project.c`) | local to a call; writes `out/*.ecsbin` and `out/types.h` | build | the file system; the command line and the reload |
| Lexer and parser (`src/ecs_lexer.c`, `src/ecs_parser.c`) | a tree of one file | parse | the build |
| Collection and generator (`src/ecs_generator.c`) | structs, functions and constants; tables; the module file | collect, resolve, lay out, build tables, write, write `types.h` | the build; the core library's module |
| Module loader (`src/bin.c`, `src/component.c`) | the tables of a module | load, check, lay out, register components | the runtime, the build, the decompiler |
| Decompiler (`src/bin_decompile.c`) | none that lasts | a module as source | the command line |
| Function table (`src/ecsvm.c`) | parsed bodies and natives by function id | load, clear | interpreter |
| Blob table (`src/ecsvm.c`) | slots of owned bytes | create, write, read, mark as text, destroy | hosts; components hold handles |
| Interpreter (`src/managed_runtime.c`) | a frame per call: locals, arguments, pending return | statements, expressions, calls, for-in | engine, natives (`src/lib_core.c`) |
| Native systems (`src/system_time.c`, `src/system_window.c`, `src/system_renderer.c`) | an entity of their own, the window, the close handshake | main, dispose, register | SDL, the engine |
| Inspector, XML, logging, text and path helpers, command line | none that lasts | text in, text out | - |

The program is a single thread.  What makes it hard all the same:

* an editor writes the watched files at any moment, and the program reads
  them one at a time, first for their times and later for their content;
* every `malloc` may fail, in the middle of operations that change several
  tables, and a reload must then bring the previous program back; every call of
  the file system may fail, between the poll that found a save and the build of it;
* callbacks run in an order computed from attributes that a reload changes;
* a program passes through five representations (tokens, trees, declarations,
  tables, a file) and back, and each pass relies on what the others keep;
* managed code holds pointers into rows while it adds rows;
* arrays move when they grow, indices and ids are kept across calls, and the
  id counter is a 32-bit word that wraps.

What each component must get right is stated by the properties of its module,
below; `PROJECT.json` lists the hazards they are for, each at its line.

## Modules

| module | what it is | models |
|---|---|---|
| `EngineStore` | entity table and component stores, one action per API call, with the allocation that fails as a parameter | `src/ecsvm.c` 195-395, 567-587, 701-797, 980-1096, `src/utility.c` 49-59 |
| `EntityMap` | what the stores promise: a map from entities to values | abstract specification |
| `PipelineOrder` | the graph of Before and After, cycles, and the order by registration as a reference definition | `lib/core/src/attributes.ecs` |
| `PipelineBuild` | `ecsvm_pipeline_build`, one step per iteration of its outer loops | `src/pipeline.c` |
| `Scheduler` | registry, cached pipeline, ticks and the two loops around them | `src/ecsvm.c` 168-193, 799-978 |
| `Ticks` | what a tick promises: today's systems, all, once, in order | abstract specification |
| `HotReload` | `ecsvm run <project>`: build, load, start, watch, reload, roll back, with an editor beside it | `src/managed_runtime.c`, `src/fswatch.c`, `src/system_hotreload.c`, `src/project.c` |
| `NativeSystems` | the time, window and renderer systems over ticks and reloads: their entities and the close handshake | `src/system_time.c`, `src/system_window.c`, `src/system_renderer.c`, `src/managed_runtime.c` |
| `Parser` | the recursive descent: names, types, expressions, statements | `src/ecs_parser.c` |
| `SourceFile` | declarations and whole files | `src/ecs_parser.c` |
| `Traversal` | the loop that carries a result along, and the walk in which every struct comes after those it holds | `src/ecs_generator.c` 1254-1350, and the same walk in `types.h` and in `src/bin.c` |
| `Declarations` | structs, functions and constants as the generator keeps them: names, type resolution, layouts | middle of `src/ecs_generator.c` |
| `Semantics` | the collection of declarations from trees | first half of `src/ecs_generator.c` |
| `ModuleTables` | tables with shared blobs and types, the file, `types.h` | second half of `src/ecs_generator.c` |
| `Codegen` | bodies of functions, linked to the tables | `src/ecs_generator.c` 1489-2281 |
| `Loader` | the checks of every number in a file, layouts, accessors, registration, the import of a module into a build | `src/bin.c`, `src/component.c`, part of `src/project.c` |
| `Decompiler` | a loaded module as source text | `src/bin_decompile.c` |
| `ProjectBuild` | the build, one action for each pass that can end it, and what is done with its result; the passes over trees are parameters | `src/project.c` |
| `Toolchain` | `ProjectBuild` with the parser, the collection, the bodies and the decompiler | `src/project.c` |
| `BlobTable` | slots used again, handles, every call on them | `src/ecsvm.c` 532-565, 1141-1326 |
| `BlobMap` | what a handle promises | abstract specification |
| `Interpreter` | values, places, expressions, statements, calls and natives | `src/managed_runtime.c` 60-1429, `src/lib_core.c` |
| `ManagedHost` | an engine with rows and blobs on which a built program runs | the system callback of `src/managed_runtime.c` |
| `Loops` | every set of naturals has a least element; induction as a fact about sets; the invariant of any loop | - |
| `PipelineOrderProofs` | theorems about `PipelineOrder` | |
| `EngineProofs` | theorems about `EngineStore` and `BlobTable` | |
| `PipelineProofs`, `SchedulerProofs`, `HotReloadProofs`, `NativeSystemsProofs`, `ProjectBuildProofs` | theorems about the module each extends | |
| `MC*` | instances for TLC | |

`Scheduler` uses `RegistrationOrder` and `Cyclic` of `PipelineOrder` in place of
a build; `PipelineBuild` shows that the build computes exactly them
(`MatchesRegistrationOrder`).  `HotReload` contains the loop that `Scheduler`
calls the host `run_project`, with the file system and the reload in place of
arbitrary registrations.

The passes from sources to a loaded module have no state of their own; the
variables of a build are in `ProjectBuild`.  They are of two kinds.  Those
over tables, `Declarations`, `ModuleTables` and `Loader`, are written with
functions over numbers and `Fold` of `Traversal`, so that they can be proved about, and
`ProjectBuild` has them as they are.  Those over trees, `Parser`, `SourceFile`,
`Semantics`, `Codegen` and `Decompiler`, are recursive operators; to
`ProjectBuild` they are the parameters `Parse`, `CollectDeclarations`,
`LinkBodies` and `Decompile`.  `Toolchain` extends both, and its instance gives
the parameters their operators.  `ManagedHost` composes `Toolchain`,
`Interpreter` and `BlobTable`: what runs is what the parser, the generator and
the loader made of the sources.

Operators marked "Faulty" are plausible mistakes in the operator below them.
Nothing uses them; `PROJECT.json` pairs each with the property that detects it.

### How state and actions correspond to the code

*EngineStore.*  `entities` and `components` are the used parts of the arrays,
`entityCap` and `componentCap` their capacities.  A store has the single
capacity the code keeps (`cap`) and the real lengths of its two blocks
(`entBuf`, `dataBuf`): `ecsvm_reserve_component_rows` reallocates one after the
other.  Component ids are indices counted from 1, as in the code.  A caller may
pass any id, so `ComponentSet` ranges over ids that do not exist.
`WriteThrough` is the caller's write through the pointer
`ecsvm_component_get_mutable` returned, before any other call.

*PipelineBuild.*  The matrix is a set of pairs.  Entering one system's lists is
one step; selecting one system and removing its edges is one step.

*Scheduler.*  `pipeline` holds indices into `systems`, as in the code, so a
stale one shows.  `phase` and `host` are the control points of
`ecsvm_engine_tick`, `ecsvm_engine_run` and the loop of `ecsvm_run_project`.
Systems do not register or unregister systems from inside a tick: none in the
repository does.

*HotReload.*  `pc` names the control point; each step of the program does what
runs between two points at which the editor may matter.  The build looks for
the file that the manifest names as entry (`Open`), lists the files (`List`),
reads each (`Read`) and then succeeds or fails (`Build`); the
poll reads the times one by one (`Walk`) before it compares (`Compare`).  Every
one of these may fail: an allocation or a call of the file system, `MaxFaults`
of them in a run.  What `stat` or `opendir` fails for is passed over in silence,
so a listing may miss files and a walk may miss one (of a walk each file missed
counts as a failure of its own); a poll that fails as a whole keeps the old
snapshot.  The history variable `cut` tells whether a failure ended the last
start or reload or hid a file from it.  A file's
content says whether it parses, which components it declares and how they are
laid out, and which systems it has.  A module is what a build makes of what it
read, numbered by a generation; the function table, the interpreter's module
and the userdata of managed systems remember the generation they point into, so
a mixture or a dangling pointer shows as a wrong generation.  The project is
run with the core library, which declares `core.Time`.

*NativeSystems.*  `time` and `window` are the userdata of the two systems;
registering a system clears it, and a reload that gets as far as the system
table registers all native systems anew, also when it is rolled back.  Reloads
come between two ticks and are taken over, rolled back or refused early;
`HotReload` says when.  `PipelineOrder` gives the order in which a tick calls
the systems.  A managed system is any that spawns entities, adds rows of
`core.ui.Window`, sets or clears `closing` in any of them and may ask for a
stop.  A quit event or the escape key is `requested`, in any tick.  `heard` and
`made` are history variables.  A core library without the Window component is
allowed for, since the window system is written for that case too.

*ProjectBuild, Toolchain.*  A source is a sequence of tokens and a name is the sequence of its
tokens, dots included, since the code compares suffixes of dotted names.  A
tree is a value: a node has a kind, the range of its tokens and its children.
Operators are read back from the tokens between the ranges of the operands, as
the generator does.  References in tables count from 1 and 0 is none, as in
the file.  The file is counted in records, the header being one and every
nonempty blob being one; a full disk leaves a prefix of it, and since nobody looks
at the result of closing the file, the build may go on all the same.  `job` says what is
being built: the core library, then a project with it, then what the decompiler
made of that project.  `phase` is the pass that comes next.  The four failures
of a build are those of the code: a file that does not parse, a pass that finds
an error, a module that cannot be written, a `types.h` that cannot be.

*ManagedHost.*  A call of the engine is one step, since the program is a single
thread; inside it the interpreter passes a machine `m` from one expression to
the next: entities, stores, the frame, what was printed, the stop flag.  A
reference is a place in a row together with the generation of the block that
the store had when the reference was made; `ecsvm_reserve_component_rows` starts
a new generation when the block moves, which `moves` decides, and a use of a
reference of another generation ends the call as `FREED`.  Stores start with
four rows and double.  `draws` is what `rand` gives.  Numbers are exact; inputs
keep them within what a double and the fields hold.  Blobs belong to the host:
managed code can only copy handles, as numbers, so the two interleave without
touching each other's state.

Behaviour that is easy to get wrong when reading the code, and that the models
keep:

* parameters may have default values, but no call fills one in: a call with too
  few arguments is an error;
* an object literal first clears its target, then assigns field by field, so
  its own right-hand sides read zeros and an error leaves it half written;
* both sides of `&&` and `||` are evaluated;
* an assignment through a reference has the value null, one to a local its value;
* a string literal cannot be stored in a field;
* a local constant may be replaced by a declaration or loop variable of its name;
* an imported core function keeps its declaration and loses its body;
* a component without fields, or a `core.Hierarchy` of another size, stops the
  registration of components; a system with a parameter stops a run;
* constants are found by the suffix of their name, also behind another namespace;
* the decompiler loses the type of a generic call and every namespace in a body;
* `a.b_c` and `a_b.c` have the same C identifier in `types.h`.

## Runs

| run | shows | bounds |
|---|---|---|
| `store_map` | each call of the store API has its whole effect or none, as `EntityMap` says; component ids and row positions never change; names are unique | 3 names, 2 values, ids 0..2: an entity can be created, overwritten and the counter wraps |
| `store_growth` | ids are unique, rows belong to entities that exist, every entity has its `core.Hierarchy` row, capacities stay within the blocks | ids 0..5: five entities grow each array from 4 to 8, the sixth wraps |
| `pipeline_build` | the order is right, a refusal means a cycle, ties go to the earlier registered, the build returns | all registries of up to 3 systems with up to 2 attributes each over 4 names, one of them unknown |
| `scheduler` | registry, cache and loops implement `Ticks`; a stop ends the loop | 3 system names, 4 definitions, one pair of them cyclic |
| `hot_reload` | whatever the editor does, one module runs at a time, rows fit, a bad build is survived; once the editor is done the program has read the files as they are, and runs what they say if that can be run | 2 files, 5 contents, 3 saves at any step, 1 failing call |
| `native_systems` | no window closes before every managed system was called since it saw the request; a request is decided; the window's entity is made once and found again after a reload; the window exists whenever the renderer is called; ticks do not multiply time entities | 4 modules, 3 entities, 1 reload |
| `toolchain` | a module that was built loads, says what its sources said, registers every component in order and is refused when it lost its end; operators bind by level; the order of files does not matter; `types.h` has the loader's layouts; a decompiled module builds to the same one; the passes over trees return what the theorems take them to return (`TreePassesDeliver`) | one project of 1 to 3 files out of about 500, among them projects that declare names of the core library again; a full disk at every record of 14 of them |
| `managed_host` | a return ends its function and only its own; for-in visits every owner once while its body adds rows; a program that keeps no reference never uses a freed row; expressions mean what their text says; blobs implement `BlobMap` | about 420 programs, 4 entities of the host and 6 in all, 2 systems called, 3 blobs |
| `reload_startup_edit`, `reload_abandoned_layout`, `reload_nested_layout`, `reload_circular` | the four findings below | 1 or 2 saves |

Three names distinguish "another component" from "the built-in one" and from
"a third that moves"; two values distinguish "overwritten" from "kept".  Growth
depends on a store's own count only, hence the second instance with one value.
Three systems are enough for a cycle that does not contain every system, for
ties and for duplicated pairs.  One reload is enough in
`native_systems`: each clears the native systems completely, and the one row
or two it finds are what the next would find.  Three saves are enough for a
save during a build, a second during the reload it causes, and a third to put
things right.  The five contents are a component with a system; its
incompatible edit beside a second component and a pair of systems that cannot be
ordered; the second component wider, with a system that cannot be registered; no
component but a system that draws, so that native systems come and go; and an
error.  The first and the fourth are what the program starts with: from the
fourth each of the others that has no error is compatible, and the wider
component may be left behind by a failed reload and then be taken over narrower.

The projects of `toolchain` are all pairs of 19 files that use each other's
names in every way the resolver knows (written short, by alias, by a parent's
namespace, hidden by a nearer one, recursive, imported, missing), three files
of which two have a name the third uses, and one function with every pair of
nine operators in three shapes, or one of 14 bodies that have every statement.
Two binary operators and a unary one are what it takes to see a level or an
associativity go wrong; three files, to see an order matter.

The programs of `managed_host` are every pair of 11 statements that may leave a
function, or call one that returns, between statements that print, loops whose body adds rows to
entities before, at and behind the current one, references kept and not kept
across a row that moves the block, and every pair of nine operators in three
shapes.  The host makes up to four entities, so a store is full when the
system runs and its next row moves the block; two calls show what a system
leaves to the next.  Three blobs are enough for two free slots of which the
first is to be taken while a third is alive.  Blob operations are explored beside
one program only, because no other state depends on them.

`CHECK_DEADLOCK FALSE` is set where the system may stop: the stores (ids run
out and no call is obliged to come), the builds (they return, or end at an
error), the project run and the managed host (they end).  The scheduler never stops
being callable, so there deadlock is checked.

### Fairness

`ProjectBuild`, `Toolchain` and `ManagedHost` state safety only: every pass and every call of
the interpreter is one step, so there is nothing in them that could wait.

`PipelineBuild` and the loops of `Scheduler` are sequential code in which no
step waits, hence weak fairness of the step as a whole.  In `HotReload` the
program is weakly fair for the same reason; the editor is not, and saves at
most `MaxEdits` times.  Nothing obliges a caller to start a loop.
`NativeSystems` is weakly fair in its loop, not in `Reload`; `MaxReloads` says
that edits pause, without which `CloseIsDecided` would be false: a reload in
every tick discards `close_pending` every time.  `CloseIsDecided` is about the
only Window row there is: when a managed system gives an earlier entity a row,
the window system adopts that one after a reload and the request in its own
former row is not looked at again.

`LastSaveIsBuilt` assumes that the watcher has taken its first snapshot
(`StartupEdits = FALSE`) and that two saves of a file have different modification
times.  After a syntax error the build reads no further file, so it is about the
files up to the first that does not parse; and when all the files together are
acceptable (they build, the running module may be replaced by theirs, no system
has a parameter), it says that the running module has their layouts, systems and
native systems.  Three kinds of runs it leaves out, since in them the code does
not build the last save:

* the entry file is gone: `project.c:811-816` ends the build before any file is
  read, whatever else was saved;
* the last build listed a file that is gone: a file created and removed between
  two snapshots may be built and stay in the running module, or stop the build,
  and no later snapshot differs;
* a failing call ended the last reload, or hid a file from its listing
  (`cut`): `fswatch.c:417-422` has taken the new snapshot by then, so the reload
  is not tried again before the next save.

A failure anywhere else is made up for: a poll that fails finds the same
difference the next time, and a file that one walk misses is a difference to two
of them.

## Findings

1. *A save at start-up is never built* (`reload_startup_edit`).  `main.c:495`
   builds, and only `managed_runtime.c:2695` takes the first snapshot.  A file
   saved in between is in the snapshot with its new time, so no poll reports it
   until it is saved again.
2. *A failed reload fixes the layout of a component it never used*
   (`reload_abandoned_layout`).  `ecsvm_register_new_components` (2482) comes
   before the steps that may still fail, and nothing takes the new stores back.
   When a later build gives the component another size, it is not in the
   previous module, so the compatibility check passes, and its name is
   registered, so it is skipped: the module reads rows of the old width.
3. *A nested struct may change under existing rows* (`reload_nested_layout`).
   The compatibility check (2006-2085) compares the types of fields by
   qualified name, so a struct of the same size with other fields passes.
4. *A cycle of Before and After ends the run* (`reload_circular`).  A reload
   does not try to order the new systems; the next tick cannot, and the loop
   ends.

## Proofs

All are checked by TLAPS for every value of the constants that satisfies the
modules' assumptions.  In each module of actions the invariant is `IInv`, a
conjunction with one part for each piece of the state; one lemma for each
action shows that the action keeps it, one lemma puts them together, and the
theorems follow.

| module | proves |
|---|---|
| `EngineProofs` | of the stores `TypeOK`, `IdsUnique`, `RowsOfLiveEntities`, `HierarchyTotal`, `BuffersCover`, `NamesUnique`, `RowsKeepTheirPlace`, `ImplementsEntityMap`; of the blobs that the slots are sound, `ImplementsBlobMap` |
| `PipelineOrderProofs` | the reference order of an acyclic registry lists every system once and respects Before and After |
| `PipelineProofs` | `TypeOK`, `OrderRespectsAttributes`, `RejectedOnlyForCycle`, `MatchesRegistrationOrder` |
| `SchedulerProofs` | `TypeOK`, `ImplementsTicks` |
| `HotReloadProofs` | `TypeOK`, `OneModuleRuns`, `StoresFit`, `BadBuildIsSurvived`, and that builds are counted against saves |
| `NativeSystemsProofs` | `TypeOK`, `OneWindowIsMade`, `WindowBeforeRenderer`, `TimeRowsOfRegistrations`, `ClosingIsConfirmed` |
| `ProjectBuildProofs` | `PartialFileIsRefused`, `BuiltModuleLoads`, `ReadsWhatWasMeant`, `HeaderMatchesModule`, `ComponentsAreRegistered`; of its operators that the walk over structs is in order and that tables say what is declared |

*Stores.*  Besides the properties themselves, `IInv` says that ids are issued in
order, the i-th entity being i, and that the counter stays at 0 once it has
wrapped, so the next id is either fresh or the invalid one, for which no row
can be added; and that the hierarchy component, once set, is a registered one
of the right name.  Lemmas about the operators (`ReserveRowsSound`,
`AppendedSound`, `OverwrittenSound`, `SetStoresSound`, `RegisteredSound`) come
first; the proof of `EntityCreate` combines them, case by case on whether the
row could be added.  The map of `EntityMap` is read off the stores by
`RegistryOf` and `TableOf`, which are operators of the stores so that they can be
applied to those a creation has in between.  `SetTable` says that a set changes
one value of the table or none, `RegisteredTable` that a registration appends a
name or none; `CreateMaps` needs the order of the ids once more, for no store
may already have a row of the new entity.

*Order.*  `OrderSteps` is the sequence of prefixes the reference order passes
through.  `Prefix` says what each is: distinct systems, each after all that must
precede it.  A step extends a prefix or finds nobody who may run next
(`ExtendedIsPrefix`); in the second case the systems left wait for one another
(`StuckOnCycle`) and no later step helps (`StuckForGood`).  So without a cycle
the last prefix is full, and a full prefix is an order (`FullPrefixIsOrder`).
The steps are a recursive function, and `StepsArePrefixes` is an induction over
it in the form `InductionSet` gives.

*Pipeline build.*  `IInv` ties the three data structures together: the indegree
of a system is the number of edges into it that are left, the edges left are
those of the graph whose source is not selected, and what precedes a selected
system was selected before it.  The counting lemmas are in `AddedCounts` and
`RemovedCounts`.  For `MatchesRegistrationOrder` a further invariant says that
what was selected so far is the prefix `OrderSteps` has at that length: the
first system of indegree 0 is the lowest that may run next.  Beside the graph
this is what lets `Scheduler` and `NativeSystems` use `RegistrationOrder` in
place of a build.

*Scheduler.*  The cached pipeline is that of the table whenever it is not dirty
(`PipelineInv`), and nothing makes it dirty while a tick is under way
(`TickInv`).  With it each step is a step of `Ticks` or changes nothing `Ticks`
knows: a step that rebuilds the pipeline maps to the start of a tick over
today's systems, which has an order by `RegistrationOrderCorrect`.

*Hot reload.*  The invariant goes over the control points.  `EngineInv`: from
the switch of the function table until systems come back only the watcher is
registered, and everywhere else the engine belongs to one module; the systems of
the running module can be registered again because they were once.  `StoresInv`:
every store is one of the running module or an orphan of a failed reload, and
behind the compatibility check the new module's stores agree with the old's.
`CountInv` is an invariant of its own, relative to `IInv`: a generation is paid
for by a save or by a file that a walk missed, the numbers of modules loaded,
builds due, differences found and differences still to be found never exceeding
the number of saves and one, and two for each failed call (a missed file goes
and comes back).  It gives the bound on generations that `TypeOK` asserts.

*Native systems.*  `QueueInv` says how far the tick is: the queue is the pipeline
without its first `d` calls.  `HeardAt(d)` says that between here and the next
call of the window, in this tick or around the end of it into the next, every
managed system that was not heard since the request is still to be called; at
the call of the window itself there is no such place, hence all were heard,
which is `ClosingIsConfirmed`.  `DrawnAt(d)` says that a renderer still to be
called finds a window, or one that is called before it; the pipeline puts the
window first by `PipelineOrders`.  `TimeInv` counts a registration that has not
yet made its entity as the row it will make, since a reload may come before it.
An entity is made for a window only while there is no row at all
(`EntityOfWindow`), and rows are never removed, so one is.

*Blobs.*  `SlotsInv` bounds the slots and types their data; the slot that
`NextSlot` finds is free (`NextSlotIsFree`), so a handle that is alive keeps its
slot.  A step of the table maps to one of `BlobMap`, in which a blob is its data
and its mark as text; what a destroyed blob leaves in its slot is in no blob.

*Builds.*  The theorems hold for every sequence of files, every core library
and every walk of the full disk, and take from the passes over trees only
`PassesDeliver`: what `CollectDeclarations` returns are declarations with names
of their own, and `LinkBodies` adds blobs and sets the bodies of functions and nothing
else.  The run `toolchain` checks that the real ones do, as part of
`TreePassesDeliver`.  Everything between the
two (the import of the core library, the resolution of types, the layouts) is
proved to keep the declarations what they are (`ImportCoreKeeps`,
`ResolveTypesKeeps`, `ComputeLayoutsKeeps`), including that what
is imported has no name that is there.

* The walk (`DepthFirstOrder`).  A visit keeps what is finished, leaves open
  what was open, and finishes its struct after those it holds; this is an
  induction over how deep a visit may still go (`VisitsSound`), with a loop over
  the parts inside each.  Unless it breaks, the walk over all finishes all.
* The tables (`TablesSayWhatIsDeclared`).  Putting a struct or a function
  appends rows and shares blobs and types that are there.  What a row says is read through its
  references, so each kind of row has a lemma that putting it says the right
  thing (`PutStructSound`) and one that it still says so in tables that grew
  (`SaysStructStill`).  Every reference is one the loader's checks let through.
* The file.  Sections and blobs lie behind each other (`FileLayout`), the last
  record is in one of them, so a file that lost any is refused
  (`CutFileIsRefused`), and a whole one passes every check (`LinkedIsReadable`).
* Reading.  The loader finds the struct of a type where the generator finds it
  by name (`SameStructIsFound`), so both see the same structs in each other and
  the same cycles (`SameStructsAreHeld`); an attribute's blob is taken as a type
  exactly where the generator put one (`SamePayloadsExpected`); the rows, read
  back one by one, mean what the declarations mean (`ModuleMeansWhatIsDeclared`).
* Layouts.  The C compiler goes down `types.h` and the loader down its walk, which
  is the same list; one invariant over both says that what each has laid out so
  far agrees (`CompileNext`, `CompiledAsLoaded`).  `NextMultiple` is what the
  code computes by rounding up.
* Registration.  A row is a component of the loader exactly if its declaration
  is one (`SameComponents`), whichever attribute says so.  What is listed before
  the first component the engine cannot take has the order of the declarations
  (`RegistersInOrder`, a loop over structs, with `ListGrows` for the ranks).
  The sizes it takes are those of `types.h`, by what was said of layouts.
  They need not be the ones the generator has in its own table: when a project
  declares a struct of the core library again with other fields, an imported
  struct that holds it keeps there the size it has in the core module, while the
  loader lays it out anew.  Nothing reads the generator's sizes behind
  `ecsvm_compute_layouts`, so the property speaks of `types.h`, which the loader
  agrees with; the run `toolchain` has such a project.

`BuildInv` goes over the phases.  Until the module is written there is no file;
from resolution on the declarations are declarations; a file on the disk is the
one of the present tables or lost its end; behind a whole file `header`
says whether `types.h` could be written; `loaded` is what the loader makes of
the disk; `registered` is what the engine made of it.  None of the five
properties is inductive without it: each relates what two passes left, and the passes between could have changed either.

Assumptions the theorems rest on, each named in the module that declares the
constants: sets of names, values and files are what their types say; counts and
bounds are natural numbers; texts consist of bytes (`BlobTableAssumption`); a
project does not declare a system under the name of the watcher or of a native
one (`ReservedNames` in `HotReload`, `NamesAssumption` in `NativeSystems`), which
the code does not check: `ecsvm_unregister_project_runtime_systems` removes such
names whoever registered them; and no module has two systems of one name
(`NamesAssumption`), which the generator refuses (`src/ecs_generator.c` 930).

Left to TLC:

* liveness, which is beyond the prover: `BuildReturns`, `StopEndsLoop`,
  `LastSaveIsBuilt`, `CloseIsDecided`;
* what is about trees: `DecompiledModuleRebuilds`, `FileOrderIsImmaterial` and
  `TreePassesDeliver` in `Toolchain`, and `ReturnEndsItsFunction`,
  `EachOwnerIsVisitedOnce`, `NoFreedRowIsUsed` and `ExpressionsMeanTheirText` in
  `ManagedHost`: these are recursive operators, with which the prover loses its
  SMT backend.

An induction over numbers is within reach as long as what is proved is stated as
membership in a set, as `InductionSet` has it; the library's rules, which take a
predicate, are not.  A loop is handled once for all: `LoopInvariant` of `Loops`
is proved for operators that are constants of the module, and each loop of the
passes is an instance of it (`StepLoop`, `VisitLoop`, `NameLoop` and others).

## Not modelled

* The lexer, and the arrays and links in which the code keeps a tree: sources
  are tokens and trees are values, so nothing is said of characters, literals'
  spelling or node indices.
* The bytes of an AST blob, the formats of older AST blobs and version 1 of
  the header, which nothing writes any more.
* The text of the manifest and the tree of directories: a build is given its
  files in order; `HotReload` says when each is listed and read, which of them
  is the entry, and that either may fail.
* The inspector, and the spaces and line ends of decompiled text.
* Drawing, the resolution of transforms and the input monitors: they are
  arithmetic on floats and calls into SDL, apart from the entities they make,
  which `NativeSystems` has.
* Numbers that leave the range of their type: the conversions between double
  and the integer fields, and `randomInt` over spans that overflow an int.
* XML, logging, diagnostics, text buffers, streams, paths and files: formatting
  and file access with growing buffers as their only state.

## The plan

Every safety property of the engine and of the runtime is proved, and every one
of the path from declarations to registered components.  What is left:

1. `PassesDeliver` as a theorem: collection and the linking of bodies would have
   to be written as loops over a list of nodes, as the code keeps them, in place
   of recursion over trees.
2. The places of `Interpreter` and `ManagedHost` without the evaluation: a
   reference is of the present generation of its store wherever no row was added
   since.
