---------------------------- MODULE ProjectBuild ----------------------------
(***************************************************************************)
(* The life of sources (project.c, ecsvm_project_build, and the commands   *)
(* on its result): the files are parsed, their declarations collected, the *)
(* core library imported, names resolved, structs laid out, the module and *)
(* then types.h written; the module is loaded and registered with the      *)
(* engine or decompiled.  The core library is built first, then a project  *)
(* with it, then what a decompiled module says, without it.                *)
(*                                                                         *)
(* The passes that walk trees are parameters: what the parser, the walk    *)
(* over declarations, the writer of bodies and the decompiler return.      *)
(* Toolchain has them all; whatever else they return, a build goes on or   *)
(* ends as it does here.                                                   *)
(***************************************************************************)
EXTENDS Loader

CONSTANTS
  Projects,      \* sequences of files, each a sequence of tokens
  FullDisk,      \* those whose module may not fit on the disk
  CoreSources,   \* the files of the core library
  HierarchySize, \* sizeof the engine's own hierarchy component
  Parse(_),      \* ecsvm_parse_file of one file
  CollectDeclarations(_, _),  \* ecsvm_collect_semantics of files and their trees
  LinkBodies(_, _),           \* the tables with the bodies of the declarations
  Decompile(_)                \* ecsvm_ecsbin_decompile_module

VARIABLES
  job,        \* "core", "project" or "rebuild"
  core,       \* the constants and the module of the core library; none at first
  files,      \* the .ecs files that are built, by path
  phase,      \* what is to be done next
  trees,      \* the parsed files
  sem,        \* the declarations
  out,        \* the tables of the module, and whether the bodies were linked
  disk,       \* out/<name>.ecsbin
  header,     \* out/types.h
  loaded,     \* what reading the module file gave
  registered, \* the components the engine took from it
  original    \* the module that was decompiled into the files

vars == <<job, core, files, phase, trees, sem, out, disk, header, loaded, registered, original>>

NoFile == [size |-> 0]
NoTypes == [ok |-> FALSE, lines |-> <<>>]
NoComponents == [ok |-> FALSE, names |-> <<>>]
NoModule == <<>>

\* A build starts from its sources; the module of an earlier one is not looked at.
Start(sources) ==
  /\ files' = sources
  /\ phase' = "read"
  /\ trees' = <<>> /\ sem' = NoSemantics /\ out' = [ok |-> FALSE, out |-> NoTables]
  /\ disk' = NoFile /\ header' = NoTypes /\ loaded' = Refused /\ registered' = NoComponents

Init ==
  /\ job = "core" /\ core = NoModule /\ original = NoModule
  /\ files = CoreSources
  /\ phase = "read"
  /\ trees = <<>> /\ sem = NoSemantics /\ out = [ok |-> FALSE, out |-> NoTables]
  /\ disk = NoFile /\ header = NoTypes /\ loaded = Refused /\ registered = NoComponents

StartProject ==
  /\ job = "core" /\ phase = "loaded"
  /\ job' = "project"
  /\ core' = [constants |-> sem.constants, module |-> loaded.module]
  /\ \E project \in Projects : Start(project)
  /\ UNCHANGED original

(***************************************************************************)
(* The build, one action for each function that can end it.                *)
(***************************************************************************)
ReadSources ==
  /\ phase = "read"
  /\ \E parsed \in {Map(Parse, files)} :
       LET ok == \A i \in DOMAIN parsed : parsed[i].ok
       IN  /\ phase' = IF ok THEN "collect" ELSE "failed"
           /\ trees' = IF ok THEN Map(LAMBDA r : r.node, parsed) ELSE <<>>
  /\ UNCHANGED <<job, core, original, files, sem, out, disk, header, loaded, registered>>

\* One pass over the declarations: the build goes on or ends.
Pass(from, to, result) ==
  /\ phase = from
  /\ sem' = result
  /\ phase' = IF sem'.ok THEN to ELSE "failed"
  /\ UNCHANGED <<job, core, original, files, trees, out, disk, header, loaded, registered>>

CollectSemantics == Pass("collect", "import", CollectDeclarations(files, trees))
ImportCoreLibrary == Pass("import", "resolve", IF job = "project" THEN ImportCore(sem, core) ELSE sem)
ResolveSemanticTypes == Pass("resolve", "layout", ResolveTypes(sem))
LayOutStructs == Pass("layout", "tables", ComputeLayouts(sem))

BuildModule ==
  /\ phase = "tables"
  /\ out' = LinkBodies(sem, DeclaredTables(sem))
  /\ phase' = IF out'.ok THEN "write" ELSE "failed"
  /\ UNCHANGED <<job, core, original, files, trees, sem, disk, header, loaded, registered>>

\* The file of an earlier build is overwritten in place.
WriteModule ==
  /\ phase = "write"
  /\ disk' = FileOf(out.out)
  /\ phase' = "header"
  /\ UNCHANGED <<job, core, original, files, trees, sem, out, header, loaded, registered>>

\* What does not fit is noticed by a write, or lost when the file is closed,
\* which nobody looks at: the build then goes on.
WriteModuleFails ==
  /\ phase = "write" /\ files \in FullDisk
  /\ \E size \in 0..(FileOf(out.out).size - 1) : disk' = CutFile(FileOf(out.out), size)
  /\ phase' \in {"failed", "header"}
  /\ UNCHANGED <<job, core, original, files, trees, sem, out, header, loaded, registered>>

\* The module stays where it is when types.h cannot be written.
WriteHeader ==
  /\ phase = "header"
  /\ header' = WriteTypes(sem.structs)
  /\ phase' = IF header'.ok THEN "built" ELSE "failed"
  /\ UNCHANGED <<job, core, original, files, trees, sem, out, disk, loaded, registered>>

(***************************************************************************)
(* What is done with a module file, whoever left it.                       *)
(***************************************************************************)
LoadModule ==
  /\ phase \in {"built", "failed"}
  /\ disk # NoFile
  /\ loaded' = LoadFile(disk)
  /\ phase' = IF loaded'.ok THEN "loaded" ELSE "refused"
  /\ UNCHANGED <<job, core, original, files, trees, sem, out, disk, header, registered>>

RegisterModule ==
  /\ phase = "loaded"
  /\ registered' = RegisterComponents(loaded.module, HierarchySize)
  /\ phase' = "registered"
  /\ UNCHANGED <<job, core, original, files, trees, sem, out, disk, header, loaded>>

DecompileModule ==
  /\ job = "project" /\ phase = "loaded" /\ CanDecompile(loaded.module)
  /\ job' = "rebuild"
  /\ original' = loaded.module
  /\ Start(<<Decompile(loaded.module)>>)
  /\ UNCHANGED core

Next ==
  \/ StartProject \/ ReadSources \/ CollectSemantics \/ ImportCoreLibrary \/ ResolveSemanticTypes
  \/ LayOutStructs \/ BuildModule \/ WriteModule \/ WriteModuleFails \/ WriteHeader
  \/ LoadModule \/ RegisterModule \/ DecompileModule

Spec == Init /\ [][Next]_vars

(***************************************************************************)
(* What the parameters have to return.                                     *)
(***************************************************************************)
\* The tokens of a name, a type or a value; none begins with a dot.
NameText == {text \in Seq(STRING) : text = <<>> \/ text[1] # "."}

AttributeText1 == [name : NameText, data : NameText]
StructText1 ==
  [namespace : NameText, name : NameText, qualified : NameText, isComponent : BOOLEAN,
   attributes : Seq(AttributeText1), fields : Seq([name : NameText, type : NameText]),
   layout : {"none", "done"}, size : Nat, alignment : Nat]

IsFunctionText(function) ==
  /\ function = [namespace |-> function.namespace, name |-> function.name,
                 qualified |-> function.qualified, returns |-> function.returns,
                 parameters |-> function.parameters, attributes |-> function.attributes,
                 source |-> function.source, body |-> function.body]
  /\ function.namespace \in NameText /\ function.name \in NameText
  /\ function.qualified \in NameText
  /\ function.qualified = Join(function.namespace, function.name)
  /\ function.returns \in NameText
  /\ function.parameters \in Seq([name : NameText, type : NameText, default : NameText])
  /\ function.attributes \in Seq(AttributeText1)

IsSequence(s) == s \in Seq(Range(s))

\* Declarations under names of their own.
Declares(semantics) ==
  /\ semantics = [ok |-> semantics.ok, structs |-> semantics.structs,
                  functions |-> semantics.functions, constants |-> semantics.constants]
  /\ semantics.structs \in Seq(StructText1)
  /\ IsSequence(semantics.functions)
  /\ \A i \in DOMAIN semantics.functions : IsFunctionText(semantics.functions[i])
  /\ \A table \in {semantics.structs, semantics.functions} : \A i, j \in DOMAIN table :
       table[i].qualified = table[j].qualified => i = j

\* The tables with more blobs and the bodies of functions in them.
AddsBodies(tables, linked) ==
  /\ IsSequence(linked.blobs) /\ IsPrefix(tables.blobs, linked.blobs)
  /\ \A i \in DOMAIN linked.functions : linked.functions[i].body \in 0 .. Len(linked.blobs)
  /\ linked = [tables EXCEPT
                 !.blobs = linked.blobs,
                 !.functions = [i \in DOMAIN @ |->
                                  [@[i] EXCEPT !.body = linked.functions[i].body]]]

\* Collecting gives every declaration a name of its own, and linking bodies
\* leaves all that is in the tables as it is: what the theorems about builds
\* take the parameters to do (ecs_generator.c 727-1066 and 1489-2281).
PassesDeliver ==
  /\ phase = "import" => Declares(sem)
  /\ phase = "write" => AddsBodies(DeclaredTables(sem), out.out)

(***************************************************************************)
(* What sources and modules say, in the same terms.                        *)
(***************************************************************************)
Attribution(attributes) == {<<attributes[k].name, attributes[k].data>> : k \in DOMAIN attributes}

StructMeaning(struct) ==
  [name |-> struct.qualified, fields |-> struct.fields,
   attributes |-> Attribution(struct.attributes)]
FunctionMeaning(function) ==
  [name |-> function.qualified, returns |-> function.returns,
   parameters |-> function.parameters, attributes |-> Attribution(function.attributes)]

Meaning(semantics) ==
  [structs |-> {StructMeaning(semantics.structs[i]) : i \in DOMAIN semantics.structs},
   functions |-> {FunctionMeaning(semantics.functions[i]) : i \in DOMAIN semantics.functions}]

\* A module says what a build with nothing else would import from it.
ModuleMeaning(module) == Meaning(ImportCore(NoSemantics, [constants |-> <<>>, module |-> module]))

\* Whatever is declared with the keyword or carries the attribute.
IsComponentText(struct) ==
  \/ struct.isComponent
  \/ \E k \in DOMAIN struct.attributes : struct.attributes[k].name = Core("Component")

(***************************************************************************)
(* Properties.                                                             *)
(***************************************************************************)
\* Every module file that was written to its end is accepted by the loader if
\* the build reports success, and refused if types.h could not be written: the
\* generator and bin.c find the same structs recursive, though the generator
\* takes the sizes of imported structs from the core module (project.c, 748-944).
BuiltModuleLoads ==
  phase \in {"loaded", "refused"} /\ disk = FileOf(out.out) => (loaded.ok <=> header.ok)

\* The loader reads back the structs, fields, attributes with their payloads,
\* parameters, defaults and return types that the declarations mean, wherever
\* tables share blobs and types (ecs_generator.c 2312-2562, bin.c 657-1375).
ReadsWhatWasMeant ==
  phase = "loaded" /\ CanDecompile(loaded.module) => ModuleMeaning(loaded.module) = Meaning(sem)

\* A module that lost its end on a full disk is never accepted, wherever it was
\* cut and whether or not the build that wrote it reported success: the ranges
\* of sections and blobs are checked against what there is (ecs_generator.c
\* 2564-2743 writes in place, bin.c 822-915 reads).
PartialFileIsRefused == phase = "loaded" => disk = FileOf(out.out)

\* A C compiler puts a field at the next multiple of its alignment.
NextMultiple(value, alignment) ==
  CHOOSE m \in value .. (value + alignment) :
    m % alignment = 0 /\ \A k \in value .. (m - 1) : k % alignment # 0

\* The size and alignment it gives each type in the order of the declarations.
CompiledLayout(known, type) ==
  IF BuiltinSize(type) # 0 THEN BuiltinLayout(type) ELSE known[type]

AddMember(at, layout) ==
  [size |-> NextMultiple(at.size, layout.alignment) + layout.size,
   alignment |-> IF at.alignment < layout.alignment THEN layout.alignment ELSE at.alignment]

Compiled(known, types) ==
  LET members == Fold(LAMBDA at, type : AddMember(at, CompiledLayout(known, type)),
                      NothingYet, types)
  IN  [members EXCEPT !.size = NextMultiple(@, members.alignment)]

CompiledLayouts(lines) ==
  LET Declare(known, line) ==
        [type \in DOMAIN known \cup {line.type} |->
           IF type = line.type THEN Compiled(known, line.fields) ELSE known[type]]
  IN  Fold(Declare, <<>>, lines)

\* types.h declares every struct after the ones it holds, and a C compiler
\* gives each the size that the loader will register it with; an empty struct
\* of a type that is built in is another name for that type
\* (ecs_generator.c 2784-2946, bin.c 214-299).
HeaderMatchesModule ==
  LET compiled == CompiledLayouts(header.lines)
      Nested(i) == {k \in DOMAIN header.lines[i].fields :
                      BuiltinSize(header.lines[i].fields[k]) = 0}
  IN  phase = "loaded" /\ header.ok =>
        /\ \A i \in DOMAIN header.lines : \A k \in Nested(i) :
             \E j \in 1..(i - 1) : header.lines[j].type = header.lines[i].fields[k]
        /\ \A i \in DOMAIN loaded.module.structs :
             LET struct == loaded.module.structs[i]
                 name == loaded.module.types[struct.type].qualified
             IN  struct.fieldCount # 0 \/ BuiltinSize(name) = 0 =>
                   compiled[name] = [size |-> struct.size, alignment |-> struct.alignment]

\* The names of the structs at these places, in the order of the places.
ListsInOrder(names, structs, places) ==
  /\ Len(names) = Cardinality(places)
  /\ \A i \in places :
       names[Cardinality({j \in places : j <= i})] = structs[i].qualified

\* The engine registers every struct that is a component, however its attribute
\* was written, in the order of the declarations, which is that of the module;
\* it stops only at one to which a C compiler gives no size, or at a
\* core.Hierarchy that is not as large as the engine's (bin.c 573-621).
ComponentsAreRegistered ==
  LET compiled == CompiledLayouts(header.lines)
      components == {i \in DOMAIN sem.structs : IsComponentText(sem.structs[i])}
      Fits(name) == /\ compiled[name].size # 0
                    /\ name = Core("Hierarchy") => compiled[name].size = HierarchySize
      unfit == {i \in components : ~Fits(sem.structs[i].qualified)}
  IN  phase = "registered" =>
        /\ registered.ok <=> unfit = {}
        /\ ListsInOrder(registered.names, sem.structs,
                        {i \in components : \A j \in unfit : i < j})
=============================================================================
