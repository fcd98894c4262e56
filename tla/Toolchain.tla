------------------------------ MODULE Toolchain ------------------------------
(***************************************************************************)
(* The whole toolchain: the life of sources in ProjectBuild with the       *)
(* parser, the walk over declarations, the writer of bodies and the        *)
(* decompiler, and what takes all of them to be right.                     *)
(***************************************************************************)
EXTENDS ProjectBuild, Codegen, Decompiler

(***************************************************************************)
(* Bodies as trees of names.                                               *)
(***************************************************************************)
RECURSIVE Linked(_, _), AllNodes(_)
Linked(module, node) ==
  [kind |-> node.kind, keyword |-> node.keyword,
   value |-> CASE node.valueKind = "type" -> module.types[node.value].qualified
               [] node.valueKind = "function" -> module.functions[node.value].qualified
               [] OTHER -> ValueText(module, node),
   kids |-> [i \in DOMAIN node.kids |-> Linked(module, node.kids[i])]]

AllNodes(node) == {node} \cup UNION {AllNodes(node.kids[i]) : i \in DOMAIN node.kids}

Bodies(module) ==
  {[name |-> module.functions[i].qualified,
    tree |-> Linked(module, module.blobs[module.functions[i].body].body)] :
   i \in {j \in DOMAIN module.functions : module.functions[j].body # 0}}

(***************************************************************************)
(* What the decompiler is known to lose: constants of more than one token, *)
(* the type of a generic call, what a constant of the same name hides, and *)
(* whatever needs a namespace to be told apart.                            *)
(***************************************************************************)
Reversible(module) ==
  LET bodies == {module.blobs[module.functions[i].body].body :
                 i \in {j \in DOMAIN module.functions : module.functions[j].body # 0}}
      Short(items) == \A i, j \in DOMAIN items : items[i].name = items[j].name => i = j
      types == Map(LAMBDA s : module.types[s.type], module.structs)
      Kept(node) ==
        /\ node.kind = "call" => Len(node.kids) = 2
        /\ node.kind = "literal" => Len(ValueText(module, node)) = 1
        /\ node.kind \in {"declaration", "forIn"} => node.kids[1].kind = "identifier"
  IN  /\ Short(types) /\ Short(module.functions)
      /\ \A body \in bodies : \A node \in AllNodes(body) : Kept(node)

\* A decompiled module is a program: it parses and builds without the core
\* library, declares the same things and has the same bodies (bin_decompile.c
\* against the parser and the generator).
DecompiledModuleRebuilds ==
  job = "rebuild" /\ Reversible(original) =>
    /\ phase # "failed"
    /\ phase = "loaded" => /\ ModuleMeaning(loaded.module) = ModuleMeaning(original)
                           /\ Bodies(loaded.module) = Bodies(original)

\* 1 binds least, as in Width.
LevelOf(text) ==
  CASE text = <<"|", "|">> -> 1
    [] text = <<"&", "&">> -> 2
    [] text \in {<<"=", "=">>, <<"!", "=">>} -> 3
    [] text \in {<<"<">>, <<">">>, <<"<", "=">>, <<">", "=">>} -> 4
    [] text \in {<<"+">>, <<"-">>} -> 5
    [] text \in {<<"*">>, <<"/">>, <<"%">>} -> 6

\* In the bodies of a module every operator has the operands its level gives
\* it: the ones to its left may bind as much, those to its right bind more, a
\* unary operator holds no binary one, an assignment only one to its right.
\* Operators are read back from between the operands' tokens
\* (ecs_parser.c 826-1219, ecs_generator.c 1676-1716).
OperatorsBindByLevel ==
  LET Operator(node) == BlobText(out.out.blobs, node.value)
      Binding(node) == IF node.kind = "binary" THEN LevelOf(Operator(node)) ELSE 7
      Binds(node) ==
        CASE node.kind = "binary" ->
               /\ Binding(node.kids[1]) >= Binding(node) /\ Binding(node.kids[2]) > Binding(node)
               /\ \A k \in {1, 2} : node.kids[k].kind # "assignment"
          [] node.kind = "unary" -> node.kids[1].kind \notin {"binary", "assignment"}
          [] node.kind = "assignment" ->
               Operator(node) = <<"=">> /\ node.kids[1].kind # "assignment"
          [] OTHER -> TRUE
      bodies == {blob \in Range(out.out.blobs) : "body" \in DOMAIN blob}
  IN  phase = "write" => \A blob \in bodies : \A node \in AllNodes(blob.body) : Binds(node)

\* What the passes over trees leave for the passes over tables: declarations
\* under names of their own, tables with nothing new but bodies, and bodies in
\* which operators bind as they should.  The first two are all that the theorems
\* about builds take from the passes over trees.
TreePassesDeliver == PassesDeliver /\ OperatorsBindByLevel

(***************************************************************************)
(* The order of the files' paths.                                          *)
(***************************************************************************)
AliasesDiffer(semantics) ==
  LET structs == semantics.structs
      AliasTexts(s) == {Text(s.attributes[k].data) :
                   k \in {j \in DOMAIN s.attributes :
                            s.attributes[j].name \in {<<"Alias">>, Core("Alias")}}}
  IN  \A i, j \in DOMAIN structs : i # j =>
        /\ AliasTexts(structs[i]) \cap AliasTexts(structs[j]) = {}
        /\ structs[i].name = <<"Alias">> => structs[j].name # <<"Alias">>

\* Renaming a file changes only the order in which files are read
\* (project.c 815): as long as no alias is given twice, the declarations mean
\* the same, and a build fails in one order only if it fails in the other.
FileOrderIsImmaterial ==
  LET decided == phase = "tables" \/ (phase = "failed" /\ ~sem.ok)
  IN  job = "project" /\ decided =>
        \A other \in {ImportCore(CollectFiles(Reverse(files), Reverse(trees)), core)} :
          AliasesDiffer(other) =>
            \A turned \in {ComputeLayouts(ResolveTypes(other))} :
              /\ turned.ok <=> sem.ok
              /\ sem.ok => Meaning(turned) = Meaning(sem)

=============================================================================
