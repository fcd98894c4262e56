----------------------------- MODULE ManagedHost -----------------------------
(***************************************************************************)
(* A host with one engine: it builds a program with the toolchain, loads   *)
(* and registers it, creates entities, makes and destroys blobs, and lets  *)
(* the systems of the program run (managed_runtime.c, the system           *)
(* callback), in any order.  A run ends where the engine's loop would: at  *)
(* an error.                                                               *)
(***************************************************************************)
EXTENDS Toolchain, Interpreter, BlobTable

CONSTANTS
  Hosts,     \* the files of a program, the expression it prints if that is all it
             \* does, how many entities a host makes for it, whether it uses blobs
  Draws,     \* what rand may give
  MaxRuns    \* bound: systems called

VARIABLES
  host,      \* one of Hosts, from the start of its build on
  entities,  \* engine->entity_count
  stores,    \* rows by the type of their component
  printed,   \* the output of the last system called
  stopping,  \* engine->stop_requested: this tick is the last one
  outcome,   \* how it ended; "NONE" before any was called
  owners,    \* history: by component, who had a row of it before that call
  runs       \* systems called so far

toolVars == <<job, core, files, phase, trees, sem, out, disk, header, loaded, registered, original>>
engineVars == <<entities, stores, printed, stopping, outcome, owners, runs>>
hostVars == <<toolVars, host, engineVars, blobVars>>

module == loaded.module

IsSystem(id) ==
  /\ module.functions[id].body # 0
  /\ HasAttribute(module, module.functions[id], Core("System"))

\* A module with a system that has parameters is not run.
IsReady ==
  /\ phase = "registered" /\ registered.ok
  /\ \A id \in DOMAIN module.functions :
       IsSystem(id) => module.functions[id].parameterCount = 0

HostInit ==
  /\ Init
  /\ host = [expression |-> <<>>]
  /\ entities = 0 /\ stores = <<>>
  /\ printed = <<>> /\ stopping = FALSE /\ outcome = "NONE" /\ owners = <<>> /\ runs = 0
  /\ BlobInit

StartHost ==
  /\ StartProject
  /\ \E h \in Hosts : h.files = files' /\ host' = h
  /\ UNCHANGED <<engineVars, blobVars>>

Build ==
  /\ \/ ReadSources \/ CollectSemantics \/ ImportCoreLibrary \/ ResolveSemanticTypes
     \/ LayOutStructs \/ BuildModule \/ WriteModule \/ WriteHeader \/ LoadModule
  /\ UNCHANGED <<host, engineVars, blobVars>>

ComponentTypes(program) ==
  {program.structs[i].type :
     i \in {j \in DOMAIN program.structs : IsComponent(program, program.structs[j])}}

\* Every component of a module is registered before its systems run.
RegisterProgram ==
  /\ job = "project" /\ RegisterModule
  /\ stores' = [type \in ComponentTypes(module) |-> EmptyStore]
  /\ UNCHANGED <<host, entities, printed, stopping, outcome, owners, runs, blobVars>>

Machine(draws, moves) ==
  [module |-> module, entities |-> entities, stores |-> stores, printed |-> <<>>,
   stop |-> stopping, draws |-> draws, moves |-> moves, frame |-> NewFrame(0, <<>>)]

\* An entity, with or without a row of zeros; the host makes no others.
MakeEntity ==
  /\ IsReady /\ runs = 0
  /\ entities < host.entities
  /\ entities' = entities + 1
  /\ \/ UNCHANGED stores
     \/ \E type \in DOMAIN stores, moves \in BOOLEAN :
          LET m == [Machine(<<>>, moves) EXCEPT !.entities = entities']
          IN  stores' = AddRow(m, type, entities').stores
  /\ UNCHANGED <<toolVars, host, printed, stopping, outcome, owners, runs, blobVars>>

\* The host's blobs, between the systems of a program; managed code would only
\* move their handles from row to row as numbers.
UseBlobs ==
  /\ IsReady /\ host.blobs
  /\ BlobNext
  /\ UNCHANGED <<toolVars, host, engineVars>>

\* One of the systems; the next one runs unless this one failed.
CallSystem ==
  /\ IsReady /\ runs < MaxRuns /\ outcome \in {"NONE", "OK"}
  /\ runs' = runs + 1
  /\ owners' = [type \in DOMAIN stores |->
                  {stores[type].rows[i].entity : i \in DOMAIN stores[type].rows}]
  /\ \E id \in DOMAIN module.functions, draws \in Draws, moves \in BOOLEAN :
       /\ IsSystem(id)
       /\ \E r \in {Invoke(Machine(draws, moves), id, 0, <<>>)} :
            /\ entities' = r.m.entities /\ stores' = r.m.stores
            /\ printed' = r.m.printed /\ stopping' = r.m.stop /\ outcome' = r.status
  /\ UNCHANGED <<toolVars, host, blobVars>>

HostNext ==
  StartHost \/ Build \/ RegisterProgram \/ MakeEntity \/ UseBlobs \/ CallSystem

HostSpec == HostInit /\ [][HostNext]_hostVars

(***************************************************************************)
(* The code of a program.                                                  *)
(***************************************************************************)
RECURSIVE NodesOf(_), AlwaysReturns(_), LiveNodes(_), CertainNodes(_)
NodesOf(node) == {node} \cup UNION {NodesOf(node.kids[i]) : i \in DOMAIN node.kids}

AlwaysReturns(node) ==
  CASE node.kind = "return" -> TRUE
    [] node.kind \in {"block", "root"} -> \E i \in DOMAIN node.kids : AlwaysReturns(node.kids[i])
    [] node.kind = "if" -> /\ Len(node.kids) = 3
                           /\ AlwaysReturns(node.kids[2]) /\ AlwaysReturns(node.kids[3].kids[1])
    [] OTHER -> FALSE

\* All but what comes after a statement that always returns.
LiveNodes(node) ==
  {node} \cup UNION {LiveNodes(node.kids[i]) :
    i \in {j \in DOMAIN node.kids : ~(/\ node.kind = "block"
                                     /\ \E k \in 1 .. (j - 1) : AlwaysReturns(node.kids[k]))}}

\* What is evaluated whenever the node is and no error ends the run: not what
\* comes after a statement with a return in it, a branch or the body of a loop.
CertainNodes(node) ==
  LET MayReturn(kid) == \E inner \in NodesOf(kid) : inner.kind = "return"
      reached ==
        CASE node.kind = "block" ->
               {i \in DOMAIN node.kids : \A k \in 1 .. (i - 1) : ~MayReturn(node.kids[k])}
          [] node.kind = "if" -> {1}
          [] node.kind = "forIn" -> {}
          [] OTHER -> DOMAIN node.kids
  IN  {node} \cup UNION {CertainNodes(node.kids[i]) : i \in reached}

BodyOf(id) == module.blobs[module.functions[id].body].body
BodyTrees == {BodyOf(i) : i \in {j \in DOMAIN module.functions : module.functions[j].body # 0}}

\* The texts that are printed; a program that uses one otherwise ends in an error.
StringsIn(nodes) ==
  {node.value : node \in {n \in nodes :
     /\ n.kind = "literal" /\ n.valueKind = "blob"
     /\ BlobText(module.blobs, n.value) \in {<<t>> : t \in DOMAIN Unquoted}}}

(***************************************************************************)
(* Properties.                                                             *)
(***************************************************************************)
\* A return ends its function wherever it stands, in blocks, branches and
\* loops, and only its own: no text is printed that is only written behind
\* statements that always return, and a system that no error ended has printed
\* all that is written before the first statement with a return in it, whatever
\* the functions it calls return from (managed_runtime.c 1224-1375, has_return,
\* and 1377-1429, a frame for each call).
ReturnEndsItsFunction ==
  LET live == UNION {LiveNodes(tree) : tree \in BodyTrees}
      texts == {printed[i].blob : i \in {j \in DOMAIN printed : printed[j].kind = "string"}}
  IN  runs > 0 =>
        /\ texts \subseteq StringsIn(live)
        /\ outcome = "OK" => \E id \in {i \in DOMAIN module.functions : IsSystem(i)} :
             StringsIn(CertainNodes(BodyOf(id))) \subseteq texts

\* A system that is one loop over a component's entities and starts each round
\* by printing the entity.
TracedLoops ==
  LET IsTraced(node) ==
        /\ node.kind = "forIn"
        /\ node.kids[3].kind = "block" /\ node.kids[3].kids # <<>>
        /\ LET first == node.kids[3].kids[1]
           IN  /\ first.kind = "expression" /\ first.kids[1].kind = "call"
               /\ first.kids[1].kids[2].kids[1].value = node.kids[1].value
        /\ \A inner \in NodesOf(node.kids[3]) : inner.kind # "return"
  IN  {tree.kids[1].kids[1] : tree \in {t \in BodyTrees : Len(t.kids[1].kids) = 1
                                                   /\ IsTraced(t.kids[1].kids[1])}}

\* for-in visits entities in the order of the table and none twice, whatever
\* rows and entities its body adds: all that had the component, none that never
\* gets it, and of those that get it meanwhile all but the ones it has already
\* passed (managed_runtime.c 1305-1366, the count is read in every round).
EachOwnerIsVisitedOnce ==
  LET visits == SelectSeq(printed, LAMBDA v : v.kind = "number")
      visited == {visits[i].number : i \in DOMAIN visits}
      Now(type) == {stores[type].rows[i].entity : i \in DOMAIN stores[type].rows}
  IN  outcome = "OK" => \A loop \in TracedLoops :
        LET type == loop.kids[2].value
        IN  /\ \A i, j \in DOMAIN visits : i < j => visits[i].number < visits[j].number
            /\ owners[type] \subseteq visited /\ visited \subseteq Now(type)
            /\ \A e \in Now(type) \ visited : \E v \in visited : e < v

\* Keeps no reference beyond the expression that makes it, and adds no row
\* while one is in use: a component or a struct in it is not given to a local,
\* an argument or a return, and what a field is assigned calls nothing.
KeepsNoReference ==
  LET IsStruct(node) ==
        \/ node.kind = "index"
        \/ node.kind = "assignment" /\ node.kids[2].kind = "objectLiteral"
        \/ /\ node.kind = "member"
           /\ \E k \in DOMAIN module.fields :
                /\ module.fields[k].name = BlobText(module.blobs, node.kids[2].value)
                /\ BuiltinSize(module.types[module.fields[k].type].qualified) = 0
      Calls(node) == \E inner \in NodesOf(node) : inner.kind \in {"call", "assignment"}
      isLocal(node) == node.kind = "identifier" /\ node.valueKind = "blob"
      Fine(node) ==
        CASE node.kind \in {"declaration", "return", "arguments", "grouping"} ->
               \A i \in DOMAIN node.kids : ~IsStruct(node.kids[i])
          [] node.kind = "assignment" ->
               IF isLocal(node.kids[1]) THEN ~IsStruct(node.kids[2]) ELSE ~Calls(node.kids[2])
          [] OTHER -> TRUE
  IN  \A tree \in BodyTrees : \A node \in NodesOf(tree) : Fine(node)

\* References are pointers into blocks that move when a store grows. A program
\* that keeps none can add rows anywhere, in loops, conditions and arguments,
\* and never follows one into a freed block (managed_runtime.c 822-919, ecsvm.c
\* 362-395).
NoFreedRowIsUsed == outcome = "FREED" => ~KeepsNoReference

(***************************************************************************)
(* The value of an expression by its text alone: split at the last of the  *)
(* operators that bind least.                                              *)
(***************************************************************************)
NoValue == [kind |-> "none"]
Operators == <<{<<"|", "|">>}, {<<"&", "&">>}, {<<"=", "=">>, <<"!", "=">>},
               {<<"<">>, <<">">>, <<"<", "=">>, <<">", "=">>},
               {<<"+">>, <<"-">>}, {<<"*">>, <<"/">>, <<"%">>}>>

OperatorAt(ts, i) ==
  LET pair == <<ts[i], At(ts, i + 1)>>
  IN  IF \E l \in DOMAIN Operators : pair \in Operators[l] THEN pair ELSE <<ts[i]>>
LevelAt(ts, i) ==
  LET levels == {l \in DOMAIN Operators : OperatorAt(ts, i) \in Operators[l]}
  IN  IF levels = {} THEN 0 ELSE CHOOSE l \in levels : TRUE

\* Outside of parentheses and after an operand.
Splits(ts) ==
  LET Count(i, t) == Cardinality({j \in 1 .. (i - 1) : ts[j] = t})
  IN  {i \in 2 .. Len(ts) : /\ LevelAt(ts, i) # 0
                            /\ Count(i, "(") = Count(i, ")")
                            /\ ts[i - 1] = ")" \/ IsLiteral(ts[i - 1])}

Truth(value) == \/ value.kind = "bool" /\ value.truth
                \/ value.kind = "number" /\ value.number # 0

Meet(operator, a, b) ==
  LET x == a.number
      y == b.number
  IN  CASE NoValue \in {a, b} -> NoValue
        [] operator = <<"|", "|">> -> Bool(Truth(a) \/ Truth(b))
        [] operator = <<"&", "&">> -> Bool(Truth(a) /\ Truth(b))
        [] operator = <<"=", "=">> -> Bool(a.kind = b.kind /\ a = b)
        [] operator = <<"!", "=">> -> Bool(a.kind # b.kind \/ a # b)
        [] {a.kind, b.kind} # {"number"} -> NoValue
        [] operator = <<"+">> -> Number(x + y)
        [] operator = <<"-">> -> Number(x - y)
        [] operator = <<"*">> -> Number(x * y)
        [] operator = <<"/">> /\ y # 0 -> Number(CHOOSE z \in -36 .. 36 : z * y = x)
        [] operator = <<"<">> -> Bool(x < y)
        [] operator = <<">">> -> Bool(x > y)
        [] operator = <<"<", "=">> -> Bool(x <= y)
        [] operator = <<">", "=">> -> Bool(x >= y)
        [] OTHER -> NoValue

RECURSIVE TextValue(_)
TextValue(ts) ==
  LET last == CHOOSE i \in Splits(ts) : \A j \in Splits(ts) :
                LevelAt(ts, i) < LevelAt(ts, j) \/ (LevelAt(ts, i) = LevelAt(ts, j) /\ j <= i)
      operator == OperatorAt(ts, last)
      inner == TextValue(Tail(ts))
  IN  CASE Splits(ts) # {} ->
             Meet(operator, TextValue(SubSeq(ts, 1, last - 1)),
                  TextValue(SubSeq(ts, last + Len(operator), Len(ts))))
        [] ts[1] = "(" -> TextValue(SubSeq(ts, 2, Len(ts) - 1))
        [] ts[1] = "+" -> inner
        [] ts[1] = "!" -> IF inner = NoValue THEN NoValue ELSE Bool(~Truth(inner))
        [] ts[1] = "-" -> IF inner.kind = "number" THEN Number(-inner.number) ELSE NoValue
        [] ts[1] \in {"true", "false"} -> Bool(ts[1] = "true")
        [] OTHER -> Number(Numbers[ts[1]])

\* What a system prints for an expression is what its text says, from the
\* parser over the module file to the evaluation; an expression without a value
\* ends the run (ecs_parser.c 826-1219, ecs_generator.c 1676-1716,
\* managed_runtime.c 930-1222).
ExpressionsMeanTheirText ==
  host.expression # <<>> /\ runs > 0 =>
    LET value == TextValue(host.expression)
    IN  IF value = NoValue THEN outcome = "ERROR" /\ printed = <<>>
        ELSE outcome = "OK" /\ printed = <<value>>
=============================================================================
