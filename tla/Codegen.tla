------------------------------ MODULE Codegen ------------------------------
(***************************************************************************)
(* The bodies of functions in the tables of the .ecsbin file (the third    *)
(* part of ecs_generator.c): trees of nodes that refer to the types,       *)
(* functions, parameters and blobs of the tables.                          *)
(***************************************************************************)
EXTENDS Semantics, ModuleTables

(***************************************************************************)
(* The body of a function: names become references where they can.         *)
(***************************************************************************)
\* ecsvm_build_function_ast_nodes: the block under a root.
FunctionAst(block) == Node("root", block.first, block.last, <<block>>)

\* The name that an identifier or a member of a name spells; empty if it is
\* neither.
RECURSIVE CalleeName(_, _)
CalleeName(ts, node) ==
  IF node.kind = "identifier" THEN NameOf(ts, node)
  ELSE IF node.kind = "member"
  THEN LET left == CalleeName(ts, node.kids[1])
       IN  IF left = <<>> THEN <<>> ELSE left \o <<".">> \o NameOf(ts, node.kids[2])
  ELSE <<>>

\* The tokens between the operands, or before the only one.
OperatorOf(ts, node) ==
  IF node.kind = "unary" THEN SubSeq(ts, node.first, node.kids[1].first - 1)
  ELSE SubSeq(ts, node.kids[1].last + 1, node.kids[2].first - 1)

ParameterId(ctx, name) ==
  LET k == SelectInSeq(ctx.function.parameters, LAMBDA p : p.name = name)
  IN  IF k = 0 THEN 0 ELSE ctx.parameterStart + k - 1

BodyTypeId(ctx, name) ==
  TypeId(ctx, TypeName(ctx.sem.structs, ctx.function.namespace, name))

BodyFunctionId(ctx, name) ==
  FindFunction(ctx.sem.functions, ctx.function.namespace, name)

Holds(kind, valueKind, value) == [kind |-> kind, valueKind |-> valueKind, value |-> value]

\* The reference that was found, or what there is without it.
HoldsIfFound(kind, valueKind, id, otherwise) ==
  IF id # 0 THEN Holds(kind, valueKind, id) ELSE otherwise

\* A constant is replaced by its text, before anything else is looked for.
ConstantOr(ctx, name, otherwise) ==
  LET Literal(text) == IF text # <<>> THEN Holds("literal", "blob", text) ELSE otherwise
  IN  Literal(ConstantValue(ctx.sem.constants, ctx.function.namespace, name))

IdentifierValue(ctx, name, parent, isFirst) ==
  LET plain == Holds("identifier", "blob", name)
      Callee(id) == HoldsIfFound("identifier", "function", id, plain)
  IN  IF parent = "member" /\ ~isFirst THEN plain
      ELSE ConstantOr(ctx, name,
             HoldsIfFound("identifier", "parameter", ParameterId(ctx, name),
               IF parent = "call" /\ isFirst THEN Callee(BodyFunctionId(ctx, name)) ELSE plain))

\* A name of more than one part may be a constant.
MemberValue(ctx, name) ==
  LET plain == Holds("member", "none", 0)
  IN  IF name = <<>> THEN plain ELSE ConstantOr(ctx, name, plain)

\* A type has to be there.
TypeValue(ctx, kind, name) ==
  IF name = <<>> THEN Holds(kind, "none", 0)
  ELSE HoldsIfFound(kind, "type", BodyTypeId(ctx, name), Holds(kind, "unresolved", 0))

\* A function need not.
CallValue(ctx, name) ==
  LET plain == Holds("call", "none", 0)
  IN  IF name = <<>> THEN plain
      ELSE HoldsIfFound("call", "function", BodyFunctionId(ctx, name), plain)

\* What a node carries; a blob still as its tokens.
NodeValue(ctx, node, parent, isFirst) ==
  LET ts == ctx.function.source
      kind == node.kind
  IN  CASE kind = "member" -> MemberValue(ctx, CalleeName(ts, node))
        [] kind = "identifier" -> IdentifierValue(ctx, NameOf(ts, node), parent, isFirst)
        [] kind = "type" -> TypeValue(ctx, kind, NameOf(ts, node))
        [] kind = "index" -> TypeValue(ctx, kind, CalleeName(ts, node.kids[2]))
        [] kind = "call" -> CallValue(ctx, CalleeName(ts, node.kids[1]))
        [] kind = "literal" -> Holds(kind, "blob", SubSeq(ts, node.first, node.last))
        [] kind = "objectField" -> Holds(kind, "blob", <<ts[node.first]>>)
        [] kind \in {"assignment", "binary", "unary"} -> Holds(kind, "blob", OperatorOf(ts, node))
        [] OTHER -> Holds(kind, "none", 0)

\* own: what the node carries; done: its children and the tables with them.
\* The children are written even where a constant cuts them off.
SerialisedNode(ctx, node, own, done) ==
  [ok |-> done.ok, out |-> done.out,
   node |-> [kind |-> own.kind,
             keyword |-> IF node.kind = "declaration"
                         THEN ctx.function.source[node.first] ELSE "",
             valueKind |-> own.valueKind,
             value |-> IF own.valueKind = "blob" THEN BlobId(done.out, TextBlob(own.value))
                       ELSE own.value,
             kids |-> IF own.kind = node.kind THEN done.kids ELSE <<>>]]

RECURSIVE Serialise(_, _, _, _, _)
SerialiseWith(ctx, out, node, own) ==
  LET Put(acc, r) ==
        [ok |-> acc.ok /\ r.ok, out |-> r.out, kids |-> Append(acc.kids, r.node)]
      Child(acc, i) == Put(acc, Serialise(ctx, acc.out, node.kids[i], node.kind, i = 1))
      started == [ok |-> own.valueKind # "unresolved", kids |-> <<>>,
                  out |-> IF own.valueKind = "blob" THEN EnsureBlob(out, TextBlob(own.value))
                          ELSE out]
  IN  SerialisedNode(ctx, node, own, Fold(Child, started, [i \in DOMAIN node.kids |-> i]))

Serialise(ctx, out, node, parent, isFirst) ==
  SerialiseWith(ctx, out, node, NodeValue(ctx, node, parent, isFirst))

LinkBody(out, i, body) ==
  LET stored == EnsureBlob(out, body)
  IN  [stored EXCEPT !.functions[i].body = BlobId(stored, body)]

\* After all functions are in the table, so that any of them can be called.
PutBody(sem, acc, i) ==
  LET function == sem.functions[i]
      ctx == [sem |-> sem, function |-> function, types |-> acc.out.types,
              parameterStart |-> acc.out.functions[i].parameterStart]
      Put(r) == IF ~r.ok THEN [acc EXCEPT !.ok = FALSE]
                ELSE [ok |-> TRUE, out |-> LinkBody(r.out, i, BodyBlob(r.node))]
  IN  IF ~acc.ok \/ function.body = <<>> THEN acc
      ELSE Put(Serialise(ctx, acc.out, FunctionAst(function.body[1]), "root", TRUE))

LinkAll(sem, tables) ==
  Fold(LAMBDA acc, i : PutBody(sem, acc, i), [ok |-> TRUE, out |-> tables],
       [i \in DOMAIN sem.functions |-> i])
=============================================================================
