----------------------------- MODULE SourceFile -----------------------------
(***************************************************************************)
(* The declarations of one .ecs file (ecs_parser.c): imports, namespaces,  *)
(* structs, components, attributes, functions, systems and constants, up   *)
(* to the end of the file or the first token that does not fit.            *)
(***************************************************************************)
EXTENDS Parser

\* component and attribute declarations carry an attribute of that kind that
\* is not written out: implicit names it, "none" is one in brackets.
ImplicitAttribute(kind, i) ==
  Named("attribute", i, i, <<>>, <<>>)
    @@ [implicit |-> kind, type |-> <<>>, value |-> <<>>]

Import(ts, i) ==
  After(Expect(ts, QualifiedName(ts, i + 1, "name"), ";"), LAMBDA name :
    Done(Named("import", i, name.next - 1, <<>>, NameOf(ts, name.node)), name.next))

\* The tokens of the node that a list may hold.
TextsOf(ts, nodes) == IF nodes = <<>> THEN <<>> ELSE NameOf(ts, nodes[1])

\* [name<type>(value)] from after the bracket; type and value may be missing.
Attribute(ts, i) ==
  After(QualifiedName(ts, i, "name"), LAMBDA name :
  After(Optional(At(ts, name.next) = "<",
                 Expect(ts, QualifiedName(ts, name.next + 1, "name"), ">"), name.next),
        LAMBDA type :
  After(Expect(ts, Optional(At(ts, type.next) = "(",
                            Expect(ts, Expression(ts, type.next + 1), ")"), type.next), "]"),
        LAMBDA value :
    Done(Named("attribute", i, value.next - 1, <<>>, NameOf(ts, name.node))
           @@ [implicit |-> "none", type |-> TextsOf(ts, type.node),
               value |-> TextsOf(ts, value.node)],
         value.next))))

Field(ts, i) ==
  After(Expect(ts, QualifiedName(ts, i, "identifier"), ":"), LAMBDA name :
  After(Expect(ts, TypeExpression(ts, name.next), ";"), LAMBDA type :
    Done(Node("field", i, type.next - 1, <<name.node, type.node>>), type.next)))

RECURSIVE Fields(_, _, _)
Fields(ts, i, struct) ==
  IF At(ts, i) \in {"}", "EOF"} THEN Closed(ts, struct, i, "}")
  ELSE After(Field(ts, i), LAMBDA field : Fields(ts, field.next, With(struct, field.node)))

\* A struct from its name on: without a body, or with one.
StructRest(ts, i, struct) ==
  After(QualifiedName(ts, i, "name"), LAMBDA name :
    LET named == [struct EXCEPT !.name = NameOf(ts, name.node)]
    IN  IF At(ts, name.next) = "{" THEN Fields(ts, name.next + 1, named)
        ELSE Closed(ts, named, name.next, ";"))

StructLike(ts, i) ==
  LET implicit == IF ts[i] = "struct" THEN <<>> ELSE <<ImplicitAttribute(ts[i], i)>>
  IN  StructRest(ts, i + 1, Named("struct", i, i, implicit, <<>>))

Parameter(ts, i) ==
  After(Expect(ts, Identifier(ts, i, "identifier"), ":"), LAMBDA name :
  After(TypeExpression(ts, name.next), LAMBDA type :
  After(Optional(At(ts, type.next) = "=", Expression(ts, type.next + 1), type.next),
        LAMBDA value :
    Done(Node("parameter", i, value.next - 1, <<name.node, type.node>> \o value.node),
         value.next))))

RECURSIVE Parameters(_, _, _)
Parameters(ts, i, list) ==
  LET Rest(one) ==
        IF At(ts, one.next) = "," THEN Parameters(ts, one.next + 1, With(list, one.node))
        ELSE Closed(ts, With(list, one.node), one.next, ")")
  IN  IF At(ts, i) \in {")", "EOF"} THEN Closed(ts, list, i, ")")
      ELSE After(Parameter(ts, i), Rest)

ParameterList(ts, i) ==
  IF At(ts, i) = "(" THEN Parameters(ts, i + 1, Leaf("parameters", i, i)) ELSE Fail(i)

\* A function or a system from its name on: only a function must have a
\* parameter list and may have a type; a body may be missing.
FunctionLike(ts, i, function) ==
  LET isFunction == function.kind = "function"
  IN  After(Identifier(ts, i, "name"), LAMBDA name :
      After(Optional(isFunction \/ At(ts, name.next) = "(",
                     ParameterList(ts, name.next), name.next), LAMBDA list :
      After(Optional(isFunction /\ At(ts, list.next) = ":",
                     TypeExpression(ts, list.next + 1), list.next), LAMBDA type :
        LET declared == [function EXCEPT !.name = <<ts[i]>>, !.kids = @ \o list.node \o type.node]
        IN  IF At(ts, type.next) = ";" THEN Closed(ts, declared, type.next, ";")
            ELSE After(Block(ts, type.next), LAMBDA body :
                   Done([With(declared, body.node) EXCEPT !.last = body.node.last],
                        body.next)))))

FunctionKind(token) == IF token = "fn" THEN "function" ELSE "system"

\* One or more attributes and what they are written before.  The first
\* bracket is followed by attributes up to one that no other bracket follows.
RECURSIVE Attributes(_, _, _)
Attributes(ts, i, kids) ==
  After(Attribute(ts, i), LAMBDA one :
    IF At(ts, one.next) = "[" THEN Attributes(ts, one.next + 1, Append(kids, one.node))
    ELSE Done(Append(kids, one.node), one.next))

\* The struct or function at j that the attributes from i on are of.
AttributedRest(ts, i, j, attributes) ==
  LET t == At(ts, j)
      implicit == IF t = "struct" THEN <<>> ELSE <<ImplicitAttribute(t, j)>>
  IN  IF t \in {"struct", "component", "attribute"}
      THEN StructRest(ts, j + 1, Named("struct", i, i, attributes \o implicit, <<>>))
      ELSE IF t \in {"fn", "system"}
      THEN FunctionLike(ts, j + 1, Named(FunctionKind(t), i, i, attributes, <<>>))
      ELSE Fail(j)

Attributed(ts, i) ==
  After(Attributes(ts, i + 1, <<>>), LAMBDA attributes :
    AttributedRest(ts, i, attributes.next, attributes.node))

RECURSIVE FileDeclaration(_, _), Body(_, _, _)
\* The declarations between the braces of a namespace.
Body(ts, i, namespace) ==
  IF At(ts, i) \in {"}", "EOF"} THEN Closed(ts, namespace, i, "}")
  ELSE After(FileDeclaration(ts, i), LAMBDA one : Body(ts, one.next, With(namespace, one.node)))

Namespace(ts, i) ==
  After(Expect(ts, QualifiedName(ts, i + 1, "name"), "{"), LAMBDA name :
    Body(ts, name.next, Named("namespace", i, i, <<>>, NameOf(ts, name.node))))

FileDeclaration(ts, i) ==
  LET t == At(ts, i)
  IN  CASE t = "import" -> Import(ts, i)
        [] t = "namespace" -> Namespace(ts, i)
        [] t = "[" -> Attributed(ts, i)
        [] t \in {"struct", "component", "attribute"} -> StructLike(ts, i)
        [] t \in {"fn", "system"} ->
             FunctionLike(ts, i + 1, Named(FunctionKind(t), i, i, <<>>, <<>>))
        [] t = "const" -> Declaration(ts, i)
        [] OTHER -> Fail(i)

\* ecsvm_parse_file: the declarations of the file, or where parsing stopped.
RECURSIVE ParseFrom(_, _, _)
ParseFrom(ts, i, file) ==
  IF At(ts, i) = "EOF" THEN Done(file, i)
  ELSE After(FileDeclaration(ts, i), LAMBDA one : ParseFrom(ts, one.next, With(file, one.node)))
ParseFile(ts) == ParseFrom(ts, 1, Leaf("file", 1, Len(ts)))
=============================================================================
