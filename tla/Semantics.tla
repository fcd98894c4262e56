----------------------------- MODULE Semantics -----------------------------
(***************************************************************************)
(* The declarations of the parsed files (the first half of                 *)
(* ecs_generator.c): the structs, functions and constants in them, under   *)
(* their qualified names.                                                  *)
(***************************************************************************)
EXTENDS SourceFile, Declarations

Kids(node, kind) == SelectSeq(node.kids, LAMBDA kid : kid.kind = kind)

\* data is empty when there is none.
AttributeOf(node) ==
  [name |-> CASE node.implicit = "component" -> Core("Component")
              [] node.implicit = "attribute" -> Core("Attribute")
              [] OTHER -> node.name,
   data |-> IF node.type # <<>> THEN node.type ELSE node.value]

Declared(namespace, name) ==
  [namespace |-> namespace, name |-> name, qualified |-> Join(namespace, name)]

ConstantOf(ts, node, namespace) ==
  LET value == node.kids[Len(node.kids)]
  IN  Declared(namespace, NameOf(ts, node.kids[1]))
        @@ [value |-> SubSeq(ts, value.first, value.last)]

StructOf(ts, node, namespace) ==
  LET attributes == Map(AttributeOf, Kids(node, "attribute"))
      FieldOf(kid) == [name |-> NameOf(ts, kid.kids[1]), type |-> NameOf(ts, kid.kids[2])]
  IN  Declared(namespace, node.name)
        @@ [isComponent |-> \E k \in DOMAIN attributes :
                              attributes[k].name = Core("Component"),
            attributes |-> attributes,
            fields |-> Map(FieldOf, Kids(node, "field")),
            layout |-> "none", size |-> 0, alignment |-> 0]

\* A system has core.System as its last attribute.  body: the block, if any.
FunctionOf(ts, node, namespace) ==
  LET lists == Kids(node, "parameters")
      types == Kids(node, "type")
      attributes == Map(AttributeOf, Kids(node, "attribute"))
      ParameterOf(kid) ==
        [name |-> NameOf(ts, kid.kids[1]), type |-> NameOf(ts, kid.kids[2]),
         default |-> IF Len(kid.kids) < 3 THEN <<>>
                     ELSE SubSeq(ts, kid.kids[3].first, kid.kids[3].last)]
  IN  Declared(namespace, node.name)
        @@ [returns |-> IF types = <<>> THEN Core("Void") ELSE NameOf(ts, types[1]),
            parameters |-> IF lists = <<>> THEN <<>> ELSE Map(ParameterOf, lists[1].kids),
            attributes |-> IF node.kind = "function" THEN attributes
                           ELSE Append(attributes, [name |-> Core("System"), data |-> <<>>]),
            source |-> ts,
            body |-> Kids(node, "block")]

\* A second declaration of a name is taken like the first.
FaultyAdd(sem, table, item) == [sem EXCEPT ![table] = Append(@, item)]
\* A second declaration of a name is an error.
Add(sem, table, item) ==
  IF FindExact(sem[table], item.qualified) # 0 THEN Failed(sem)
  ELSE [sem EXCEPT ![table] = Append(@, item)]

RECURSIVE Collect(_, _, _, _)
Collect(ts, sem, node, namespace) ==
  IF ~sem.ok THEN sem
  ELSE CASE node.kind = "namespace" ->
              Fold(LAMBDA acc, kid : Collect(ts, acc, kid, Join(namespace, node.name)),
                       sem, node.kids)
         [] node.kind = "declaration" -> Add(sem, "constants", ConstantOf(ts, node, namespace))
         [] node.kind = "struct" -> Add(sem, "structs", StructOf(ts, node, namespace))
         [] node.kind \in {"function", "system"} ->
              Add(sem, "functions", FunctionOf(ts, node, namespace))
         [] OTHER -> sem

\* The files and their trees in the order of their paths.
CollectFiles(files, trees) ==
  LET File(sem, i) == Fold(LAMBDA acc, node : Collect(files[i], acc, node, <<>>),
                               sem, trees[i].kids)
  IN  Fold(File, NoSemantics, [i \in DOMAIN files |-> i])
=============================================================================
