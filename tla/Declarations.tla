---------------------------- MODULE Declarations ----------------------------
(***************************************************************************)
(* The declarations of a program as the generator keeps them (the middle   *)
(* of ecs_generator.c): how a name that is written short is found, what    *)
(* the names in declarations are replaced by, and the size of every        *)
(* struct.  A name is its tokens with the dots between them, so that a     *)
(* suffix of a name is one in the code too.                                *)
(***************************************************************************)
EXTENDS Traversal, SequencesExt

CONSTANT Unquoted  \* the name between the quotes, by string literal

Map(Op(_), s) == [i \in DOMAIN s |-> Op(s[i])]

Core(name) == <<"core", ".", name>>

\* ok is FALSE from the first error on; an error ends the build.
NoSemantics == [ok |-> TRUE, structs |-> <<>>, functions |-> <<>>, constants |-> <<>>]
Failed(sem) == [sem EXCEPT !.ok = FALSE]

Join(namespace, name) == IF namespace = <<>> THEN name ELSE namespace \o <<".">> \o name

\* The text of an attribute without the quotes around it.
Text(data) ==
  IF Len(data) = 1 /\ data[1] \in DOMAIN Unquoted THEN Unquoted[data[1]] ELSE data

Layouts(size) == {Core(name) : name \in
  CASE size = 1 -> {"Bool"}
    [] size = 4 -> {"Type", "Entity", "Int32", "UInt32", "Float32", "Blob", "String"}
    [] size = 8 -> {"UInt64"}}

\* ecsvm_builtin_layout: the size is the alignment too; 0 for any other type.
BuiltinSize(type) ==
  IF \E size \in {1, 4, 8} : type \in Layouts(size)
  THEN CHOOSE size \in {1, 4, 8} : type \in Layouts(size)
  ELSE 0

AlignUp(value, alignment) ==
  IF alignment = 0 THEN value ELSE ((value + alignment - 1) \div alignment) * alignment

(***************************************************************************)
(* Looking a name up: the index in the table, 0 if it is not there.        *)
(***************************************************************************)
\* What is found first.
OrElse(i, other) == IF i # 0 THEN i ELSE other

FindExact(items, name) == SelectInSeq(items, LAMBDA item : item.qualified = name)

EndsIn(qualified, suffix) ==
  /\ Len(qualified) >= Len(suffix)
  /\ SubSeq(qualified, Len(qualified) - Len(suffix) + 1, Len(qualified)) = suffix

\* The first item that ends so, whether or not another one does.
FaultyFindBySuffix(items, name) ==
  SelectInSeq(items, LAMBDA item : EndsIn(<<".">> \o item.qualified, <<".">> \o name))

\* The one item whose last parts are the name; none if two are.
FindBySuffix(items, name) ==
  LET hits == {i \in DOMAIN items : \/ items[i].qualified = name
                                    \/ EndsIn(items[i].qualified, <<".">> \o name)}
  IN  IF Cardinality(hits) = 1 THEN CHOOSE i \in hits : TRUE ELSE 0

IsDotted(name) == "." \in Range(name)

\* As it is written; in the current namespace, if it has no dot; by its end.
Find(items, namespace, name) ==
  OrElse(FindExact(items, name),
         OrElse(IF IsDotted(name) THEN 0 ELSE FindExact(items, Join(namespace, name)),
                FindBySuffix(items, name)))

\* The first struct with the alias; what is before the last dot is a namespace.
FindAlias(structs, name) ==
  LET dot == SelectLastInSeq(name, LAMBDA t : t = ".")
      Carries(struct) ==
        /\ IsPrefix(SubSeq(name, 1, dot), struct.qualified)
        /\ \E k \in DOMAIN struct.attributes :
             /\ struct.attributes[k].name \in {Core("Alias"), <<"Alias">>}
             /\ struct.attributes[k].data # <<>>
             /\ Text(struct.attributes[k].data) = SubSeq(name, dot + 1, Len(name))
  IN  SelectInSeq(structs, Carries)

FindType(structs, namespace, name) ==
  OrElse(FindAlias(structs, name), Find(structs, namespace, name))

\* A name that is found nowhere is kept.
NameAt(items, i, name) == IF i = 0 THEN name ELSE items[i].qualified

TypeName(structs, namespace, name) ==
  NameAt(structs, FindType(structs, namespace, name), name)

FindFunction(functions, namespace, name) == Find(functions, namespace, name)

\* The value of a constant as it is written; empty if there is none.
ConstantValue(constants, namespace, name) ==
  LET ValueAt(i) == IF i = 0 THEN <<>> ELSE constants[i].value
  IN  ValueAt(Find(constants, namespace, name))

\* An attribute struct with one field, a type, is given a type.
UsesTypePayload(structs, attribute) ==
  LET i == FindExact(structs, attribute)
  IN  /\ i # 0
      /\ Len(structs[i].fields) = 1
      /\ structs[i].fields[1].type = Core("Type")

\* The type may be the name of a function: systems are named that way.
PayloadName(sem, namespace, name) ==
  NameAt(sem.structs, FindType(sem.structs, namespace, name),
         NameAt(sem.functions, FindFunction(sem.functions, namespace, name), name))

(***************************************************************************)
(* Putting qualified names in the place of the written ones.               *)
(***************************************************************************)
IsKnown(structs, type) == BuiltinSize(type) # 0 \/ FindExact(structs, type) # 0

\* The attributes are replaced one by one: the next name is looked up in a
\* table where an Alias may already be a core.Alias.
ResolveStruct(sem, i) ==
  LET struct == sem.structs[i]
      Typed(field) == [field EXCEPT !.type = TypeName(sem.structs, struct.namespace, @)]
      fields == Map(Typed, struct.fields)
      Attribute1(acc, k) ==
        [acc EXCEPT !.structs[i].attributes[k].name =
           TypeName(acc.structs, struct.namespace, @)]
  IN  IF ~sem.ok THEN sem
      ELSE IF \E k \in DOMAIN fields : ~IsKnown(sem.structs, fields[k].type) THEN Failed(sem)
      ELSE Fold(Attribute1, [sem EXCEPT !.structs[i].fields = fields],
                    [k \in DOMAIN struct.attributes |-> k])

ResolvePayloads(sem, namespace, attributes) ==
  LET Payload(attribute) ==
        IF attribute.data = <<>> \/ ~UsesTypePayload(sem.structs, attribute.name) THEN attribute
        ELSE [attribute EXCEPT !.data = PayloadName(sem, namespace, @)]
  IN  Map(Payload, attributes)

ResolveFunction(sem, function) ==
  LET Type(name) == TypeName(sem.structs, function.namespace, name)
      Parameter1(parameter) == [parameter EXCEPT !.type = Type(@)]
      Attribute1(attribute) == [attribute EXCEPT !.name = Type(@)]
  IN  [function EXCEPT
         !.returns = Type(@),
         !.parameters = Map(Parameter1, @),
         !.attributes = ResolvePayloads(sem, function.namespace, Map(Attribute1, @))]

HasKnownTypes(structs, function) ==
  \A type \in {function.returns} \cup
              {function.parameters[k].type : k \in DOMAIN function.parameters} :
    type = Core("Void") \/ IsKnown(structs, type)

ResolveStructPayloads(sem) ==
  LET WithPayloads(acc, i) ==
        [acc EXCEPT !.structs[i].attributes =
           ResolvePayloads(acc, acc.structs[i].namespace, @)]
  IN  Fold(WithPayloads, sem, [i \in DOMAIN sem.structs |-> i])

ResolveFunctions(sem) == [sem EXCEPT !.functions = Map(LAMBDA f : ResolveFunction(sem, f), @)]

\* Types that are not known are missed only now.
CheckFunctions(sem) ==
  IF \A i \in DOMAIN sem.functions : HasKnownTypes(sem.structs, sem.functions[i]) THEN sem
  ELSE Failed(sem)

ResolveFurther(sem) ==
  IF sem.ok THEN CheckFunctions(ResolveFunctions(ResolveStructPayloads(sem))) ELSE sem

ResolveTypes(sem) ==
  ResolveFurther(Fold(ResolveStruct, sem, [i \in DOMAIN sem.structs |-> i]))

(***************************************************************************)
(* Sizes.  A struct that holds itself has none.  The recursion of the code *)
(* finishes a struct after those it holds; the finished ones are laid out  *)
(* in that order.                                                          *)
(***************************************************************************)
NothingYet == [size |-> 0, alignment |-> 1]
Place(at, layout) ==
  [size |-> AlignUp(at.size, layout.alignment) + layout.size,
   alignment |-> Max({at.alignment, layout.alignment})]
Padded(at) == [at EXCEPT !.size = AlignUp(@, at.alignment)]

BuiltinLayout(type) == [size |-> BuiltinSize(type), alignment |-> BuiltinSize(type)]

\* The structs in the fields; 0 for what is built in or not known.
HeldBy(structs, struct) ==
  LET Held(field) == IF BuiltinSize(field.type) # 0 THEN 0 ELSE FindExact(structs, field.type)
  IN  Map(Held, struct.fields)

HoldsKnown(structs, struct) ==
  \A k \in DOMAIN struct.fields : IsKnown(structs, struct.fields[k].type)

LayOut(structs, i) ==
  LET struct == structs[i]
      own == IF struct.fields = <<>> THEN BuiltinSize(struct.qualified) ELSE 0
      LayoutOf(type) ==
        IF BuiltinSize(type) # 0 THEN BuiltinLayout(type)
        ELSE [size |-> structs[FindExact(structs, type)].size,
              alignment |-> structs[FindExact(structs, type)].alignment]
      placed == Padded(Fold(LAMBDA at, field : Place(at, LayoutOf(field.type)),
                            NothingYet, struct.fields))
      layout == IF own # 0 THEN BuiltinLayout(struct.qualified) ELSE placed
  IN  IF struct.layout = "done" THEN structs
      ELSE [structs EXCEPT ![i] = [@ EXCEPT !.layout = "done", !.size = layout.size,
                                            !.alignment = layout.alignment]]

\* A struct of the core library is laid out before.
ComputeLayouts(sem) ==
  LET Open(struct) == IF struct.layout = "done" THEN <<>> ELSE HeldBy(sem.structs, struct)
      walk == DepthFirst(Map(Open, sem.structs))
      known == \A i \in DOMAIN sem.structs :
                 sem.structs[i].layout = "done" \/ HoldsKnown(sem.structs, sem.structs[i])
  IN  IF ~sem.ok THEN sem
      ELSE IF walk.ok /\ known THEN [sem EXCEPT !.structs = Fold(LayOut, @, walk.order)]
      ELSE Failed(sem)
=============================================================================
