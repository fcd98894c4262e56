---------------------------- MODULE ModuleTables ----------------------------
(***************************************************************************)
(* The tables of the .ecsbin file but for the bodies, the file itself and  *)
(* types.h (the second half of ecs_generator.c).  References are numbers   *)
(* from 1, as in the file; 0 is no reference.  A blob is text, the number  *)
(* of a type or a function body; the file is counted in records instead of *)
(* bytes.                                                                  *)
(***************************************************************************)
EXTENDS Declarations

TextBlob(tokens) == [text |-> tokens]
TypeBlob(id) == [type |-> id]
BodyBlob(node) == [body |-> node]

NoTables == [blobs |-> <<>>, types |-> <<>>, fields |-> <<>>, fieldDefs |-> <<>>,
             functions |-> <<>>, parameters |-> <<>>, attributes |-> <<>>, structs |-> <<>>]

\* A blob is stored once.
BlobId(out, blob) == SelectInSeq(out.blobs, LAMBDA other : other = blob)
EnsureBlob(out, blob) ==
  IF BlobId(out, blob) # 0 THEN out ELSE [out EXCEPT !.blobs = Append(@, blob)]
EnsureTexts(out, first, second) ==
  EnsureBlob(EnsureBlob(out, TextBlob(first)), TextBlob(second))

\* The namespace of a type is all that is before the last dot.
SplitName(qualified) ==
  LET dot == SelectLastInSeq(qualified, LAMBDA t : t = ".")
  IN  [namespace |-> SubSeq(qualified, 1, dot - 1),
       name |-> SubSeq(qualified, dot + 1, Len(qualified))]

TypeId(out, qualified) == FindExact(out.types, qualified)
AppendType(out, qualified, parts) ==
  [out EXCEPT !.types =
     Append(@, [qualified |-> qualified,
                namespaceBlob |-> BlobId(out, TextBlob(parts.namespace)),
                nameBlob |-> BlobId(out, TextBlob(parts.name))])]
EnsureType(out, qualified) ==
  LET parts == SplitName(qualified)
  IN  IF TypeId(out, qualified) # 0 THEN out
      ELSE AppendType(EnsureTexts(out, parts.namespace, parts.name), qualified, parts)

(***************************************************************************)
(* The tables.                                                             *)
(***************************************************************************)
HasTypePayload(structs, attribute) ==
  attribute.data # <<>> /\ UsesTypePayload(structs, attribute.name)

\* The blob a payload is kept in; no data is the empty text.
AttributeBlob(structs, out, attribute) ==
  IF HasTypePayload(structs, attribute) THEN TypeBlob(TypeId(out, attribute.data))
  ELSE TextBlob(attribute.data)

AppendAttribute(out, attribute, blob) ==
  [out EXCEPT !.attributes =
     Append(@, [type |-> TypeId(out, attribute.name), data |-> BlobId(out, blob)])]

PutAttribute(structs, out, attribute) ==
  LET named == EnsureType(out, attribute.name)
      typed == IF HasTypePayload(structs, attribute) THEN EnsureType(named, attribute.data)
               ELSE named
      blob == AttributeBlob(structs, typed, attribute)
  IN  AppendAttribute(EnsureBlob(typed, blob), attribute, blob)

AppendField(out, field) ==
  [out EXCEPT
     !.fields = Append(@, [nameBlob |-> BlobId(out, TextBlob(field.name)),
                           type |-> TypeId(out, field.type)]),
     !.fieldDefs = Append(@, [field |-> Len(out.fields) + 1,
                              attributeStart |-> 0, attributeCount |-> 0])]
PutField(out, field) ==
  AppendField(EnsureType(EnsureBlob(out, TextBlob(field.name)), field.type), field)

\* Where count new rows will start: nowhere, if there are none.
StartOf(rows, count) == IF count = 0 THEN 0 ELSE Len(rows) + 1

PutAttributes(structs, out, attributes) ==
  Fold(LAMBDA acc, attribute : PutAttribute(structs, acc, attribute), out, attributes)

\* The row of a struct comes after those of its attributes and fields.
PutStruct(structs, out, struct) ==
  LET definition(typed) ==
        [type |-> TypeId(typed, struct.qualified),
         isComponent |-> struct.isComponent,
         fieldStart |-> StartOf(out.fields, Len(struct.fields)),
         fieldCount |-> Len(struct.fields),
         attributeStart |-> StartOf(out.attributes, Len(struct.attributes)),
         attributeCount |-> Len(struct.attributes)]
      Put(typed) ==
        [Fold(PutField, PutAttributes(structs, typed, struct.attributes), struct.fields)
           EXCEPT !.structs = Append(@, definition(typed))]
  IN  Put(EnsureType(out, struct.qualified))

AppendParameter(out, parameter) ==
  [out EXCEPT !.parameters =
     Append(@, [nameBlob |-> BlobId(out, TextBlob(parameter.name)),
                type |-> TypeId(out, parameter.type),
                attributeStart |-> 0, attributeCount |-> 0,
                defaultBlob |-> IF parameter.default = <<>> THEN 0
                                ELSE BlobId(out, TextBlob(parameter.default))])]
PutParameter(out, parameter) ==
  LET typed == EnsureType(EnsureBlob(out, TextBlob(parameter.name)), parameter.type)
  IN  AppendParameter(IF parameter.default = <<>> THEN typed
                      ELSE EnsureBlob(typed, TextBlob(parameter.default)), parameter)

\* The first attribute of a function is its return type.
PutFunction(structs, out, function) ==
  LET reference(named) ==
        [namespaceBlob |-> BlobId(named, TextBlob(function.namespace)),
         nameBlob |-> BlobId(named, TextBlob(function.name)),
         parameterStart |-> StartOf(out.parameters, Len(function.parameters)),
         parameterCount |-> Len(function.parameters),
         attributeStart |-> Len(out.attributes) + 1,
         attributeCount |-> Len(function.attributes) + 1,
         body |-> 0]
      attributes == <<[name |-> function.returns, data |-> <<>>]>> \o function.attributes
      Put(named) ==
        [Fold(PutParameter, PutAttributes(structs, named, attributes), function.parameters)
           EXCEPT !.functions = Append(@, reference(named))]
  IN  Put(EnsureTexts(out, function.namespace, function.name))

PutStructs(sem, out) ==
  Fold(LAMBDA acc, struct : PutStruct(sem.structs, acc, struct), out, sem.structs)
PutFunctions(sem, out) ==
  Fold(LAMBDA acc, function : PutFunction(sem.structs, acc, function), out, sem.functions)

\* The empty text is the first blob.
DeclaredTables(sem) == PutFunctions(sem, PutStructs(sem, EnsureBlob(NoTables, TextBlob(<<>>))))

(***************************************************************************)
(* The file: a header with the place of every section, the sections, and   *)
(* the data of the blobs one after the other.                              *)
(***************************************************************************)
Sections == <<"types", "fields", "structs", "fieldDefs", "functions", "parameters",
              "attributes", "blobs">>
Position(section) == CHOOSE k \in DOMAIN Sections : Sections[k] = section

BlobLength(blob) == IF blob = TextBlob(<<>>) THEN 0 ELSE 1

FileOf(out) ==
  LET ends == PrefixSums([k \in DOMAIN Sections |-> Len(out[Sections[k]])])
      lengths == Map(BlobLength, out.blobs)
      data == PrefixSums(lengths)
  IN  [offset |-> [s \in Range(Sections) |-> 1 + ends[Position(s) - 1]],
       count |-> [s \in Range(Sections) |-> Len(out[s])],
       rows |-> out,
       ranges |-> [i \in DOMAIN out.blobs |-> [offset |-> data[i - 1], length |-> lengths[i]]],
       size |-> 1 + ends[Len(Sections)] + data[Len(out.blobs)]]

\* A write that the disk has no room for leaves the records before it.
CutFile(file, size) == [file EXCEPT !.size = size]

(***************************************************************************)
(* types.h: the C declarations in the order they are written.              *)
(***************************************************************************)
Line(struct) ==
  [type |-> struct.qualified,
   fields |-> [k \in DOMAIN struct.fields |-> struct.fields[k].type]]

\* Every struct at its place in the table.
FaultyWriteTypes(structs) == [ok |-> TRUE, lines |-> Map(Line, structs)]
\* Every struct after those it holds; none that holds itself.
WriteTypes(structs) ==
  LET walk == DepthFirst(Map(LAMBDA struct : HeldBy(structs, struct), structs))
  IN  [ok |-> walk.ok /\ \A i \in DOMAIN structs : HoldsKnown(structs, structs[i]),
       lines |-> Map(LAMBDA i : Line(structs[i]), walk.order)]
=============================================================================
