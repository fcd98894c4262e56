------------------------------- MODULE Loader -------------------------------
(***************************************************************************)
(* Reading an .ecsbin file (bin.c): every number in it is checked against  *)
(* the tables before it is followed, then the structs are laid out.  The   *)
(* accessors that the project build, the engine and the decompiler use on  *)
(* a loaded module, and the import of the core library into a build        *)
(* (project.c), are here too.                                              *)
(***************************************************************************)
EXTENDS ModuleTables

Refused == [ok |-> FALSE]

\* A reference that may not be missing.
IsRef(rows, id) == id \in 1..Len(rows)

\* count rows from start on, the last one not among them.
FaultyIsRange(rows, start, count) ==
  IF count = 0 THEN start = 0 ELSE start # 0 /\ start + count <= Len(rows)
\* count rows from start on; none start nowhere.
IsRange(rows, start, count) ==
  IF count = 0 THEN start = 0 ELSE start # 0 /\ start - 1 + count <= Len(rows)

\* fseek and fread of a whole section.
SectionReads(file, s) ==
  file.count[s] > 0 => file.offset[s] + file.count[s] <= file.size

BlobDataOffset(file) == file.offset["blobs"] + file.count["blobs"]

\* The ranges are not compared with what the file holds.
FaultyBlobsRead(file) == BlobDataOffset(file) <= file.size /\ SectionReads(file, "blobs")
BlobsRead(file) ==
  /\ BlobDataOffset(file) <= file.size
  /\ SectionReads(file, "blobs")
  /\ \A i \in DOMAIN file.ranges :
       BlobDataOffset(file) + file.ranges[i].offset + file.ranges[i].length <= file.size

\* Any blob can be read as text; the bytes of a number or of a body are none
\* that a name has.
BlobText(blobs, id) == IF "text" \in DOMAIN blobs[id] THEN blobs[id].text ELSE <<"bytes">>

TypesRead(file) ==
  /\ SectionReads(file, "types")
  /\ \A i \in DOMAIN file.rows.types :
       /\ IsRef(file.rows.blobs, file.rows.types[i].namespaceBlob)
       /\ IsRef(file.rows.blobs, file.rows.types[i].nameBlob)

FieldsRead(file) ==
  /\ SectionReads(file, "fields")
  /\ \A i \in DOMAIN file.rows.fields :
       /\ IsRef(file.rows.blobs, file.rows.fields[i].nameBlob)
       /\ IsRef(file.rows.types, file.rows.fields[i].type)

FunctionsRead(file) ==
  /\ SectionReads(file, "functions")
  /\ \A i \in DOMAIN file.rows.functions :
       LET function == file.rows.functions[i]
       IN  /\ IsRef(file.rows.blobs, function.namespaceBlob)
           /\ IsRef(file.rows.blobs, function.nameBlob)
           /\ function.body <= Len(file.rows.blobs)

ParametersRead(file) ==
  /\ SectionReads(file, "parameters")
  /\ \A i \in DOMAIN file.rows.parameters :
       LET parameter == file.rows.parameters[i]
       IN  /\ IsRef(file.rows.blobs, parameter.nameBlob)
           /\ IsRef(file.rows.types, parameter.type)
           /\ parameter.defaultBlob <= Len(file.rows.blobs)

StructsRead(file) ==
  /\ SectionReads(file, "structs")
  /\ \A i \in DOMAIN file.rows.structs : IsRef(file.rows.types, file.rows.structs[i].type)

FieldDefsRead(file) ==
  /\ SectionReads(file, "fieldDefs")
  /\ \A i \in DOMAIN file.rows.fieldDefs :
       IsRef(file.rows.fields, file.rows.fieldDefs[i].field)

AttributesRead(file) ==
  /\ SectionReads(file, "attributes")
  /\ \A i \in DOMAIN file.rows.attributes :
       /\ IsRef(file.rows.types, file.rows.attributes[i].type)
       /\ IsRef(file.rows.blobs, file.rows.attributes[i].data)

RangesFit(rows) ==
  LET Carry(items) ==
        \A i \in DOMAIN items :
          IsRange(rows.attributes, items[i].attributeStart, items[i].attributeCount)
  IN  /\ Carry(rows.fieldDefs) /\ Carry(rows.parameters)
      /\ Carry(rows.structs) /\ Carry(rows.functions)
      /\ \A i \in DOMAIN rows.structs :
           IsRange(rows.fields, rows.structs[i].fieldStart, rows.structs[i].fieldCount)
      /\ \A i \in DOMAIN rows.functions :
           IsRange(rows.parameters, rows.functions[i].parameterStart,
                   rows.functions[i].parameterCount)

\* What is checked before any struct is laid out.  A file of one record has its
\* header.
Readable(file) ==
  /\ file.size >= 1
  /\ BlobsRead(file) /\ TypesRead(file) /\ FieldsRead(file)
  /\ FunctionsRead(file) /\ ParametersRead(file) /\ StructsRead(file)
  /\ FieldDefsRead(file) /\ AttributesRead(file)
  /\ RangesFit(file.rows)

(***************************************************************************)
(* The module: the rows with the texts of their blobs, and the layouts.    *)
(***************************************************************************)
FullName(rows, row) ==
  LET namespace == BlobText(rows.blobs, row.namespaceBlob)
      name == BlobText(rows.blobs, row.nameBlob)
  IN  [namespace |-> namespace, name |-> name, qualified |-> Join(namespace, name)]

NamedRows(rows) ==
  LET NameOf1(row) == BlobText(rows.blobs, row.nameBlob)
      Type1(row) == FullName(rows, row)
      Field1(row) == [name |-> NameOf1(row), type |-> row.type]
      Attribute1(row) == [type |-> row.type, blob |-> row.data,
                          data |-> BlobText(rows.blobs, row.data)]
      Parameter1(row) == [name |-> NameOf1(row), type |-> row.type,
                          defaultBlob |-> row.defaultBlob]
      Function1(row) ==
        LET full == FullName(rows, row)
        IN  [namespace |-> full.namespace, name |-> full.name, qualified |-> full.qualified,
             parameterStart |-> row.parameterStart, parameterCount |-> row.parameterCount,
             attributeStart |-> row.attributeStart, attributeCount |-> row.attributeCount,
             body |-> row.body]
  IN  [rows EXCEPT !.types = Map(Type1, @), !.fields = Map(Field1, @),
                   !.functions = Map(Function1, @), !.parameters = Map(Parameter1, @),
                   !.attributes = Map(Attribute1, @)]

StructOfType(module, type) == SelectInSeq(module.structs, LAMBDA s : s.type = type)

FieldTypes(module, definition) ==
  [k \in 1..definition.fieldCount |-> module.fields[definition.fieldStart - 1 + k].type]

\* 0 for what is built in or no struct of the module.
HeldByRow(module, definition) ==
  LET Held(type) == IF BuiltinSize(module.types[type].qualified) # 0 THEN 0
                    ELSE StructOfType(module, type)
  IN  Map(Held, FieldTypes(module, definition))

HoldsOwn(module, definition) ==
  \A k \in DOMAIN FieldTypes(module, definition) :
    LET type == FieldTypes(module, definition)[k]
    IN  BuiltinSize(module.types[type].qualified) # 0 \/ StructOfType(module, type) # 0

\* layouts: those of the structs that are finished.
SizeStruct(module, layouts, i) ==
  LET LayoutOf(type) ==
        LET qualified == module.types[type].qualified
        IN  IF BuiltinSize(qualified) # 0 THEN BuiltinLayout(qualified)
            ELSE layouts[StructOfType(module, type)]
      placed == Fold(LAMBDA at, type : Place(at, LayoutOf(type)), NothingYet,
                     FieldTypes(module, module.structs[i]))
  IN  [layouts EXCEPT ![i] = Padded(placed)]

Sized(module, order) ==
  LET layouts == Fold(LAMBDA acc, i : SizeStruct(module, acc, i),
                      [i \in DOMAIN module.structs |-> NothingYet], order)
      SizedRow(row, layout) ==
        [type |-> row.type, isComponent |-> row.isComponent,
         fieldStart |-> row.fieldStart, fieldCount |-> row.fieldCount,
         attributeStart |-> row.attributeStart, attributeCount |-> row.attributeCount,
         size |-> layout.size, alignment |-> layout.alignment]
  IN  [module EXCEPT !.structs = [i \in DOMAIN @ |-> SizedRow(@[i], layouts[i])]]

LoadFile(file) ==
  LET module == NamedRows(file.rows)
      walk == DepthFirst(Map(LAMBDA definition : HeldByRow(module, definition), module.structs))
      isSound == walk.ok /\ \A i \in DOMAIN module.structs : HoldsOwn(module, module.structs[i])
  IN  IF ~Readable(file) \/ ~isSound THEN Refused
      ELSE [ok |-> TRUE, module |-> Sized(module, walk.order)]

(***************************************************************************)
(* Accessors.                                                              *)
(***************************************************************************)
AttributeType(module, id) == module.types[module.attributes[id].type].qualified

ReturnType(module, function) ==
  IF function.attributeCount = 0 THEN <<>> ELSE AttributeType(module, function.attributeStart)

ExpectsTypePayload(module, attribute) ==
  LET i == StructOfType(module, attribute.type)
      definition == module.structs[i]
  IN  /\ i # 0
      /\ definition.fieldCount = 1
      /\ module.types[module.fields[definition.fieldStart].type].qualified = Core("Type")

\* The number of the type in the payload; 0 if it is not one.
TypePayload(module, attribute) ==
  LET blob == module.blobs[attribute.blob]
  IN  IF /\ ExpectsTypePayload(module, attribute)
         /\ "type" \in DOMAIN blob
         /\ IsRef(module.types, blob.type)
      THEN blob.type ELSE 0

\* Slot 0 of a function is given out too.
FaultyAttributeIds(item, first) ==
  [k \in 1..item.attributeCount |-> item.attributeStart + k - 1]
\* Slot 0 of a function is its return type.
AttributeIds(item, first) ==
  [k \in 1..(item.attributeCount - first) |-> item.attributeStart + first + k - 1]

HasAttribute(module, function, name) ==
  \E k \in DOMAIN AttributeIds(function, 1) :
    AttributeType(module, AttributeIds(function, 1)[k]) = name

\* The data of the first attribute of that name; empty if there is none.
AttributeData(module, function, name) ==
  LET ids == SelectSeq(AttributeIds(function, 1),
                       LAMBDA id : AttributeType(module, id) = name)
      attribute == module.attributes[ids[1]]
      payload == TypePayload(module, attribute)
  IN  IF ids = <<>> THEN <<>>
      ELSE IF payload # 0 THEN module.types[payload].qualified ELSE attribute.data

\* Only the flag of the definition counts.
FaultyIsComponent(module, definition) == definition.isComponent
IsComponent(module, definition) ==
  \/ definition.isComponent
  \/ \E k \in DOMAIN AttributeIds(definition, 0) :
       AttributeType(module, AttributeIds(definition, 0)[k]) = Core("Component")

\* What the engine registers, in order, up to the first component that has no
\* size; hierarchy is the size of the engine's own core.Hierarchy.
RegisterComponents(module, hierarchy) ==
  LET Register(acc, definition) ==
        LET name == module.types[definition.type].qualified
            fits == /\ definition.size # 0
                    /\ name = Core("Hierarchy") => definition.size = hierarchy
        IN  IF ~acc.ok \/ ~IsComponent(module, definition) THEN acc
            ELSE IF ~fits THEN [acc EXCEPT !.ok = FALSE]
            ELSE [acc EXCEPT !.names = Append(@, name)]
  IN  Fold(Register, [ok |-> TRUE, names |-> <<>>], module.structs)

(***************************************************************************)
(* The core library in a build.  What the project declares itself is left  *)
(* out; bodies are not imported.                                           *)
(***************************************************************************)
ImportConstants(sem, constants) ==
  [sem EXCEPT !.constants =
     @ \o SelectSeq(constants, LAMBDA c : FindExact(sem.constants, c.qualified) = 0)]

ImportAttributeData(module, attribute) ==
  LET payload == TypePayload(module, attribute)
  IN  IF ~ExpectsTypePayload(module, attribute) THEN attribute.data
      ELSE IF payload = 0 THEN <<>> ELSE module.types[payload].qualified

ImportAttributes(module, item, first) ==
  LET Imported(id) == [name |-> AttributeType(module, id),
                       data |-> ImportAttributeData(module, module.attributes[id])]
  IN  Map(Imported, AttributeIds(item, first))

\* A type payload may not be missing in the core library.
PayloadsPresent(module, item, first) ==
  \A k \in DOMAIN AttributeIds(item, first) :
    LET attribute == module.attributes[AttributeIds(item, first)[k]]
    IN  ExpectsTypePayload(module, attribute) => ImportAttributeData(module, attribute) # <<>>

ImportStruct(module, sem, definition) ==
  LET type == module.types[definition.type]
      attributes == ImportAttributes(module, definition, 0)
      FieldAt(k) == module.fields[definition.fieldStart - 1 + k]
      struct == [namespace |-> type.namespace, name |-> type.name,
                 qualified |-> type.qualified,
                 isComponent |-> \/ IsComponent(module, definition)
                                 \/ \E k \in DOMAIN attributes :
                                      attributes[k].name = Core("Component"),
                 attributes |-> attributes,
                 fields |-> [k \in 1..definition.fieldCount |->
                               [name |-> FieldAt(k).name,
                                type |-> module.types[FieldAt(k).type].qualified]],
                 layout |-> IF definition.size = 0 THEN "none" ELSE "done",
                 size |-> definition.size, alignment |-> definition.alignment]
  IN  IF ~sem.ok \/ FindExact(sem.structs, type.qualified) # 0 THEN sem
      ELSE IF ~PayloadsPresent(module, definition, 0) THEN Failed(sem)
      ELSE [sem EXCEPT !.structs = Append(@, struct)]

ImportFunction(module, sem, function) ==
  LET ParameterAt(k) == module.parameters[function.parameterStart - 1 + k]
      imported == [namespace |-> function.namespace, name |-> function.name,
                   qualified |-> function.qualified,
                   returns |-> ReturnType(module, function),
                   parameters |-> [k \in 1..function.parameterCount |->
                      [name |-> ParameterAt(k).name,
                       type |-> module.types[ParameterAt(k).type].qualified,
                       default |-> IF ParameterAt(k).defaultBlob = 0 THEN <<>>
                                   ELSE BlobText(module.blobs, ParameterAt(k).defaultBlob)]],
                   attributes |-> ImportAttributes(module, function, 1),
                   source |-> <<>>, body |-> <<>>]
  IN  IF ~sem.ok \/ FindExact(sem.functions, function.qualified) # 0 THEN sem
      ELSE IF imported.returns = <<>> \/ ~PayloadsPresent(module, function, 1) THEN Failed(sem)
      ELSE [sem EXCEPT !.functions = Append(@, imported)]

\* core: its constants, read from its sources, and its module.
ImportCore(sem, core) ==
  LET structs == Fold(LAMBDA acc, s : ImportStruct(core.module, acc, s),
                          ImportConstants(sem, core.constants), core.module.structs)
  IN  Fold(LAMBDA acc, f : ImportFunction(core.module, acc, f),
               structs, core.module.functions)

\* A payload that should be a type and is not ends the decompilation (bin_decompile.c).
CanDecompile(module) ==
  /\ \A i \in DOMAIN module.structs : PayloadsPresent(module, module.structs[i], 0)
  /\ \A i \in DOMAIN module.functions :
       /\ PayloadsPresent(module, module.functions[i], 1)
       /\ ReturnType(module, module.functions[i]) # <<>>
=============================================================================
