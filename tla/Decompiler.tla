----------------------------- MODULE Decompiler -----------------------------
(***************************************************************************)
(* From a loaded module back to source (bin_decompile.c): the structs and  *)
(* functions by namespace, the bodies from their trees.  The text is a     *)
(* sequence of tokens; spaces and line ends are left out.                  *)
(***************************************************************************)
EXTENDS Loader

\* A type or a function is printed without its namespace.
ValueText(module, node) ==
  CASE node.valueKind = "blob" -> BlobText(module.blobs, node.value)
    [] node.valueKind = "type" -> module.types[node.value].name
    [] node.valueKind = "function" -> module.functions[node.value].name
    [] node.valueKind = "parameter" -> module.parameters[node.value].name
    [] OTHER -> <<>>

\* The texts one after the other, with the token between each two.
Joined(texts, separator) ==
  Fold(LAMBDA text, i : text \o (IF i = 1 THEN <<>> ELSE separator) \o texts[i],
           <<>>, [i \in DOMAIN texts |-> i])

RECURSIVE ExpressionText(_, _), StatementText(_, _)

ListText(module, nodes) ==
  Joined([i \in DOMAIN nodes |-> ExpressionText(module, nodes[i])], <<",">>)

\* The second child of a call is taken for its arguments.
ExpressionText(module, node) ==
  LET own == ValueText(module, node)
      Kid(i) == ExpressionText(module, node.kids[i])
  IN  CASE node.kind \in {"identifier", "type", "literal"} -> own
        [] node.kind = "grouping" -> <<"(">> \o Kid(1) \o <<")">>
        [] node.kind = "call" ->
             Kid(1) \o <<"(">> \o ListText(module, node.kids[2].kids) \o <<")">>
        [] node.kind = "objectLiteral" -> <<"{">> \o ListText(module, node.kids) \o <<"}">>
        [] node.kind = "objectField" -> own \o <<":">> \o Kid(1)
        [] node.kind = "member" -> Kid(1) \o <<".">> \o Kid(2)
        [] node.kind = "index" -> Kid(1) \o <<"[">> \o Kid(2) \o <<"]">>
        [] node.kind \in {"assignment", "binary"} -> Kid(1) \o own \o Kid(2)
        [] node.kind = "unary" -> own \o Kid(1)

BlockText(module, node) ==
  <<"{">> \o Joined([i \in DOMAIN node.kids |-> StatementText(module, node.kids[i])], <<>>)
          \o <<"}">>

\* Whatever comes second is printed as a type.
FaultyDeclarationText(module, node) ==
  LET Kid(i) == ExpressionText(module, node.kids[i])
  IN  <<IF node.keyword = "const" THEN "const" ELSE "let">> \o Kid(1)
        \o (IF Len(node.kids) > 1 THEN <<":">> \o Kid(2) ELSE <<>>)
        \o (IF Len(node.kids) > 2 THEN <<"=">> \o Kid(3) ELSE <<>>) \o <<";">>
DeclarationText(module, node) ==
  LET isTyped == Len(node.kids) > 1 /\ node.kids[2].kind = "type"
      value == IF isTyped THEN 3 ELSE 2
      Kid(i) == ExpressionText(module, node.kids[i])
  IN  <<IF node.keyword = "const" THEN "const" ELSE "let">> \o Kid(1)
        \o (IF isTyped THEN <<":">> \o Kid(2) ELSE <<>>)
        \o (IF Len(node.kids) >= value THEN <<"=">> \o Kid(value) ELSE <<>>)
        \o <<";">>

IfText(module, node) ==
  <<"if", "(">> \o ExpressionText(module, node.kids[1]) \o <<")">>
    \o StatementText(module, node.kids[2])
    \o (IF Len(node.kids) = 3
        THEN <<"else">> \o StatementText(module, node.kids[3]) ELSE <<>>)

ForInText(module, node) ==
  <<"for", "(">> \o ExpressionText(module, node.kids[1])
    \o <<"in", "getEntities", "(">> \o ExpressionText(module, node.kids[2]) \o <<")", ")">>
    \o StatementText(module, node.kids[3])

StatementText(module, node) ==
  CASE node.kind = "block" -> BlockText(module, node)
    [] node.kind = "declaration" -> DeclarationText(module, node)
    [] node.kind = "return" ->
         <<"return">> \o ListText(module, node.kids) \o <<";">>
    [] node.kind = "expression" -> ExpressionText(module, node.kids[1]) \o <<";">>
    [] node.kind = "if" -> IfText(module, node)
    [] node.kind = "forIn" -> ForInText(module, node)
    [] node.kind = "else" -> StatementText(module, node.kids[1])

\* The block is the only child of the root.
BodyText(module, function) ==
  BlockText(module, module.blobs[function.body].body.kids[1])

\* How the source writes the types that are built in.
SourceNames == [Entity |-> "entity", Int32 |-> "i32", UInt32 |-> "u32", UInt64 |-> "u64",
                Float32 |-> "f32", Void |-> "void", Blob |-> "blob", String |-> "string",
                Bool |-> "bool"]
BuiltinName(type) ==
  IF \E name \in DOMAIN SourceNames : type.qualified = Core(name)
  THEN <<SourceNames[type.name[1]]>> ELSE <<>>

\* Short in its own namespace.
TypeText(module, id, namespace) ==
  LET type == module.types[id]
  IN  IF BuiltinName(type) # <<>> THEN BuiltinName(type)
      ELSE IF type.namespace = namespace THEN type.name ELSE type.qualified

AttributeText(module, id, namespace) ==
  LET attribute == module.attributes[id]
      payload == TypePayload(module, attribute)
      data == IF payload # 0 THEN TypeText(module, payload, namespace) ELSE attribute.data
  IN  <<"[">> \o TypeText(module, attribute.type, namespace)
        \o (IF data = <<>> THEN <<>> ELSE <<"(">> \o data \o <<")">>) \o <<"]">>

AttributesText(module, ids, hidden, namespace) ==
  Joined(Map(LAMBDA id : AttributeText(module, id, namespace),
             SelectSeq(ids, LAMBDA id : AttributeType(module, id) \notin hidden)), <<>>)

\* component and attribute stand for the attributes of those names.
StructText(module, definition, namespace) ==
  LET ids == AttributeIds(definition, 0)
      isComponent == IsComponent(module, definition)
      isAttribute == \E k \in DOMAIN ids : AttributeType(module, ids[k]) = Core("Attribute")
      hidden == IF isComponent THEN {Core("Component")} ELSE {Core("Attribute")}
      FieldText(k) ==
        LET field == module.fields[definition.fieldStart - 1 + k]
        IN  field.name \o <<":">> \o TypeText(module, field.type, namespace) \o <<";">>
  IN  AttributesText(module, ids, hidden, namespace)
        \o <<IF isComponent THEN "component" ELSE IF isAttribute THEN "attribute" ELSE "struct">>
        \o module.types[definition.type].name
        \o (IF definition.fieldCount = 0 THEN <<";">>
            ELSE <<"{">> \o Joined([k \in 1..definition.fieldCount |-> FieldText(k)], <<>>)
                         \o <<"}">>)

FunctionText(module, function, namespace) ==
  LET isSystem == HasAttribute(module, function, Core("System"))
      returns == ReturnType(module, function)
      ParameterText(k) ==
        LET parameter == module.parameters[function.parameterStart - 1 + k]
        IN  parameter.name \o <<":">> \o TypeText(module, parameter.type, namespace)
              \o (IF parameter.defaultBlob = 0 THEN <<>>
                  ELSE <<"=">> \o BlobText(module.blobs, parameter.defaultBlob))
  IN  AttributesText(module, AttributeIds(function, 1), {Core("System")}, namespace)
        \o <<IF isSystem THEN "system" ELSE "fn">> \o function.name
        \o <<"(">>
        \o Joined([k \in 1..function.parameterCount |-> ParameterText(k)], <<",">>)
        \o <<")">>
        \o (IF isSystem \/ returns = Core("Void") THEN <<>>
            ELSE <<":">> \o TypeText(module, module.attributes[function.attributeStart].type,
                                     namespace))
        \o (IF function.body = 0 THEN <<";">> ELSE BodyText(module, function))

\* The namespaces in the order they are first met, structs before functions.
Namespaces(module) ==
  Fold(LAMBDA found, name : IF name \in Range(found) THEN found ELSE Append(found, name),
           <<>>,
           Map(LAMBDA s : module.types[s.type].namespace, module.structs)
             \o Map(LAMBDA f : f.namespace, module.functions))

ModuleText(module) ==
  LET Inside(namespace) ==
        Joined(Map(LAMBDA s : StructText(module, s, namespace),
                   SelectSeq(module.structs,
                             LAMBDA s : module.types[s.type].namespace = namespace)), <<>>)
          \o Joined(Map(LAMBDA f : FunctionText(module, f, namespace),
                        SelectSeq(module.functions,
                                  LAMBDA f : f.namespace = namespace)), <<>>)
      NamespaceText(namespace) ==
        IF namespace = <<>> THEN Inside(namespace)
        ELSE <<"namespace">> \o namespace \o <<"{">> \o Inside(namespace) \o <<"}">>
  IN  Joined(Map(NamespaceText, Namespaces(module)), <<>>)
=============================================================================
