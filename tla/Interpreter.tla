----------------------------- MODULE Interpreter -----------------------------
(***************************************************************************)
(* The evaluation of function bodies (managed_runtime.c) with the natives  *)
(* of the core library (lib_core.c), over the trees of a loaded module and *)
(* the rows of an engine.  One call of the engine is one value here: the   *)
(* program has a single thread.  Numbers are exact; the inputs keep them   *)
(* within what a double and the fields can hold.                           *)
(***************************************************************************)
EXTENDS Loader, Integers

CONSTANTS
  Numbers,     \* the value of a literal that is a number
  MaxEntities  \* bound: entities until creating one runs out of memory

(***************************************************************************)
(* Values.  A reference points into a row of a store: to the value at a    *)
(* path of fields, in the block of memory the store had at that time.      *)
(***************************************************************************)
Void == [kind |-> "void"]
Null == [kind |-> "null"]
Bool(b) == [kind |-> "bool", truth |-> b]
Number(n) == [kind |-> "number", number |-> n]
String(blob) == [kind |-> "string", blob |-> blob]
Reference(type, store, row, block, path) ==
  [kind |-> "reference", type |-> type, store |-> store, row |-> row, block |-> block,
   path |-> path]

(***************************************************************************)
(* A machine m: the module, the entities 1 .. m.entities, the stores of    *)
(* its components, what was printed, the numbers rand will give, whether   *)
(* realloc moves a block, and the frame of the running function.  Every    *)
(* evaluation gives one back, with a value unless it failed or used a      *)
(* reference into a block that had been freed.                             *)
(***************************************************************************)
Ok(m, value) == [status |-> "OK", m |-> m, value |-> value]
Error(m) == [status |-> "ERROR", m |-> m]
Freed(m) == [status |-> "FREED", m |-> m]
Then(r, Op(_)) == IF r.status = "OK" THEN Op(r) ELSE r

NewFrame(function, arguments) ==
  [function |-> function, arguments |-> arguments, locals |-> <<>>,
   returned |-> FALSE, result |-> Void]

EmptyStore == [rows |-> <<>>, capacity |-> 0, block |-> 0]

Qualified(m, type) == m.module.types[type].qualified
TextOf(m, node) == BlobText(m.module.blobs, node.value)

\* ecsvm_managed_is_scalar_type_name: what a double can carry.
IsScalar(m, type) ==
  Qualified(m, type) \in {Core(name) : name \in {"Entity", "Int32", "UInt32", "UInt64", "Float32",
                                                 "Bool", "Blob", "String"}}

FieldsOf(m, type) ==
  LET i == StructOfType(m.module, type)
      struct == m.module.structs[i]
  IN  IF i = 0 THEN <<>>
      ELSE SubSeq(m.module.fields, struct.fieldStart, struct.fieldStart + struct.fieldCount - 1)

RECURSIVE Zero(_, _)
Zero(m, type) ==
  IF BuiltinSize(Qualified(m, type)) # 0 THEN 0
  ELSE LET fields == FieldsOf(m, type)
       IN  [name \in {fields[k].name : k \in DOMAIN fields} |->
              Zero(m, fields[SelectInSeq(fields, LAMBDA f : f.name = name)].type)]

\* Fields from the left, each within the one before.
FieldAt(data, path) == Fold(LAMBDA inner, name : inner[name], data, path)
RECURSIVE PutAt(_, _, _)
PutAt(data, path, value) ==
  IF path = <<>> THEN value
  ELSE [data EXCEPT ![Head(path)] = PutAt(@, Tail(path), value)]

(***************************************************************************)
(* Rows.                                                                   *)
(***************************************************************************)
IsComponentType(m, type) ==
  LET i == StructOfType(m.module, type)
  IN  i # 0 /\ IsComponent(m.module, m.module.structs[i])

RowOf(m, type, entity) ==
  SelectInSeq(m.stores[type].rows, LAMBDA row : row.entity = entity)

\* A row at the end; a full store gets a larger block, perhaps elsewhere.
AddRow(m, type, entity) ==
  LET store == m.stores[type]
      full == Len(store.rows) = store.capacity
  IN  [m EXCEPT !.stores[type] =
         [rows |-> Append(store.rows, [entity |-> entity, data |-> Zero(m, type)]),
          capacity |-> IF ~full THEN store.capacity
                       ELSE IF store.capacity = 0 THEN 4 ELSE 2 * store.capacity,
          block |-> IF full /\ m.moves THEN store.block + 1 ELSE store.block]]

\* Only a live entity can be given a row.
ComponentPointer(m, type, entity, create) ==
  LET Pointing(n) ==
        Ok(n, Reference(type, type, RowOf(n, type, entity), n.stores[type].block, <<>>))
  IN  IF ~IsComponentType(m, type) THEN Error(m)
      ELSE IF RowOf(m, type, entity) # 0 THEN Pointing(m)
      ELSE IF create /\ entity \in 1 .. m.entities THEN Pointing(AddRow(m, type, entity))
      ELSE Error(m)

IsFreed(m, reference) == reference.block # m.stores[reference.store].block
Target(m, reference) == m.stores[reference.store].rows[reference.row].data

LoadScalar(m, reference) ==
  LET stored == FieldAt(Target(m, reference), reference.path)
  IN  IF IsFreed(m, reference) THEN Freed(m)
      ELSE Ok(m, IF Qualified(m, reference.type) = Core("Bool") THEN Bool(stored # 0)
                 ELSE Number(stored))

PutValue(m, reference, value) ==
  IF IsFreed(m, reference) THEN Freed(m)
  ELSE Ok([m EXCEPT !.stores[reference.store].rows[reference.row].data =
             PutAt(@, reference.path, value)], Void)

\* Text and references cannot be stored.
StoreScalar(m, reference, value) ==
  LET isBool == Qualified(m, reference.type) = Core("Bool")
      number == IF value.kind = "number" THEN value.number ELSE IF value.truth THEN 1 ELSE 0
  IN  IF value.kind \notin {"bool", "number"} \/ ~IsScalar(m, reference.type) THEN Error(m)
      ELSE PutValue(m, reference, IF isBool /\ number # 0 THEN 1 ELSE number)

\* The value behind a reference to a scalar.
Materialize(m, value) ==
  IF value.kind = "reference" /\ IsScalar(m, value.type) THEN LoadScalar(m, value)
  ELSE Ok(m, value)

IsTruthy(value) ==
  CASE value.kind \in {"void", "null"} -> FALSE
    [] value.kind = "bool" -> value.truth
    [] value.kind = "number" -> value.number # 0
    [] OTHER -> TRUE

(***************************************************************************)
(* Locals are known by the number of their name's blob, all over the       *)
(* function.                                                               *)
(***************************************************************************)
SetLocal(m, name, value, isConst) ==
  [m EXCEPT !.frame.locals = (name :> [value |-> value, isConst |-> isConst]) @@ @]

AssignLocal(m, name, value) ==
  IF name \in DOMAIN m.frame.locals /\ m.frame.locals[name].isConst THEN Error(m)
  ELSE Ok(SetLocal(m, name, value, FALSE), value)

ArgumentIndex(m, node) == node.value - m.module.functions[m.frame.function].parameterStart + 1

EvalIdentifier(m, node) ==
  IF node.valueKind = "parameter" THEN Ok(m, m.frame.arguments[ArgumentIndex(m, node)])
  ELSE IF node.valueKind = "blob" /\ node.value \in DOMAIN m.frame.locals
  THEN Ok(m, m.frame.locals[node.value].value)
  ELSE Error(m)

\* A text that is neither a word, a string nor a number is no value.
EvalLiteral(m, node) ==
  LET text == TextOf(m, node)
      digits == IF Len(text) = 2 /\ text[1] = "-" THEN Tail(text) ELSE text
      IsNumber == Len(digits) = 1 /\ digits[1] \in DOMAIN Numbers
  IN  CASE text = <<"true">> -> Ok(m, Bool(TRUE))
        [] text = <<"false">> -> Ok(m, Bool(FALSE))
        [] text = <<"null">> -> Ok(m, Null)
        [] text \in {<<t>> : t \in DOMAIN Unquoted} -> Ok(m, String(node.value))
        [] IsNumber ->
             Ok(m, Number(IF digits = text THEN Numbers[digits[1]] ELSE -Numbers[digits[1]]))
        [] OTHER -> Error(m)

\* Division: of numbers that have an exact quotient.
FaultyArithmetic(m, operator, a, b) ==
  CASE operator = "+" -> Ok(m, Number(a + b))
    [] operator = "-" -> Ok(m, Number(b - a))
    [] operator = "*" -> Ok(m, Number(a * b))
    [] operator = "/" -> IF b = 0 THEN Error(m) ELSE Ok(m, Number(a \div b))
Arithmetic(m, operator, a, b) ==
  CASE operator = "+" -> Ok(m, Number(a + b))
    [] operator = "-" -> Ok(m, Number(a - b))
    [] operator = "*" -> Ok(m, Number(a * b))
    [] operator = "/" -> IF b = 0 THEN Error(m) ELSE Ok(m, Number(a \div b))

Compared(m, text, a, b) ==
  CASE text = <<"<">> -> Ok(m, Bool(a < b))
    [] text = <<">">> -> Ok(m, Bool(a > b))
    [] text = <<"<", "=">> -> Ok(m, Bool(a <= b))
    [] text = <<">", "=">> -> Ok(m, Bool(a >= b))
    [] OTHER -> Error(m)

ValuesEqual(a, b) == a.kind = b.kind /\ a = b

BinaryValue(m, text, a, b) ==
  LET bothNumbers == a.kind = "number" /\ b.kind = "number"
  IN  CASE text = <<"=", "=">> -> Ok(m, Bool(ValuesEqual(a, b)))
        [] text = <<"!", "=">> -> Ok(m, Bool(~ValuesEqual(a, b)))
        [] text = <<"&", "&">> -> Ok(m, Bool(IsTruthy(a) /\ IsTruthy(b)))
        [] text = <<"|", "|">> -> Ok(m, Bool(IsTruthy(a) \/ IsTruthy(b)))
        [] text \in {<<"+">>, <<"-">>, <<"*">>, <<"/">>} /\ bothNumbers ->
             Arithmetic(m, text[1], a.number, b.number)
        [] OTHER -> IF bothNumbers THEN Compared(m, text, a.number, b.number) ELSE Error(m)

UnaryValue(m, text, operand) ==
  CASE text = <<"!">> -> Ok(m, Bool(~IsTruthy(operand)))
    [] text = <<"+">> -> Ok(m, operand)
    [] text = <<"-">> /\ operand.kind = "number" -> Ok(m, Number(-operand.number))
    [] OTHER -> Error(m)

(***************************************************************************)
(* Expressions.                                                            *)
(***************************************************************************)
RECURSIVE Eval(_, _), ResolveReference(_, _, _), ApplyValue(_, _, _), Execute(_, _),
          VisitFrom(_, _, _), Invoke(_, _, _, _)

\* The field of what a member expression's left side refers to.
ResolveMember(m, node, create) ==
  LET name == TextOf(m, node.kids[2])
      FieldOf(r) ==
        LET fields == FieldsOf(r.m, r.value.type)
            k == SelectInSeq(fields, LAMBDA f : f.name = name)
        IN  IF k = 0 THEN Error(r.m)
            ELSE Ok(r.m, [r.value EXCEPT !.type = fields[k].type, !.path = Append(@, name)])
  IN  IF node.kids[2].kind # "identifier" \/ node.kids[2].valueKind # "blob" THEN Error(m)
      ELSE Then(ResolveReference(m, node.kids[1], create), FieldOf)

\* The row of the entity in the brackets' component.
ResolveIndex(m, node, create) ==
  LET Row(r) == IF r.value.kind = "number"
                THEN ComponentPointer(r.m, node.value, r.value.number, create) ELSE Error(r.m)
      Entity(r) == Then(Materialize(r.m, r.value), Row)
  IN  IF node.valueKind # "type" THEN Error(m) ELSE Then(Eval(m, node.kids[1]), Entity)

ResolveReference(m, node, create) ==
  LET IsReference(r) == IF r.value.kind = "reference" THEN r ELSE Error(r.m)
  IN  CASE node.kind = "identifier" -> Then(EvalIdentifier(m, node), IsReference)
        [] node.kind = "index" -> ResolveIndex(m, node, create)
        [] node.kind = "member" -> ResolveMember(m, node, create)
        [] OTHER -> Error(m)

\* Faulty: the value of a field is looked at only when it is used.
FaultyEvalReference(m, node) == ResolveReference(m, node, FALSE)
\* A scalar is read at once, anything else is referred to.
EvalReference(m, node) ==
  Then(ResolveReference(m, node, FALSE), LAMBDA r : Materialize(r.m, r.value))

EvalUnary(m, node) ==
  LET text == TextOf(m, node)
      Operand(r) == Then(Materialize(r.m, r.value), LAMBDA v : UnaryValue(v.m, text, v.value))
  IN  Then(Eval(m, node.kids[1]), Operand)

\* Both sides, whatever the operator and the left one are.
EvalBinary(m, node) ==
  LET text == TextOf(m, node)
      Both(n, a, b) == Then(Materialize(n, a), LAMBDA l :
                            Then(Materialize(l.m, b), LAMBDA r :
                                 BinaryValue(r.m, text, l.value, r.value)))
      Right(l) == Then(Eval(l.m, node.kids[2]), LAMBDA r : Both(r.m, l.value, r.value))
  IN  Then(Eval(m, node.kids[1]), Right)

\* The fields of a literal, one by one, over zeros.
ApplyObject(m, node, reference) ==
  LET Put(acc, field) ==
        LET name == TextOf(m, field)
            fields == FieldsOf(m, reference.type)
            k == SelectInSeq(fields, LAMBDA f : f.name = name)
            inner == [reference EXCEPT !.type = fields[k].type, !.path = Append(@, name)]
        IN  Then(acc, LAMBDA r : IF k = 0 THEN Error(r.m)
                                 ELSE ApplyValue(r.m, inner, field.kids[1]))
      sized == LET i == StructOfType(m.module, reference.type)
               IN  \/ BuiltinSize(Qualified(m, reference.type)) # 0
                   \/ i # 0 /\ m.module.structs[i].size # 0
  IN  IF ~sized THEN Error(m)
      ELSE Fold(Put, PutValue(m, reference, Zero(m, reference.type)), node.kids)

ApplyValue(m, reference, node) ==
  IF node.kind = "objectLiteral" THEN ApplyObject(m, node, reference)
  ELSE Then(Eval(m, node), LAMBDA r : StoreScalar(r.m, reference, r.value))

\* The target is resolved, and its row made, before the value is evaluated.
EvalAssignment(m, node) ==
  LET target == node.kids[1]
      value == node.kids[2]
      isLiteral == value.kind = "objectLiteral"
      Apply(r) == Then(ApplyValue(r.m, r.value, value),
                       LAMBDA done : Ok(done.m, IF isLiteral THEN r.value ELSE Null))
  IN  IF target.kind = "identifier" /\ target.valueKind = "blob"
      THEN IF isLiteral THEN Error(m)
           ELSE Then(Eval(m, value), LAMBDA r : AssignLocal(r.m, target.value, r.value))
      ELSE Then(ResolveReference(m, target, TRUE), Apply)

CallArgumentLimit == 16

EvalCall(m, node) ==
  LET isGeneric == node.kids[2].kind = "type" /\ node.kids[2].valueKind = "type"
      type == IF isGeneric THEN node.kids[2].value ELSE 0
      list == node.kids[IF isGeneric THEN 3 ELSE 2]
      Argument(acc, i) ==
        Then(acc, LAMBDA r : IF i > CallArgumentLimit THEN Error(r.m)
                             ELSE Then(Eval(r.m, list.kids[i]),
                                       LAMBDA v : Ok(v.m, Append(r.value, v.value))))
      given == Fold(Argument, Ok(m, <<>>), [i \in DOMAIN list.kids |-> i])
  IN  IF node.valueKind # "function" THEN Error(m)
      ELSE Then(given, LAMBDA r : Invoke(r.m, node.value, type, r.value))

Eval(m, node) ==
  CASE node.kind = "identifier" -> EvalIdentifier(m, node)
    [] node.kind = "literal" -> EvalLiteral(m, node)
    [] node.kind = "grouping" -> Eval(m, node.kids[1])
    [] node.kind \in {"index", "member"} -> EvalReference(m, node)
    [] node.kind = "unary" -> EvalUnary(m, node)
    [] node.kind = "binary" -> EvalBinary(m, node)
    [] node.kind = "assignment" -> EvalAssignment(m, node)
    [] node.kind = "call" -> EvalCall(m, node)
    [] OTHER -> Error(m)

(***************************************************************************)
(* Statements.                                                             *)
(***************************************************************************)
\* Faulty: a statement after a return is executed too.
FaultyExecuteBlock(m, node) ==
  Fold(LAMBDA acc, kid : Then(acc, LAMBDA r : Execute(r.m, kid)), Ok(m, Void), node.kids)
ExecuteBlock(m, node) ==
  Fold(LAMBDA acc, kid :
         Then(acc, LAMBDA r : IF r.m.frame.returned THEN r ELSE Execute(r.m, kid)),
       Ok(m, Void), node.kids)

\* Whatever has the name so far is replaced, constant or not.
ExecuteDeclaration(m, node) ==
  LET isTyped == node.kids[2].kind = "type"
      value == IF isTyped THEN 3 ELSE 2
      given == IF Len(node.kids) < value THEN Ok(m, Null) ELSE Eval(m, node.kids[value])
  IN  Then(given, LAMBDA r : Ok(SetLocal(r.m, node.kids[1].value, r.value,
                                         node.keyword = "const"), Void))

ExecuteReturn(m, node) ==
  LET value == IF node.kids = <<>> THEN Ok(m, Void) ELSE Eval(m, node.kids[1])
  IN  Then(value, LAMBDA r : Ok([r.m EXCEPT !.frame.returned = TRUE, !.frame.result = r.value],
                                Void))

ExecuteIf(m, node) ==
  LET Chosen(r) ==
        IF ~IsTruthy(r.value) /\ Len(node.kids) < 3 THEN Ok(r.m, Void)
        ELSE Execute(r.m, IF IsTruthy(r.value) THEN node.kids[2] ELSE node.kids[3].kids[1])
  IN  Then(Eval(m, node.kids[1]),
           LAMBDA r : Then(Materialize(r.m, r.value), Chosen))

\* Faulty: the first entity without the component ends the loop.
FaultyVisitFrom(m, node, entity) ==
  LET visited == SetLocal(m, node.kids[1].value, Number(entity), FALSE)
  IN  IF \/ entity > m.entities \/ m.frame.returned
         \/ RowOf(m, node.kids[2].value, entity) = 0 THEN Ok(m, Void)
      ELSE Then(Execute(visited, node.kids[3]), LAMBDA r : VisitFrom(r.m, node, entity + 1))
\* From the entity on, up to those that there are by then.
VisitFrom(m, node, entity) ==
  LET visited == SetLocal(m, node.kids[1].value, Number(entity), FALSE)
  IN  IF entity > m.entities \/ m.frame.returned THEN Ok(m, Void)
      ELSE IF RowOf(m, node.kids[2].value, entity) = 0 THEN VisitFrom(m, node, entity + 1)
      ELSE Then(Execute(visited, node.kids[3]), LAMBDA r : VisitFrom(r.m, node, entity + 1))

ExecuteForIn(m, node) ==
  IF \/ node.kids[1].kind # "identifier" \/ node.kids[2].valueKind # "type"
     \/ ~IsComponentType(m, node.kids[2].value) THEN Error(m)
  ELSE VisitFrom(m, node, 1)

Execute(m, node) ==
  CASE node.kind = "block" -> ExecuteBlock(m, node)
    [] node.kind = "declaration" -> ExecuteDeclaration(m, node)
    [] node.kind = "return" -> ExecuteReturn(m, node)
    [] node.kind = "expression" -> Eval(m, node.kids[1])
    [] node.kind = "if" -> ExecuteIf(m, node)
    [] node.kind = "forIn" -> ExecuteForIn(m, node)

(***************************************************************************)
(* Calls.                                                                  *)
(***************************************************************************)
MathNatives == {<<"core", ".", "math", ".", name>> : name \in {"min", "max", "clamp", "randomInt"}}
Natives == MathNatives \cup {Core(name) : name \in {"print", "stop", "spawn", "getFirstEntity"}}

\* What follows a reference in print is an empty line.
PrintValue(m, arguments) ==
  IF Len(arguments) # 1 THEN Error(m)
  ELSE Ok([m EXCEPT !.printed =
             Append(@, IF arguments[1].kind = "reference" THEN Void ELSE arguments[1])], Void)

Spawn(m) ==
  IF m.entities = MaxEntities THEN Error(m)
  ELSE Ok([m EXCEPT !.entities = @ + 1], Number(m.entities + 1))

\* A type that is no component has no entity.
GetFirstEntity(m, type) ==
  LET owners == {e \in 1 .. m.entities : RowOf(m, type, e) # 0}
  IN  IF type = 0 THEN Error(m)
      ELSE IF ~IsComponentType(m, type) \/ owners = {} THEN Ok(m, Null)
      ELSE Ok(m, Number(CHOOSE e \in owners : \A f \in owners : e <= f))

\* rand gives the first of m.draws; it is used again after the others.
RandomInt(m, minimum, maximum) ==
  LET rotated == [m EXCEPT !.draws = Append(Tail(@), Head(@))]
  IN  IF maximum < minimum THEN Error(m)
      ELSE Ok(rotated, Number(minimum + (Head(m.draws) % (maximum - minimum + 1))))

MathNative(m, name, a) ==
  LET Lesser(x, y) == IF x < y THEN x ELSE y
      Greater(x, y) == IF x > y THEN x ELSE y
      N(i) == a[i].number
  IN  IF \/ \E i \in DOMAIN a : a[i].kind # "number"
         \/ Len(a) # (IF name = "clamp" THEN 3 ELSE 2) THEN Error(m)
      ELSE CASE name = "min" -> Ok(m, Number(Lesser(N(1), N(2))))
             [] name = "max" -> Ok(m, Number(Greater(N(1), N(2))))
             [] name = "clamp" -> Ok(m, Number(Lesser(Greater(N(1), N(2)), N(3))))
             [] name = "randomInt" -> RandomInt(m, N(1), N(2))

InvokeNative(m, name, type, arguments) ==
  CASE name = Core("print") -> PrintValue(m, arguments)
    [] name \in MathNatives -> MathNative(m, name[5], arguments)
    [] arguments # <<>> -> Error(m)
    [] name = Core("stop") -> Ok([m EXCEPT !.stop = TRUE], Void)
    [] name = Core("spawn") -> Spawn(m)
    [] name = Core("getFirstEntity") -> GetFirstEntity(m, type)

\* Faulty: whether a function has returned is not kept in its frame.
FaultyReturned(called, frame) ==
  LET back == [called EXCEPT !.m.frame = [frame EXCEPT !.returned = called.m.frame.returned]]
  IN  IF called.status = "OK" THEN [back EXCEPT !.value = called.m.frame.result] ELSE back
\* The caller's frame again, with what the function returned.
Returned(called, frame) ==
  LET back == [called EXCEPT !.m.frame = frame]
  IN  IF called.status = "OK" THEN [back EXCEPT !.value = called.m.frame.result] ELSE back

\* Defaults are not filled in: every parameter needs an argument.
Invoke(m, id, type, arguments) ==
  LET function == m.module.functions[id]
      body == m.module.blobs[function.body].body
      framed == [m EXCEPT !.frame = NewFrame(id, arguments)]
  IN  IF function.parameterCount # Len(arguments) THEN Error(m)
      ELSE IF function.qualified \in Natives
      THEN InvokeNative(m, function.qualified, type, arguments)
      ELSE IF function.body = 0 THEN Error(m)
      ELSE Returned(Execute(framed, body.kids[1]), m.frame)
=============================================================================
