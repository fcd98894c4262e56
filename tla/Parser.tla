------------------------------- MODULE Parser -------------------------------
(***************************************************************************)
(* The recursive descent of ecs_parser.c: the tokens of one .ecs file give *)
(* a tree, or the place of the first token that does not fit.  A token is  *)
(* its text.  A node knows the range of its tokens, as in the code: the    *)
(* operators are read back from between the ranges of the operands.        *)
(***************************************************************************)
EXTENDS Traversal, SequencesExt

CONSTANTS
  Names,    \* the texts the lexer calls identifiers
  Literals  \* numbers and strings

ASSUME TextsDiffer == Names \cap Literals = {}

\* ECSVM_TOKEN_EOF ends every file; it is never consumed.
At(ts, i) == IF i <= Len(ts) THEN ts[i] ELSE "EOF"

Node(kind, first, last, kids) ==
  [kind |-> kind, first |-> first, last |-> last, kids |-> kids]
Leaf(kind, first, last) == Node(kind, first, last, <<>>)

\* A declaration, an attribute or an import also has a name.
Named(kind, first, last, kids, name) ==
  Node(kind, first, last, kids) @@ [name |-> name]

\* What a parsing function returns: next is parser->index when it does.
Done(node, i) == [ok |-> TRUE, node |-> node, next |-> i]
Fail(i) == [ok |-> FALSE, next |-> i]

\* The rest of a function, unless what it has read so far did not fit.
After(r, Rest(_)) == IF r.ok THEN Rest(r) ELSE r

\* The function went well and the token after it is the expected one.
Expect(ts, r, token) ==
  IF ~r.ok THEN r
  ELSE IF At(ts, r.next) = token THEN [r EXCEPT !.next = @ + 1] ELSE Fail(r.next)

\* What r reads, as a list, if it is there; an empty list otherwise.
Optional(isThere, r, i) ==
  IF isThere THEN After(r, LAMBDA one : Done(<<one.node>>, one.next)) ELSE Done(<<>>, i)

\* A list or block: one more child, and its end at the closing token.
With(list, kid) == [list EXCEPT !.kids = Append(@, kid)]
Closed(ts, list, i, token) ==
  IF At(ts, i) = token THEN Done([list EXCEPT !.last = i], i + 1) ELSE Fail(i)

\* One identifier, or identifiers joined by dots.
Identifier(ts, i, kind) ==
  IF At(ts, i) \in Names THEN Done(Leaf(kind, i, i), i + 1) ELSE Fail(i)

RECURSIVE QualifiedEnd(_, _)
QualifiedEnd(ts, i) ==
  IF At(ts, i) \notin Names THEN Fail(i)
  ELSE IF At(ts, i + 1) = "." THEN QualifiedEnd(ts, i + 2) ELSE Done({}, i + 1)

QualifiedName(ts, i, kind) ==
  After(QualifiedEnd(ts, i), LAMBDA end : Done(Leaf(kind, i, end.next - 1), end.next))

TypeExpression(ts, i) == QualifiedName(ts, i, "type")

\* The name in a range of tokens, its dots included.
NameOf(ts, node) == SubSeq(ts, node.first, node.last)

IsLiteral(t) == t \in Literals \cup {"true", "false", "null"}
IsUnary(t) == t \in {"!", "+", "-", "~"}

(***************************************************************************)
(* A "<" opens a generic call if the ">" that closes it is followed by "(" *)
(* before any ; { or }.                                                    *)
(***************************************************************************)
RECURSIVE ClosesBeforeCall(_, _, _)
ClosesBeforeCall(ts, i, depth) ==
  LET t == At(ts, i)
  IN  CASE t = "<" -> ClosesBeforeCall(ts, i + 1, depth + 1)
        [] t = ">" -> IF depth = 1 THEN At(ts, i + 1) = "("
                      ELSE ClosesBeforeCall(ts, i + 1, depth - 1)
        [] t \in {"EOF", ";", "{", "}"} -> FALSE
        [] OTHER -> ClosesBeforeCall(ts, i + 1, depth)

IsGenericCall(ts, i) == At(ts, i) = "<" /\ ClosesBeforeCall(ts, i, 0)

(***************************************************************************)
(* Binary operators by the function that reads them: how many tokens of an *)
(* operator of that level stand at i, 0 for none.                          *)
(***************************************************************************)
Pair(ts, i, first, second) == At(ts, i) = first /\ At(ts, i + 1) = second
Multiplicative(ts, i) == IF At(ts, i) \in {"*", "/", "%"} THEN 1 ELSE 0
Additive(ts, i) == IF At(ts, i) \in {"+", "-"} THEN 1 ELSE 0
Comparison(ts, i) ==
  IF At(ts, i) \notin {"<", ">"} THEN 0 ELSE IF At(ts, i + 1) = "=" THEN 2 ELSE 1
Equality(ts, i) ==
  IF Pair(ts, i, "=", "=") \/ Pair(ts, i, "!", "=") THEN 2 ELSE 0
LogicalAnd(ts, i) == IF Pair(ts, i, "&", "&") THEN 2 ELSE 0
LogicalOr(ts, i) == IF Pair(ts, i, "|", "|") THEN 2 ELSE 0

\* 1 binds least.
Width(ts, i, level) ==
  CASE level = 1 -> LogicalOr(ts, i)
    [] level = 2 -> LogicalAnd(ts, i)
    [] level = 3 -> Equality(ts, i)
    [] level = 4 -> Comparison(ts, i)
    [] level = 5 -> Additive(ts, i)
    [] level = 6 -> Multiplicative(ts, i)

RECURSIVE Expression(_, _), Arguments(_, _, _), ObjectFields(_, _, _),
          Postfix(_, _), Unary(_, _), Level(_, _, _), Chain(_, _, _),
          Statement(_, _), Statements(_, _, _)

\* list: what there is of it so far.
Arguments(ts, i, list) ==
  LET Rest(value) ==
        IF At(ts, value.next) = "," THEN Arguments(ts, value.next + 1, With(list, value.node))
        ELSE Closed(ts, With(list, value.node), value.next, ")")
  IN  IF At(ts, i) \in {")", "EOF"} THEN Closed(ts, list, i, ")")
      ELSE After(Expression(ts, i), Rest)

ArgumentList(ts, i) ==
  IF At(ts, i) = "(" THEN Arguments(ts, i + 1, Leaf("arguments", i, i)) ELSE Fail(i)

ObjectField(ts, i) ==
  After(Expect(ts, Identifier(ts, i, "identifier"), ":"), LAMBDA colon :
  After(Expression(ts, colon.next), LAMBDA value :
    Done(Node("objectField", i, value.node.last, <<value.node>>), value.next)))

\* As a list of arguments does, a literal may end in a comma.
ObjectFields(ts, i, literal) ==
  LET Rest(field) ==
        IF At(ts, field.next) # "," THEN Closed(ts, With(literal, field.node), field.next, "}")
        ELSE ObjectFields(ts, field.next + 1, With(literal, field.node))
  IN  IF At(ts, i) = "}" THEN Closed(ts, literal, i, "}") ELSE After(ObjectField(ts, i), Rest)

Grouping(ts, i) ==
  After(Expect(ts, Expression(ts, i + 1), ")"), LAMBDA inner :
    Done(Node("grouping", i, inner.next - 1, <<inner.node>>), inner.next))

Primary(ts, i) ==
  LET t == At(ts, i)
  IN  CASE t \in Names -> Identifier(ts, i, "identifier")
        [] IsLiteral(t) -> Done(Leaf("literal", i, i), i + 1)
        [] t = "(" -> Grouping(ts, i)
        [] t = "{" -> ObjectFields(ts, i + 1, Leaf("objectLiteral", i, i))
        [] OTHER -> Fail(i)

Member(ts, left) ==
  After(Identifier(ts, left.next + 1, "identifier"), LAMBDA name :
    Done(Node("member", left.node.first, name.node.last, <<left.node, name.node>>), name.next))

Index(ts, left) ==
  After(Expect(ts, Expression(ts, left.next + 1), "]"), LAMBDA inner :
    Done(Node("index", left.node.first, inner.next - 1, <<left.node, inner.node>>), inner.next))

Call(ts, left) ==
  LET type == Expect(ts, TypeExpression(ts, left.next + 1), ">")
  IN  After(Optional(At(ts, left.next) = "<", type, left.next), LAMBDA types :
      After(ArgumentList(ts, types.next), LAMBDA list :
        Done(Node("call", left.node.first, list.node.last,
                  <<left.node>> \o types.node \o <<list.node>>), list.next)))

Postfix(ts, left) ==
  LET t == At(ts, left.next)
  IN  IF ~left.ok THEN left
      ELSE IF t = "." THEN Postfix(ts, Member(ts, left))
      ELSE IF t = "[" THEN Postfix(ts, Index(ts, left))
      ELSE IF t = "(" \/ IsGenericCall(ts, left.next) THEN Postfix(ts, Call(ts, left))
      ELSE left

Unary(ts, i) ==
  IF ~IsUnary(At(ts, i)) THEN Postfix(ts, Primary(ts, i))
  ELSE After(Unary(ts, i + 1), LAMBDA operand :
         Done(Node("unary", i, operand.node.last, <<operand.node>>), operand.next))

\* Operands of one level, left to right, joined while its operators follow.
Level(ts, i, level) ==
  IF level > 6 THEN Unary(ts, i) ELSE Chain(ts, Level(ts, i, level + 1), level)
Joining(kind, left, right) ==
  Done(Node(kind, left.node.first, right.node.last, <<left.node, right.node>>), right.next)
\* The right operand read at the operator's own level.
FaultyChain(ts, left, level) ==
  LET width == Width(ts, left.next, level)
  IN  IF ~left.ok \/ width = 0 THEN left
      ELSE After(Level(ts, left.next + width, level), LAMBDA right :
             Chain(ts, Joining("binary", left, right), level))
Chain(ts, left, level) ==
  LET width == Width(ts, left.next, level)
  IN  IF ~left.ok \/ width = 0 THEN left
      ELSE After(Level(ts, left.next + width, level + 1), LAMBDA right :
             Chain(ts, Joining("binary", left, right), level))

\* Assignment binds least of all and to the right.
Expression(ts, i) ==
  After(Level(ts, i, 1), LAMBDA left :
    IF At(ts, left.next) # "=" \/ At(ts, left.next + 1) = "=" THEN left
    ELSE After(Expression(ts, left.next + 1), LAMBDA right :
           Joining("assignment", left, right)))

(***************************************************************************)
(* Statements.  The keyword is at i unless the comment says otherwise.     *)
(***************************************************************************)
\* A constant needs a value, a variable a type or a value.
Declaration(ts, i) ==
  After(Identifier(ts, i + 1, "identifier"), LAMBDA name :
  After(Optional(At(ts, name.next) = ":", TypeExpression(ts, name.next + 1), name.next),
        LAMBDA type :
  After(Optional(At(ts, type.next) = "=", Expression(ts, type.next + 1), type.next),
        LAMBDA value :
    IF \/ value.node = <<>> /\ (type.node = <<>> \/ ts[i] = "const")
       \/ At(ts, value.next) # ";" THEN Fail(value.next)
    ELSE Done(Node("declaration", i, value.next, <<name.node>> \o type.node \o value.node),
              value.next + 1))))

Return(ts, i) ==
  IF At(ts, i + 1) = ";" THEN Done(Leaf("return", i, i + 1), i + 2)
  ELSE After(Expect(ts, Expression(ts, i + 1), ";"), LAMBDA value :
         Done(Node("return", i, value.next - 1, <<value.node>>), value.next))

Else(ts, i) ==
  After(Statement(ts, i + 1), LAMBDA body :
    Done(Node("else", i, body.node.last, <<body.node>>), body.next))

If(ts, i) ==
  After(Expect(ts, Done({}, i + 1), "("), LAMBDA open :
  After(Expect(ts, Expression(ts, open.next), ")"), LAMBDA condition :
  After(Statement(ts, condition.next), LAMBDA then :
  After(Optional(At(ts, then.next) = "else", Else(ts, then.next), then.next), LAMBDA else :
    Done(Node("if", i, else.next - 1, <<condition.node, then.node>> \o else.node), else.next)))))

ForIn(ts, i) ==
  After(Expect(ts, Done({}, i + 1), "("), LAMBDA open :
  After(Expect(ts, Identifier(ts, open.next, "identifier"), "in"), LAMBDA name :
  After(Expect(ts, Expect(ts, Done({}, name.next), "getEntities"), "("), LAMBDA each :
  After(Expect(ts, Expect(ts, TypeExpression(ts, each.next), ")"), ")"), LAMBDA type :
  After(Statement(ts, type.next), LAMBDA body :
    Done(Node("forIn", i, body.node.last, <<name.node, type.node, body.node>>), body.next))))))

ExpressionStatement(ts, i) ==
  After(Expect(ts, Expression(ts, i), ";"), LAMBDA value :
    Done(Node("expression", i, value.next - 1, <<value.node>>), value.next))

\* block: what there is of it before i.
Statements(ts, i, block) ==
  IF At(ts, i) \in {"}", "EOF"} THEN Closed(ts, block, i, "}")
  ELSE After(Statement(ts, i), LAMBDA one : Statements(ts, one.next, With(block, one.node)))

Block(ts, i) ==
  IF At(ts, i) = "{" THEN Statements(ts, i + 1, Leaf("block", i, i)) ELSE Fail(i)

Statement(ts, i) ==
  LET t == At(ts, i)
  IN  CASE t = "{" -> Block(ts, i)
        [] t = "if" -> If(ts, i)
        [] t = "for" -> ForIn(ts, i)
        [] t = "return" -> Return(ts, i)
        [] t \in {"let", "const"} -> Declaration(ts, i)
        [] OTHER -> ExpressionStatement(ts, i)
=============================================================================
