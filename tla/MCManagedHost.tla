---------------------------- MODULE MCManagedHost ----------------------------
(***************************************************************************)
(* Small programs for ManagedHost: statements around returns, loops that   *)
(* add rows and entities, references that are kept, expressions of two     *)
(* operators, and one program whose host uses blobs.                       *)
(***************************************************************************)
EXTENDS ManagedHost

Concat(parts) == Fold(LAMBDA a, b : a \o b, <<>>, parts)
Braces(parts) == <<"{">> \o Concat(parts) \o <<"}">>
In(namespace, parts) == <<"namespace">> \o namespace \o Braces(parts)
Alias(quoted) == <<"[", "Alias", "(", quoted, ")", "]">>

CoreFile == In(<<"core">>, <<
  <<"attribute", "Alias", "{", "identifier", ":", "string", ";", "}">>,
  <<"attribute", "Component", ";">>, <<"attribute", "System", ";">>,
  Alias("'entity'"), <<"struct", "Entity", ";">>, Alias("'f32'"), <<"struct", "Float32", ";">>,
  Alias("'bool'"), <<"struct", "Bool", ";">>, Alias("'string'"), <<"struct", "String", ";">>,
  Alias("'void'"), <<"struct", "Void", ";">>,
  <<"fn", "print", "(", "message", ":", "string", ")", ";">>, <<"fn", "stop", "(", ")", ";">>,
  <<"fn", "spawn", "(", ")", ":", "entity", ";">>,
  <<"fn", "getFirstEntity", "(", ")", ":", "entity", ";">>,
  In(<<"math">>, <<
    <<"fn", "min", "(", "a", ":", "f32", ",", "b", ":", "f32", ")", ":", "f32", ";">>,
    <<"fn", "max", "(", "a", ":", "f32", ",", "b", ":", "f32", ")", ":", "f32", ";">>,
    <<"fn", "clamp", "(", "a", ":", "f32", ",", "b", ":", "f32", ",", "c", ":", "f32", ")", ":",
      "f32", ";">>,
    <<"fn", "randomInt", "(", "a", ":", "f32", ",", "b", ":", "f32", ")", ":", "f32", ";">>>>)>>)

Game == In(<<"game">>, <<
  <<"struct", "Point", "{", "x", ":", "f32", ";", "on", ":", "bool", ";", "}">>,
  <<"component", "Ball", "{", "at", ":", "Point", ";", "size", ":", "f32", ";", "name", ":",
    "string", ";", "}">>,
  <<"fn", "grow", "(", ")", ":", "f32", "{", "let", "s", "=", "spawn", "(", ")", ";", "s", "[", "Ball",
    "]", ".", "size", "=", "1", ";", "return", "s", ";", "}">>,
  <<"fn", "sizeOf", "(", "a", ":", "Ball", ")", ":", "f32", "{", "grow", "(", ")", ";", "return", "a",
    ".", "size", ";", "}">>>>)

Program(body) == <<Game, In(<<"game">>, <<<<"system", "Run", "(", ")">> \o Braces(body)>>)>>
Running(body, count) ==
  [files |-> Program(body), expression |-> <<>>, entities |-> count, blobs |-> FALSE]

Say(t) == <<"print", "(", t, ")", ";">>
Ball == <<"[", "Ball", "]">>
Each(body) == <<"for", "(", "e", "in", "getEntities", "(", "Ball", ")", ")">> \o Braces(body)
When(condition, body) == <<"if", "(">> \o condition \o <<")">> \o body
Otherwise(body) == <<"else">> \o body
Leave == <<"return", ";">>

(***************************************************************************)
(* A statement that may return or calls a function that does, between two  *)
(* that print.                                                             *)
(***************************************************************************)
Leaving == {
  Leave, Braces(<<Leave, Say("'in'")>>), Braces(<<Say("'in'")>>),
  When(<<"true">>, Leave), When(<<"0">>, Leave) \o Otherwise(Say("'in'")),
  When(<<"false">>, Leave) \o Otherwise(Braces(<<Braces(<<Leave>>), Say("'in'")>>)),
  Each(<<When(<<"e", "=", "=", "1">>, Leave), Say("'in'")>>),
  Each(<<Leave, Say("'in'")>>),
  <<"return", "print", "(", "'in'", ")", ";">>,
  <<"grow", "(", ")", ";">>, <<"sizeOf", "(", "1", ",", "2", ")", ";">>,
  <<"stop", "(", ")", ";">>}

ReturnBodies == {<<Say("'a'"), first, Say("'b'"), second, Say("'c'")>> :
                 first \in Leaving, second \in Leaving}

(***************************************************************************)
(* Loops that change what they go over.                                    *)
(***************************************************************************)
New == <<"let", "n", "=", "spawn", "(", ")", ";">>
Give(t) == <<t>> \o Ball \o <<".", "size", "=", "2", ";">>
LoopBodies == {
  <<Each(<<Say("e")>>)>>,
  <<Each(<<Say("e"), When(<<"e", "<", "3">>, Braces(<<New, Give("n")>>))>>)>>,
  <<Each(<<Say("e"), When(<<"e", "<", "2">>, Braces(<<New, New, Give("n")>>))>>)>>,
  <<Each(<<Say("e"), When(<<"e", ">", "1">>, Give("1"))>>)>>,
  <<Each(<<Say("e"), When(<<"e", "<", "3">>, Give("3"))>>)>>,
  <<Each(<<Say("e"), When(<<"e", "<", "3">>, <<"grow", "(", ")", ";">>), <<"e", "=", "1", ";">>>>)>>,
  <<Each(<<Say("e"), New, Give("n")>>)>>,
  <<Each(<<Say("e"), Each(<<Say("'in'")>>)>>)>>}

(***************************************************************************)
(* References that are kept while rows are added, and some that are not.   *)
(***************************************************************************)
First == <<"let", "e", "=", "getFirstEntity", "<", "Ball", ">", "(", ")", ";">>
Grow == <<"grow", "(", ")", ";">>
Of(path) == <<"e">> \o Ball \o path
ReferenceBodies == {
  <<First, <<"let", "r", "=">> \o Of(<<";">>), Grow, Say("r"), <<"r", ".", "size", "=", "3", ";">>>>,
  <<First, <<"let", "r", "=">> \o Of(<<".", "at", ";">>), Grow, <<"print", "(", "r", ".", "x", ")", ";">>>>,
  <<First, <<"let", "r", "=">> \o Of(<<".", "size", ";">>), Grow, <<"print", "(", "r", "+", "1", ")", ";">>>>,
  <<First, Of(<<".", "size", "=", "grow", "(", ")", ";">>)>>,
  <<First, Of(<<".", "at", "=", "{", "x", ":", "grow", "(", ")", ",", "on", ":", "2", "}", ";">>)>>,
  <<First, Of(<<"=", "{", "size", ":", "2", ",", "at", ":", "{", "x", ":", "1", "}", "}", ";">>),
    <<"print", "(">> \o Of(<<".", "at", ".", "on", ")", ";">>)>>,
  <<First, Of(<<"=", "{", "size", ":", "2", ",", "none", ":", "1", "}", ";">>)>>,
  <<First, Of(<<".", "size", "=", "'in'", ";">>)>>,
  <<First, <<"print", "(", "sizeOf", "(">> \o Of(<<")", ")", ";">>)>>,
  <<First, <<"print", "(">> \o Of(<<".", "size", "+", "grow", "(", ")", ")", ";">>)>>,
  <<First, When(Of(<<"=", "=">>) \o Of(<<>>), Grow), Give("e"), Grow, Give("e")>>,
  <<First, When(<<"grow", "(", ")", ">", "0">>, Of(<<".", "at", ".", "on", "=", "true", ";">>))>>,
  <<<<"const", "k", "=", "1", ";">>, <<"k", "=", "2", ";">>>>,
  <<<<"const", "k", "=", "1", ";">>, <<"let", "k", "=", "2", ";">>, <<"k", "=", "3", ";">>, Say("k")>>,
  <<<<"print", "(", "math", ".", "clamp", "(", "math", ".", "max", "(", "1", ",", "2", ")", ",", "3",
      ",", "6", ")", "+", "math", ".", "min", "(", "1", ",", "2", ")", ")", ";">>>>,
  <<<<"print", "(", "math", ".", "randomInt", "(", "1", ",", "2", ")", "-", "math", ".", "randomInt",
      "(", "0", ",", "0", ")", ")", ";">>>>,
  <<<<"math", ".", "randomInt", "(", "2", ",", "1", ")", ";">>>>,
  <<<<"print", "(", "getFirstEntity", "<", "Point", ">", "(", ")", "=", "=", "null", ")", ";">>>>}

(***************************************************************************)
(* Expressions.                                                            *)
(***************************************************************************)
Two == {<<"|", "|">>, <<"&", "&">>, <<"=", "=">>, <<"!", "=">>, <<"<">>, <<">", "=">>, <<"+">>,
        <<"-">>, <<"*">>}
Three(a, p, b, q, c) == a \o p \o b \o q \o c
Expressions ==
  UNION {{Three(<<"3">>, p, <<"0">>, q, <<"2">>), Three(<<"1">>, p, <<"(", "2">>, q, <<"1", ")">>),
          Three(<<"-", "2">>, p, <<"!", "true">>, q, <<"+", "3">>)} : p \in Two, q \in Two}
  \cup {<<"6", "/", "2", "/", "3">>, <<"6", "/", "(", "2", "*", "3", ")">>,
        <<"6", "-", "6", "/", "3", "*", "2">>, <<"1", "+", "6", "/", "0">>, <<"3", "%", "2">>}

Printing(expression) ==
  [files |-> Program(<<<<"print", "(">> \o expression \o <<")", ";">>>>),
   expression |-> expression, entities |-> 0, blobs |-> FALSE]

\* A system with a parameter, which no engine takes.
Parameterised ==
  [Running(<<>>, 1) EXCEPT !.files =
     <<Game, In(<<"game">>, <<<<"system", "Run", "(", "a", ":", "f32", ")", "{", "}">>>>)>>]

MCHosts ==
  {Running(body, 1) : body \in ReturnBodies}
    \cup {Running(body, 4) : body \in LoopBodies \cup ReferenceBodies}
    \cup {Printing(expression) : expression \in Expressions}
    \cup {[Running(<<Leave>>, 0) EXCEPT !.blobs = TRUE], Parameterised}

MCTexts == {<<>>, <<1>>}
MCProjects == {h.files : h \in MCHosts}
MCCoreSources == <<CoreFile>>
MCDraws == {<<0, 1>>, <<1, 1>>}
MCLiterals == {"0", "1", "2", "3", "6", "'entity'", "'f32'", "'void'", "'string'", "'bool'",
               "'a'", "'b'", "'c'", "'in'"}
MCNumbers == ("0" :> 0) @@ ("1" :> 1) @@ ("2" :> 2) @@ ("3" :> 3) @@ ("6" :> 6)
MCNames == {
  "Alias", "Ball", "Bool", "Component", "Entity", "Float32", "Point", "Run", "String", "System",
  "Void", "a", "at", "b", "bool", "c", "clamp", "core", "e", "entity", "f32", "game", "getEntities",
  "getFirstEntity", "grow", "identifier", "k", "math", "max", "message", "min", "n", "name",
  "none", "on", "print", "r", "randomInt", "s", "size", "sizeOf", "spawn", "stop", "string",
  "void", "x"}
MCUnquoted == ("'entity'" :> <<"entity">>) @@ ("'f32'" :> <<"f32">>) @@ ("'void'" :> <<"void">>)
  @@ ("'string'" :> <<"string">>) @@ ("'bool'" :> <<"bool">>)
  @@ ("'a'" :> <<"a">>) @@ ("'b'" :> <<"b">>) @@ ("'c'" :> <<"c">>) @@ ("'in'" :> <<"in">>)
=============================================================================
