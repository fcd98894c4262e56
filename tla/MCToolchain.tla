----------------------------- MODULE MCToolchain -----------------------------
(***************************************************************************)
(* Small projects for Toolchain: every pair of the files in FilesA, which  *)
(* use each other's names, and one function with every body in Bodies.     *)
(***************************************************************************)
EXTENDS Toolchain

Concat(parts) == Fold(LAMBDA a, b : a \o b, <<>>, parts)
In(namespace, parts) == <<"namespace">> \o namespace \o <<"{">> \o Concat(parts) \o <<"}">>
Has(name, type) == <<name, ":">> \o type \o <<";">>
Struct(kind, name, fields) == <<kind, name, "{">> \o Concat(fields) \o <<"}">>
Mark(attribute) == <<"[">> \o attribute \o <<"]">>
Alias(quoted) == Mark(<<"Alias", "(", quoted, ")">>)

(***************************************************************************)
(* The core library, cut to what the projects use.                         *)
(***************************************************************************)
CoreAttributes == In(<<"core">>, <<
  Struct("attribute", "Alias", <<Has("identifier", <<"string">>)>>),
  <<"attribute", "Attribute", ";">>, <<"attribute", "Component", ";">>,
  <<"attribute", "System", ";">>,
  Struct("attribute", "Before", <<Has("type", <<"Type">>)>>)>>)

CoreComponents == In(<<"core">>, <<
  Alias("'vec2'"), Struct("struct", "Vector2", <<Has("x", <<"f32">>), Has("y", <<"f32">>)>>),
  Struct("component", "Transform", <<Has("position", <<"vec2">>), Has("scale", <<"vec2">>)>>),
  Struct("component", "Hierarchy", <<Has("parent", <<"entity">>), Has("first", <<"entity">>),
                                     Has("next", <<"entity">>)>>),
  In(<<"ui">>, <<<<"const", "WIDE", ":", "i32", "=", "1", ";">>,
                 Struct("component", "Window", <<Has("closing", <<"bool">>),
                                                 Has("stamp", <<"u64">>),
                                                 Has("width", <<"i32">>)>>)>>)>>)

CorePrimitives == In(<<"core">>, <<
  <<"struct", "Type", ";">>,
  Alias("'entity'"), <<"struct", "Entity", ";">>, Alias("'i32'"), <<"struct", "Int32", ";">>,
  Alias("'u64'"), <<"struct", "UInt64", ";">>, Alias("'f32'"), <<"struct", "Float32", ";">>,
  Alias("'void'"), <<"struct", "Void", ";">>, Alias("'string'"), <<"struct", "String", ";">>,
  Alias("'bool'"), <<"struct", "Bool", ";">>>>)

CoreRuntime == In(<<"core">>, <<
  <<"fn", "print", "(", "message", ":", "string", ")", ";">>,
  <<"fn", "spawn", "(", ")", ":", "entity", ";">>,
  <<"system", "Time", "(", ")", ";">>>>)

MCCoreSources == <<CoreAttributes, CoreComponents, CorePrimitives, CoreRuntime>>

(***************************************************************************)
(* Files that declare and use types.                                       *)
(***************************************************************************)
Game(parts) == In(<<"game">>, parts)
Lib(parts) == In(<<"lib">>, parts)

FilesA == {
  Game(<<Struct("component", "Ball", <<Has("at", <<"vec2">>), Has("owner", <<"entity">>)>>),
         Struct("struct", "Box", <<Has("low", <<"Vector2">>), Has("ball", <<"Ball">>)>>)>>),
  Game(<<Struct("struct", "Box", <<Has("part", <<"Part">>), Has("on", <<"bool">>)>>)>>),
  Lib(<<Struct("struct", "Part", <<Has("size", <<"f32">>), Has("t", <<"Transform">>)>>)>>),
  Game(<<Struct("struct", "Part", <<Has("box", <<"Box">>)>>)>>),
  Lib(<<Struct("component", "Box", <<Has("part", <<"game", ".", "Part">>)>>)>>),
  In(<<"core">>, <<Struct("struct", "Vector2", <<Has("t", <<"Transform">>)>>)>>),
  In(<<"core">>, <<Struct("component", "Hierarchy", <<Has("parent", <<"entity">>)>>)>>),
  Game(<<<<"component", "Marker", ";">>>>),
  Game(<<Mark(<<"Component">>),
         Struct("struct", "Part", <<Has("size", <<"i32">>)>>)>>),
  Game(<<Mark(<<"Before", "(", "Move", ")">>), <<"system", "Early", "(", ")", "{", "}">>,
         Mark(<<"Before", "<", "Time", ">">>), <<"system", "Move", ";">>>>),
  Lib(<<<<"system", "Move", "(", ")", ";">>, Mark(<<"Before">>), <<"system", "Late", ";">>>>),
  Lib(<<Struct("attribute", "Tag", <<Has("name", <<"string">>)>>),
        Mark(<<"Tag", "(", "'hot'", ")">>),
        Struct("struct", "Part", <<Has("ball", <<"Ball">>)>>)>>),
  Game(<<<<"fn", "reach", "(", "box", ":", "Box", ",", "n", ":", "i32", "=", "-", "1", ")", ":",
           "f32", ";">>,
         In(<<"ui">>, <<<<"fn", "reach", "(", ")", "{", "reach", "(", ")", ";", "}">>>>)>>),
  Lib(<<Alias("'vec2'"), Struct("struct", "Point", <<Has("x", <<"f32">>)>>)>>),
  Lib(<<Struct("struct", "Alias", <<Has("of", <<"i32">>)>>),
        Alias("'box'"), Struct("struct", "Crate", <<Has("part", <<"box">>)>>)>>),
  Game(<<<<"const", "WIDE", "=", "2", ";">>, <<"const", "PLACE", "=", "{", "x", ":", "1", "}", ";">>,
         <<"fn", "wide", "(", ")", ":", "i32", "{", "return", "WIDE", ";", "}">>>>),
  Lib(<<<<"import", "core", ";">>>>),
  <<"import", "core", ";">> \o Lib(<<<<"const", "WIDE", "=", "3", ";">>>>),
  Lib(<<<<"fn", "Part", "(", "box", ":", "Vector2", ")", "{", "}">>>>)}

(***************************************************************************)
(* Bodies of one function.                                                 *)
(***************************************************************************)
Operators == {<<"|", "|">>, <<"&", "&">>, <<"=", "=">>, <<"<">>, <<">", "=">>, <<"+">>, <<"-">>,
              <<"*">>, <<"=">>}
Return3(a, p, b, q, c) == <<"return">> \o a \o p \o b \o q \o c \o <<";">>

Expressions ==
  UNION {{Return3(<<"a">>, p, <<"b">>, q, <<"a">>),
          Return3(<<"a">>, p, <<"(", "b">>, q, <<"a", ")">>),
          Return3(<<"-", "a">>, p, <<"!", "ball", ".", "x">>, q, <<"f", "(", "b", ",", "1", ")">>)} :
         p \in Operators, q \in Operators}

StatementBodies == {
  <<"return", ";">>,
  <<"const", "z", "=", "a", ";", "let", "w", ":", "i32", ";", "w", "=", "z", ";">>,
  <<"let", "SIZE", "=", "1", ";", "return", "SIZE", ";">>,
  <<"let", "w", ":", "Ball", "=", "{", "x", ":", "SIZE", ",", "y", ":", "-", "a", ",", "}", ";">>,
  <<"if", "(", "a", ")", "return", "b", ";", "else", "if", "(", "b", ")", "{", "}", "else", "{",
    "a", "=", "b", ";", "}">>,
  <<"for", "(", "e", "in", "getEntities", "(", "Ball", ")", ")", "{", "e", "[", "Ball", "]", ".",
    "x", "=", "a", ";", "}">>,
  <<"for", "(", "e", "in", "getEntities", "(", "Missing", ")", ")", "{", "}">>,
  <<"owner", "[", "Ball", "]", "=", "{", "x", ":", "1", ",", "y", ":", "ui", ".", "WIDE", "}", ";",
    "return", "spawn", "(", ")", ";">>,
  <<"return", "f", "<", "Ball", ">", "(", "a", ",", "1", ")", ";">>,
  <<"return", "a", "<", "b", ">", "(", "a", ")", ";">>,
  <<"if", "(", "a", "<", "b", "&", "&", "b", ">", "(", "a", ")", ")", "return", ";">>,
  <<"{", "core", ".", "spawn", "(", ")", ";", "}", "f", "(", "a", ",", ")", ";">>,
  <<"return", "a">>,
  <<"return", "f", "(", "a", ")", "[", "b", "]", ".", "x", "-", "-", "1", ";">>}

Around(body) ==
  Game(<<<<"const", "SIZE", "=", "1", ";">>,
         Struct("component", "Ball", <<Has("x", <<"f32">>), Has("y", <<"f32">>)>>),
         <<"fn", "f", "(", "v", ":", "f32", ",", "w", ":", "i32", "=", "1", ")", ":", "f32", ";">>,
         <<"fn", "g", "(", "a", ":", "f32", ",", "b", ":", "f32", ",", "ball", ":", "Ball", ",",
           "owner", ":", "entity", ")", ":", "f32", "{">> \o body \o <<"}">>>>)

\* A third namespace, and up to two others that have a name it uses.
Scene == In(<<"app">>, <<Struct("struct", "Scene", <<Has("part", <<"Part">>)>>)>>)
Parts == {Lib(<<Struct("struct", "Part", <<Has("size", <<"f32">>)>>)>>),
          Game(<<Struct("struct", "Part", <<Has("size", <<"i32">>)>>)>>),
          In(<<"game", ".", "ui">>, <<Struct("struct", "Part", <<Has("size", <<"bool">>)>>)>>)}

\* Files that declare again, or below a namespace of their own, what the core
\* library declares.
CoreAgain == {In(<<"core">>, <<Struct("struct", "Vector2", <<>>)>>),
              Game(<<In(<<"core">>, <<<<"attribute", "Component", ";">>>>),
                     Struct("component", "Part", <<Has("at", <<"vec2">>)>>)>>)}

MCProjects == {<<Scene, first, second>> : first \in Parts, second \in Parts}
                \cup {<<again, first>> : again \in CoreAgain, first \in FilesA}
                \cup {<<first, second>> : first \in FilesA, second \in FilesA}
                \cup {<<Around(body)>> : body \in Expressions \cup StatementBodies}

MCFullDisk == {<<Around(body)>> : body \in StatementBodies}

MCLiterals == {"0", "1", "2", "3", "'vec2'", "'entity'", "'i32'", "'u64'", "'f32'", "'void'",
               "'string'", "'bool'", "'hot'", "'box'"}
\* Written out: TLC would compute the set again for every token.
MCNames == {
  "Alias", "Scene", "app", "Attribute", "Ball", "Before", "Bool", "Box", "Component", "Crate", "Early",
  "Entity", "Float32", "Hierarchy", "Int32", "Late", "Marker", "Missing", "Move",
  "PLACE", "Part", "Point", "SIZE", "String", "System", "Tag", "Time", "Transform",
  "Type", "UInt64", "Vector2", "Void", "WIDE", "Window", "a", "at", "b", "ball", "bool",
  "box", "closing", "core", "e", "entity", "f", "f32", "first", "g", "game",
  "getEntities", "i32", "identifier", "lib", "low", "message", "n", "name", "next",
  "of", "on", "owner", "parent", "part", "position", "print", "reach", "scale", "size",
  "spawn", "stamp", "string", "t", "type", "u64", "ui", "v", "vec2", "w", "wide",
  "width", "x", "y", "z"}

MCUnquoted == ("'vec2'" :> <<"vec2">>) @@ ("'entity'" :> <<"entity">>) @@ ("'i32'" :> <<"i32">>)
  @@ ("'u64'" :> <<"u64">>) @@ ("'f32'" :> <<"f32">>) @@ ("'void'" :> <<"void">>)
  @@ ("'string'" :> <<"string">>) @@ ("'bool'" :> <<"bool">>) @@ ("'hot'" :> <<"hot">>)
  @@ ("'box'" :> <<"box">>)
=============================================================================
