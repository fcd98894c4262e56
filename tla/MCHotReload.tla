---------------------------- MODULE MCHotReload ----------------------------
(***************************************************************************)
(* Two files, the second the entry of the project.  Contents: a component  *)
(* P with a system; P grown, beside a component Q and with a pair of       *)
(* systems that cannot be ordered; Q, of one width or another, with a good *)
(* system or one with a parameter; systems that have no component and use  *)
(* the window or cannot be ordered; an error.                              *)
(***************************************************************************)
EXTENDS HotReload, TLC

Layout(size, inner) == [size |-> size, inner |-> inner]
System(n, params, before) == [name |-> n, params |-> params, before |-> before]
Source(layouts, sys) == [parses |-> TRUE, layouts |-> layouts, systems |-> sys, natives |-> {}]

Base == Source("P" :> Layout(1, "x"), {System("Move", 0, {})})
Nested == Source("P" :> Layout(1, "y"), {System("Move", 0, {})})
Extra == Source("Q" :> Layout(1, "x"), {System("Spin", 0, {})})
Taking == Source("Q" :> Layout(1, "x"), {System("Spin", 1, {})})
ExtraWider == Source("Q" :> Layout(2, "x"), {System("Spin", 0, {})})
Pair == {System("Spin", 0, {"Turn"}), System("Turn", 0, {"Spin"})}
Circular == Source(<<>>, Pair)
Drawing == [Source(<<>>, {System("Draw", 0, {})}) EXCEPT !.natives = {"core.Renderer"}]
Grown == Source(("P" :> Layout(2, "x")) @@ ("Q" :> Layout(1, "x")), Pair)
WideTaking == Source("Q" :> Layout(2, "x"), {System("Spin", 1, {})})
Broken == [Base EXCEPT !.parses = FALSE]

MCSources == {Base, Grown, Drawing, WideTaking, Broken}
StartupSources == {Base, Extra, Broken}
LayoutSources == {Base, Extra, Taking, ExtraWider}
NestedSources == {Base, Nested, Extra}
CircularSources == {Base, Extra, Circular}

MCTrees == {<<Absent, Base>>, <<Absent, Drawing>>}
StartTrees == {<<Absent, Base>>, <<Extra, Base>>}
=============================================================================
