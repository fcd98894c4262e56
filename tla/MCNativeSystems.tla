-------------------------- MODULE MCNativeSystems --------------------------
(***************************************************************************)
(* A menu before the window with a game between the window and the         *)
(* renderer, or with an overlay after the renderer; the menu alone with no *)
(* Window component; and a batch system that needs no window.  Leaving out *)
(* core.Time in the second leaves its entity to the others.                *)
(***************************************************************************)
EXTENDS NativeSystems

Managed(n, before, after) == [name |-> n, before |-> before, after |-> after]

Menu == Managed("Menu", {"core.Window"}, {})
Game == Managed("Game", {"core.Renderer"}, {"core.Window"})
Overlay == Managed("Overlay", {}, {"core.Renderer"})
Batch == Managed("Batch", {}, {})

MCModules ==
  {[managed |-> <<Menu, Game>>, declares |-> {"core.Time", "core.ui.Window"}],
   [managed |-> <<Menu, Overlay>>, declares |-> {"core.ui.Window"}],
   [managed |-> <<Menu>>, declares |-> {}],
   [managed |-> <<Batch>>, declares |-> {"core.Time"}]}
=============================================================================
