---------------------------- MODULE MCScheduler ----------------------------
(***************************************************************************)
(* Three systems; b runs before a, and c may be defined to run after a or  *)
(* to close a cycle with b.                                                *)
(***************************************************************************)
EXTENDS Scheduler

CONSTANTS a, b, c

System(n, before, after) == [name |-> n, before |-> before, after |-> after]

MCDefinitions ==
  {System(a, {}, {}), System(b, {a}, {}), System(c, {}, {}), System(c, {b}, {a})}
=============================================================================
