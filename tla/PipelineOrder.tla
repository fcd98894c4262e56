---------------------------- MODULE PipelineOrder ----------------------------
(***************************************************************************)
(* The Before/After graph of the registered systems and the order in which *)
(* the engine runs them.  A registry is a sequence of systems with         *)
(* distinct names; a system lists the names it runs before and after.      *)
(* Names of systems that are not registered are ignored.                   *)
(***************************************************************************)
EXTENDS Naturals, Sequences, FiniteSets

Slots(systems) == 1 .. Len(systems)

(* The pairs i, j such that i must run before j: the meaning of            *)
(* core.Before and core.After (lib/core/src/attributes.ecs).               *)
MustPrecede(systems) ==
  {e \in Slots(systems) \X Slots(systems) :
     /\ e[1] # e[2]
     /\ \/ systems[e[2]].name \in systems[e[1]].before
        \/ systems[e[1]].name \in systems[e[2]].after}

(* A set of systems none of which can be the first of the set to run.      *)
IsDeadlocked(S, systems) ==
  /\ S # {} /\ S \subseteq Slots(systems)
  /\ \A j \in S : \E i \in S : <<i, j>> \in MustPrecede(systems)

Cyclic(systems) == \E S \in SUBSET Slots(systems) : IsDeadlocked(S, systems)

(* order runs every system once and puts no system after one it precedes.  *)
IsOrderOf(order, systems) ==
  /\ order \in Seq(Slots(systems))
  /\ Len(order) = Len(systems)
  /\ \A p, q \in 1 .. Len(order) : order[p] = order[q] => p = q
  /\ \A p, q \in 1 .. Len(order) : <<order[p], order[q]>> \in MustPrecede(systems) => p < q

Lowest(S) == CHOOSE i \in S : \A j \in S : i <= j

(***************************************************************************)
(* The order in which each step runs the earliest registered system that   *)
(* may run next; shorter than the registry when it gets stuck.             *)
(***************************************************************************)
InPrefix(prefix) == {prefix[k] : k \in 1 .. Len(prefix)}

MayRunNext(systems, prefix) ==
  {j \in Slots(systems) \ InPrefix(prefix) :
     \A i \in Slots(systems) : <<i, j>> \in MustPrecede(systems) => i \in InPrefix(prefix)}

Extended(systems, prefix) ==
  IF MayRunNext(systems, prefix) = {} THEN prefix
  ELSE Append(prefix, Lowest(MayRunNext(systems, prefix)))

OrderSteps(systems) ==
  LET steps[k \in 0 .. Len(systems)] ==
        IF k = 0 THEN <<>> ELSE Extended(systems, steps[k - 1])
  IN steps

RegistrationOrder(systems) == OrderSteps(systems)[Len(systems)]
=============================================================================
