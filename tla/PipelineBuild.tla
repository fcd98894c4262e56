---------------------------- MODULE PipelineBuild ----------------------------
(***************************************************************************)
(* ecsvm_pipeline_build (pipeline.c), step by step: one step per system    *)
(* that enters its dependencies into the edge matrix, then one step per    *)
(* selected system, decrementing the indegrees of its successors.          *)
(***************************************************************************)
EXTENDS PipelineOrder

CONSTANTS
  SystemNames, \* names of systems, registered or not
  Registries   \* the registries the engine may ask an order for

System == [name : SystemNames, before : SUBSET SystemNames, after : SUBSET SystemNames]

\* ecsvm_engine_register_system refuses a second system with a name in use.
ASSUME RegistriesAssumption ==
  \A s \in Registries :
    s \in Seq(System) /\ \A i, j \in Slots(s) : s[i].name = s[j].name => i = j

VARIABLES
  systems,  \* the registry, not written by the build
  next,     \* index of the next system whose dependencies are entered
  edges,    \* the edge matrix, as a set of pairs
  indegree, \* indegree[j]: edges into j not yet removed
  selected, \* the systems put in the order
  order,    \* order[0 .. order_count - 1]
  status    \* "adding", "selecting", or the value returned

vars == <<systems, next, edges, indegree, selected, order, status>>

Nodes == Slots(systems)

TypeOK ==
  /\ next \in 1 .. Len(systems) + 1
  /\ edges \subseteq Nodes \X Nodes
  /\ indegree \in [Nodes -> Nat]
  /\ selected \subseteq Nodes
  /\ order \in Seq(Nodes)
  /\ status \in {"adding", "selecting", "OK", "ARGUMENT", "MEMORY"}

-----------------------------------------------------------------------------
\* The four allocations at the start may fail; an empty registry needs none.
Init ==
  /\ systems \in Registries
  /\ next = 1
  /\ edges = {}
  /\ indegree = [i \in Slots(systems) |-> 0]
  /\ selected = {}
  /\ order = <<>>
  /\ \/ status = "adding"
     \/ status = "MEMORY" /\ systems # <<>>

\* Faulty: an edge already in the matrix is counted again.
SkippedIfLoop(e) == e[1] = e[2]

\* Faulty: a system that names itself waits for itself.
SkippedIfKnown(e) == e \in edges

(* ecsvm_pipeline_add_edge skips an edge from a system to itself and an    *)
(* edge that is already in the matrix.                                     *)
Skipped(e) == e[1] = e[2] \/ e \in edges

\* Faulty: the after list is read like the before list.
AddedForward(i) ==
  {e \in {<<i, j>> : j \in {j \in Nodes : systems[j].name \in systems[i].before}}
         \cup {<<i, j>> : j \in {j \in Nodes : systems[j].name \in systems[i].after}} :
     ~Skipped(e)}

(* The edges system i's lists add: from i to each registered system it is  *)
(* before, to i from each registered system it is after.                   *)
Added(i) ==
  {e \in {<<i, j>> : j \in {j \in Nodes : systems[j].name \in systems[i].before}}
         \cup {<<j, i>> : j \in {j \in Nodes : systems[j].name \in systems[i].after}} :
     ~Skipped(e)}

\* Faulty: an indegree is raised once for all the edges a system's lists add.
PredsOnce(es, j) == {i \in Nodes : <<i, j>> \in es /\ \A k \in Nodes : <<k, j>> \in es => i <= k}

Preds(es, j) == {i \in Nodes : <<i, j>> \in es}

AddDependencies ==
  /\ status = "adding" /\ next <= Len(systems)
  /\ edges' = edges \cup Added(next)
  /\ indegree' = [j \in Nodes |-> indegree[j] + Cardinality(Preds(Added(next), j))]
  /\ next' = next + 1
  /\ UNCHANGED <<systems, selected, order, status>>

StartSelecting ==
  /\ status = "adding" /\ next > Len(systems)
  /\ status' = "selecting"
  /\ UNCHANGED <<systems, next, edges, indegree, selected, order>>

\* Not selected yet and waiting for no other system.
Candidates == {i \in Nodes : i \notin selected /\ indegree[i] = 0}

\* The inner loop stops at the first candidate and removes its out-edges.
Select ==
  \E i \in Candidates :
  /\ status = "selecting" /\ Len(order) < Len(systems)
  /\ \A j \in Candidates : i <= j
  /\ selected' = selected \cup {i}
  /\ order' = Append(order, i)
  /\ indegree' = [j \in Nodes |-> IF <<i, j>> \in edges THEN indegree[j] - 1 ELSE indegree[j]]
  /\ edges' = {e \in edges : e[1] # i}
  /\ UNCHANGED <<systems, next, status>>

\* Faulty: the outer loop goes on although no candidate was found.
RejectNever == FALSE

\* No candidate left although systems remain: the order is freed.
Reject ==
  /\ status = "selecting" /\ Len(order) < Len(systems)
  /\ Candidates = {}
  /\ status' = "ARGUMENT"
  /\ UNCHANGED <<systems, next, edges, indegree, selected, order>>

Finish ==
  /\ status = "selecting" /\ Len(order) = Len(systems)
  /\ status' = "OK"
  /\ UNCHANGED <<systems, next, edges, indegree, selected, order>>

Next == AddDependencies \/ StartSelecting \/ Select \/ Reject \/ Finish

Spec == Init /\ [][Next]_vars

FairSpec == Spec /\ WF_vars(Next)

-----------------------------------------------------------------------------
(* The order returned runs every system once, none of them after a system  *)
(* it must precede.                                                        *)
OrderRespectsAttributes == status = "OK" => IsOrderOf(order, systems)

(* The build is refused only because of a cycle: the systems left over all *)
(* wait for one another.                                                   *)
RejectedOnlyForCycle ==
  status = "ARGUMENT" => IsDeadlocked(Nodes \ selected, systems)

(* The choice among systems free to run is theirs by registration, and a   *)
(* cyclic registry never gets an order.                                    *)
MatchesRegistrationOrder ==
  /\ status = "OK" => order = RegistrationOrder(systems) /\ ~Cyclic(systems)
  /\ status = "ARGUMENT" => Len(RegistrationOrder(systems)) < Len(systems)

(* Every build returns.                                                    *)
BuildReturns == <>(status \in {"OK", "ARGUMENT", "MEMORY"})
=============================================================================
