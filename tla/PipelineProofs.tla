--------------------------- MODULE PipelineProofs ---------------------------
(***************************************************************************)
(* Proofs about PipelineBuild, for every set of registries: an order that  *)
(* is returned respects every Before and After, and a refusal always comes *)
(* from a cycle.                                                           *)
(***************************************************************************)
EXTENDS PipelineBuild, PipelineOrderProofs

-----------------------------------------------------------------------------
(***************************************************************************)
(* The inductive invariant.                                                *)
(***************************************************************************)

RegistrySound ==
  /\ systems \in Registries
  /\ systems \in Seq(System)
  /\ \A i, j \in Nodes : systems[i].name = systems[j].name => i = j

\* The edges entered for the systems before k.
Entered(k) ==
  {e \in Nodes \X Nodes :
     /\ e[1] # e[2]
     /\ \/ e[1] < k /\ systems[e[2]].name \in systems[e[1]].before
        \/ e[2] < k /\ systems[e[1]].name \in systems[e[2]].after}

\* The matrix holds what was entered, then what is left of MustPrecede.
EdgesSound ==
  /\ status = "adding" => edges = Entered(next)
  /\ status \in {"selecting", "OK", "ARGUMENT"} =>
       edges = {e \in MustPrecede(systems) : e[1] \notin selected}

\* An indegree counts the edges that are still in the matrix.
IndegreeSound == \A j \in Nodes : indegree[j] = Cardinality(Preds(edges, j))

\* The order lists the selected systems once, each after all it waits for.
OrderSound ==
  /\ selected = {order[p] : p \in 1 .. Len(order)}
  /\ Cardinality(selected) = Len(order)
  /\ \A p, q \in 1 .. Len(order) : order[p] = order[q] => p = q
  /\ \A q \in 1 .. Len(order) : \A i \in Nodes :
       <<i, order[q]>> \in MustPrecede(systems) => \E p \in 1 .. q - 1 : order[p] = i

StatusSound ==
  /\ status = "adding" => order = <<>>
  /\ status = "OK" => Len(order) = Len(systems)
  /\ status = "ARGUMENT" => Len(order) < Len(systems) /\ Candidates = {}

IInv ==
  /\ TypeOK /\ RegistrySound /\ EdgesSound /\ IndegreeSound /\ OrderSound /\ StatusSound

-----------------------------------------------------------------------------
LEMMA NodesFinite ==
  ASSUME systems \in Seq(System)
  PROVE  IsFiniteSet(Nodes) /\ Cardinality(Nodes) = Len(systems)
<1>1. Len(systems) \in Nat
  OBVIOUS
<1> QED BY <1>1, FS_Interval DEF Nodes, Slots

LEMMA PredsFinite ==
  ASSUME systems \in Seq(System), NEW es, NEW j
  PROVE  IsFiniteSet(Preds(es, j)) /\ Cardinality(Preds(es, j)) \in Nat
<1>1. Preds(es, j) \in SUBSET Nodes
  BY DEF Preds
<1>2. IsFiniteSet(Preds(es, j))
  BY <1>1, NodesFinite, FS_Subset
<1> QED BY <1>2, FS_CardinalityType

\* add_edge keeps indegrees equal to the edges counted, as it skips duplicates.
LEMMA AddedCounts ==
  ASSUME systems \in Seq(System), NEW i \in Nodes, NEW j \in Nodes
  PROVE  Cardinality(Preds(edges \cup Added(i), j)) =
         Cardinality(Preds(edges, j)) + Cardinality(Preds(Added(i), j))
<1>1. Preds(edges \cup Added(i), j) = Preds(edges, j) \cup Preds(Added(i), j)
  BY DEF Preds
<1>2. Preds(edges, j) \cap Preds(Added(i), j) = {}
  <2>1. \A e \in Added(i) : e \notin edges
    BY DEF Added, Skipped
  <2>2. \A k \in Preds(edges, j) : k \notin Preds(Added(i), j)
    BY <2>1 DEF Preds
  <2> QED BY <2>2
<1>3. /\ IsFiniteSet(Preds(edges, j)) /\ Cardinality(Preds(edges, j)) \in Nat
      /\ IsFiniteSet(Preds(Added(i), j)) /\ Cardinality(Preds(Added(i), j)) \in Nat
  BY PredsFinite
<1>4. Cardinality(Preds(edges, j) \cap Preds(Added(i), j)) = 0
  BY <1>2, FS_EmptySet
<1> DEFINE S == Preds(edges, j)
           T == Preds(Added(i), j)
<1>5. IsFiniteSet(S) /\ IsFiniteSet(T) /\ Cardinality(S \cap T) = 0
  BY <1>3, <1>4
<1>6. Cardinality(S) \in Nat /\ Cardinality(T) \in Nat
  BY <1>3
<1> HIDE DEF S, T
<1>7. Cardinality(S \cup T) = Cardinality(S) + Cardinality(T) - Cardinality(S \cap T)
  BY <1>5, FS_Union
<1>8. Cardinality(S \cup T) = Cardinality(S) + Cardinality(T)
  BY <1>5, <1>6, <1>7
<1> QED BY <1>1, <1>8 DEF S, T

\* Removing i's out-edges takes one from the count of each of its targets.
LEMMA RemovedCounts ==
  ASSUME systems \in Seq(System), NEW i \in Nodes, NEW j \in Nodes
  PROVE  Cardinality(Preds({e \in edges : e[1] # i}, j)) =
         IF <<i, j>> \in edges THEN Cardinality(Preds(edges, j)) - 1
         ELSE Cardinality(Preds(edges, j))
<1>1. Preds({e \in edges : e[1] # i}, j) = Preds(edges, j) \ {i}
  BY DEF Preds
<1>2. i \in Preds(edges, j) <=> <<i, j>> \in edges
  BY DEF Preds
<1> QED BY <1>1, <1>2, PredsFinite, FS_RemoveElement

\* A candidate waits for no system that is still to be selected.
LEMMA CandidateIsReady ==
  ASSUME IInv, status = "selecting", NEW j \in Candidates, NEW i \in Nodes,
         <<i, j>> \in MustPrecede(systems)
  PROVE  i \in selected
<1>1. j \in Nodes /\ Cardinality(Preds(edges, j)) = 0
  BY DEF Candidates, IInv, IndegreeSound
<1>2. Preds(edges, j) = {}
  BY <1>1, PredsFinite, FS_EmptySet DEF IInv, RegistrySound
<1>3. <<i, j>> \notin edges
  BY <1>2 DEF Preds
<1> QED BY <1>3 DEF IInv, EdgesSound

-----------------------------------------------------------------------------
LEMMA InitIInv == Init => IInv
<1> SUFFICES ASSUME Init PROVE IInv
  OBVIOUS
<1> USE DEF Init
<1>1. RegistrySound
  BY RegistriesAssumption DEF RegistrySound, Nodes
<1>2. Len(systems) \in Nat
  BY <1>1 DEF RegistrySound
<1>3. TypeOK
  BY <1>2 DEF TypeOK, Nodes, Slots
<1>4. EdgesSound
  <2>1. Entered(1) = {}
    BY <1>2 DEF Entered, Nodes, Slots
  <2> QED BY <2>1 DEF EdgesSound
<1>5. IndegreeSound
  <2>1. \A j : Preds({}, j) = {}
    BY DEF Preds
  <2> QED BY <2>1, FS_EmptySet DEF IndegreeSound, Nodes
<1>6. OrderSound
  BY FS_EmptySet DEF OrderSound
<1>7. StatusSound
  BY DEF StatusSound
<1> QED BY <1>1, <1>3, <1>4, <1>5, <1>6, <1>7 DEF IInv

\* What a step that leaves the registry and the order alone keeps.
LEMMA OrderKept ==
  ASSUME IInv, UNCHANGED <<systems, selected, order>>
  PROVE  RegistrySound' /\ OrderSound'
BY DEF IInv, RegistrySound, OrderSound, Nodes

LEMMA AddDependenciesIInv == IInv /\ AddDependencies => IInv'
<1> SUFFICES ASSUME IInv, AddDependencies PROVE IInv'
  OBVIOUS
<1>1. next \in Nodes /\ next \in Nat /\ Nodes' = Nodes /\ systems' = systems
  BY DEF IInv, TypeOK, AddDependencies, Nodes, Slots
<1>2. systems \in Seq(System) /\ Len(systems) \in Nat
  BY DEF IInv, RegistrySound
<1>3. edges' = edges \cup Added(next) /\ Added(next) \subseteq Nodes \X Nodes
  BY <1>1 DEF AddDependencies, Added
<1>4. TypeOK'
  <2>1. \A j \in Nodes : indegree'[j] = indegree[j] + Cardinality(Preds(Added(next), j))
    BY DEF AddDependencies
  <2>2. indegree' \in [Nodes -> Nat]
    BY <1>2, PredsFinite DEF IInv, TypeOK, AddDependencies
  <2> QED BY <1>1, <1>2, <1>3, <2>2 DEF IInv, TypeOK, AddDependencies
<1>5. EdgesSound'
  <2>1. edges = Entered(next) /\ status' = "adding" /\ next' = next + 1
    BY DEF IInv, EdgesSound, AddDependencies
  <2>2. Entered(next)' = Entered(next + 1)
    BY <1>1, <2>1 DEF Entered
  <2>3. \A e \in Nodes \X Nodes :
          e \in Entered(next + 1) <=> e \in Entered(next) \/ e \in Added(next)
    <3> SUFFICES ASSUME NEW a \in Nodes, NEW b \in Nodes
                 PROVE  <<a, b>> \in Entered(next + 1)
                          <=> <<a, b>> \in Entered(next) \/ <<a, b>> \in Added(next)
      OBVIOUS
    <3>1. a \in Nat /\ b \in Nat
      BY DEF Nodes, Slots
    <3>2. a < next + 1 <=> a < next \/ a = next
      BY <1>1, <3>1
    <3>3. b < next + 1 <=> b < next \/ b = next
      BY <1>1, <3>1
    <3>4. <<a, b>> \in Added(next) <=>
            /\ \/ a = next /\ systems[b].name \in systems[next].before
               \/ b = next /\ systems[a].name \in systems[next].after
            /\ a # b /\ <<a, b>> \notin edges
      BY DEF Added, Skipped
    <3> QED BY <2>1, <3>2, <3>3, <3>4 DEF Entered
  <2>4. Entered(next + 1) \subseteq Nodes \X Nodes /\ Entered(next) \subseteq Nodes \X Nodes
    BY DEF Entered
  <2>5. edges' = Entered(next + 1)
    BY <1>3, <2>1, <2>3, <2>4
  <2> QED BY <2>1, <2>2, <2>5 DEF EdgesSound
<1>6. IndegreeSound'
  <2> SUFFICES ASSUME NEW j \in Nodes PROVE indegree'[j] = Cardinality(Preds(edges', j))
    BY <1>1 DEF IndegreeSound, Preds
  <2>1. indegree'[j] = indegree[j] + Cardinality(Preds(Added(next), j))
    BY DEF AddDependencies
  <2>2. indegree[j] = Cardinality(Preds(edges, j))
    BY DEF IInv, IndegreeSound
  <2> QED BY <1>1, <1>2, <1>3, <2>1, <2>2, AddedCounts
<1>7. RegistrySound' /\ OrderSound'
  BY OrderKept DEF AddDependencies
<1>8. StatusSound'
  BY DEF IInv, StatusSound, AddDependencies
<1> QED BY <1>4, <1>5, <1>6, <1>7, <1>8 DEF IInv

\* The steps that only change status.
LEMMA StartSelectingIInv == IInv /\ StartSelecting => IInv'
<1> SUFFICES ASSUME IInv, StartSelecting PROVE IInv'
  OBVIOUS
<1>1. next = Len(systems) + 1 /\ Len(systems) \in Nat /\ selected = {}
  BY DEF IInv, TypeOK, RegistrySound, StatusSound, OrderSound, StartSelecting
<1>2. Entered(next) = MustPrecede(systems)
  BY <1>1 DEF Entered, MustPrecede, Nodes, Slots
<1>3. edges' = {e \in MustPrecede(systems) : e[1] \notin selected}
  BY <1>1, <1>2 DEF IInv, EdgesSound, StartSelecting
<1>4. EdgesSound'
  BY <1>3 DEF EdgesSound, StartSelecting
<1>5. TypeOK' /\ IndegreeSound'
  BY DEF IInv, TypeOK, IndegreeSound, StartSelecting, Nodes, Preds
<1>6. RegistrySound' /\ OrderSound'
  BY OrderKept DEF StartSelecting
<1>7. StatusSound'
  BY DEF StatusSound, StartSelecting
<1> QED BY <1>4, <1>5, <1>6, <1>7 DEF IInv

LEMMA RejectIInv == IInv /\ Reject => IInv'
<1> SUFFICES ASSUME IInv, Reject PROVE IInv'
  OBVIOUS
<1>1. TypeOK' /\ IndegreeSound' /\ EdgesSound' /\ StatusSound'
  BY DEF IInv, TypeOK, IndegreeSound, EdgesSound, StatusSound, Reject, Nodes, Preds, Candidates
<1>2. RegistrySound' /\ OrderSound'
  BY OrderKept DEF Reject
<1> QED BY <1>1, <1>2 DEF IInv

LEMMA FinishIInv == IInv /\ Finish => IInv'
<1> SUFFICES ASSUME IInv, Finish PROVE IInv'
  OBVIOUS
<1>1. TypeOK' /\ IndegreeSound' /\ EdgesSound' /\ StatusSound'
  BY DEF IInv, TypeOK, IndegreeSound, EdgesSound, StatusSound, Finish, Nodes, Preds
<1>2. RegistrySound' /\ OrderSound'
  BY OrderKept DEF Finish
<1> QED BY <1>1, <1>2 DEF IInv

LEMMA SelectIInv == IInv /\ Select => IInv'
<1> SUFFICES ASSUME IInv, Select PROVE IInv'
  OBVIOUS
<1>1. PICK i \in Candidates :
        /\ selected' = selected \cup {i}
        /\ order' = Append(order, i)
        /\ indegree' = [j \in Nodes |-> IF <<i, j>> \in edges THEN indegree[j] - 1 ELSE indegree[j]]
        /\ edges' = {e \in edges : e[1] # i}
  BY DEF Select
<1>2. /\ status = "selecting" /\ status' = "selecting" /\ Len(order) < Len(systems)
      /\ systems' = systems /\ next' = next /\ Nodes' = Nodes
  BY DEF Select, Nodes
<1>3. /\ i \in Nodes /\ i \notin selected /\ systems \in Seq(System)
      /\ order \in Seq(Nodes) /\ Len(order) \in Nat /\ Len(systems) \in Nat
  BY DEF Candidates, IInv, TypeOK, RegistrySound
<1>4. edges' \subseteq edges /\ edges \subseteq Nodes \X Nodes
  BY <1>1 DEF IInv, TypeOK
<1>5. IndegreeSound'
  <2> SUFFICES ASSUME NEW j \in Nodes PROVE indegree'[j] = Cardinality(Preds(edges', j))
    BY <1>2 DEF IndegreeSound, Preds
  <2>1. indegree[j] = Cardinality(Preds(edges, j))
    BY DEF IInv, IndegreeSound
  <2>2. indegree'[j] = IF <<i, j>> \in edges THEN indegree[j] - 1 ELSE indegree[j]
    BY <1>1
  <2> QED BY <1>1, <1>3, <2>1, <2>2, RemovedCounts
<1>6. TypeOK'
  <2>1. \A j \in Nodes : indegree'[j] \in Nat
    <3> SUFFICES ASSUME NEW j \in Nodes PROVE indegree'[j] \in Nat
      OBVIOUS
    <3>1. indegree'[j] = Cardinality(Preds(edges', j))
      BY <1>2, <1>5 DEF IndegreeSound, Preds
    <3> QED BY <1>3, <3>1, PredsFinite
  <2>2. indegree' \in [Nodes -> Nat]
    BY <1>1, <2>1
  <2>3. order' \in Seq(Nodes)
    BY <1>1, <1>3
  <2> QED BY <1>1, <1>2, <1>3, <1>4, <2>2, <2>3 DEF IInv, TypeOK
<1>7. EdgesSound'
  <2>1. edges = {e \in MustPrecede(systems) : e[1] \notin selected}
    BY <1>2 DEF IInv, EdgesSound
  <2>2. edges' = {e \in MustPrecede(systems) : e[1] \notin selected'}
    BY <1>1, <2>1
  <2> QED BY <1>2, <2>2 DEF EdgesSound
<1>8. OrderSound'
  <2>1. /\ Len(order') = Len(order) + 1 /\ order'[Len(order) + 1] = i
        /\ \A p \in 1 .. Len(order) : order'[p] = order[p] /\ order[p] \in selected
    BY <1>1, <1>3 DEF IInv, OrderSound
  <2>2. \A p \in 1 .. Len(order') : p \in 1 .. Len(order) \/ p = Len(order) + 1
    BY <1>3, <2>1
  <2>3. selected' = {order'[p] : p \in 1 .. Len(order')}
    BY <1>1, <1>3, <2>1, <2>2 DEF IInv, OrderSound
  <2>4. Cardinality(selected') = Len(order')
    <3>1. IsFiniteSet(selected)
      BY <1>3, NodesFinite, FS_Subset DEF IInv, TypeOK
    <3>2. Cardinality(selected) = Len(order)
      BY DEF IInv, OrderSound
    <3>3. Cardinality(selected \cup {i}) = Cardinality(selected) + 1
      BY <1>3, <3>1, FS_AddElement
    <3> QED BY <1>1, <2>1, <3>2, <3>3
  <2>5. \A p, q \in 1 .. Len(order') : order'[p] = order'[q] => p = q
    BY <1>3, <2>1, <2>2 DEF IInv, OrderSound
  <2>6. ASSUME NEW q \in 1 .. Len(order'), NEW k \in Nodes,
               <<k, order'[q]>> \in MustPrecede(systems)
        PROVE  \E p \in 1 .. q - 1 : order'[p] = k
    <3>1. CASE q \in 1 .. Len(order)
      <4>1. PICK p \in 1 .. q - 1 : order[p] = k
        BY <2>1, <2>6, <3>1 DEF IInv, OrderSound
      <4>2. p \in 1 .. Len(order)
        BY <1>3, <3>1, <4>1
      <4> QED BY <2>1, <4>1, <4>2
    <3>2. CASE q = Len(order) + 1
      <4>1. k \in selected
        BY <1>2, <2>1, <2>6, <3>2, CandidateIsReady
      <4>2. PICK p \in 1 .. Len(order) : order[p] = k
        BY <4>1 DEF IInv, OrderSound
      <4>3. p \in 1 .. q - 1
        BY <1>3, <3>2, <4>2
      <4> QED BY <2>1, <4>2, <4>3
    <3> QED BY <2>2, <3>1, <3>2
  <2>7. systems' = systems /\ Nodes' = Nodes
    BY <1>2
  <2> QED BY <2>3, <2>4, <2>5, <2>6, <2>7 DEF OrderSound
<1>9. RegistrySound' /\ StatusSound'
  BY <1>2 DEF IInv, RegistrySound, StatusSound, Nodes
<1> QED BY <1>5, <1>6, <1>7, <1>8, <1>9 DEF IInv

-----------------------------------------------------------------------------
THEOREM Invariance == Spec => []IInv
<1>1. IInv /\ [Next]_vars => IInv'
  <2> SUFFICES ASSUME IInv, [Next]_vars PROVE IInv'
    OBVIOUS
  <2>1. CASE AddDependencies
    BY <2>1, AddDependenciesIInv
  <2>2. CASE StartSelecting
    BY <2>2, StartSelectingIInv
  <2>3. CASE Select
    BY <2>3, SelectIInv
  <2>4. CASE Reject
    BY <2>4, RejectIInv
  <2>5. CASE Finish
    BY <2>5, FinishIInv
  <2>6. CASE UNCHANGED vars
    <3> USE <2>6 DEF vars
    <3>1. TypeOK' /\ IndegreeSound' /\ EdgesSound' /\ StatusSound'
      BY DEF IInv, TypeOK, IndegreeSound, EdgesSound, StatusSound, Nodes, Preds, Candidates, Entered
    <3>2. RegistrySound' /\ OrderSound'
      BY OrderKept
    <3> QED BY <3>1, <3>2 DEF IInv
  <2> QED BY <2>1, <2>2, <2>3, <2>4, <2>5, <2>6 DEF Next
<1> QED BY InitIInv, <1>1, PTL DEF Spec

(* The variables of the build keep their types; an indegree never          *)
(* underflows its size_t.                                                  *)
THEOREM TypeCorrect == Spec => []TypeOK
<1>1. IInv => TypeOK
  BY DEF IInv
<1> QED BY Invariance, <1>1, PTL

(* Whatever the registry, an order that ecsvm_pipeline_build returns runs  *)
(* every system once and none after a system it must precede.              *)
THEOREM OrderCorrect == Spec => []OrderRespectsAttributes
<1>1. IInv => OrderRespectsAttributes
  <2> SUFFICES ASSUME IInv, status = "OK" PROVE IsOrderOf(order, systems)
    BY DEF OrderRespectsAttributes
  <2>1. order \in Seq(Slots(systems)) /\ Len(order) = Len(systems)
    BY DEF IInv, TypeOK, StatusSound, Nodes
  <2>2. \A p, q \in 1 .. Len(order) : order[p] = order[q] => p = q
    BY DEF IInv, OrderSound
  <2>3. ASSUME NEW p \in 1 .. Len(order), NEW q \in 1 .. Len(order),
               <<order[p], order[q]>> \in MustPrecede(systems)
        PROVE  p < q
    <3>1. order[p] \in Nodes
      BY <2>1 DEF Nodes
    <3>2. PICK r \in 1 .. q - 1 : order[r] = order[p]
      BY <2>3, <3>1 DEF IInv, OrderSound
    <3>3. Len(order) \in Nat
      BY <2>1
    <3>4. r \in 1 .. Len(order)
      BY <3>2, <3>3
    <3>5. r = p
      BY <2>2, <3>2, <3>4
    <3> QED BY <3>2, <3>5
  <2> QED BY <2>1, <2>2, <2>3 DEF IsOrderOf
<1> QED BY Invariance, <1>1, PTL

(* Whatever the registry, a build that is refused leaves systems that all  *)
(* wait for one another: there is a cycle, and no order exists.            *)
THEOREM RefusalIsCycle == Spec => []RejectedOnlyForCycle
<1>1. IInv => RejectedOnlyForCycle
  <2> SUFFICES ASSUME IInv, status = "ARGUMENT"
               PROVE  IsDeadlocked(Nodes \ selected, systems)
    BY DEF RejectedOnlyForCycle
  <2>1. systems \in Seq(System) /\ selected \subseteq Nodes
    BY DEF IInv, TypeOK, RegistrySound
  <2>2. Nodes \ selected # {}
    <3>1. Cardinality(selected) < Cardinality(Nodes)
      BY <2>1, NodesFinite DEF IInv, OrderSound, StatusSound
    <3>2. Cardinality(Nodes) \in Nat
      BY <2>1, NodesFinite
    <3>3. selected # Nodes
      BY <3>1, <3>2
    <3> QED BY <2>1, <3>3
  <2>3. ASSUME NEW j \in Nodes \ selected
        PROVE  \E i \in Nodes \ selected : <<i, j>> \in MustPrecede(systems)
    <3>1. indegree[j] # 0
      BY DEF IInv, StatusSound, Candidates
    <3>2. Preds(edges, j) # {}
      BY <3>1, FS_EmptySet DEF IInv, IndegreeSound
    <3>3. PICK i \in Nodes : <<i, j>> \in edges
      BY <3>2 DEF Preds
    <3>4. <<i, j>> \in MustPrecede(systems) /\ i \notin selected
      BY <3>3 DEF IInv, EdgesSound
    <3> QED BY <3>4
  <2> QED BY <2>2, <2>3 DEF IsDeadlocked, Nodes
<1> QED BY Invariance, <1>1, PTL

-----------------------------------------------------------------------------
(***************************************************************************)
(* The choices of the selection are those of RegistrationOrder.            *)
(***************************************************************************)

\* What has been selected is what the definition selects in as many steps.
StepsSound == order = OrderSteps(systems)[Len(order)]

LEMMA OrderIsPrefix ==
  ASSUME IInv
  PROVE  Prefix(order, systems) /\ InPrefix(order) = selected /\ Len(systems) \in Nat
<1>1. InPrefix(order) = selected
  BY DEF IInv, OrderSound, InPrefix
<1>2. Len(systems) \in Nat /\ order \in Seq(Slots(systems))
  BY DEF IInv, RegistrySound, TypeOK, Nodes
<1>3. /\ Cardinality(selected) = Len(order)
      /\ \A p, q \in 1 .. Len(order) : order[p] = order[q] => p = q
      /\ \A q \in 1 .. Len(order) : \A i \in Slots(systems) :
           <<i, order[q]>> \in MustPrecede(systems) => \E p \in 1 .. q - 1 : order[p] = i
  BY DEF IInv, OrderSound, Nodes
<1> QED
  BY <1>1, <1>2, <1>3 DEF Prefix

(* An indegree of zero means that all the system waits for is selected.    *)
LEMMA CandidatesMayRun ==
  ASSUME IInv, status \in {"selecting", "ARGUMENT"}
  PROVE  Candidates = MayRunNext(systems, order)
<1>1. InPrefix(order) = selected
  BY OrderIsPrefix
<1>2. ASSUME NEW i \in Nodes
      PROVE  indegree[i] = 0 <=> \A k \in Nodes : <<k, i>> \in MustPrecede(systems) => k \in selected
  <2>1. indegree[i] = Cardinality(Preds(edges, i)) /\ systems \in Seq(System)
    BY DEF IInv, IndegreeSound, RegistrySound
  <2>2. indegree[i] = 0 <=> Preds(edges, i) = {}
    BY <2>1, PredsFinite, FS_EmptySet
  <2>3. edges = {e \in MustPrecede(systems) : e[1] \notin selected}
    BY DEF IInv, EdgesSound
  <2>4. \A k \in Nodes : k \in Preds(edges, i) <=>
                           <<k, i>> \in MustPrecede(systems) /\ k \notin selected
    BY <2>3 DEF Preds
  <2>5. Preds(edges, i) \subseteq Nodes
    BY DEF Preds
  <2> QED
    BY <2>2, <2>4, <2>5
<1> QED
  BY <1>1, <1>2 DEF Candidates, MayRunNext, Nodes

LEMMA SelectSteps ==
  ASSUME IInv, StepsSound, Select
  PROVE  StepsSound'
<1>1. PICK i \in Candidates :
        /\ \A j \in Candidates : i <= j
        /\ order' = Append(order, i) /\ systems' = systems
        /\ status = "selecting" /\ Len(order) < Len(systems)
  BY DEF Select
<1>2. Candidates \subseteq Nat
  BY DEF Candidates, Nodes, Slots
<1>3. Candidates = MayRunNext(systems, order)
  BY <1>1, CandidatesMayRun
<1>4. i = Lowest(MayRunNext(systems, order)) /\ MayRunNext(systems, order) # {}
  BY <1>1, <1>2, <1>3, LowestIsLeast
<1>5. order' = Extended(systems, order)
  BY <1>1, <1>4 DEF Extended
<1>6. Len(systems) \in Nat /\ Len(order) \in Nat /\ Len(order') = Len(order) + 1
  BY <1>1, OrderIsPrefix DEF Prefix
<1>7. Len(order') \in 1 .. Len(systems) /\ Len(order') - 1 = Len(order)
  BY <1>1, <1>6
<1>8. OrderSteps(systems)[Len(order')] = Extended(systems, OrderSteps(systems)[Len(order)])
  BY <1>6, <1>7, StepsRecur
<1> QED
  BY <1>1, <1>5, <1>8 DEF StepsSound

LEMMA StepsInvariance == Spec => []StepsSound
<1>1. ASSUME Init PROVE StepsSound
  <2>1. order = <<>> /\ Len(systems) \in Nat
    BY <1>1, InitIInv, OrderIsPrefix DEF Init
  <2> QED
    BY <2>1, StepsRecur DEF StepsSound
<1>2. ASSUME IInv, StepsSound, [Next]_vars PROVE StepsSound'
  <2>1. CASE Select
    BY <1>2, <2>1, SelectSteps
  <2>2. CASE UNCHANGED <<systems, order>>
    BY <1>2, <2>2 DEF StepsSound
  <2> QED
    BY <1>2, <2>1, <2>2 DEF Next, vars, AddDependencies, StartSelecting, Reject, Finish
<1> QED
  BY <1>1, <1>2, Invariance, PTL DEF Spec

(* Whatever the registry, the choice among systems that are free to run is *)
(* theirs by registration, and a cyclic registry never gets an order.      *)
THEOREM OrderIsByRegistration == Spec => []MatchesRegistrationOrder
<1>1. ASSUME IInv, StepsSound PROVE MatchesRegistrationOrder
  <2>1. Prefix(order, systems) /\ Len(systems) \in Nat /\ Len(order) \in Nat
    BY <1>1, OrderIsPrefix DEF Prefix
  <2>2. CASE status = "OK"
    <3>1. Len(order) = Len(systems)
      BY <1>1, <2>2 DEF IInv, StatusSound
    <3> QED
      BY <1>1, <2>1, <2>2, <3>1, FullPrefixIsOrder
      DEF MatchesRegistrationOrder, StepsSound, RegistrationOrder
  <2>3. CASE status = "ARGUMENT"
    <3>1. Len(order) < Len(systems) /\ Candidates = {}
      BY <1>1, <2>3 DEF IInv, StatusSound
    <3>2. MayRunNext(systems, OrderSteps(systems)[Len(order)]) = {}
      BY <1>1, <2>3, <3>1, CandidatesMayRun DEF StepsSound
    <3>3. RegistrationOrder(systems) = order
      BY <1>1, <2>1, <3>1, <3>2, StuckForGood DEF StepsSound
    <3> QED
      BY <2>3, <3>1, <3>3 DEF MatchesRegistrationOrder
  <2>4. CASE status \notin {"OK", "ARGUMENT"}
    BY <2>4 DEF MatchesRegistrationOrder
  <2> QED
    BY <2>2, <2>3, <2>4
<1> QED
  BY <1>1, Invariance, StepsInvariance, PTL
=============================================================================
