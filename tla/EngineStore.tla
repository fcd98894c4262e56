---------------------------- MODULE EngineStore ----------------------------
(***************************************************************************)
(* The entity table and the component stores of an engine (ecsvm.c): the   *)
(* growing arrays behind ecsvm_entity_create, ecsvm_component_set and      *)
(* ecsvm_engine_register_component, called one at a time by the single     *)
(* thread that owns the engine.  Every realloc and every string copy may   *)
(* fail; a call returns at the first one that does, so an action takes as  *)
(* parameter the allocation, if any, that fails in it.  Payloads are       *)
(* members of Values (the code copies store->size bytes unseen).           *)
(***************************************************************************)
EXTENDS Naturals, Sequences

CONSTANTS
  Names,      \* qualified component names
  Hierarchy,  \* "core.Hierarchy", the built-in component
  Values,     \* payloads of a component row
  NoParent,   \* the payload ecsvm_entity_create stores: parent, child, sibling 0
  IdLimit     \* entity ids are machine words: 0 .. IdLimit - 1 (2^32 in the code)

ASSUME StoreAssumption ==
  /\ Hierarchy \in Names
  /\ NoParent \in Values
  /\ IdLimit \in Nat \ {0, 1}

VARIABLES
  entities,     \* engine->entities[0 .. entity_count - 1]
  entityCap,    \* engine->entity_capacity
  nextId,       \* engine->next_entity_id
  components,   \* engine->components[0 .. component_count - 1]; a component's id is its index
  componentCap, \* engine->component_capacity
  hierarchy,    \* engine->hierarchy_component, 0 while unset
  reply         \* what the last call returned

vars == <<entities, entityCap, nextId, components, componentCap, hierarchy, reply>>

(***************************************************************************)
(* Types.  entBuf and dataBuf are the lengths, in rows, of the two heap    *)
(* blocks of a store; the code keeps a single capacity for both.           *)
(***************************************************************************)
Ids == 0 .. IdLimit - 1
InvalidEntity == 0
Row == [entity : Ids, value : Values]
Store == [name : Names, rows : Seq(Row), cap : Nat, entBuf : Nat, dataBuf : Nat]
Status == {"OK", "ARGUMENT", "NOT_FOUND", "EXISTS", "MEMORY"}

\* The allocation that fails, if this call makes it.
TableFaults == {"none", "table", "name"}
RowFaults == {"none", "row entities", "row data"}
Faults == TableFaults \cup RowFaults \cup {"entities"}

TypeOK ==
  /\ entities \in Seq(Ids)
  /\ entityCap \in Nat
  /\ nextId \in Ids
  /\ components \in Seq(Store)
  /\ componentCap \in Nat
  /\ hierarchy \in 0 .. Len(components)
  /\ reply \in [status : Status, entity : Ids]

-----------------------------------------------------------------------------
(***************************************************************************)
(* ecsvm_next_capacity.  Every caller asks for one element more than it    *)
(* holds, and holds at most its capacity, so the doubling loop runs at     *)
(* most once.                                                              *)
(***************************************************************************)
NextCapacity(current, minimum) ==
  IF current = 0 THEN 4
  ELSE IF current < minimum THEN 2 * current ELSE current

\* Capacity after a reserve call for one element more than count.
Reserved(cap, count, failed) ==
  IF count + 1 <= cap \/ failed THEN cap ELSE NextCapacity(cap, count + 1)

\* Faulty: the reserved id is not checked for.
HasAnyEntity(es, e) == \E i \in 1 .. Len(es) : es[i] = e

HasEntity(es, e) == e # InvalidEntity /\ \E i \in 1 .. Len(es) : es[i] = e

IsRegistered(n, cs) == \E c \in 1 .. Len(cs) : cs[c].name = n
HasRow(s, e) == e # InvalidEntity /\ \E r \in 1 .. Len(s.rows) : s.rows[r].entity = e

(***************************************************************************)
(* ecsvm_reserve_component_rows: two reallocs, and the capacity is only    *)
(* raised when both succeed.  When the second fails the first block has    *)
(* already grown.  The call succeeded iff the result has room for a row.   *)
(***************************************************************************)
\* Faulty: the capacity is raised before the second realloc.
ReserveRowsEarly(s, fault) ==
  LET n == NextCapacity(s.cap, Len(s.rows) + 1) IN
  IF Len(s.rows) + 1 <= s.cap \/ fault = "row entities" THEN s
  ELSE IF fault = "row data" THEN [s EXCEPT !.entBuf = n, !.cap = n]
  ELSE [s EXCEPT !.entBuf = n, !.dataBuf = n, !.cap = n]

ReserveRows(s, fault) ==
  LET n == NextCapacity(s.cap, Len(s.rows) + 1) IN
  IF Len(s.rows) + 1 <= s.cap \/ fault = "row entities" THEN s
  ELSE IF fault = "row data" THEN [s EXCEPT !.entBuf = n]
  ELSE [s EXCEPT !.entBuf = n, !.dataBuf = n, !.cap = n]

HasRoom(s) == Len(s.rows) < s.cap

(***************************************************************************)
(* ecsvm_component_set: the stores after the call and the status returned. *)
(***************************************************************************)
\* Faulty: the row is replaced by one at the end.
OverwrittenAtEnd(s, e, v) ==
  [s EXCEPT !.rows =
     Append(SelectSeq(@, LAMBDA row : row.entity # e), [entity |-> e, value |-> v])]

Overwritten(s, e, v) ==
  [s EXCEPT !.rows = [r \in 1 .. Len(s.rows) |->
     IF s.rows[r].entity = e THEN [s.rows[r] EXCEPT !.value = v] ELSE s.rows[r]]]

Appended(s, e, v, fault) ==
  LET t == ReserveRows(s, fault) IN
  IF HasRoom(t) THEN [t EXCEPT !.rows = Append(@, [entity |-> e, value |-> v])] ELSE t

\* Faulty: a row that could not be added is not reported.
SetStatusHopeful(es, cs, c, e, fault) ==
  IF ~HasEntity(es, e) THEN "ARGUMENT"
  ELSE IF c \notin 1 .. Len(cs) THEN "NOT_FOUND"
  ELSE "OK"

SetStatus(es, cs, c, e, fault) ==
  IF ~HasEntity(es, e) THEN "ARGUMENT"
  ELSE IF c \notin 1 .. Len(cs) THEN "NOT_FOUND"
  ELSE IF HasRow(cs[c], e) \/ HasRoom(ReserveRows(cs[c], fault)) THEN "OK"
  ELSE "MEMORY"

\* Faulty: an entity that does not exist gets a row.
SetStoresOfAny(es, cs, c, e, v, fault) ==
  IF c \notin 1 .. Len(cs) THEN cs
  ELSE IF HasRow(cs[c], e) THEN [cs EXCEPT ![c] = Overwritten(@, e, v)]
  ELSE [cs EXCEPT ![c] = Appended(@, e, v, fault)]

\* Faulty: an entity that has a row gets another.
SetStoresTwice(es, cs, c, e, v, fault) ==
  IF ~HasEntity(es, e) \/ c \notin 1 .. Len(cs) THEN cs
  ELSE [cs EXCEPT ![c] = Appended(@, e, v, fault)]

SetStores(es, cs, c, e, v, fault) ==
  IF ~HasEntity(es, e) \/ c \notin 1 .. Len(cs) THEN cs
  ELSE IF HasRow(cs[c], e) THEN [cs EXCEPT ![c] = Overwritten(@, e, v)]
  ELSE [cs EXCEPT ![c] = Appended(@, e, v, fault)]

(***************************************************************************)
(* ecsvm_engine_register_component: the table may grow and the copy of the *)
(* name still fail.                                                        *)
(***************************************************************************)
EmptyStore(n) == [name |-> n, rows |-> <<>>, cap |-> 0, entBuf |-> 0, dataBuf |-> 0]

TableReserved(cs, cap, fault) == Reserved(cap, Len(cs), fault = "table")

\* Faulty: a name in use is registered again.
RegisterStatusAgain(n, cs, cap, fault) ==
  IF Len(cs) < TableReserved(cs, cap, fault) /\ fault # "name" THEN "OK"
  ELSE "MEMORY"

RegisterStatus(n, cs, cap, fault) ==
  IF IsRegistered(n, cs) THEN "EXISTS"
  ELSE IF Len(cs) < TableReserved(cs, cap, fault) /\ fault # "name" THEN "OK"
  ELSE "MEMORY"

Registered(n, cs, cap, fault) ==
  IF RegisterStatus(n, cs, cap, fault) = "OK" THEN Append(cs, EmptyStore(n)) ELSE cs

RegisteredCap(n, cs, cap, fault) ==
  IF IsRegistered(n, cs) THEN cap ELSE TableReserved(cs, cap, fault)

\* Faulty: taken for registered whatever the registration returned.
HierarchyAnyway(cs) == IF hierarchy # 0 THEN hierarchy ELSE 1

\* hierarchy_component after ecsvm_engine_register_builtin_components, when
\* the stores it leaves are cs; 0 when it failed.
HierarchyIn(cs) ==
  IF hierarchy # 0 THEN hierarchy
  ELSE IF IsRegistered(Hierarchy, cs)
       THEN CHOOSE c \in 1 .. Len(cs) : cs[c].name = Hierarchy
       ELSE 0

-----------------------------------------------------------------------------
\* The engine after ecsvm_engine_create.
Init ==
  /\ entities = <<>>
  /\ entityCap = 0
  /\ nextId = 1
  /\ components = <<>>
  /\ componentCap = 0
  /\ hierarchy = 0
  /\ reply = [status |-> "OK", entity |-> InvalidEntity]

\* ecsvm_engine_register_component.
RegisterComponent(n, fault) ==
  /\ components' = Registered(n, components, componentCap, fault)
  /\ componentCap' = RegisteredCap(n, components, componentCap, fault)
  /\ reply' = [status |-> RegisterStatus(n, components, componentCap, fault),
               entity |-> InvalidEntity]
  /\ UNCHANGED <<entities, entityCap, nextId, hierarchy>>

\* next_entity_id += 1u, an unsigned word.
Incremented(id) == IF id = IdLimit - 1 THEN 0 ELSE id + 1

(***************************************************************************)
(* ecsvm_entity_create: register the built-in component if need be,        *)
(* reserve, append the id, add its hierarchy row, and take the id and the  *)
(* entity back when that row could not be added.                           *)
(***************************************************************************)
EntityCreate(fault) ==
  LET builtin == hierarchy # 0 \/ IsRegistered(Hierarchy, components)
      cs == IF builtin THEN components
            ELSE Registered(Hierarchy, components, componentCap, fault)
      hid == HierarchyIn(cs)
      cap == Reserved(entityCap, Len(entities), fault = "entities")
      room == hid # 0 /\ Len(entities) < cap
      added == Append(entities, nextId)
      created == room /\ SetStatus(added, cs, hid, nextId, fault) = "OK"
  IN
  /\ hierarchy' = hid
  /\ componentCap' = IF builtin THEN componentCap
                     ELSE RegisteredCap(Hierarchy, components, componentCap, fault)
  /\ entityCap' = IF hid # 0 THEN cap ELSE entityCap
  /\ components' = IF room THEN SetStores(added, cs, hid, nextId, NoParent, fault) ELSE cs
  /\ entities' = IF created THEN added ELSE entities
  /\ nextId' = IF created THEN Incremented(nextId) ELSE nextId
  /\ reply' = [status |-> IF created THEN "OK" ELSE "MEMORY",
               entity |-> IF created THEN nextId ELSE InvalidEntity]

\* ecsvm_component_set, for any component id and any entity id a caller may pass.
ComponentSet(c, e, v, fault) ==
  /\ components' = SetStores(entities, components, c, e, v, fault)
  /\ reply' = [status |-> SetStatus(entities, components, c, e, fault),
               entity |-> InvalidEntity]
  /\ UNCHANGED <<entities, entityCap, nextId, componentCap, hierarchy>>

(***************************************************************************)
(* A caller writes through the pointer ecsvm_component_get_mutable         *)
(* returned, before the next call into the engine.                         *)
(***************************************************************************)
WriteThrough(c, e, v) ==
  /\ c \in 1 .. Len(components)
  /\ HasRow(components[c], e)
  /\ components' = [components EXCEPT ![c] = Overwritten(@, e, v)]
  /\ reply' = [status |-> "OK", entity |-> InvalidEntity]
  /\ UNCHANGED <<entities, entityCap, nextId, componentCap, hierarchy>>

\* Component ids a caller may pass: the registered ones, 0 and one too many.
ComponentIds == 0 .. Len(components) + 1

Next ==
  \/ \E n \in Names, fault \in TableFaults : RegisterComponent(n, fault)
  \/ \E fault \in Faults : EntityCreate(fault)
  \/ \E c \in ComponentIds, e \in Ids, v \in Values, fault \in RowFaults :
       ComponentSet(c, e, v, fault)
  \/ \E c \in ComponentIds, e \in Ids, v \in Values : WriteThrough(c, e, v)

Spec == Init /\ [][Next]_vars

-----------------------------------------------------------------------------
(***************************************************************************)
(* Safety.                                                                 *)
(***************************************************************************)

(* No two entities share an id and none has the reserved id 0: the id      *)
(* counter wraps, and ecsvm_entity_create must stop issuing ids then.      *)
IdsUnique ==
  /\ \A i \in 1 .. Len(entities) : entities[i] # InvalidEntity
  /\ \A i, j \in 1 .. Len(entities) : entities[i] = entities[j] => i = j

(* A store has at most one row per entity and no row of an entity that is  *)
(* not in the entity table, also after a creation that was taken back.     *)
RowsOfLiveEntities ==
  \A c \in 1 .. Len(components) :
    LET rows == components[c].rows IN
    /\ \A r \in 1 .. Len(rows) : HasEntity(entities, rows[r].entity)
    /\ \A r, q \in 1 .. Len(rows) : rows[r].entity = rows[q].entity => r = q

(* Every entity has its core.Hierarchy row: an entity whose row could not  *)
(* be allocated must not stay in the table.                                *)
HierarchyTotal ==
  \A i \in 1 .. Len(entities) :
    hierarchy # 0 /\ HasRow(components[hierarchy], entities[i])

(* The counts stay within the capacities, and a store's single capacity    *)
(* never exceeds either of its two heap blocks, whichever realloc failed.  *)
BuffersCover ==
  /\ Len(entities) <= entityCap
  /\ Len(components) <= componentCap
  /\ \A c \in 1 .. Len(components) :
       LET s == components[c] IN
       Len(s.rows) <= s.cap /\ s.cap <= s.entBuf /\ s.cap <= s.dataBuf

(* Component names are unique and hierarchy_component keeps denoting       *)
(* core.Hierarchy, whoever registered it.                                  *)
NamesUnique ==
  /\ \A c, d \in 1 .. Len(components) :
       components[c].name = components[d].name => c = d
  /\ hierarchy # 0 => components[hierarchy].name = Hierarchy

(* Component ids and row positions are permanent: the interpreter keeps    *)
(* ids and scans rows by position while systems add rows.                  *)
RowsKeepTheirPlace ==
  [][\A c \in 1 .. Len(components) :
       /\ components'[c].name = components[c].name
       /\ \A r \in 1 .. Len(components[c].rows) :
            components'[c].rows[r].entity = components[c].rows[r].entity]_vars

-----------------------------------------------------------------------------
(***************************************************************************)
(* The caller's view of the stores.                                        *)
(***************************************************************************)
Live == {entities[i] : i \in 1 .. Len(entities)}
RegistryOf(cs) == [c \in 1 .. Len(cs) |-> cs[c].name]
TableOf(cs) ==
  UNION {{<<c, cs[c].rows[r].entity, cs[c].rows[r].value>> : r \in 1 .. Len(cs[c].rows)} :
           c \in 1 .. Len(cs)}

Map == INSTANCE EntityMap
         WITH live <- Live, registered <- RegistryOf(components), table <- TableOf(components)

(* The stores implement the map from entities to values: each call has its *)
(* whole effect or, when it fails, none.                                   *)
ImplementsEntityMap == Map!Spec
=============================================================================
