---------------------------- MODULE EngineProofs ----------------------------
(***************************************************************************)
(* Proofs about the tables of the engine: the component stores, for every  *)
(* set of names and values, every word width and every number of entities, *)
(* and the blobs, which implement a map from handles to contents whatever  *)
(* calls come in whatever order and whichever allocations fail.            *)
(***************************************************************************)
EXTENDS EngineStore, BlobTable, WellFoundedInduction, TLAPS

-----------------------------------------------------------------------------
(***************************************************************************)
(* What the operators on one store return.                                 *)
(***************************************************************************)

\* A store's counts and capacity agree with its heap blocks.
Covered(s) == Len(s.rows) <= s.cap /\ s.cap <= s.entBuf /\ s.cap <= s.dataBuf

\* Growing never shrinks, and makes room for the element asked for.
LEMMA NextCapacityGrows ==
  ASSUME NEW cap \in Nat, NEW count \in Nat, count <= cap
  PROVE  /\ NextCapacity(cap, count + 1) \in Nat
         /\ NextCapacity(cap, count + 1) >= cap
         /\ NextCapacity(cap, count + 1) >= count + 1
  BY DEF NextCapacity

LEMMA ReservedGrows ==
  ASSUME NEW cap \in Nat, NEW count \in Nat, count <= cap, NEW failed \in BOOLEAN
  PROVE  Reserved(cap, count, failed) \in Nat /\ Reserved(cap, count, failed) >= cap
  BY NextCapacityGrows DEF Reserved

\* ecsvm_reserve_component_rows keeps the rows, and the capacity never passes
\* either block, whichever allocation fails.
LEMMA ReserveRowsSound ==
  ASSUME NEW s \in Store, Covered(s), NEW fault
  PROVE  /\ ReserveRows(s, fault) \in Store
         /\ Covered(ReserveRows(s, fault))
         /\ ReserveRows(s, fault).rows = s.rows
         /\ ReserveRows(s, fault).name = s.name
<1> DEFINE n == NextCapacity(s.cap, Len(s.rows) + 1)
<1>1. s.cap \in Nat /\ s.entBuf \in Nat /\ s.dataBuf \in Nat /\ Len(s.rows) \in Nat
  BY DEF Store
<1>2. n \in Nat /\ n >= s.cap
  BY <1>1, NextCapacityGrows DEF Covered
<1>3. \/ ReserveRows(s, fault) = s
      \/ ReserveRows(s, fault) = [s EXCEPT !.entBuf = n]
      \/ ReserveRows(s, fault) = [s EXCEPT !.entBuf = n, !.dataBuf = n, !.cap = n]
  BY DEF ReserveRows
<1> HIDE DEF n
<1>4. CASE ReserveRows(s, fault) = s
  BY <1>4
<1>5. CASE ReserveRows(s, fault) = [s EXCEPT !.entBuf = n]
  BY <1>1, <1>2, <1>5 DEF Store, Covered
<1>6. CASE ReserveRows(s, fault) = [s EXCEPT !.entBuf = n, !.dataBuf = n, !.cap = n]
  <2>1. [s EXCEPT !.entBuf = n, !.dataBuf = n, !.cap = n] \in Store
    BY <1>1, <1>2 DEF Store
  <2>2. Covered([s EXCEPT !.entBuf = n, !.dataBuf = n, !.cap = n])
    BY <1>1, <1>2 DEF Store, Covered
  <2>3. /\ [s EXCEPT !.entBuf = n, !.dataBuf = n, !.cap = n].rows = s.rows
        /\ [s EXCEPT !.entBuf = n, !.dataBuf = n, !.cap = n].name = s.name
    BY DEF Store
  <2> QED BY <1>6, <2>1, <2>2, <2>3
<1> QED BY <1>3, <1>4, <1>5, <1>6

\* Appending a row adds exactly that row, or nothing when there is no room.
LEMMA AppendedSound ==
  ASSUME NEW s \in Store, Covered(s), NEW e \in Ids, NEW v \in Values, NEW fault
  PROVE  /\ Appended(s, e, v, fault) \in Store
         /\ Covered(Appended(s, e, v, fault))
         /\ Appended(s, e, v, fault).name = s.name
         /\ Appended(s, e, v, fault).rows =
              IF HasRoom(ReserveRows(s, fault))
              THEN Append(s.rows, [entity |-> e, value |-> v]) ELSE s.rows
<1> DEFINE grown == ReserveRows(s, fault)
           row == [entity |-> e, value |-> v]
<1>1. grown \in Store /\ Covered(grown) /\ grown.rows = s.rows /\ grown.name = s.name
  BY ReserveRowsSound
<1>2. row \in Row
  BY DEF Row
<1>3. CASE HasRoom(grown)
  <2>1. Appended(s, e, v, fault) = [grown EXCEPT !.rows = Append(grown.rows, row)]
    BY <1>3 DEF Appended
  <2>2. /\ Append(grown.rows, row) \in Seq(Row)
        /\ Len(Append(grown.rows, row)) = Len(grown.rows) + 1
    BY <1>1, <1>2 DEF Store
  <2>3. Len(grown.rows) < grown.cap
    BY <1>3 DEF HasRoom
  <2> HIDE DEF grown, row
  <2>4. [grown EXCEPT !.rows = Append(grown.rows, row)] \in Store
    BY <1>1, <2>2 DEF Store
  <2>5. Covered([grown EXCEPT !.rows = Append(grown.rows, row)])
    BY <1>1, <2>2, <2>3 DEF Store, Covered
  <2>6. /\ [grown EXCEPT !.rows = Append(grown.rows, row)].name = s.name
        /\ [grown EXCEPT !.rows = Append(grown.rows, row)].rows = Append(s.rows, row)
    BY <1>1 DEF Store
  <2> QED BY <2>1, <2>4, <2>5, <2>6, <1>3 DEF grown, row
<1>4. CASE ~HasRoom(grown)
  <2>1. Appended(s, e, v, fault) = grown
    BY <1>4 DEF Appended
  <2> QED BY <2>1, <1>1, <1>4
<1> QED BY <1>3, <1>4

\* Overwriting changes values only.
LEMMA OverwrittenSound ==
  ASSUME NEW s \in Store, Covered(s), NEW e, NEW v \in Values
  PROVE  /\ Overwritten(s, e, v) \in Store
         /\ Covered(Overwritten(s, e, v))
         /\ Overwritten(s, e, v).name = s.name
         /\ Len(Overwritten(s, e, v).rows) = Len(s.rows)
         /\ \A r \in 1 .. Len(s.rows) :
              Overwritten(s, e, v).rows[r].entity = s.rows[r].entity
<1> DEFINE new == [r \in 1 .. Len(s.rows) |->
              IF s.rows[r].entity = e THEN [s.rows[r] EXCEPT !.value = v] ELSE s.rows[r]]
<1>1. s.rows \in Seq(Row) /\ Len(s.rows) \in Nat
  BY DEF Store
<1>2. ASSUME NEW r \in 1 .. Len(s.rows)
      PROVE  new[r] \in Row /\ new[r].entity = s.rows[r].entity
  <2>1. s.rows[r] \in Row
    BY <1>1
  <2>2. /\ [s.rows[r] EXCEPT !.value = v] \in Row
        /\ [s.rows[r] EXCEPT !.value = v].entity = s.rows[r].entity
    BY <2>1 DEF Row
  <2> QED BY <2>1, <2>2
<1>3. new \in Seq(Row) /\ Len(new) = Len(s.rows)
  <2>1. new \in [1 .. Len(s.rows) -> Row]
    BY <1>2
  <2> QED BY <1>1, <2>1
<1>4. Overwritten(s, e, v) = [s EXCEPT !.rows = new]
  BY DEF Overwritten
<1> HIDE DEF new
<1>5. /\ [s EXCEPT !.rows = new] \in Store
      /\ [s EXCEPT !.rows = new].rows = new
      /\ [s EXCEPT !.rows = new].name = s.name
  BY <1>3 DEF Store
<1>6. Covered([s EXCEPT !.rows = new])
  BY <1>3 DEF Store, Covered
<1> QED BY <1>2, <1>3, <1>4, <1>5, <1>6

-----------------------------------------------------------------------------
(***************************************************************************)
(* How a call may change one store, seen from its entity column.           *)
(***************************************************************************)

SameEntities(s, t) ==
  /\ Len(t.rows) = Len(s.rows)
  /\ \A r \in 1 .. Len(s.rows) : t.rows[r].entity = s.rows[r].entity

RowAdded(s, t, e, v) ==
  ~HasRow(s, e) /\ t.rows = Append(s.rows, [entity |-> e, value |-> v])

\* The part of RowsOfLiveEntities that is about one store.
RowsSound(s, es) ==
  /\ \A r \in 1 .. Len(s.rows) : HasEntity(es, s.rows[r].entity)
  /\ \A r, q \in 1 .. Len(s.rows) : s.rows[r].entity = s.rows[q].entity => r = q

LEMMA SameEntitiesKeep ==
  ASSUME NEW s \in Store, NEW t \in Store, SameEntities(s, t), NEW es, NEW x
  PROVE  /\ RowsSound(s, es) => RowsSound(t, es)
         /\ HasRow(s, x) => HasRow(t, x)
<1>1. Len(s.rows) \in Nat /\ Len(t.rows) = Len(s.rows)
  BY DEF Store, SameEntities
<1>2. RowsSound(s, es) => RowsSound(t, es)
  BY <1>1 DEF SameEntities, RowsSound
<1>3. HasRow(s, x) => HasRow(t, x)
  BY <1>1 DEF SameEntities, HasRow
<1> QED BY <1>2, <1>3

LEMMA AddedRowColumns ==
  ASSUME NEW s \in Store, NEW t \in Store, NEW e \in Ids, NEW v \in Values,
         RowAdded(s, t, e, v)
  PROVE  /\ Len(s.rows) \in Nat /\ Len(t.rows) = Len(s.rows) + 1
         /\ \A r \in 1 .. Len(s.rows) : t.rows[r].entity = s.rows[r].entity
         /\ t.rows[Len(s.rows) + 1].entity = e
<1>1. s.rows \in Seq(Row) /\ [entity |-> e, value |-> v] \in Row
  BY DEF Store, Row
<1> QED BY <1>1 DEF RowAdded

LEMMA RowAddedKeeps ==
  ASSUME NEW s \in Store, NEW t \in Store, NEW e \in Ids, NEW v \in Values,
         RowAdded(s, t, e, v), NEW es, NEW x
  PROVE  /\ HasEntity(es, e) /\ RowsSound(s, es) => RowsSound(t, es)
         /\ HasRow(s, x) => HasRow(t, x)
         /\ HasEntity(es, e) => HasRow(t, e)
<1>1. /\ Len(s.rows) \in Nat /\ Len(t.rows) = Len(s.rows) + 1
      /\ \A r \in 1 .. Len(s.rows) : t.rows[r].entity = s.rows[r].entity
      /\ t.rows[Len(s.rows) + 1].entity = e
  BY AddedRowColumns
<1>2. ASSUME HasEntity(es, e), RowsSound(s, es)
      PROVE  RowsSound(t, es)
  <2>1. \A r \in 1 .. Len(s.rows) : s.rows[r].entity # e
    BY <1>2 DEF RowAdded, HasRow, HasEntity
  <2>2. ASSUME NEW r \in 1 .. Len(t.rows)
        PROVE  HasEntity(es, t.rows[r].entity)
    <3>1. CASE r = Len(s.rows) + 1
      BY <1>1, <1>2, <3>1
    <3>2. CASE r \in 1 .. Len(s.rows)
      BY <1>1, <1>2, <3>2 DEF RowsSound
    <3> QED BY <1>1, <3>1, <3>2
  <2>3. ASSUME NEW r \in 1 .. Len(t.rows), NEW q \in 1 .. Len(t.rows),
               t.rows[r].entity = t.rows[q].entity
        PROVE  r = q
    <3>1. r \in 1 .. Len(s.rows) \/ r = Len(s.rows) + 1
      BY <1>1
    <3>2. q \in 1 .. Len(s.rows) \/ q = Len(s.rows) + 1
      BY <1>1
    <3>3. \A i, j \in 1 .. Len(s.rows) : s.rows[i].entity = s.rows[j].entity => i = j
      BY <1>2 DEF RowsSound
    <3> QED BY <1>1, <2>1, <2>3, <3>1, <3>2, <3>3
  <2> QED BY <2>2, <2>3 DEF RowsSound
<1>3. HasRow(s, x) => HasRow(t, x)
  BY <1>1 DEF HasRow
<1>4. HasEntity(es, e) => HasRow(t, e)
  BY <1>1 DEF HasRow, HasEntity
<1> QED BY <1>2, <1>3, <1>4

\* ecsvm_component_set touches the entity column of one store at most: it adds
\* the one row asked for, and only when it returns OK.
SetResult(es, cs, c, e, v, fault, new) ==
  /\ new \in Seq(Store)
  /\ Len(new) = Len(cs)
  /\ \A d \in 1 .. Len(cs) :
       /\ Covered(new[d])
       /\ new[d].name = cs[d].name
       /\ \/ SameEntities(cs[d], new[d])
          \/ /\ SetStatus(es, cs, c, e, fault) = "OK"
             /\ RowAdded(cs[d], new[d], e, v)
  /\ SetStatus(es, cs, c, e, fault) = "OK" =>
       /\ HasEntity(es, e)
       /\ c \in 1 .. Len(cs)
       /\ HasRow(new[c], e)

LEMMA SetStoresSound ==
  ASSUME NEW es \in Seq(Ids), NEW cs \in Seq(Store),
         \A d \in 1 .. Len(cs) : Covered(cs[d]),
         NEW c, NEW e \in Ids, NEW v \in Values, NEW fault
  PROVE  SetResult(es, cs, c, e, v, fault, SetStores(es, cs, c, e, v, fault))
<1> DEFINE new == SetStores(es, cs, c, e, v, fault)
<1>1. ASSUME NEW d \in 1 .. Len(cs)
      PROVE  cs[d] \in Store /\ Covered(cs[d]) /\ SameEntities(cs[d], cs[d])
  BY DEF SameEntities
<1>2. CASE ~HasEntity(es, e) \/ c \notin 1 .. Len(cs)
  <2>1. new = cs /\ SetStatus(es, cs, c, e, fault) # "OK"
    BY <1>2 DEF SetStores, SetStatus
  <2> QED BY <1>1, <2>1 DEF SetResult
<1>3. CASE HasEntity(es, e) /\ c \in 1 .. Len(cs) /\ HasRow(cs[c], e)
  <2> DEFINE t == Overwritten(cs[c], e, v)
  <2>1. new = [cs EXCEPT ![c] = t]
    BY <1>3 DEF SetStores
  <2>2. t \in Store /\ Covered(t) /\ t.name = cs[c].name /\ SameEntities(cs[c], t)
    BY <1>1, <1>3, OverwrittenSound DEF SameEntities
  <2>3. HasRow(t, e)
    BY <1>1, <1>3, <2>2, SameEntitiesKeep
  <2> HIDE DEF t, new
  <2> QED BY <1>1, <1>3, <2>1, <2>2, <2>3 DEF new, SetResult
<1>4. CASE HasEntity(es, e) /\ c \in 1 .. Len(cs) /\ ~HasRow(cs[c], e)
  <2> DEFINE t == Appended(cs[c], e, v, fault)
  <2>1. new = [cs EXCEPT ![c] = t]
    BY <1>4 DEF SetStores
  <2>0. cs[c] \in Store /\ Covered(cs[c])
    BY <1>1, <1>4
  <2>2. t \in Store /\ Covered(t) /\ t.name = cs[c].name
    <3> DEFINE s == cs[c]
    <3>1. s \in Store /\ Covered(s)
      BY <2>0
    <3> HIDE DEF s
    <3>2. /\ Appended(s, e, v, fault) \in Store /\ Covered(Appended(s, e, v, fault))
          /\ Appended(s, e, v, fault).name = s.name
      BY ONLY <3>1, AppendedSound
    <3> QED
      BY <3>2 DEF s
  <2>5. t.rows = IF HasRoom(ReserveRows(cs[c], fault))
                 THEN Append(cs[c].rows, [entity |-> e, value |-> v]) ELSE cs[c].rows
    <3> DEFINE s == cs[c]
    <3>1. s \in Store /\ Covered(s)
      BY <2>0
    <3> HIDE DEF s
    <3>2. Appended(s, e, v, fault).rows =
            IF HasRoom(ReserveRows(s, fault))
            THEN Append(s.rows, [entity |-> e, value |-> v]) ELSE s.rows
      BY ONLY <3>1, AppendedSound
    <3> QED
      BY <3>2 DEF s
  <2>6. SetStatus(es, cs, c, e, fault) = "OK" <=> HasRoom(ReserveRows(cs[c], fault))
    BY <1>4 DEF SetStatus
  <2> HIDE DEF t
  <2>3. SetStatus(es, cs, c, e, fault) = "OK" => RowAdded(cs[c], t, e, v) /\ HasRow(t, e)
    <3>1. SetStatus(es, cs, c, e, fault) = "OK" => RowAdded(cs[c], t, e, v)
      BY <1>4, <2>5, <2>6 DEF RowAdded
    <3> QED BY <1>4, <2>0, <2>2, <3>1, RowAddedKeeps
  <2>4. SetStatus(es, cs, c, e, fault) # "OK" => SameEntities(cs[c], t)
    BY <2>5, <2>6 DEF SameEntities
  <2> HIDE DEF t, new
  <2> QED BY <1>1, <1>4, <2>1, <2>2, <2>3, <2>4 DEF new, SetResult
<1> QED BY <1>2, <1>3, <1>4

-----------------------------------------------------------------------------
(***************************************************************************)
(* The inductive invariant.  StoresSound is the part about the stores, for *)
(* given values of the engine's fields, so that it can be stated of the    *)
(* intermediate states of ecsvm_entity_create as well.                     *)
(***************************************************************************)

StoresSound(cs, ccap, hid, es) ==
  /\ cs \in Seq(Store) /\ ccap \in Nat /\ Len(cs) <= ccap
  /\ \A c \in 1 .. Len(cs) : Covered(cs[c]) /\ RowsSound(cs[c], es)
  /\ \A c, d \in 1 .. Len(cs) : cs[c].name = cs[d].name => c = d
  /\ hid \in 0 .. Len(cs)
  /\ hid # 0 => cs[hid].name = Hierarchy
  /\ \A i \in 1 .. Len(es) : hid # 0 /\ HasRow(cs[hid], es[i])

\* Ids are issued in order from 1 and the counter stays at 0 once it wrapped:
\* the i-th entity is i, which is why ids are never reused.
IssuedInOrder ==
  /\ entities \in Seq(Ids)
  /\ Len(entities) < IdLimit
  /\ nextId = IF Len(entities) = IdLimit - 1 THEN 0 ELSE Len(entities) + 1
  /\ \A i \in 1 .. Len(entities) : entities[i] = i

IInv ==
  /\ StoresSound(components, componentCap, hierarchy, entities)
  /\ IssuedInOrder
  /\ entityCap \in Nat /\ Len(entities) <= entityCap
  /\ reply \in [status : Status, entity : Ids]

LEMMA IdsAreNaturals ==
  /\ IdLimit \in Nat /\ IdLimit >= 2 /\ 0 \in Ids /\ 1 \in Ids
  /\ \A e \in Ids : e \in Nat /\ e < IdLimit
  BY StoreAssumption DEF Ids

\* Registering adds an empty store under a new name, or changes nothing.
LEMMA RegisteredSound ==
  ASSUME NEW cs \in Seq(Store), NEW ccap \in Nat, Len(cs) <= ccap,
         NEW n \in Names, NEW fault
  PROVE  /\ RegisteredCap(n, cs, ccap, fault) \in Nat
         /\ RegisteredCap(n, cs, ccap, fault) >= ccap
         /\ \/ Registered(n, cs, ccap, fault) = cs
            \/ /\ Registered(n, cs, ccap, fault) = Append(cs, EmptyStore(n))
               /\ ~IsRegistered(n, cs)
               /\ Len(cs) + 1 <= RegisteredCap(n, cs, ccap, fault)
<1>1. Len(cs) \in Nat
  OBVIOUS
<1>2. TableReserved(cs, ccap, fault) \in Nat /\ TableReserved(cs, ccap, fault) >= ccap
  BY <1>1, ReservedGrows DEF TableReserved
<1> QED BY <1>1, <1>2 DEF Registered, RegisteredCap, RegisterStatus

LEMMA EmptyStoreSound ==
  ASSUME NEW n \in Names, NEW es
  PROVE  /\ EmptyStore(n) \in Store /\ EmptyStore(n).name = n
         /\ Covered(EmptyStore(n)) /\ RowsSound(EmptyStore(n), es)
<1>1. EmptyStore(n) \in Store /\ EmptyStore(n).name = n
  BY DEF EmptyStore, Store
<1>2. EmptyStore(n).rows = <<>> /\ Covered(EmptyStore(n))
  BY DEF EmptyStore, Covered
<1> QED BY <1>1, <1>2 DEF RowsSound

LEMMA RegisterKeepsStores ==
  ASSUME NEW cs, NEW ccap, NEW hid, NEW es \in Seq(Ids), StoresSound(cs, ccap, hid, es),
         NEW n \in Names, NEW fault
  PROVE  /\ StoresSound(Registered(n, cs, ccap, fault), RegisteredCap(n, cs, ccap, fault), hid, es)
         /\ Len(Registered(n, cs, ccap, fault)) >= Len(cs)
<1> DEFINE new == Registered(n, cs, ccap, fault)
           cap == RegisteredCap(n, cs, ccap, fault)
<1>1. cs \in Seq(Store) /\ ccap \in Nat /\ Len(cs) \in Nat /\ Len(cs) <= ccap
  BY DEF StoresSound
<1>2. cap \in Nat /\ cap >= ccap
  BY <1>1, RegisteredSound
<1>3. CASE new = cs
  <2> HIDE DEF new, cap
  <2>1. StoresSound(cs, cap, hid, es) /\ Len(cs) >= Len(cs)
    BY <1>1, <1>2 DEF StoresSound
  <2> QED BY <1>3, <2>1 DEF new, cap
<1>4. CASE new = Append(cs, EmptyStore(n)) /\ ~IsRegistered(n, cs) /\ Len(cs) + 1 <= cap
  <2> HIDE DEF new, cap
  <2>1. EmptyStore(n) \in Store /\ EmptyStore(n).name = n
        /\ Covered(EmptyStore(n)) /\ RowsSound(EmptyStore(n), es)
    BY EmptyStoreSound
  <2>2. /\ new \in Seq(Store) /\ Len(new) = Len(cs) + 1
        /\ new[Len(cs) + 1] = EmptyStore(n)
        /\ \A c \in 1 .. Len(cs) : new[c] = cs[c]
    BY <1>1, <1>4, <2>1
  <2>3. \A c \in 1 .. Len(new) : Covered(new[c]) /\ RowsSound(new[c], es)
    BY <1>1, <2>1, <2>2 DEF StoresSound
  <2>4. \A c \in 1 .. Len(cs) : new[c].name # n
    BY <1>1, <1>4, <2>2 DEF IsRegistered
  <2>5. ASSUME NEW c \in 1 .. Len(new), NEW d \in 1 .. Len(new), new[c].name = new[d].name
        PROVE  c = d
    <3>1. c \in 1 .. Len(cs) \/ c = Len(cs) + 1
      BY <1>1, <2>2
    <3>2. d \in 1 .. Len(cs) \/ d = Len(cs) + 1
      BY <1>1, <2>2
    <3>3. \A i, j \in 1 .. Len(cs) : cs[i].name = cs[j].name => i = j
      BY DEF StoresSound
    <3> QED BY <2>1, <2>2, <2>4, <2>5, <3>1, <3>2, <3>3
  <2>6. hid \in 0 .. Len(new) /\ (hid # 0 => new[hid] = cs[hid])
    BY <1>1, <2>2 DEF StoresSound
  <2>7. hid # 0 => new[hid].name = Hierarchy
    BY <2>6 DEF StoresSound
  <2>8. \A i \in 1 .. Len(es) : hid # 0 /\ HasRow(new[hid], es[i])
    BY <2>6 DEF StoresSound
  <2>9. StoresSound(new, cap, hid, es) /\ Len(new) >= Len(cs)
    BY <1>1, <1>2, <1>4, <2>2, <2>3, <2>5, <2>6, <2>7, <2>8 DEF StoresSound
  <2> QED BY <2>9 DEF new, cap
<1> QED BY <1>1, <1>3, <1>4, RegisteredSound

LEMMA SetKeepsStores ==
  ASSUME NEW cs, NEW ccap, NEW hid, NEW es \in Seq(Ids), StoresSound(cs, ccap, hid, es),
         NEW c, NEW e \in Ids, NEW v \in Values, NEW fault
  PROVE  StoresSound(SetStores(es, cs, c, e, v, fault), ccap, hid, es)
<1> DEFINE new == SetStores(es, cs, c, e, v, fault)
<1>1. cs \in Seq(Store) /\ Len(cs) \in Nat /\ \A d \in 1 .. Len(cs) : Covered(cs[d])
  BY DEF StoresSound
<1>2. SetResult(es, cs, c, e, v, fault, new)
  BY <1>1, SetStoresSound
<1> HIDE DEF new
<1> USE DEF SetResult
<1>3. ASSUME NEW d \in 1 .. Len(cs)
      PROVE  RowsSound(new[d], es) /\ \A x : HasRow(cs[d], x) => HasRow(new[d], x)
  <2>1. cs[d] \in Store /\ new[d] \in Store /\ RowsSound(cs[d], es)
    BY <1>1, <1>2 DEF StoresSound
  <2>2. CASE SameEntities(cs[d], new[d])
    BY <2>1, <2>2, SameEntitiesKeep
  <2>3. CASE SetStatus(es, cs, c, e, fault) = "OK" /\ RowAdded(cs[d], new[d], e, v)
    BY <1>2, <2>1, <2>3, RowAddedKeeps
  <2> QED BY <1>2, <2>2, <2>3
<1>4. \A a, b \in 1 .. Len(new) : new[a].name = new[b].name => a = b
  BY <1>2 DEF StoresSound
<1>5. hid \in 0 .. Len(new) /\ (hid # 0 => new[hid].name = Hierarchy)
  BY <1>1, <1>2 DEF StoresSound
<1>6. ASSUME NEW i \in 1 .. Len(es)
      PROVE  hid # 0 /\ HasRow(new[hid], es[i])
  <2>1. hid \in 1 .. Len(cs) /\ HasRow(cs[hid], es[i])
    BY <1>1 DEF StoresSound
  <2> QED BY <1>3, <2>1
<1>7. StoresSound(new, ccap, hid, es)
  BY <1>2, <1>3, <1>4, <1>5, <1>6 DEF StoresSound
<1> QED BY <1>7 DEF new

\* The stores ecsvm_entity_create works on, after registering the built-in.
BuiltinStores(fault) ==
  IF hierarchy # 0 \/ IsRegistered(Hierarchy, components) THEN components
  ELSE Registered(Hierarchy, components, componentCap, fault)

BuiltinCap(fault) ==
  IF hierarchy # 0 \/ IsRegistered(Hierarchy, components) THEN componentCap
  ELSE RegisteredCap(Hierarchy, components, componentCap, fault)

LEMMA BuiltinSound ==
  ASSUME IInv, NEW fault
  PROVE  StoresSound(BuiltinStores(fault), BuiltinCap(fault),
                     HierarchyIn(BuiltinStores(fault)), entities)
<1> DEFINE cs == BuiltinStores(fault)
           cap == BuiltinCap(fault)
<1>1. entities \in Seq(Ids) /\ Hierarchy \in Names
  BY StoreAssumption DEF IInv, IssuedInOrder
<1>2. StoresSound(cs, cap, hierarchy, entities)
  BY <1>1, RegisterKeepsStores DEF IInv, BuiltinStores, BuiltinCap
<1> HIDE DEF cs, cap
<1>3. CASE hierarchy # 0
  BY <1>2, <1>3 DEF HierarchyIn, cs, cap
<1>4. CASE hierarchy = 0 /\ ~IsRegistered(Hierarchy, cs)
  BY <1>2, <1>4 DEF HierarchyIn, cs, cap
<1>5. CASE hierarchy = 0 /\ IsRegistered(Hierarchy, cs)
  <2>1. PICK c \in 1 .. Len(cs) : cs[c].name = Hierarchy
    BY <1>5 DEF IsRegistered
  <2>2. HierarchyIn(cs) \in 1 .. Len(cs) /\ cs[HierarchyIn(cs)].name = Hierarchy
    BY <1>5, <2>1 DEF HierarchyIn
  <2>3. Len(entities) = 0
    BY <1>1, <1>2, <1>5 DEF StoresSound
  <2>4. StoresSound(cs, cap, HierarchyIn(cs), entities)
    BY <1>2, <2>2, <2>3 DEF StoresSound
  <2> QED BY <2>4 DEF cs, cap
<1> QED BY <1>3, <1>4, <1>5

-----------------------------------------------------------------------------
LEMMA InitInv == Init => IInv
<1> SUFFICES ASSUME Init PROVE IInv
  OBVIOUS
<1>1. StoresSound(components, componentCap, hierarchy, entities)
  BY DEF Init, StoresSound
<1>2. IssuedInOrder
  BY IdsAreNaturals DEF Init, IssuedInOrder
<1>3. reply \in [status : Status, entity : Ids]
  BY IdsAreNaturals DEF Init, Status, InvalidEntity
<1> QED BY <1>1, <1>2, <1>3 DEF Init, IInv

LEMMA RegisterComponentInv ==
  ASSUME IInv, NEW n \in Names, NEW fault \in TableFaults, RegisterComponent(n, fault)
  PROVE  IInv'
<1>1. StoresSound(components', componentCap', hierarchy', entities')
  BY RegisterKeepsStores DEF IInv, IssuedInOrder, RegisterComponent
<1>2. IssuedInOrder' /\ entityCap' \in Nat /\ Len(entities') <= entityCap'
  BY DEF IInv, IssuedInOrder, RegisterComponent
<1>3. reply' \in [status : Status, entity : Ids]
  BY IdsAreNaturals DEF RegisterComponent, RegisterStatus, Status, InvalidEntity
<1> QED BY <1>1, <1>2, <1>3 DEF IInv

LEMMA ComponentSetInv ==
  ASSUME IInv, NEW c \in ComponentIds, NEW e \in Ids, NEW v \in Values,
         NEW fault \in RowFaults, ComponentSet(c, e, v, fault)
  PROVE  IInv'
<1>1. StoresSound(components', componentCap', hierarchy', entities')
  BY SetKeepsStores DEF IInv, IssuedInOrder, ComponentSet
<1>2. IssuedInOrder' /\ entityCap' \in Nat /\ Len(entities') <= entityCap'
  BY DEF IInv, IssuedInOrder, ComponentSet
<1>3. reply' \in [status : Status, entity : Ids]
  BY IdsAreNaturals DEF ComponentSet, SetStatus, Status, InvalidEntity
<1> QED BY <1>1, <1>2, <1>3 DEF IInv

LEMMA WriteThroughInv ==
  ASSUME IInv, NEW c \in ComponentIds, NEW e \in Ids, NEW v \in Values, WriteThrough(c, e, v)
  PROVE  IInv'
<1>1. StoresSound(components', componentCap', hierarchy', entities')
  <2>1. e # InvalidEntity /\ RowsSound(components[c], entities)
        /\ \E r \in 1 .. Len(components[c].rows) : components[c].rows[r].entity = e
    BY DEF WriteThrough, HasRow, IInv, StoresSound
  <2>2. HasEntity(entities, e) /\ c \in 1 .. Len(components) /\ HasRow(components[c], e)
    BY <2>1 DEF RowsSound, WriteThrough
  <2>3. components' = SetStores(entities, components, c, e, v, "none")
    BY <2>2 DEF WriteThrough, SetStores
  <2>4. StoresSound(SetStores(entities, components, c, e, v, "none"),
                    componentCap, hierarchy, entities)
    BY SetKeepsStores DEF IInv, IssuedInOrder
  <2> QED BY <2>3, <2>4 DEF WriteThrough
<1>2. IssuedInOrder' /\ entityCap' \in Nat /\ Len(entities') <= entityCap'
  BY DEF IInv, IssuedInOrder, WriteThrough
<1>3. reply' \in [status : Status, entity : Ids]
  BY IdsAreNaturals DEF WriteThrough, Status, InvalidEntity
<1> QED BY <1>1, <1>2, <1>3 DEF IInv

(***************************************************************************)
(* ecsvm_entity_create.  The new id is one more than every id issued, so   *)
(* no store has a row for it; its hierarchy row is added before the entity *)
(* is kept, and no store is touched when that row cannot be added.         *)
(***************************************************************************)
LEMMA EntityCreateInv ==
  ASSUME IInv, NEW fault \in Faults, EntityCreate(fault)
  PROVE  IInv'
<1> DEFINE cs == BuiltinStores(fault)
           hid == HierarchyIn(cs)
           cap == Reserved(entityCap, Len(entities), fault = "entities")
           added == Append(entities, nextId)
           new == SetStores(added, cs, hid, nextId, NoParent, fault)
           room == hid # 0 /\ Len(entities) < cap
           created == room /\ SetStatus(added, cs, hid, nextId, fault) = "OK"
<1>1. /\ hierarchy' = hid
      /\ componentCap' = BuiltinCap(fault)
      /\ entityCap' = IF hid # 0 THEN cap ELSE entityCap
      /\ components' = IF room THEN new ELSE cs
      /\ entities' = IF created THEN added ELSE entities
      /\ nextId' = IF created THEN Incremented(nextId) ELSE nextId
      /\ reply' = [status |-> IF created THEN "OK" ELSE "MEMORY",
                   entity |-> IF created THEN nextId ELSE InvalidEntity]
  BY DEF EntityCreate, BuiltinStores, BuiltinCap
<1>2. /\ entities \in Seq(Ids) /\ Len(entities) \in Nat /\ Len(entities) < IdLimit
      /\ \A i \in 1 .. Len(entities) : entities[i] = i
      /\ nextId = IF Len(entities) = IdLimit - 1 THEN 0 ELSE Len(entities) + 1
      /\ entityCap \in Nat /\ Len(entities) <= entityCap
  BY DEF IInv, IssuedInOrder
<1>3. nextId \in Ids /\ NoParent \in Values
  BY <1>2, StoreAssumption DEF Ids
<1>4. cap \in Nat /\ cap >= entityCap
  BY <1>2, ReservedGrows
<1>5. StoresSound(cs, BuiltinCap(fault), hid, entities)
  BY BuiltinSound
<1>6. /\ added \in Seq(Ids) /\ Len(added) = Len(entities) + 1
      /\ added[Len(entities) + 1] = nextId
      /\ \A i \in 1 .. Len(entities) : added[i] = entities[i]
  BY <1>2, <1>3
<1>7. cs \in Seq(Store) /\ Len(cs) \in Nat /\ \A d \in 1 .. Len(cs) : Covered(cs[d])
  BY <1>5 DEF StoresSound
<1>8. SetResult(added, cs, hid, nextId, NoParent, fault, new)
  <2> HIDE DEF cs, hid, added
  <2> QED BY <1>3, <1>6, <1>7, SetStoresSound
<1> HIDE DEF cs, hid, cap, added, new
<1> USE DEF SetResult
<1>9. ASSUME NEW d \in 1 .. Len(cs), NEW x
      PROVE  HasRow(cs[d], x) => HasRow(new[d], x)
  BY <1>3, <1>7, <1>8, SameEntitiesKeep, RowAddedKeeps
<1>10. \A a, b \in 1 .. Len(new) : new[a].name = new[b].name => a = b
  BY <1>5, <1>8 DEF StoresSound
<1>11. hid \in 0 .. Len(new) /\ (hid # 0 => new[hid].name = Hierarchy)
  BY <1>5, <1>7, <1>8 DEF StoresSound
<1>12. CASE created
  <2>1. /\ components' = new /\ entities' = added /\ hierarchy' = hid
        /\ componentCap' = BuiltinCap(fault) /\ entityCap' = cap
        /\ nextId' = Incremented(nextId)
        /\ reply' = [status |-> "OK", entity |-> nextId]
    BY <1>1, <1>12
  <2>2. HasEntity(added, nextId) /\ hid \in 1 .. Len(cs) /\ HasRow(new[hid], nextId)
    BY <1>8, <1>12
  <2>3. nextId = Len(entities) + 1 /\ Len(entities) + 1 < IdLimit
    BY <1>2, <2>2, IdsAreNaturals DEF HasEntity, InvalidEntity
  <2>4. ASSUME NEW d \in 1 .. Len(new)
        PROVE  RowsSound(new[d], added)
    <3>1. RowsSound(cs[d], entities) /\ cs[d] \in Store /\ new[d] \in Store
      BY <1>5, <1>7, <1>8 DEF StoresSound
    <3>2. \A e : HasEntity(entities, e) => HasEntity(added, e)
      BY <1>2, <1>6 DEF HasEntity
    <3>3. RowsSound(cs[d], added)
      BY <3>1, <3>2 DEF RowsSound
    <3> QED BY <1>3, <1>8, <2>2, <3>1, <3>3, SameEntitiesKeep, RowAddedKeeps
  <2>5. ASSUME NEW i \in 1 .. Len(added)
        PROVE  hid # 0 /\ HasRow(new[hid], added[i])
    <3>1. CASE i = Len(entities) + 1
      BY <1>2, <1>6, <2>2, <3>1
    <3>2. CASE i \in 1 .. Len(entities)
      BY <1>5, <1>6, <1>9, <2>2, <3>2 DEF StoresSound
    <3> QED BY <1>2, <1>6, <3>1, <3>2
  <2>6. StoresSound(new, BuiltinCap(fault), hid, added)
    BY <1>5, <1>8, <1>10, <1>11, <2>4, <2>5 DEF StoresSound
  <2>7. IssuedInOrder'
    <3>1. \A i \in 1 .. Len(added) : added[i] = i
      BY <1>2, <1>6, <2>3
    <3>2. Incremented(nextId) = IF Len(added) = IdLimit - 1 THEN 0 ELSE Len(added) + 1
      BY <1>2, <1>6, <2>3, IdsAreNaturals DEF Incremented
    <3> QED BY <1>6, <2>1, <2>3, <3>1, <3>2 DEF IssuedInOrder
  <2>8. Len(added) <= cap
    BY <1>2, <1>4, <1>6, <1>12
  <2>9. reply' \in [status : Status, entity : Ids]
    BY <1>3, <2>1 DEF Status
  <2> QED BY <1>4, <2>1, <2>6, <2>7, <2>8, <2>9 DEF IInv
<1>13. CASE ~created
  <2>1. /\ entities' = entities /\ nextId' = nextId /\ hierarchy' = hid
        /\ componentCap' = BuiltinCap(fault)
        /\ reply' = [status |-> "MEMORY", entity |-> InvalidEntity]
        /\ entityCap' \in Nat /\ Len(entities) <= entityCap'
    BY <1>1, <1>2, <1>4, <1>13
  <2>2. StoresSound(components', BuiltinCap(fault), hid, entities)
    <3>1. CASE ~room
      BY <1>1, <1>5, <3>1
    <3>2. CASE room /\ SetStatus(added, cs, hid, nextId, fault) # "OK"
      <4>1. components' = new
        BY <1>1, <3>2
      <4>2. \A d \in 1 .. Len(new) : Covered(new[d]) /\ RowsSound(new[d], entities)
        BY <1>5, <1>7, <1>8, <3>2, SameEntitiesKeep DEF StoresSound
      <4>3. ASSUME NEW i \in 1 .. Len(entities)
            PROVE  hid # 0 /\ HasRow(new[hid], entities[i])
        <5>1. hid \in 1 .. Len(cs) /\ HasRow(cs[hid], entities[i])
          BY <1>5, <1>7 DEF StoresSound
        <5> QED BY <1>9, <5>1
      <4> QED BY <1>5, <1>8, <1>10, <1>11, <4>1, <4>2, <4>3 DEF StoresSound
    <3> QED BY <1>13, <3>1, <3>2
  <2>3. IssuedInOrder'
    BY <2>1 DEF IInv, IssuedInOrder
  <2>4. reply' \in [status : Status, entity : Ids]
    BY <2>1, IdsAreNaturals DEF Status, InvalidEntity
  <2> QED BY <2>1, <2>2, <2>3, <2>4 DEF IInv
<1> QED BY <1>12, <1>13

LEMMA NextInv == IInv /\ [Next]_vars => IInv'
<1> SUFFICES ASSUME IInv, [Next]_vars PROVE IInv'
  OBVIOUS
<1>1. CASE Next
  BY <1>1, RegisterComponentInv, EntityCreateInv, ComponentSetInv, WriteThroughInv DEF Next
<1>2. CASE UNCHANGED vars
  BY <1>2 DEF vars, IInv, IssuedInOrder
<1> QED BY <1>1, <1>2

\* The inductive invariant holds in every reachable state.
THEOREM Invariance == Spec => []IInv
  BY InitInv, NextInv, PTL DEF Spec

LEMMA InvImplies ==
  IInv => TypeOK /\ IdsUnique /\ RowsOfLiveEntities /\ HierarchyTotal /\ BuffersCover /\ NamesUnique
<1> SUFFICES ASSUME IInv
             PROVE  /\ TypeOK /\ IdsUnique /\ RowsOfLiveEntities
                    /\ HierarchyTotal /\ BuffersCover /\ NamesUnique
  OBVIOUS
<1>1. TypeOK
  BY IdsAreNaturals DEF IInv, StoresSound, IssuedInOrder, TypeOK, Ids
<1>2. IdsUnique
  BY DEF IInv, IssuedInOrder, IdsUnique, InvalidEntity
<1>3. RowsOfLiveEntities
  BY DEF IInv, StoresSound, RowsSound, RowsOfLiveEntities
<1>4. HierarchyTotal
  BY DEF IInv, StoresSound, HierarchyTotal
<1>5. BuffersCover
  BY DEF IInv, StoresSound, Covered, BuffersCover
<1>6. NamesUnique
  BY DEF IInv, StoresSound, NamesUnique
<1> QED BY <1>1, <1>2, <1>3, <1>4, <1>5, <1>6

\* Type correctness.
THEOREM TypeCorrect == Spec => []TypeOK
  BY Invariance, InvImplies, PTL

\* No two entities share an id, whatever the width of the id counter.
THEOREM IdsNeverShared == Spec => []IdsUnique
  BY Invariance, InvImplies, PTL

\* Stores hold one row per entity and only rows of entities in the table.
THEOREM RowsSoundness == Spec => []RowsOfLiveEntities
  BY Invariance, InvImplies, PTL

\* Every entity has its built-in hierarchy row.
THEOREM HierarchyComplete == Spec => []HierarchyTotal
  BY Invariance, InvImplies, PTL

\* No count passes its capacity and no capacity its heap blocks, even after a
\* growth of which only the first of two reallocs succeeded.
THEOREM MemorySafeGrowth == Spec => []BuffersCover
  BY Invariance, InvImplies, PTL

\* Component names are unique, so a name denotes one id for good.
THEOREM NamesStayUnique == Spec => []NamesUnique
  BY Invariance, InvImplies, PTL

-----------------------------------------------------------------------------
\* new extends cs: same names in the same places, same rows in the same places.
Extends(cs, new) ==
  \A c \in 1 .. Len(cs) :
    /\ new[c].name = cs[c].name
    /\ \A r \in 1 .. Len(cs[c].rows) : new[c].rows[r].entity = cs[c].rows[r].entity

LEMMA SetExtends ==
  ASSUME NEW es \in Seq(Ids), NEW cs \in Seq(Store), NEW c, NEW e \in Ids,
         NEW v \in Values, NEW fault, \A d \in 1 .. Len(cs) : Covered(cs[d])
  PROVE  Extends(cs, SetStores(es, cs, c, e, v, fault))
<1> DEFINE new == SetStores(es, cs, c, e, v, fault)
<1>1. SetResult(es, cs, c, e, v, fault, new)
  BY SetStoresSound
<1> HIDE DEF new
<1>2. ASSUME NEW d \in 1 .. Len(cs)
      PROVE  /\ new[d].name = cs[d].name
             /\ \A r \in 1 .. Len(cs[d].rows) : new[d].rows[r].entity = cs[d].rows[r].entity
  <2>1. cs[d] \in Store /\ new[d] \in Store /\ new[d].name = cs[d].name
    BY <1>1 DEF SetResult
  <2>2. SameEntities(cs[d], new[d]) \/ RowAdded(cs[d], new[d], e, v)
    BY <1>1 DEF SetResult
  <2> QED BY <2>1, <2>2, AddedRowColumns DEF SameEntities
<1> QED BY <1>2 DEF Extends, new

LEMMA RegisterExtends ==
  ASSUME NEW cs \in Seq(Store), NEW ccap \in Nat, Len(cs) <= ccap, NEW n \in Names, NEW fault
  PROVE  /\ \A c \in 1 .. Len(cs) : Registered(n, cs, ccap, fault)[c] = cs[c]
         /\ Registered(n, cs, ccap, fault) \in Seq(Store)
         /\ Len(Registered(n, cs, ccap, fault)) >= Len(cs)
<1>1. EmptyStore(n) \in Store
  BY EmptyStoreSound
<1>2. Registered(n, cs, ccap, fault) = cs \/ Registered(n, cs, ccap, fault) = Append(cs, EmptyStore(n))
  BY RegisteredSound
<1> QED BY <1>1, <1>2

\* Component ids and row positions never change once given out.
THEOREM RowsPermanent == Spec => RowsKeepTheirPlace
<1>1. IInv /\ [Next]_vars => [Extends(components, components')]_vars
  <2> SUFFICES ASSUME IInv, Next PROVE Extends(components, components')
    BY DEF Extends
  <2>1. /\ components \in Seq(Store) /\ componentCap \in Nat /\ Len(components) <= componentCap
        /\ Hierarchy \in Names /\ NoParent \in Values /\ entities \in Seq(Ids) /\ nextId \in Ids
        /\ \A d \in 1 .. Len(components) : Covered(components[d])
    BY InvImplies, StoreAssumption DEF IInv, StoresSound, TypeOK
  <2>2. ASSUME NEW n \in Names, NEW fault \in TableFaults, RegisterComponent(n, fault)
        PROVE  Extends(components, components')
    BY <2>1, <2>2, RegisterExtends DEF RegisterComponent, Extends
  <2>3. ASSUME NEW c \in ComponentIds, NEW e \in Ids, NEW v \in Values,
               NEW fault \in RowFaults, ComponentSet(c, e, v, fault)
        PROVE  Extends(components, components')
    BY <2>1, <2>3, SetExtends DEF ComponentSet
  <2>4. ASSUME NEW c \in ComponentIds, NEW e \in Ids, NEW v \in Values, WriteThrough(c, e, v)
        PROVE  Extends(components, components')
    <3>1. components' = [components EXCEPT ![c] = Overwritten(components[c], e, v)]
      BY <2>4 DEF WriteThrough
    <3> QED BY <2>1, <2>4, <3>1, OverwrittenSound DEF Extends, WriteThrough
  <2>5. ASSUME NEW fault \in Faults, EntityCreate(fault)
        PROVE  Extends(components, components')
    <3> DEFINE cs == BuiltinStores(fault)
               added == Append(entities, nextId)
               new == SetStores(added, cs, HierarchyIn(cs), nextId, NoParent, fault)
    <3>1. components' = cs \/ components' = new
      BY <2>5 DEF EntityCreate, BuiltinStores
    <3>2. /\ cs \in Seq(Store) /\ Len(cs) >= Len(components)
          /\ \A c \in 1 .. Len(components) : cs[c] = components[c]
      BY <2>1, RegisterExtends DEF BuiltinStores
    <3>3. \A d \in 1 .. Len(cs) : Covered(cs[d])
      BY BuiltinSound DEF StoresSound
    <3>4. added \in Seq(Ids)
      BY <2>1
    <3> HIDE DEF cs, added
    <3>5. Extends(cs, new)
      <4> HIDE DEF Extends
      <4> QED BY <2>1, <3>2, <3>3, <3>4, SetExtends DEF new
    <3> HIDE DEF new
    <3>6. Extends(components, new)
      <4>1. \A c \in 1 .. Len(components) : c \in 1 .. Len(cs)
        BY <2>1, <3>2
      <4> QED BY <3>2, <3>5, <4>1 DEF Extends
    <3>7. Extends(components, cs)
      BY <3>2 DEF Extends
    <3> QED BY <3>1, <3>6, <3>7
  <2> QED BY <2>2, <2>3, <2>4, <2>5 DEF Next
<1>2. [Extends(components, components')]_vars <=>
      [\A c \in 1 .. Len(components) :
         /\ components'[c].name = components[c].name
         /\ \A r \in 1 .. Len(components[c].rows) :
              components'[c].rows[r].entity = components[c].rows[r].entity]_vars
  BY DEF Extends
<1> QED BY <1>1, <1>2, Invariance, PTL DEF Spec, RowsKeepTheirPlace

-----------------------------------------------------------------------------
(***************************************************************************)
(* The stores implement the map from entities to values.                   *)
(***************************************************************************)

\* The store has a row for e with the value v.
Stored(s, e, v) == \E r \in 1 .. Len(s.rows) : s.rows[r].entity = e /\ s.rows[r].value = v

LEMMA TableRows ==
  ASSUME NEW cs
  PROVE  \A x : x \in TableOf(cs) <=>
           \E c \in 1 .. Len(cs) : \E e, v : Stored(cs[c], e, v) /\ x = <<c, e, v>>
BY DEF TableOf, Stored

\* Only the value of e in store c may differ, and is v.
OneValue(cs, new, c, e, v) ==
  /\ Len(new) = Len(cs) /\ c \in 1 .. Len(cs)
  /\ \A d \in 1 .. Len(cs) : d # c => new[d].rows = cs[d].rows
  /\ \A x, y : Stored(new[c], x, y) <=> (x # e /\ Stored(cs[c], x, y)) \/ (x = e /\ y = v)

(* One value changed or added in one store changes that value of the table *)
(* and no other.                                                           *)
LEMMA TableChanged ==
  ASSUME NEW cs, NEW new, NEW c, NEW e, NEW v, OneValue(cs, new, c, e, v)
  PROVE  TableOf(new) = {row \in TableOf(cs) : row[1] # c \/ row[2] # e} \cup {<<c, e, v>>}
<1> DEFINE after == {row \in TableOf(cs) : row[1] # c \/ row[2] # e} \cup {<<c, e, v>>}
<1>0. /\ Len(new) = Len(cs) /\ c \in 1 .. Len(cs)
      /\ \A d \in 1 .. Len(cs) : d # c => new[d].rows = cs[d].rows
      /\ \A x, y : Stored(new[c], x, y) <=> (x # e /\ Stored(cs[c], x, y)) \/ (x = e /\ y = v)
  BY DEF OneValue
<1>1. \A d \in 1 .. Len(cs) : \A x, y : d # c => (Stored(new[d], x, y) <=> Stored(cs[d], x, y))
  BY <1>0 DEF Stored
<1>2. ASSUME NEW row \in TableOf(new) PROVE row \in after
  <2>1. PICK d, x, y : d \in 1 .. Len(cs) /\ Stored(new[d], x, y) /\ row = <<d, x, y>>
    BY <1>0, TableRows
  <2>2. CASE d = c /\ x = e
    BY <1>0, <2>1, <2>2
  <2>3. CASE d # c \/ x # e
    <3>1. Stored(cs[d], x, y)
      BY <1>0, <1>1, <2>1, <2>3
    <3>2. row \in TableOf(cs) /\ row[1] = d /\ row[2] = x
      BY <2>1, <3>1, TableRows
    <3> QED
      BY <2>3, <3>2
  <2> QED
    BY <2>2, <2>3
<1>3. ASSUME NEW row \in after PROVE row \in TableOf(new)
  <2>1. CASE row = <<c, e, v>>
    BY <1>0, <2>1, TableRows
  <2>2. CASE row \in TableOf(cs) /\ (row[1] # c \/ row[2] # e)
    <3>1. PICK d, x, y : d \in 1 .. Len(cs) /\ Stored(cs[d], x, y) /\ row = <<d, x, y>>
      BY <2>2, TableRows
    <3>2. d # c \/ x # e
      BY <2>2, <3>1
    <3>3. Stored(new[d], x, y)
      BY <1>0, <1>1, <3>1, <3>2
    <3> QED
      BY <1>0, <3>1, <3>3, TableRows
  <2> QED
    BY <2>1, <2>2
<1> QED
  BY <1>2, <1>3

LEMMA OverwrittenValues ==
  ASSUME NEW s \in Store, NEW e, NEW v, HasRow(s, e)
  PROVE  \A x, y : Stored(Overwritten(s, e, v), x, y) <=>
           (x # e /\ Stored(s, x, y)) \/ (x = e /\ y = v)
<1> DEFINE new == [r \in 1 .. Len(s.rows) |->
              IF s.rows[r].entity = e THEN [s.rows[r] EXCEPT !.value = v] ELSE s.rows[r]]
           t == Overwritten(s, e, v)
<1>1. s.rows \in Seq(Row) /\ Len(s.rows) \in Nat
  BY DEF Store
<1>2. ASSUME NEW r \in 1 .. Len(s.rows)
      PROVE  /\ new[r].entity = s.rows[r].entity
             /\ new[r].value = IF s.rows[r].entity = e THEN v ELSE s.rows[r].value
  <2>1. s.rows[r] \in Row
    BY <1>1
  <2> QED
    BY <2>1 DEF Row
<1>3. t.rows = new
  BY DEF Overwritten, Store
<1>4. Len(new) = Len(s.rows)
  BY <1>1
<1> HIDE DEF new, t
<1>5. PICK q \in 1 .. Len(s.rows) : s.rows[q].entity = e
  BY DEF HasRow
<1>6. ASSUME NEW x, NEW y
      PROVE  Stored(t, x, y) <=> (x # e /\ Stored(s, x, y)) \/ (x = e /\ y = v)
  <2>1. Stored(t, x, y) <=> \E r \in 1 .. Len(s.rows) :
          s.rows[r].entity = x /\ (IF s.rows[r].entity = e THEN v ELSE s.rows[r].value) = y
    BY <1>2, <1>3, <1>4 DEF Stored
  <2> QED
    BY <1>5, <2>1 DEF Stored
<1> QED
  BY <1>6 DEF t

LEMMA AppendedValues ==
  ASSUME NEW s \in Store, Covered(s), NEW e \in Ids, NEW v \in Values, NEW fault
  PROVE  \A x, y : Stored(Appended(s, e, v, fault), x, y) <=>
           \/ Stored(s, x, y)
           \/ HasRoom(ReserveRows(s, fault)) /\ x = e /\ y = v
<1> DEFINE t == Appended(s, e, v, fault)
           room == HasRoom(ReserveRows(s, fault))
           row == [entity |-> e, value |-> v]
<1>1. t.rows = IF room THEN Append(s.rows, row) ELSE s.rows
  BY AppendedSound
<1>2. s.rows \in Seq(Row) /\ Len(s.rows) \in Nat /\ row \in Row /\ row.entity = e /\ row.value = v
  BY DEF Store, Row
<1> HIDE DEF t, row
<1>3. CASE ~room
  BY <1>1, <1>3 DEF Stored, t
<1>4. CASE room
  <2>1. /\ Len(t.rows) = Len(s.rows) + 1 /\ t.rows[Len(s.rows) + 1] = row
        /\ \A r \in 1 .. Len(s.rows) : t.rows[r] = s.rows[r]
    BY <1>1, <1>2, <1>4
  <2>2. \A r \in 1 .. Len(t.rows) : r \in 1 .. Len(s.rows) \/ r = Len(s.rows) + 1
    BY <1>2, <2>1
  <2>3. \A r \in 1 .. Len(s.rows) : r \in 1 .. Len(t.rows)
    BY <1>2, <2>1
  <2>4. Len(s.rows) + 1 \in 1 .. Len(t.rows)
    BY <1>2, <2>1
  <2> HIDE DEF room
  <2>5. \A x, y : Stored(t, x, y) <=> Stored(s, x, y) \/ (x = e /\ y = v)
    BY <1>2, <2>1, <2>2, <2>3, <2>4 DEF Stored
  <2> QED
    BY <1>4, <2>5 DEF t, room
<1> QED
  BY <1>3, <1>4

\* ecsvm_component_set changes the one value it is asked to, or none.
LEMMA SetTable ==
  ASSUME NEW es, NEW cs \in Seq(Store), \A d \in 1 .. Len(cs) : Covered(cs[d]),
         NEW c, NEW e \in Ids, NEW v \in Values, NEW fault
  PROVE  LET new == SetStores(es, cs, c, e, v, fault) IN
         /\ RegistryOf(new) = RegistryOf(cs)
         /\ SetStatus(es, cs, c, e, fault) = "OK" =>
              TableOf(new) = {row \in TableOf(cs) : row[1] # c \/ row[2] # e} \cup {<<c, e, v>>}
         /\ SetStatus(es, cs, c, e, fault) # "OK" => TableOf(new) = TableOf(cs)
<1> DEFINE new == SetStores(es, cs, c, e, v, fault)
           ok == SetStatus(es, cs, c, e, fault) = "OK"
           after == {row \in TableOf(cs) : row[1] # c \/ row[2] # e} \cup {<<c, e, v>>}
<1>1. CASE ~HasEntity(es, e) \/ c \notin 1 .. Len(cs)
  BY <1>1 DEF SetStores, SetStatus
<1>2. CASE HasEntity(es, e) /\ c \in 1 .. Len(cs)
  <2> DEFINE t == IF HasRow(cs[c], e) THEN Overwritten(cs[c], e, v)
                  ELSE Appended(cs[c], e, v, fault)
  <2>1. new = [cs EXCEPT ![c] = t]
    BY <1>2 DEF SetStores
  <2>2. cs[c] \in Store /\ Covered(cs[c]) /\ Len(cs) \in Nat
    BY <1>2
  <2>11. /\ Overwritten(cs[c], e, v).name = cs[c].name
         /\ Appended(cs[c], e, v, fault).name = cs[c].name
         /\ Appended(cs[c], e, v, fault).rows =
              IF HasRoom(ReserveRows(cs[c], fault))
              THEN Append(cs[c].rows, [entity |-> e, value |-> v]) ELSE cs[c].rows
    <3> DEFINE s == cs[c]
    <3>1. s \in Store /\ Covered(s)
      BY <2>2
    <3> HIDE DEF s
    <3>2. Overwritten(s, e, v).name = s.name
      BY ONLY <3>1, OverwrittenSound
    <3>3. /\ Appended(s, e, v, fault).name = s.name
          /\ Appended(s, e, v, fault).rows =
               IF HasRoom(ReserveRows(s, fault))
               THEN Append(s.rows, [entity |-> e, value |-> v]) ELSE s.rows
      BY ONLY <3>1, AppendedSound
    <3> QED
      BY <3>2, <3>3 DEF s
  <2>3. t.name = cs[c].name
    BY <2>11
  <2>4. ok <=> HasRow(cs[c], e) \/ HasRoom(ReserveRows(cs[c], fault))
    BY <1>2 DEF SetStatus
  <2>5. ASSUME ok, NEW x, NEW y
        PROVE  Stored(t, x, y) <=> (x # e /\ Stored(cs[c], x, y)) \/ (x = e /\ y = v)
    <3>1. CASE HasRow(cs[c], e)
      BY <2>2, <3>1, OverwrittenValues
    <3>2. CASE ~HasRow(cs[c], e)
      <4>1. Stored(t, x, y) <=> Stored(cs[c], x, y) \/ (x = e /\ y = v)
        BY <2>2, <2>4, <2>5, <3>2, AppendedValues
      <4>2. ~Stored(cs[c], e, y)
        BY <1>2, <3>2 DEF HasRow, HasEntity, Stored
      <4> QED
        BY <4>1, <4>2
    <3> QED
      BY <3>1, <3>2
  <2>6. ASSUME ~ok PROVE t.rows = cs[c].rows
    <3>1. ~HasRow(cs[c], e) /\ ~HasRoom(ReserveRows(cs[c], fault))
      BY <2>4, <2>6
    <3> QED
      BY <2>11, <3>1
  <2> HIDE DEF t, new, ok
  <2>7. Len(new) = Len(cs) /\ new[c] = t /\ \A d \in 1 .. Len(cs) : d # c => new[d] = cs[d]
    BY <1>2, <2>1
  <2>8. RegistryOf(new) = RegistryOf(cs)
    <3>1. \A d \in 1 .. Len(cs) : new[d].name = cs[d].name
      BY <2>3, <2>7
    <3> QED
      BY <2>7, <3>1 DEF RegistryOf
  <2>9. ok => TableOf(new) = after
    <3> SUFFICES ASSUME ok PROVE TableOf(new) = after
      OBVIOUS
    <3>1. \A d \in 1 .. Len(cs) : d # c => new[d].rows = cs[d].rows
      BY <2>7
    <3>2. \A x, y : Stored(new[c], x, y) <=> (x # e /\ Stored(cs[c], x, y)) \/ (x = e /\ y = v)
      BY <2>5, <2>7
    <3>3. Len(new) = Len(cs) /\ c \in 1 .. Len(cs)
      BY <1>2, <2>7
    <3>4. OneValue(cs, new, c, e, v)
      BY <3>1, <3>2, <3>3 DEF OneValue
    <3> QED
      BY <3>4, TableChanged
  <2>10. ASSUME ~ok PROVE TableOf(new) = TableOf(cs)
    <3>1. \A d \in 1 .. Len(cs) : new[d].rows = cs[d].rows
      BY <2>6, <2>7, <2>10
    <3>2. \A d \in 1 .. Len(cs) : \A x, y : Stored(new[d], x, y) <=> Stored(cs[d], x, y)
      BY <3>1 DEF Stored
    <3>3. \A x : x \in TableOf(new) <=>
            \E d \in 1 .. Len(cs) : \E a, b : Stored(new[d], a, b) /\ x = <<d, a, b>>
      BY <2>7, TableRows
    <3>4. \A x : x \in TableOf(cs) <=>
            \E d \in 1 .. Len(cs) : \E a, b : Stored(cs[d], a, b) /\ x = <<d, a, b>>
      BY TableRows
    <3>5. \A x : x \in TableOf(new) <=> x \in TableOf(cs)
      BY ONLY <3>2, <3>3, <3>4, Zenon
    <3> QED
      BY <3>5
  <2> QED
    BY <2>8, <2>9, <2>10 DEF new, ok
<1> QED
  BY <1>1, <1>2

\* A registration appends the name, when it returns OK, and adds no row.
LEMMA RegisteredTable ==
  ASSUME NEW cs \in Seq(Store), NEW ccap \in Nat, Len(cs) <= ccap, NEW n \in Names, NEW fault
  PROVE  LET new == Registered(n, cs, ccap, fault) IN
         /\ TableOf(new) = TableOf(cs)
         /\ RegistryOf(new) = IF RegisterStatus(n, cs, ccap, fault) = "OK"
                              THEN Append(RegistryOf(cs), n) ELSE RegistryOf(cs)
<1> DEFINE new == Registered(n, cs, ccap, fault)
<1>1. CASE RegisterStatus(n, cs, ccap, fault) # "OK"
  BY <1>1 DEF Registered
<1>2. CASE RegisterStatus(n, cs, ccap, fault) = "OK"
  <2>1. new = Append(cs, EmptyStore(n)) /\ EmptyStore(n) \in Store /\ EmptyStore(n).name = n
    BY <1>2, EmptyStoreSound DEF Registered
  <2> HIDE DEF new
  <2>2. /\ Len(cs) \in Nat /\ Len(new) = Len(cs) + 1 /\ new[Len(cs) + 1] = EmptyStore(n)
        /\ \A c \in 1 .. Len(cs) : new[c] = cs[c]
    BY <2>1
  <2>3. RegistryOf(new) = Append(RegistryOf(cs), n)
    <3> DEFINE names == RegistryOf(cs)
    <3>1. ASSUME NEW c \in 1 .. Len(cs) PROVE cs[c].name \in Names
      <4>1. cs[c] \in Store
        BY <2>2
      <4> QED
        BY <4>1 DEF Store
    <3>2. names \in Seq(Names) /\ Len(names) = Len(cs) /\ \A c \in 1 .. Len(cs) : names[c] = cs[c].name
      BY <2>2, <3>1 DEF RegistryOf
    <3> HIDE DEF names
    <3> DEFINE more == Append(names, n)
    <3>3. /\ more \in Seq(Names) /\ Len(more) = Len(cs) + 1 /\ more[Len(cs) + 1] = n
          /\ \A c \in 1 .. Len(cs) : more[c] = names[c]
      BY <2>2, <3>2
    <3> HIDE DEF more
    <3>4. more = [c \in 1 .. Len(new) |-> more[c]]
      BY <2>2, <3>3
    <3>5. ASSUME NEW c \in 1 .. Len(new) PROVE more[c] = new[c].name
      <4>1. CASE c \in 1 .. Len(cs)
        BY <2>2, <3>2, <3>3, <4>1
      <4>2. CASE c = Len(cs) + 1
        BY <2>1, <2>2, <3>3, <4>2
      <4> QED
        BY <2>2, <4>1, <4>2
    <3>6. RegistryOf(new) = [c \in 1 .. Len(new) |-> new[c].name]
      BY DEF RegistryOf
    <3>7. RegistryOf(new) = more
      BY <3>4, <3>5, <3>6
    <3> QED
      BY <3>7 DEF more, names
  <2>4. \A e, v : ~Stored(EmptyStore(n), e, v)
    BY DEF EmptyStore, Stored
  <2>5. \A c \in 1 .. Len(new) : c \in 1 .. Len(cs) \/ c = Len(cs) + 1
    BY <2>2
  <2>6. \A c \in 1 .. Len(cs) : c \in 1 .. Len(new)
    BY <2>2
  <2>7. \A x : x \in TableOf(new) <=> x \in TableOf(cs)
    BY <2>2, <2>4, <2>5, <2>6, TableRows
  <2> QED
    BY <1>2, <2>3, <2>7 DEF new
<1> QED
  BY <1>1, <1>2

(***************************************************************************)
(* Each call is one of the map's.                                          *)
(***************************************************************************)
Registry == RegistryOf(components)
Table == TableOf(components)

\* What the operators of EntityMap say of the stores.
LEMMA View ==
  ASSUME IInv
  PROVE  /\ \A e \in Ids : e \in Live <=> HasEntity(entities, e)
         /\ DOMAIN Registry = 1 .. Len(components) /\ Len(Registry) = Len(components)
         /\ \A n : Map!Ranks(n) # {} <=> IsRegistered(n, components)
         /\ \A c \in 1 .. Len(components), e \in Ids \ {0} :
              Map!Holds(c, e) <=> HasRow(components[c], e)
         /\ Map!Ids = Ids
<1>1. \A e \in Ids : e \in Live <=> HasEntity(entities, e)
  BY InvImplies DEF Live, HasEntity, IdsUnique, InvalidEntity
<1>2. components \in Seq(Store) /\ Len(components) \in Nat
  BY DEF IInv, StoresSound
<1>3. /\ DOMAIN Registry = 1 .. Len(components) /\ Len(Registry) = Len(components)
      /\ \A c \in 1 .. Len(components) : Registry[c] = components[c].name
  BY <1>2 DEF Registry, RegistryOf
<1>4. ASSUME NEW n PROVE Map!Ranks(n) # {} <=> IsRegistered(n, components)
  BY <1>3 DEF Map!Ranks, IsRegistered, Registry
<1>5. ASSUME NEW c \in 1 .. Len(components), NEW e \in Ids \ {0}
      PROVE  Map!Holds(c, e) <=> HasRow(components[c], e)
  <2>1. ASSUME Map!Holds(c, e) PROVE HasRow(components[c], e)
    <3>1. PICK row \in Table : row[1] = c /\ row[2] = e
      BY <2>1 DEF Map!Holds, Table
    <3>2. PICK d, x, y : d \in 1 .. Len(components) /\ Stored(components[d], x, y) /\ row = <<d, x, y>>
      BY TableRows DEF Table
    <3>3. d = c /\ x = e
      BY <3>1, <3>2
    <3> QED
      BY <3>2, <3>3 DEF Stored, HasRow, InvalidEntity
  <2>2. ASSUME HasRow(components[c], e) PROVE Map!Holds(c, e)
    <3>1. PICK r \in 1 .. Len(components[c].rows) : components[c].rows[r].entity = e
      BY <2>2 DEF HasRow
    <3> DEFINE row == <<c, e, components[c].rows[r].value>>
    <3>2. row \in Table
      BY <3>1, TableRows DEF Table, Stored
    <3>3. row[1] = c /\ row[2] = e
      OBVIOUS
    <3> QED
      BY <3>2, <3>3 DEF Map!Holds, Table
  <2> QED
    BY <2>1, <2>2
<1>6. Map!Ids = Ids
  BY DEF Map!Ids, Ids
<1> QED
  BY <1>1, <1>3, <1>4, <1>5, <1>6

LEMMA InitMaps == Init => Map!Init
<1> SUFFICES ASSUME Init PROVE Map!Init
  OBVIOUS
<1>1. Live = {} /\ TableOf(components) = {}
  BY DEF Init, Live, TableOf
<1>2. RegistryOf(components) = <<>>
  BY DEF Init, RegistryOf
<1> QED
  BY <1>1, <1>2 DEF Init, Map!Init, InvalidEntity

LEMMA RegisterMaps ==
  ASSUME IInv, NEW n \in Names, NEW fault \in TableFaults, RegisterComponent(n, fault)
  PROVE  Map!Next
<1> DEFINE status == RegisterStatus(n, components, componentCap, fault)
<1>1. /\ components' = Registered(n, components, componentCap, fault)
      /\ reply' = [status |-> status, entity |-> 0] /\ Live' = Live
  BY DEF RegisterComponent, InvalidEntity, Live
<1>2. components \in Seq(Store) /\ componentCap \in Nat /\ Len(components) <= componentCap
  BY DEF IInv, StoresSound
<1>3. /\ Table' = Table
      /\ Registry' = IF status = "OK" THEN Append(Registry, n) ELSE Registry
  BY <1>1, <1>2, RegisteredTable DEF Table, Registry
<1>4. Map!Ranks(n) # {} <=> IsRegistered(n, components)
  BY View
<1>5. CASE status = "OK"
  <2>1. Map!Ranks(n) = {}
    BY <1>4, <1>5 DEF RegisterStatus
  <2>2. Map!Register(n)
    BY <1>1, <1>3, <1>5, <2>1 DEF Map!Register, Map!Registers, Map!Replies, Table, Registry
  <2> QED
    BY <2>2 DEF Map!Next
<1>6. CASE status # "OK"
  <2>1. status = IF Map!Ranks(n) = {} THEN "MEMORY" ELSE "EXISTS"
    BY <1>4, <1>6 DEF RegisterStatus
  <2>2. Map!RegisterFails(n)
    BY <1>1, <1>3, <1>6, <2>1 DEF Map!RegisterFails, Map!Replies, Table, Registry
  <2> QED
    BY <2>2 DEF Map!Next
<1> QED
  BY <1>5, <1>6

LEMMA SetMaps ==
  ASSUME IInv, NEW c \in ComponentIds, NEW e \in Ids, NEW v \in Values, NEW fault,
         components' = SetStores(entities, components, c, e, v, fault),
         reply' = [status |-> SetStatus(entities, components, c, e, fault),
                   entity |-> InvalidEntity],
         entities' = entities
  PROVE  Map!Next
<1> DEFINE status == SetStatus(entities, components, c, e, fault)
<1>1. reply' = [status |-> status, entity |-> 0] /\ Live' = Live
  BY DEF InvalidEntity, Live
<1>2. components \in Seq(Store) /\ \A d \in 1 .. Len(components) : Covered(components[d])
  BY DEF IInv, StoresSound
<1>3. /\ Registry' = Registry
      /\ status = "OK" =>
           Table' = {row \in Table : row[1] # c \/ row[2] # e} \cup {<<c, e, v>>}
      /\ status # "OK" => Table' = Table
  BY <1>2, SetTable DEF Registry, Table
<1>4. /\ e \in Live <=> HasEntity(entities, e)
      /\ Len(Registry) = Len(components)
      /\ c \in 0 .. Len(Registry) + 1 /\ e \in Map!Ids
  BY View DEF ComponentIds
<1>5. CASE status = "OK"
  <2>1. e \in Live /\ c \in 1 .. Len(Registry)
    BY <1>4, <1>5 DEF SetStatus
  <2>2. Map!Set(c, e, v)
    BY <1>1, <1>3, <1>5, <2>1 DEF Map!Set, Map!Replies, Table, Registry
  <2> QED
    BY <1>4, <2>2 DEF Map!Next, Registry
<1>6. CASE status # "OK"
  <2>1. \/ e \notin Live /\ status = "ARGUMENT"
        \/ e \in Live /\ c \notin 1 .. Len(Registry) /\ status = "NOT_FOUND"
        \/ e \in Live /\ c \in 1 .. Len(Registry) /\ ~Map!Holds(c, e) /\ status = "MEMORY"
    <3>1. HasEntity(entities, e) => e \in Ids \ {0}
      BY DEF HasEntity, InvalidEntity
    <3>2. ASSUME HasEntity(entities, e), c \in 1 .. Len(components), ~HasRow(components[c], e)
          PROVE  ~Map!Holds(c, e)
      BY <3>1, <3>2, View
    <3> QED
      BY <1>4, <1>6, <3>2 DEF SetStatus
  <2>2. Map!SetFails(c, e)
    BY <1>1, <1>3, <1>6, <2>1 DEF Map!SetFails, Map!Replies, Table, Registry
  <2> QED
    BY <1>4, <2>2 DEF Map!Next, Registry
<1> QED
  BY <1>5, <1>6

LEMMA WriteMaps ==
  ASSUME IInv, NEW c \in ComponentIds, NEW e \in Ids, NEW v \in Values, WriteThrough(c, e, v)
  PROVE  Map!Next
<1>1. e # InvalidEntity /\ RowsSound(components[c], entities)
      /\ \E r \in 1 .. Len(components[c].rows) : components[c].rows[r].entity = e
  BY DEF WriteThrough, HasRow, IInv, StoresSound
<1>2. HasEntity(entities, e) /\ c \in 1 .. Len(components) /\ HasRow(components[c], e)
  BY <1>1 DEF RowsSound, WriteThrough
<1>3. /\ components' = SetStores(entities, components, c, e, v, "none")
      /\ SetStatus(entities, components, c, e, "none") = "OK"
  BY <1>2 DEF WriteThrough, SetStores, SetStatus
<1>4. /\ reply' = [status |-> SetStatus(entities, components, c, e, "none"),
                   entity |-> InvalidEntity]
      /\ entities' = entities
  BY <1>3 DEF WriteThrough
<1> QED
  BY <1>3, <1>4, SetMaps

(* What a creation does to the registry before it needs an entity.         *)
LEMMA BuiltinMaps ==
  ASSUME IInv, NEW fault
  PROVE  LET cs == BuiltinStores(fault) IN
         /\ TableOf(cs) = Table
         /\ \/ RegistryOf(cs) = Registry
            \/ Map!Ranks(Hierarchy) = {} /\ RegistryOf(cs) = Append(Registry, Hierarchy)
         /\ HierarchyIn(cs) # 0 =>
              RegistryOf(cs) = IF Map!Ranks(Hierarchy) # {} THEN Registry
                               ELSE Append(Registry, Hierarchy)
<1> DEFINE cs == BuiltinStores(fault)
<1>1. /\ components \in Seq(Store) /\ componentCap \in Nat /\ Len(components) <= componentCap
      /\ Hierarchy \in Names /\ hierarchy \in 0 .. Len(components)
      /\ hierarchy # 0 => components[hierarchy].name = Hierarchy
  BY StoreAssumption DEF IInv, StoresSound
<1>2. Map!Ranks(Hierarchy) # {} <=> IsRegistered(Hierarchy, components)
  BY View
<1>3. hierarchy # 0 => IsRegistered(Hierarchy, components)
  BY <1>1 DEF IsRegistered
<1>4. CASE IsRegistered(Hierarchy, components)
  BY <1>2, <1>4 DEF BuiltinStores, Table, Registry
<1>5. CASE ~IsRegistered(Hierarchy, components)
  <2> DEFINE status == RegisterStatus(Hierarchy, components, componentCap, fault)
  <2>1. cs = Registered(Hierarchy, components, componentCap, fault)
    BY <1>3, <1>5 DEF BuiltinStores
  <2>2. /\ TableOf(cs) = Table
        /\ RegistryOf(cs) = IF status = "OK" THEN Append(Registry, Hierarchy) ELSE Registry
    BY <1>1, <2>1, RegisteredTable DEF Table, Registry
  <2>3. status # "OK" => cs = components
    BY <2>1 DEF Registered
  <2>4. HierarchyIn(cs) # 0 => status = "OK"
    BY <1>3, <1>5, <2>3 DEF HierarchyIn
  <2> HIDE DEF cs, status
  <2> QED
    BY <1>2, <1>5, <2>2, <2>4 DEF cs
<1> QED
  BY <1>4, <1>5

LEMMA CreateMaps ==
  ASSUME IInv, NEW fault \in Faults, EntityCreate(fault)
  PROVE  Map!Next
<1> DEFINE cs == BuiltinStores(fault)
           hid == HierarchyIn(cs)
           cap == Reserved(entityCap, Len(entities), fault = "entities")
           added == Append(entities, nextId)
           new == SetStores(added, cs, hid, nextId, NoParent, fault)
           room == hid # 0 /\ Len(entities) < cap
           ok == SetStatus(added, cs, hid, nextId, fault) = "OK"
<1>1. /\ components' = IF room THEN new ELSE cs
      /\ entities' = IF room /\ ok THEN added ELSE entities
      /\ reply' = [status |-> IF room /\ ok THEN "OK" ELSE "MEMORY",
                   entity |-> IF room /\ ok THEN nextId ELSE InvalidEntity]
  BY DEF EntityCreate, BuiltinStores
<1>2. /\ entities \in Seq(Ids) /\ Len(entities) \in Nat /\ Len(entities) < IdLimit
      /\ \A i \in 1 .. Len(entities) : entities[i] = i
      /\ nextId = IF Len(entities) = IdLimit - 1 THEN 0 ELSE Len(entities) + 1
  BY DEF IInv, IssuedInOrder
<1>3. nextId \in Ids /\ NoParent \in Values
  BY <1>2, StoreAssumption DEF Ids
<1>4. StoresSound(cs, BuiltinCap(fault), hid, entities)
  BY BuiltinSound
<1>5. cs \in Seq(Store) /\ Len(cs) \in Nat /\ \A d \in 1 .. Len(cs) : Covered(cs[d])
  BY <1>4 DEF StoresSound
<1>6. /\ TableOf(cs) = Table
      /\ \/ RegistryOf(cs) = Registry
         \/ Map!Ranks(Hierarchy) = {} /\ RegistryOf(cs) = Append(Registry, Hierarchy)
      /\ hid # 0 => RegistryOf(cs) = IF Map!Ranks(Hierarchy) # {} THEN Registry
                                     ELSE Append(Registry, Hierarchy)
  BY BuiltinMaps
<1> HIDE DEF cs, hid, cap, added
<1>7. /\ RegistryOf(new) = RegistryOf(cs)
      /\ ok => TableOf(new) = {row \in TableOf(cs) : row[1] # hid \/ row[2] # nextId}
                              \cup {<<hid, nextId, NoParent>>}
      /\ ~ok => TableOf(new) = TableOf(cs)
  BY <1>3, <1>5, SetTable
<1> HIDE DEF new, ok
<1>8. CASE room /\ ok
  <2>1. components' = new /\ entities' = added /\ reply' = [status |-> "OK", entity |-> nextId]
    BY <1>1, <1>8
  <2>2. hid \in 1 .. Len(cs) /\ cs[hid].name = Hierarchy /\ nextId # 0
    BY <1>4, <1>8 DEF StoresSound, ok, SetStatus, HasEntity, InvalidEntity
  <2>3. nextId = Len(entities) + 1
    BY <1>2, <2>2
  <2>4. ~HasEntity(entities, nextId) /\ nextId \notin Live
    BY <1>2, <2>3 DEF HasEntity, Live
  <2>5. Live' = Live \cup {nextId}
    <3>1. /\ Len(added) = Len(entities) + 1 /\ added[Len(entities) + 1] = nextId
          /\ \A i \in 1 .. Len(entities) : added[i] = entities[i]
      BY <1>2, <1>3 DEF added
    <3>2. \A i \in 1 .. Len(added) : i \in 1 .. Len(entities) \/ i = Len(entities) + 1
      BY <1>2, <3>1
    <3>3. Len(entities) + 1 \in 1 .. Len(added) /\ \A i \in 1 .. Len(entities) : i \in 1 .. Len(added)
      BY <1>2, <3>1
    <3>4. Live' = {added[i] : i \in 1 .. Len(added)}
      BY <2>1 DEF Live
    <3> QED
      BY <3>1, <3>2, <3>3, <3>4 DEF Live
  <2>6. TableOf(new) = Table \cup {<<hid, nextId, NoParent>>}
    <3>1. ASSUME NEW row \in TableOf(cs) PROVE row[2] # nextId
      <4>1. PICK d, x, y : d \in 1 .. Len(cs) /\ Stored(cs[d], x, y) /\ row = <<d, x, y>>
        BY TableRows
      <4>2. RowsSound(cs[d], entities)
        BY <1>4, <4>1 DEF StoresSound
      <4>3. PICK r \in 1 .. Len(cs[d].rows) : cs[d].rows[r].entity = x
        BY <4>1 DEF Stored
      <4>4. HasEntity(entities, x)
        BY <4>2, <4>3 DEF RowsSound
      <4> QED
        BY <2>4, <4>1, <4>4
    <3>2. {row \in TableOf(cs) : row[1] # hid \/ row[2] # nextId} = TableOf(cs)
      BY <3>1
    <3> QED
      BY <1>6, <1>7, <1>8, <3>2
  <2>7. /\ Registry' = IF Map!Ranks(Hierarchy) # {} THEN Registry ELSE Append(Registry, Hierarchy)
        /\ Registry' = RegistryOf(cs) /\ Table' = Table \cup {<<hid, nextId, NoParent>>}
    BY <1>6, <1>7, <1>8, <2>1, <2>6 DEF Registry, Table
  <2>8. hid \in 1 .. Len(Registry') /\ Registry'[hid] = Hierarchy
    BY <1>5, <2>2, <2>7 DEF RegistryOf
  <2>9. Map!Create(nextId)
    BY <2>1, <2>2, <2>4, <2>5, <2>7, <2>8
       DEF Map!Create, Map!Registers, Map!Replies, Registry, Table
  <2> QED
    BY <1>3, <2>9, View DEF Map!Next
<1>9. CASE ~(room /\ ok)
  <2>1. Live' = Live /\ reply' = [status |-> "MEMORY", entity |-> 0]
    BY <1>1, <1>9 DEF Live, InvalidEntity
  <2>2. Registry' = RegistryOf(cs) /\ Table' = Table
    BY <1>1, <1>6, <1>7, <1>9 DEF Registry, Table
  <2>3. Map!CreateFails
    BY <1>6, <2>1, <2>2 DEF Map!CreateFails, Map!Registers, Map!Replies, Registry, Table
  <2> QED
    BY <2>3 DEF Map!Next
<1> QED
  BY <1>8, <1>9

(* Whatever allocation fails in it, each call of the engine has its whole  *)
(* effect on the map of entities, components and values, or none but the   *)
(* registration of the built-in component (ecsvm.c 701-797 and 980-1096).  *)
THEOREM MapImplemented == Spec => ImplementsEntityMap
<1>1. Init => Map!Init
  BY InitMaps
<1>2. IInv /\ [Next]_vars => [Map!Next]_(Map!vars)
  <2> SUFFICES ASSUME IInv, [Next]_vars PROVE Map!Next \/ UNCHANGED Map!vars
    OBVIOUS
  <2>1. ASSUME NEW n \in Names, NEW fault \in TableFaults, RegisterComponent(n, fault)
        PROVE  Map!Next
    BY <2>1, RegisterMaps
  <2>2. ASSUME NEW fault \in Faults, EntityCreate(fault) PROVE Map!Next
    BY <2>2, CreateMaps
  <2>3. ASSUME NEW c \in ComponentIds, NEW e \in Ids, NEW v \in Values,
               NEW fault \in RowFaults, ComponentSet(c, e, v, fault)
        PROVE  Map!Next
    BY <2>3, SetMaps DEF ComponentSet
  <2>4. ASSUME NEW c \in ComponentIds, NEW e \in Ids, NEW v \in Values, WriteThrough(c, e, v)
        PROVE  Map!Next
    BY <2>4, WriteMaps
  <2>5. ASSUME UNCHANGED vars PROVE UNCHANGED Map!vars
    BY <2>5 DEF vars, Map!vars, Live
  <2> QED
    BY <2>1, <2>2, <2>3, <2>4, <2>5 DEF Next
<1> QED
  BY <1>1, <1>2, Invariance, PTL DEF Spec, ImplementsEntityMap, Map!Spec

-----------------------------------------------------------------------------
(***************************************************************************)
(* The blobs.                                                              *)
(***************************************************************************)
Data == Seq(Bytes \cup {0, Garbage})
Slot == [inUse : BOOLEAN, isString : BOOLEAN, data : Data]

(* What the slots are.  The bound on their number is what makes every      *)
(* handle given out one that BlobMap gives out.                            *)
SlotsInv == slots \in Seq(Slot) /\ Len(slots) <= MaxBlobs

USE BlobTableAssumption

-----------------------------------------------------------------------------
(***************************************************************************)
(* The operators on slots.                                                 *)
(***************************************************************************)

(* The place for the next blob is free, and at most one behind the last.   *)
LEMMA NextSlotIsFree ==
  ASSUME NEW ss \in Seq(Slot)
  PROVE  /\ NextSlot(ss) \in 1 .. Len(ss) + 1
         /\ NextSlot(ss) \in DOMAIN ss => ~ss[NextSlot(ss)].inUse
<1> DEFINE free == {i \in DOMAIN ss : ~ss[i].inUse}
<1>0. DOMAIN ss = 1 .. Len(ss) /\ Len(ss) \in Nat
  OBVIOUS
<1>1. CASE free = {}
  BY <1>0, <1>1 DEF NextSlot
<1>2. CASE free # {}
  <2>0. free \in SUBSET Nat
    BY <1>0
  <2>1. \E i \in free : \A j \in free : i <= j
    <3> DEFINE R == {pair \in Nat \X Nat : pair[1] < pair[2]}
    <3>1. IsWellFoundedOn(R, Nat)
      BY NatLessThanWellFounded DEF OpToRel
    <3> HIDE DEF free, R
    <3>2. PICK i \in free : \A j \in free : ~ (<<j, i>> \in R)
      BY <2>0, <1>2, <3>1, WFMin
    <3>3. ASSUME NEW j \in free PROVE i <= j
      <4>1. i \in Nat /\ j \in Nat /\ ~ (j < i)
        BY <2>0, <3>2 DEF R
      <4> QED
        BY <4>1
    <3> QED
      BY <3>3
  <2>2. NextSlot(ss) \in free
    BY <1>2, <2>1 DEF NextSlot
  <2> QED
    BY <1>0, <2>2
<1> QED
  BY <1>1, <1>2

(* A blob is there afterwards, and the others are as they were.            *)
LEMMA CreatedSlots ==
  ASSUME NEW ss \in Seq(Slot), NEW size \in Nat
  PROVE  /\ Created(ss, size) \in Seq(Slot)
         /\ DOMAIN Created(ss, size) = DOMAIN ss \cup {NextSlot(ss)}
         /\ Len(Created(ss, size)) =
              IF NextSlot(ss) = Len(ss) + 1 THEN Len(ss) + 1 ELSE Len(ss)
         /\ Created(ss, size)[NextSlot(ss)] =
              [inUse |-> TRUE, isString |-> FALSE, data |-> [i \in 1 .. size |-> Garbage]]
         /\ \A i \in DOMAIN ss : i # NextSlot(ss) => Created(ss, size)[i] = ss[i]
<1> DEFINE slot == [inUse |-> TRUE, isString |-> FALSE, data |-> [i \in 1 .. size |-> Garbage]]
           n == NextSlot(ss)
           new == Created(ss, size)
           len == IF n = Len(ss) + 1 THEN Len(ss) + 1 ELSE Len(ss)
<1>1. n \in 1 .. Len(ss) + 1 /\ DOMAIN ss = 1 .. Len(ss) /\ Len(ss) \in Nat
  BY NextSlotIsFree
<1>2. slot \in Slot
  BY DEF Slot, Data
<1>3. new = [i \in DOMAIN ss \cup {n} |-> IF i = n THEN slot ELSE ss[i]]
  BY DEF Created
<1> HIDE DEF slot, n, new
<1>4. DOMAIN ss \cup {n} = 1 .. len /\ len \in Nat
  BY <1>1
<1>5. \A i \in DOMAIN ss : ss[i] \in Slot
  OBVIOUS
<1>6. new \in [1 .. len -> Slot]
  BY <1>2, <1>3, <1>4, <1>5
<1>7. new \in Seq(Slot) /\ Len(new) = len
  BY <1>4, <1>6
<1>8. new[n] = slot /\ \A i \in DOMAIN ss : i # n => new[i] = ss[i]
  BY <1>3
<1> QED
  BY <1>3, <1>7, <1>8 DEF slot, n, new

\* The data of a blob after a write.
Overlaid(data, offset, bytes) ==
  [i \in DOMAIN data |->
     IF i \in offset + 1 .. offset + Len(bytes) THEN bytes[i - offset] ELSE data[i]]

(* Bytes within the blob are replaced; nothing else of the table changes.  *)
LEMMA WrittenSlots ==
  ASSUME NEW ss \in Seq(Slot), NEW h \in DOMAIN ss, NEW offset \in Nat,
         NEW bytes \in Seq(Bytes \cup {0})
  PROVE  /\ Written(ss, h, offset, bytes) \in Seq(Slot)
         /\ Len(Written(ss, h, offset, bytes)) = Len(ss)
         /\ \A i \in DOMAIN ss : i # h => Written(ss, h, offset, bytes)[i] = ss[i]
         /\ Written(ss, h, offset, bytes)[h] =
              [inUse |-> ss[h].inUse, isString |-> ss[h].isString,
               data |-> Overlaid(ss[h].data, offset, bytes)]
<1> DEFINE data == Overlaid(ss[h].data, offset, bytes)
<1>1. ss[h] \in Slot
  OBVIOUS
<1>2. ss[h].data \in Data
  BY <1>1 DEF Slot
<1>3. data \in Data
  <2>1. DOMAIN ss[h].data = 1 .. Len(ss[h].data) /\ Len(ss[h].data) \in Nat
    BY <1>2 DEF Data
  <2>2. ASSUME NEW i \in DOMAIN ss[h].data PROVE Overlaid(ss[h].data, offset, bytes)[i] \in Bytes \cup {0, Garbage}
    <3>1. CASE i \in offset + 1 .. offset + Len(bytes)
      <4>1. i - offset \in 1 .. Len(bytes)
        BY <3>1
      <4>2. bytes[i - offset] \in Bytes \cup {0}
        BY <4>1
      <4> QED
        BY <3>1, <4>2 DEF Overlaid
    <3>2. CASE i \notin offset + 1 .. offset + Len(bytes)
      <4>1. ss[h].data[i] \in Bytes \cup {0, Garbage}
        BY <1>2 DEF Data
      <4> QED
        BY <3>2, <4>1 DEF Overlaid
    <3> QED
      BY <3>1, <3>2
  <2>3. data \in [1 .. Len(ss[h].data) -> Bytes \cup {0, Garbage}]
    BY <2>1, <2>2 DEF Overlaid
  <2> QED
    BY <2>1, <2>3 DEF Data
<1>4. Written(ss, h, offset, bytes) = [ss EXCEPT ![h] = [ss[h] EXCEPT !.data = data]]
  BY DEF Written, Overlaid
<1> HIDE DEF data
<1>5. [ss[h] EXCEPT !.data = data] =
        [inUse |-> ss[h].inUse, isString |-> ss[h].isString, data |-> data]
  BY <1>1 DEF Slot
<1>6. [ss[h] EXCEPT !.data = data] \in Slot
  BY <1>1, <1>3, <1>5 DEF Slot
<1> QED
  BY <1>4, <1>5, <1>6 DEF data

(* Replacing one slot leaves the others and their number as they were.     *)
LEMMA ReplacedSlot ==
  ASSUME NEW ss \in Seq(Slot), NEW h \in DOMAIN ss, NEW slot \in Slot
  PROVE  /\ [ss EXCEPT ![h] = slot] \in Seq(Slot)
         /\ Len([ss EXCEPT ![h] = slot]) = Len(ss)
         /\ DOMAIN [ss EXCEPT ![h] = slot] = DOMAIN ss
         /\ [ss EXCEPT ![h] = slot][h] = slot
         /\ \A i \in DOMAIN ss : i # h => [ss EXCEPT ![h] = slot][i] = ss[i]
OBVIOUS

(* A destroyed blob leaves a free slot behind.                             *)
LEMMA DestroyedSlots ==
  ASSUME NEW ss \in Seq(Slot), NEW h \in DOMAIN ss
  PROVE  /\ Destroyed(ss, h) \in Seq(Slot)
         /\ Len(Destroyed(ss, h)) = Len(ss)
         /\ Destroyed(ss, h)[h] = FreeSlot
         /\ \A i \in DOMAIN ss : i # h => Destroyed(ss, h)[i] = ss[i]
<1>1. FreeSlot \in Slot
  BY DEF FreeSlot, Slot, Data
<1> HIDE DEF Slot
<1> QED
  BY <1>1 DEF Destroyed

(* Marking a blob as a string changes its mark alone.                      *)
LEMMA MarkedSlot ==
  ASSUME NEW slot \in Slot, NEW mark \in BOOLEAN
  PROVE  [slot EXCEPT !.isString = mark] =
           [inUse |-> slot.inUse, isString |-> mark, data |-> slot.data]
BY DEF Slot

\* What StringCreate leaves in the slots.
StringCreated(ss, text) ==
  [Written(Created(ss, Len(text) + 1), NextSlot(ss), 0, Append(text, 0))
     EXCEPT ![NextSlot(ss)].isString = TRUE]

(* A string is there afterwards, its text and the 0 behind it.             *)
LEMMA StringCreatedSlots ==
  ASSUME NEW ss \in Seq(Slot), NEW text \in Texts
  PROVE  /\ StringCreated(ss, text) \in Seq(Slot)
         /\ DOMAIN StringCreated(ss, text) = DOMAIN ss \cup {NextSlot(ss)}
         /\ Len(StringCreated(ss, text)) =
              IF NextSlot(ss) = Len(ss) + 1 THEN Len(ss) + 1 ELSE Len(ss)
         /\ StringCreated(ss, text)[NextSlot(ss)] =
              [inUse |-> TRUE, isString |-> TRUE, data |-> Append(text, 0)]
         /\ \A i \in DOMAIN ss : i # NextSlot(ss) => StringCreated(ss, text)[i] = ss[i]
<1> DEFINE n == NextSlot(ss)
           bytes == Append(text, 0)
           made == Created(ss, Len(text) + 1)
           filled == Written(made, n, 0, bytes)
           blank == [inUse |-> TRUE, isString |-> FALSE,
                     data |-> [i \in 1 .. Len(text) + 1 |-> Garbage]]
<1>1. text \in Seq(Bytes) /\ Len(text) + 1 \in Nat
  OBVIOUS
<1>2. bytes \in Seq(Bytes \cup {0}) /\ Len(bytes) = Len(text) + 1
  BY <1>1
<1>3. n \in 1 .. Len(ss) + 1 /\ DOMAIN ss = 1 .. Len(ss) /\ Len(ss) \in Nat
  BY NextSlotIsFree
<1>4. /\ made \in Seq(Slot) /\ DOMAIN made = DOMAIN ss \cup {n}
      /\ Len(made) = IF n = Len(ss) + 1 THEN Len(ss) + 1 ELSE Len(ss)
      /\ made[n] = blank
      /\ \A i \in DOMAIN ss : i # n => made[i] = ss[i]
  BY <1>1, CreatedSlots
<1>5. n \in DOMAIN made
  BY <1>4
<1>6. made[n].data = [i \in 1 .. Len(text) + 1 |-> Garbage] /\ made[n].inUse
  BY <1>4
<1>7. DOMAIN made[n].data = 1 .. Len(bytes)
  BY <1>2, <1>6
<1> HIDE DEF n, bytes, made, filled, blank
<1>8. /\ filled \in Seq(Slot) /\ Len(filled) = Len(made)
      /\ \A i \in DOMAIN made : i # n => filled[i] = made[i]
      /\ filled[n] = [inUse |-> made[n].inUse, isString |-> made[n].isString,
                      data |-> Overlaid(made[n].data, 0, bytes)]
  <2>1. 0 \in Nat
    OBVIOUS
  <2> QED
    BY ONLY <1>2, <1>4, <1>5, <2>1, WrittenSlots, Zenon DEF filled
<1>9. Overlaid(made[n].data, 0, bytes) = bytes
  <2>1. DOMAIN bytes = 1 .. Len(bytes) /\ bytes = [i \in 1 .. Len(bytes) |-> bytes[i]]
    BY <1>2
  <2>2. \A i \in 1 .. Len(bytes) : i \in 0 + 1 .. 0 + Len(bytes) /\ i - 0 = i
    BY <1>2
  <2> QED
    BY <1>7, <2>1, <2>2 DEF Overlaid
<1>10. filled[n].data = bytes /\ filled[n].inUse = TRUE
  BY <1>6, <1>8, <1>9, <1>4 DEF blank
<1>11. DOMAIN filled = DOMAIN made /\ filled[n] \in Slot
  BY <1>4, <1>5, <1>8
<1>12. /\ [filled[n] EXCEPT !.isString = TRUE] =
             [inUse |-> TRUE, isString |-> TRUE, data |-> bytes]
       /\ [filled[n] EXCEPT !.isString = TRUE] \in Slot
  <2>1. bytes \in Data
    BY <1>10, <1>11 DEF Slot
  <2>2. [filled[n] EXCEPT !.isString = TRUE] =
          [inUse |-> filled[n].inUse, isString |-> TRUE, data |-> filled[n].data]
    BY <1>11, MarkedSlot
  <2>3. [filled[n] EXCEPT !.isString = TRUE] =
          [inUse |-> TRUE, isString |-> TRUE, data |-> bytes]
    BY <1>10, <2>2
  <2> QED
    BY <2>1, <2>3 DEF Slot
<1>13. StringCreated(ss, text) = [filled EXCEPT ![n] = [filled[n] EXCEPT !.isString = TRUE]]
  BY DEF StringCreated, filled, n, made, bytes
<1>14. /\ StringCreated(ss, text) \in Seq(Slot)
       /\ DOMAIN StringCreated(ss, text) = DOMAIN filled
       /\ Len(StringCreated(ss, text)) = Len(filled)
  BY <1>5, <1>8, <1>11, <1>12, <1>13, ReplacedSlot
<1>15. /\ StringCreated(ss, text)[n] = [inUse |-> TRUE, isString |-> TRUE, data |-> bytes]
       /\ \A i \in DOMAIN ss : i # n => StringCreated(ss, text)[i] = ss[i]
  BY <1>4, <1>5, <1>8, <1>11, <1>12, <1>13
<1> QED
  BY <1>4, <1>8, <1>11, <1>14, <1>15 DEF n, bytes

-----------------------------------------------------------------------------
(***************************************************************************)
(* The invariant of the slots.                                             *)
(***************************************************************************)
LEMMA WritesAreBytes == \A bytes \in Writes : bytes \in Seq(Bytes \cup {0})
<1> DEFINE S == Bytes \cup {0}
<1>1. <<>> \in Seq(S)
  OBVIOUS
<1>2. \A b \in Bytes : <<b>> \in Seq(S)
  OBVIOUS
<1>3. \A b, c \in Bytes : <<b, c>> \in Seq(S)
  OBVIOUS
<1> HIDE DEF S
<1>4. ASSUME NEW bytes \in Writes PROVE bytes \in Seq(S)
  <2>1. \/ bytes = <<>>
        \/ \E b \in Bytes : bytes = <<b>>
        \/ \E b, c \in Bytes : bytes = <<b, c>>
    BY DEF Writes
  <2> QED
    BY <1>1, <1>2, <1>3, <2>1
<1> QED
  BY <1>4 DEF S

LEMMA SlotsInvInit == BlobInit => SlotsInv
BY DEF BlobInit, SlotsInv

LEMMA SlotsInvStep == SlotsInv /\ [BlobNext]_blobVars => SlotsInv'
<1> SUFFICES ASSUME SlotsInv, [BlobNext]_blobVars PROVE SlotsInv'
  OBVIOUS
<1>0. slots \in Seq(Slot) /\ Len(slots) \in Nat /\ Len(slots) <= MaxBlobs
      /\ DOMAIN slots = 1 .. Len(slots)
  BY DEF SlotsInv
<1>1. ASSUME NEW size \in Sizes, BlobCreate(size) PROVE SlotsInv'
  BY <1>0, <1>1, CreatedSlots, NextSlotIsFree DEF BlobCreate, SlotsInv
<1>2. ASSUME NEW text \in Texts, StringCreate(text) PROVE SlotsInv'
  <2>1. Len(Append(text, 0)) = Len(text) + 1
    OBVIOUS
  <2>2. slots' = StringCreated(slots, text) /\ NextSlot(slots) <= MaxBlobs
    BY <1>2, <2>1 DEF StringCreate, StringCreated
  <2> QED
    BY <1>0, <2>2, StringCreatedSlots, NextSlotIsFree DEF SlotsInv
<1>3. ASSUME NEW h \in Handles, BlobDestroy(h) PROVE SlotsInv'
  <2>1. h \in DOMAIN slots
    BY <1>0, <1>3 DEF BlobDestroy, IsLive, Handles
  <2> QED
    BY <1>0, <1>3, <2>1, DestroyedSlots DEF BlobDestroy, SlotsInv
<1>4. ASSUME NEW h \in Handles, NEW offset \in Offsets, NEW bytes \in Writes,
             BlobWrite(h, offset, bytes)
      PROVE  SlotsInv'
  <2>1. h \in DOMAIN slots /\ offset \in Nat /\ bytes \in Seq(Bytes \cup {0})
    BY <1>0, <1>4, WritesAreBytes DEF BlobWrite, IsLive, Handles, Offsets
  <2>2. CASE Fits(slots[h], offset, bytes)
    <3>1. slots' = Written(slots, h, offset, bytes)
      BY <1>4, <2>2 DEF BlobWrite
    <3>2. slots' \in Seq(Slot) /\ Len(slots') = Len(slots)
      BY <1>0, <2>1, <3>1, WrittenSlots
    <3> QED
      BY <1>0, <3>2 DEF SlotsInv
  <2>3. CASE ~Fits(slots[h], offset, bytes)
    BY <1>0, <1>4, <2>3 DEF BlobWrite, SlotsInv
  <2> QED
    BY <2>2, <2>3
<1>5. CASE UNCHANGED slots
  BY <1>0, <1>5 DEF SlotsInv
<1> QED
  BY <1>1, <1>2, <1>3, <1>4, <1>5
     DEF BlobNext, OutOfMemory, NotFound, BlobRead, blobVars

(* The slots are well formed, and never more than the bound.               *)
THEOREM SlotsSound == BlobSpec => []SlotsInv
BY SlotsInvInit, SlotsInvStep, PTL DEF BlobSpec

-----------------------------------------------------------------------------
(***************************************************************************)
(* Each call is a step of BlobMap.                                         *)
(***************************************************************************)

\* The blobs that the slots ss hold.
BlobsOf(ss) ==
  [h \in {i \in DOMAIN ss : ss[i].inUse} |->
     [data |-> ss[h].data, isString |-> ss[h].isString]]

LEMMA BlobsAre == Blobs = BlobsOf(slots) /\ Blobs' = BlobsOf(slots')
BY DEF Blobs, BlobsOf

(* A handle is live just when the map has a blob for it.                   *)
LEMMA LiveHandles ==
  ASSUME SlotsInv, NEW h \in Handles
  PROVE  /\ IsLive(slots, h) <=> h \in DOMAIN Blobs
         /\ h \in DOMAIN Blobs =>
              /\ h \in DOMAIN slots
              /\ Blobs[h] = [data |-> slots[h].data, isString |-> slots[h].isString]
BY DEF IsLive, Blobs, Handles, SlotsInv

\* The map with another blob in it.
WithBlob(map, h, data, isString) ==
  [g \in DOMAIN map \cup {h} |->
     IF g = h THEN [data |-> data, isString |-> isString] ELSE map[g]]

(* Filling a free slot adds one blob to the map.                           *)
LEMMA FilledSlotMaps ==
  ASSUME NEW old \in Seq(Slot), NEW new \in Seq(Slot), NEW h,
         h \in DOMAIN old => ~old[h].inUse,
         DOMAIN new = DOMAIN old \cup {h},
         new[h].inUse = TRUE,
         \A i \in DOMAIN old : i # h => new[i] = old[i]
  PROVE  /\ h \notin DOMAIN BlobsOf(old)
         /\ BlobsOf(new) = WithBlob(BlobsOf(old), h, new[h].data, new[h].isString)
<1>1. {i \in DOMAIN new : new[i].inUse} = {i \in DOMAIN old : old[i].inUse} \cup {h}
  <2>1. ASSUME NEW i \in DOMAIN new, i # h PROVE i \in DOMAIN old /\ new[i] = old[i]
    BY <2>1
  <2>2. ASSUME NEW i \in DOMAIN old PROVE i \in DOMAIN new
    BY <2>2
  <2> QED
    BY <2>1, <2>2
<1>2. h \notin DOMAIN BlobsOf(old)
  BY DEF BlobsOf
<1>3. ASSUME NEW g \in DOMAIN BlobsOf(old)
      PROVE  g # h /\ [data |-> new[g].data, isString |-> new[g].isString] = BlobsOf(old)[g]
  BY <1>2, <1>3 DEF BlobsOf
<1> QED
  BY <1>1, <1>2, <1>3 DEF BlobsOf, WithBlob

LEMMA MapInit == BlobInit => Abstract!Init
BY DEF BlobInit, Abstract!Init, Blobs

LEMMA MakeMaps ==
  ASSUME NEW new \in Seq(Slot), NEW data, NEW isString \in BOOLEAN,
         SlotsInv, slots' = new, NextSlot(slots) <= MaxBlobs,
         DOMAIN new = DOMAIN slots \cup {NextSlot(slots)},
         new[NextSlot(slots)] = [inUse |-> TRUE, isString |-> isString, data |-> data],
         \A i \in DOMAIN slots : i # NextSlot(slots) => new[i] = slots[i],
         Replies("OK", <<NextSlot(slots)>>)
  PROVE  Abstract!Make(data, isString)
<1> DEFINE h == NextSlot(slots)
<1>0. /\ slots \in Seq(Slot)
      /\ DOMAIN new = DOMAIN slots \cup {h}
      /\ new[h] = [inUse |-> TRUE, isString |-> isString, data |-> data]
      /\ \A i \in DOMAIN slots : i # h => new[i] = slots[i]
  BY DEF SlotsInv
<1>1. h \in 1 .. MaxBlobs /\ (h \in DOMAIN slots => ~slots[h].inUse)
  BY NextSlotIsFree DEF SlotsInv
<1> HIDE DEF h
<1>3. new[h].data = data /\ new[h].isString = isString /\ new[h].inUse = TRUE
  BY <1>0
<1>2. /\ h \notin DOMAIN BlobsOf(slots)
      /\ BlobsOf(new) = WithBlob(BlobsOf(slots), h, new[h].data, new[h].isString)
  BY <1>0, <1>1, <1>3, FilledSlotMaps
<1>4. /\ h \notin DOMAIN Blobs
      /\ Blobs' = WithBlob(Blobs, h, data, isString)
  BY <1>2, <1>3, BlobsAre
<1>5. blobReply' = [status |-> "OK", value |-> <<h>>]
  BY DEF Replies, h
<1> QED
  BY <1>1, <1>4, <1>5 DEF Abstract!Make, Abstract!Replies, WithBlob

(* ecsvm_blob_create makes a blob of bytes nobody wrote.                   *)
LEMMA BlobCreateMaps ==
  ASSUME SlotsInv, NEW size \in Sizes, BlobCreate(size)
  PROVE  Abstract!Next
<1>1. slots \in Seq(Slot) /\ size \in Nat
  BY DEF SlotsInv
<1>2. slots' = Created(slots, size) /\ NextSlot(slots) <= MaxBlobs
      /\ Replies("OK", <<NextSlot(slots)>>)
  BY DEF BlobCreate
<1> DEFINE data == [i \in 1 .. size |-> Garbage]
           new == Created(slots, size)
<1>3. /\ new \in Seq(Slot) /\ DOMAIN new = DOMAIN slots \cup {NextSlot(slots)}
      /\ new[NextSlot(slots)] = [inUse |-> TRUE, isString |-> FALSE, data |-> data]
      /\ \A i \in DOMAIN slots : i # NextSlot(slots) => new[i] = slots[i]
  BY <1>1, CreatedSlots
<1> HIDE DEF data, new
<1>4. Abstract!Make(data, FALSE)
  BY <1>2, <1>3, MakeMaps DEF new
<1> QED
  BY <1>4 DEF data, Abstract!Next

(* ecsvm_string_create makes a blob of the text and the 0 behind it.       *)
LEMMA StringCreateMaps ==
  ASSUME SlotsInv, NEW text \in Texts, StringCreate(text)
  PROVE  Abstract!Next
<1>1. slots \in Seq(Slot) /\ Len(Append(text, 0)) = Len(text) + 1
  BY DEF SlotsInv
<1>2. slots' = StringCreated(slots, text) /\ NextSlot(slots) <= MaxBlobs
      /\ Replies("OK", <<NextSlot(slots)>>)
  BY <1>1 DEF StringCreate, StringCreated
<1> DEFINE new == StringCreated(slots, text)
<1>3. /\ new \in Seq(Slot) /\ DOMAIN new = DOMAIN slots \cup {NextSlot(slots)}
      /\ new[NextSlot(slots)] = [inUse |-> TRUE, isString |-> TRUE, data |-> Append(text, 0)]
      /\ \A i \in DOMAIN slots : i # NextSlot(slots) => new[i] = slots[i]
  BY <1>1, StringCreatedSlots
<1> HIDE DEF new
<1>4. Abstract!Make(Append(text, 0), TRUE)
  BY <1>2, <1>3, MakeMaps DEF new
<1> QED
  BY <1>4 DEF Abstract!Next

(* A destroyed handle names nothing, and every other what it did.          *)
LEMMA DestroyMaps ==
  ASSUME SlotsInv, NEW h \in Handles, BlobDestroy(h)
  PROVE  Abstract!Next
<1>1. h \in DOMAIN Blobs /\ h \in DOMAIN slots
  BY LiveHandles DEF BlobDestroy
<1>2. /\ slots' \in Seq(Slot) /\ DOMAIN slots' = DOMAIN slots
      /\ slots'[h] = FreeSlot
      /\ \A i \in DOMAIN slots : i # h => slots'[i] = slots[i]
  BY <1>1, DestroyedSlots DEF BlobDestroy, SlotsInv
<1>3. {i \in DOMAIN slots' : slots'[i].inUse} = {i \in DOMAIN slots : slots[i].inUse} \ {h}
  BY <1>2 DEF FreeSlot
<1>4. Blobs' = [g \in DOMAIN Blobs \ {h} |-> Blobs[g]]
  <2>1. DOMAIN Blobs' = DOMAIN Blobs \ {h}
    BY <1>3 DEF Blobs
  <2>2. ASSUME NEW g \in DOMAIN Blobs \ {h} PROVE Blobs'[g] = Blobs[g]
    BY <1>2, <1>3, <2>2 DEF Blobs
  <2> QED
    BY <2>1, <2>2 DEF Blobs
<1>5. Abstract!Destroy(h)
  BY <1>1, <1>4 DEF Abstract!Destroy, Abstract!Replies, BlobDestroy, Replies
<1> QED
  BY <1>1, <1>5 DEF Abstract!Next

(* A write within the bounds patches the bytes of that blob; one that goes *)
(* beyond them is refused, whichever of its two numbers is at fault.       *)
LEMMA BlobWriteMaps ==
  ASSUME SlotsInv, NEW h \in Handles, NEW offset \in Offsets, NEW bytes \in Writes,
         BlobWrite(h, offset, bytes)
  PROVE  Abstract!Next
<1>1. /\ h \in DOMAIN Blobs /\ h \in DOMAIN slots
      /\ Blobs[h] = [data |-> slots[h].data, isString |-> slots[h].isString]
  BY LiveHandles DEF BlobWrite
<1>2. /\ slots \in Seq(Slot) /\ slots[h] \in Slot /\ slots[h].data \in Data
      /\ offset \in Nat /\ bytes \in Seq(Bytes \cup {0}) /\ slots[h].inUse
  <2>1. slots \in Seq(Slot) /\ slots[h] \in Slot
    BY <1>1 DEF SlotsInv
  <2>2. slots[h].data \in Data
    BY <2>1 DEF Slot
  <2>3. offset \in Nat /\ bytes \in Seq(Bytes \cup {0})
    BY WritesAreBytes DEF Offsets, Handles
  <2>4. slots[h].inUse
    BY DEF BlobWrite, IsLive
  <2> QED
    BY <2>1, <2>2, <2>3, <2>4
<1>3. Len(slots[h].data) \in Nat /\ Len(bytes) \in Nat
  BY <1>2 DEF Data
<1>4. offset \in Abstract!Handles /\ bytes \in Abstract!Writes
  BY DEF Offsets, Handles, Writes, Abstract!Handles, Abstract!Writes
<1>5. Fits(slots[h], offset, bytes) <=> offset + Len(bytes) <= Len(Blobs[h].data)
  BY <1>1, <1>2, <1>3 DEF Fits
<1>6. CASE Fits(slots[h], offset, bytes)
  <2>1. slots' = Written(slots, h, offset, bytes) /\ Replies("OK", <<>>)
    BY <1>6 DEF BlobWrite
  <2>2. /\ slots' \in Seq(Slot) /\ DOMAIN slots' = DOMAIN slots
        /\ slots'[h] = [inUse |-> slots[h].inUse, isString |-> slots[h].isString,
                        data |-> Overlaid(slots[h].data, offset, bytes)]
        /\ \A i \in DOMAIN slots : i # h => slots'[i] = slots[i]
    <3>0. /\ slots \in Seq(Slot) /\ h \in DOMAIN slots /\ offset \in Nat
          /\ bytes \in Seq(Bytes \cup {0})
      BY <1>1, <1>2
    <3>1. /\ Written(slots, h, offset, bytes) \in Seq(Slot)
          /\ Len(Written(slots, h, offset, bytes)) = Len(slots)
          /\ \A i \in DOMAIN slots : i # h => Written(slots, h, offset, bytes)[i] = slots[i]
          /\ Written(slots, h, offset, bytes)[h] =
               [inUse |-> slots[h].inUse, isString |-> slots[h].isString,
                data |-> Overlaid(slots[h].data, offset, bytes)]
      BY ONLY <3>0, WrittenSlots, ZenonT(60)
    <3> DEFINE new == Written(slots, h, offset, bytes)
    <3>2. new \in Seq(Slot) /\ Len(new) = Len(slots)
      BY ONLY <3>1
    <3> HIDE DEF new
    <3>3. DOMAIN new = DOMAIN slots
      BY <3>0, <3>2
    <3> QED
      BY <2>1, <3>1, <3>3 DEF new
  <2>3. Overlaid(slots[h].data, offset, bytes) = Abstract!Patched(slots[h].data, offset, bytes)
    <3>1. DOMAIN slots[h].data \subseteq Nat /\ DOMAIN bytes = 1 .. Len(bytes)
      BY <1>2 DEF Data
    <3>2. \A i \in DOMAIN slots[h].data :
            i \in offset + 1 .. offset + Len(bytes) <=> i - offset \in DOMAIN bytes
      BY <1>2, <1>3, <3>1
    <3> QED
      BY <3>2 DEF Overlaid, Abstract!Patched
  <2>4. {i \in DOMAIN slots' : slots'[i].inUse} = {i \in DOMAIN slots : slots[i].inUse}
    BY <2>2
  <2>5. Blobs' = [Blobs EXCEPT ![h].data = Abstract!Patched(@, offset, bytes)]
    <3> DEFINE new == Abstract!Patched(slots[h].data, offset, bytes)
    <3>1. DOMAIN Blobs' = DOMAIN Blobs
      BY <2>4 DEF Blobs
    <3>2. Blobs'[h] = [data |-> new, isString |-> slots[h].isString]
      BY <1>1, <2>2, <2>3, <2>4 DEF Blobs
    <3>3. ASSUME NEW g \in DOMAIN Blobs, g # h PROVE Blobs'[g] = Blobs[g]
      BY <2>2, <2>4, <3>3 DEF Blobs
    <3>4. [Blobs EXCEPT ![h].data = Abstract!Patched(@, offset, bytes)] =
            [Blobs EXCEPT ![h] = [data |-> new, isString |-> slots[h].isString]]
      <4> HIDE DEF new
      <4>1. Blobs[h].data = slots[h].data
        BY <1>1
      <4>2. Abstract!Patched(Blobs[h].data, offset, bytes) = new
        BY <4>1 DEF new
      <4>3. [[data |-> slots[h].data, isString |-> slots[h].isString] EXCEPT !.data = new] =
              [data |-> new, isString |-> slots[h].isString]
        OBVIOUS
      <4> QED
        BY <1>1, <4>2, <4>3
    <3>5. Blobs' = [g \in DOMAIN Blobs |-> Blobs'[g]] /\ Blobs = [g \in DOMAIN Blobs |-> Blobs[g]]
      BY <3>1 DEF Blobs
    <3> HIDE DEF new
    <3> QED
      BY <1>1, <3>1, <3>2, <3>3, <3>4, <3>5
  <2>6. Abstract!Write(h, offset, bytes)
    BY <1>1, <1>5, <1>6, <2>1, <2>5 DEF Abstract!Write, Abstract!Replies, Replies
  <2> QED
    BY <1>1, <1>4, <2>6 DEF Abstract!Next
<1>7. CASE ~Fits(slots[h], offset, bytes)
  <2>1. UNCHANGED slots /\ Replies("ARGUMENT", <<>>)
    BY <1>7 DEF BlobWrite
  <2>2. offset + Len(bytes) > Len(Blobs[h].data)
    BY <1>1, <1>2, <1>3, <1>5, <1>7
  <2>3. Abstract!Refuse("ARGUMENT")
    BY <2>1, BlobsAre DEF Abstract!Refuse, Abstract!Replies, Replies
  <2> QED
    BY <1>1, <1>4, <2>2, <2>3 DEF Abstract!Next
<1> QED
  BY <1>6, <1>7

(* The three readers answer for the blob of the handle, or for none.       *)
LEMMA ReadMaps ==
  ASSUME SlotsInv, NEW h \in Handles, BlobRead(h)
  PROVE  Abstract!Next
<1>1. h \in Abstract!Handles
  BY DEF Handles, Abstract!Handles
<1>2. UNCHANGED Blobs
  BY BlobsAre DEF BlobRead
<1>3. CASE IsLive(slots, h)
  <2>0. h \in DOMAIN Blobs
        /\ Blobs[h] = [data |-> slots[h].data, isString |-> slots[h].isString]
    BY <1>3, LiveHandles
  <2>1. h \in DOMAIN Blobs /\ Blobs[h].data = slots[h].data
        /\ Blobs[h].isString = slots[h].isString
    BY <2>0
  <2> QED
    BY <1>1, <1>2, <1>3, <2>1
       DEF Abstract!Next, Abstract!Read, Abstract!Replies, BlobRead, Replies
<1>4. CASE ~IsLive(slots, h)
  <2>1. h \notin DOMAIN Blobs
    BY <1>4, LiveHandles
  <2> QED
    BY <1>1, <1>2, <1>4, <2>1
       DEF Abstract!Next, Abstract!Read, Abstract!Replies, BlobRead, Replies
<1> QED
  BY <1>3, <1>4

(* A dead handle and a failing allocation change no blob.                  *)
LEMMA RefusalsMap ==
  ASSUME SlotsInv, OutOfMemory \/ \E h \in Handles : NotFound(h)
  PROVE  Abstract!Next
<1>1. CASE OutOfMemory
  BY <1>1, BlobsAre
     DEF OutOfMemory, Replies, Abstract!Next, Abstract!Refuse, Abstract!Replies
<1>2. ASSUME NEW h \in Handles, NotFound(h) PROVE Abstract!Next
  <2>1. h \in Abstract!Handles \ DOMAIN Blobs
    BY <1>2, LiveHandles DEF NotFound, Handles, Abstract!Handles
  <2>2. Abstract!Refuse("NOT_FOUND")
    BY <1>2, BlobsAre DEF NotFound, Replies, Abstract!Refuse, Abstract!Replies
  <2> QED
    BY <2>1, <2>2 DEF Abstract!Next
<1> QED
  BY <1>1, <1>2

LEMMA StepMaps == SlotsInv /\ [BlobNext]_blobVars => [Abstract!Next]_(Abstract!vars)
<1> SUFFICES ASSUME SlotsInv, [BlobNext]_blobVars PROVE Abstract!Next \/ UNCHANGED Abstract!vars
  OBVIOUS
<1>1. CASE UNCHANGED blobVars
  BY <1>1, BlobsAre DEF blobVars, Abstract!vars
<1>2. CASE BlobNext
  BY <1>2, RefusalsMap, BlobCreateMaps, StringCreateMaps, ReadMaps, DestroyMaps, BlobWriteMaps
     DEF BlobNext
<1> QED
  BY <1>1, <1>2

(* Handles keep the promise of BlobMap: as long as its blob lives, a       *)
(* handle is unlike every other and reads back what was written through    *)
(* it, whatever slots were freed and used again in between and whichever   *)
(* allocation failed (ecsvm.c 532-565 and 1141-1324).                      *)
THEOREM BlobsImplemented == BlobSpec => ImplementsBlobMap
<1>1. BlobInit => Abstract!Init
  BY MapInit
<1>2. SlotsInv /\ [BlobNext]_blobVars => [Abstract!Next]_(Abstract!vars)
  BY StepMaps
<1> QED
  BY <1>1, <1>2, SlotsSound, PTL DEF BlobSpec, ImplementsBlobMap, Abstract!Spec
=============================================================================
