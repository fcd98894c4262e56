------------------------ MODULE NativeSystemsProofs ------------------------
(***************************************************************************)
(* Over all ticks and reloads: one window, that is there before it is      *)
(* drawn in, and that closes only when every managed system had its say;   *)
(* one Time row for each registration.                                     *)
(***************************************************************************)
EXTENDS NativeSystems, PipelineOrderProofs

\* A sequence of systems with names of their own.
Listing(table) ==
  /\ table \in Seq(InPrefix(table))
  /\ \A i, j \in Slots(table) : table[i].name = table[j].name => i = j

-----------------------------------------------------------------------------
(***************************************************************************)
(* The table a module is registered with, and its pipeline.                *)
(***************************************************************************)

LEMMA ListingLength ==
  ASSUME NEW table, Listing(table)
  PROVE  Len(table) \in Nat /\ \A i \in Slots(table) : table[i] \in InPrefix(table)
BY DEF Listing, Slots, InPrefix

LEMMA JoinedListing ==
  ASSUME NEW l, NEW r, Listing(l), Listing(r), NamesOf(l) \cap NamesOf(r) = {}
  PROVE  /\ Listing(l \o r) /\ InPrefix(l \o r) = InPrefix(l) \cup InPrefix(r)
         /\ NamesOf(l \o r) = NamesOf(l) \cup NamesOf(r)
<1> DEFINE S == InPrefix(l) \cup InPrefix(r)
<1>1. l \in Seq(S) /\ r \in Seq(S) /\ Len(l) \in Nat /\ Len(r) \in Nat
  BY DEF Listing
<1> HIDE DEF S
<1>2. /\ l \o r \in Seq(S) /\ Len(l \o r) = Len(l) + Len(r)
      /\ \A k \in 1 .. Len(l) + Len(r) :
           (l \o r)[k] = IF k <= Len(l) THEN l[k] ELSE r[k - Len(l)]
  BY <1>1, Concatenation
<1> DEFINE t == l \o r
<1> HIDE DEF t
<1>3. \A k \in 1 .. Len(l) : k \in 1 .. Len(t) /\ t[k] = l[k]
  BY <1>1, <1>2 DEF t
<1>4. \A k \in 1 .. Len(r) : Len(l) + k \in 1 .. Len(t) /\ t[Len(l) + k] = r[k]
  <2> SUFFICES ASSUME NEW k \in 1 .. Len(r)
               PROVE  Len(l) + k \in 1 .. Len(t) /\ t[Len(l) + k] = r[k]
    OBVIOUS
  <2>1. Len(l) + k \in 1 .. Len(l) + Len(r) /\ ~ (Len(l) + k <= Len(l)) /\ Len(l) + k - Len(l) = k
    BY <1>1
  <2> QED
    BY <1>2, <2>1 DEF t
<1>5. \A k \in 1 .. Len(t) : \/ k \in 1 .. Len(l)
                             \/ \E h \in 1 .. Len(r) : k = Len(l) + h
  <2> SUFFICES ASSUME NEW k \in 1 .. Len(t), k \notin 1 .. Len(l)
               PROVE  \E h \in 1 .. Len(r) : k = Len(l) + h
    OBVIOUS
  <2>1. k - Len(l) \in 1 .. Len(r) /\ k = Len(l) + (k - Len(l))
    BY <1>1, <1>2 DEF t
  <2> QED
    BY <2>1
<1>6. InPrefix(t) = InPrefix(l) \cup InPrefix(r)
  <2>1. ASSUME NEW x \in InPrefix(t) PROVE x \in InPrefix(l) \cup InPrefix(r)
    <3>1. PICK k \in 1 .. Len(t) : x = t[k]
      BY DEF InPrefix
    <3>2. CASE k \in 1 .. Len(l)
      BY <1>3, <3>1, <3>2 DEF InPrefix
    <3>3. ASSUME NEW h \in 1 .. Len(r), k = Len(l) + h PROVE x \in InPrefix(r)
      BY <1>4, <3>1, <3>3 DEF InPrefix
    <3> QED
      BY <1>5, <3>2, <3>3
  <2>2. \A x \in InPrefix(l) : x \in InPrefix(t)
    BY <1>3 DEF InPrefix
  <2>3. \A x \in InPrefix(r) : x \in InPrefix(t)
    BY <1>4 DEF InPrefix
  <2> QED
    BY <2>1, <2>2, <2>3
<1>7. NamesOf(t) = NamesOf(l) \cup NamesOf(r)
  <2>1. ASSUME NEW x \in NamesOf(t) PROVE x \in NamesOf(l) \cup NamesOf(r)
    <3>1. PICK k \in 1 .. Len(t) : x = t[k].name
      BY DEF NamesOf, Slots
    <3>2. CASE k \in 1 .. Len(l)
      BY <1>3, <3>1, <3>2 DEF NamesOf, Slots
    <3>3. ASSUME NEW h \in 1 .. Len(r), k = Len(l) + h PROVE x \in NamesOf(r)
      BY <1>4, <3>1, <3>3 DEF NamesOf, Slots
    <3> QED
      BY <1>5, <3>2, <3>3
  <2>2. \A x \in NamesOf(l) : x \in NamesOf(t)
    BY <1>3 DEF NamesOf, Slots
  <2>3. \A x \in NamesOf(r) : x \in NamesOf(t)
    BY <1>4 DEF NamesOf, Slots
  <2> QED
    BY <2>1, <2>2, <2>3
<1>8. ASSUME NEW i \in Slots(t), NEW j \in Slots(t), t[i].name = t[j].name PROVE i = j
  <2>1. \A k \in 1 .. Len(l) : l[k].name \in NamesOf(l)
    BY DEF NamesOf, Slots
  <2>2. \A k \in 1 .. Len(r) : r[k].name \in NamesOf(r)
    BY DEF NamesOf, Slots
  <2>3. i \in 1 .. Len(t) /\ j \in 1 .. Len(t)
    BY DEF Slots
  <2>4. CASE i \in 1 .. Len(l) /\ j \in 1 .. Len(l)
    BY <1>3, <1>8, <2>4 DEF Listing, Slots
  <2>5. CASE \E g \in 1 .. Len(r), h \in 1 .. Len(r) : i = Len(l) + g /\ j = Len(l) + h
    BY <1>4, <1>8, <2>5 DEF Listing, Slots
  <2>6. CASE i \in 1 .. Len(l) /\ \E h \in 1 .. Len(r) : j = Len(l) + h
    BY <1>3, <1>4, <1>8, <2>1, <2>2, <2>6
  <2>7. CASE j \in 1 .. Len(l) /\ \E h \in 1 .. Len(r) : i = Len(l) + h
    BY <1>3, <1>4, <1>8, <2>1, <2>2, <2>7
  <2> QED
    BY <1>5, <2>3, <2>4, <2>5, <2>6, <2>7
<1>9. t \in Seq(InPrefix(t))
  BY <1>2, <1>6 DEF t, S
<1> QED
  BY <1>6, <1>7, <1>8, <1>9 DEF Listing, t

LEMMA WhenListing ==
  ASSUME NEW needed \in BOOLEAN, NEW s
  PROVE  /\ Listing(When(needed, s))
         /\ InPrefix(When(needed, s)) = IF needed THEN {s} ELSE {}
         /\ NamesOf(When(needed, s)) = IF needed THEN {s.name} ELSE {}
<1>1. CASE needed
  <2>1. When(needed, s) = <<s>> /\ Len(<<s>>) = 1 /\ <<s>>[1] = s
    BY <1>1 DEF When
  <2>2. InPrefix(<<s>>) = {s} /\ NamesOf(<<s>>) = {s.name} /\ Listing(<<s>>)
    BY <2>1 DEF InPrefix, NamesOf, Slots, Listing
  <2> QED
    BY <1>1, <2>1, <2>2
<1>2. CASE ~needed
  <2>1. When(needed, s) = <<>> /\ Len(<<>>) = 0
    BY <1>2 DEF When
  <2>2. InPrefix(<<>>) = {} /\ NamesOf(<<>>) = {} /\ Listing(<<>>)
    BY <2>1 DEF InPrefix, NamesOf, Slots, Listing
  <2> QED
    BY <1>2, <2>1, <2>2
<1> QED
  BY <1>1, <1>2

LEMMA NativeNamesOfThree ==
  /\ Native("core.Time", {}).name = "core.Time"
  /\ Native("core.Window", {}).name = "core.Window"
  /\ Renderer.name = "core.Renderer" /\ Renderer.after = {"core.Window"}
BY DEF Native, Renderer

LEMMA NativeTableListing ==
  ASSUME NEW m, NEW components
  PROVE  LET table == NativeTable(m, components) IN
         /\ Listing(table)
         /\ NamesOf(table) \subseteq {"core.Time", "core.Window", "core.Renderer"}
         /\ NamesOf(table) =
              (IF "core.Time" \in components THEN {"core.Time"} ELSE {})
              \cup (IF References(m, "core.Window") \/ References(m, "core.Renderer")
                    THEN {"core.Window"} ELSE {})
              \cup (IF References(m, "core.Renderer") THEN {"core.Renderer"} ELSE {})
         /\ \A x \in InPrefix(table) : x.name = "core.Renderer" => x = Renderer
<1> DEFINE c1 == "core.Time" \in components
           c2 == References(m, "core.Window") \/ References(m, "core.Renderer")
           c3 == References(m, "core.Renderer")
           t1 == When(c1, Native("core.Time", {}))
           t2 == When(c2, Native("core.Window", {}))
           t3 == When(c3, Renderer)
<1>1. c1 \in BOOLEAN /\ c2 \in BOOLEAN /\ c3 \in BOOLEAN
  BY DEF References
<1>2. NativeTable(m, components) = (t1 \o t2) \o t3
  BY DEF NativeTable
<1> HIDE DEF c1, c2, c3
<1>3. /\ Listing(t1) /\ NamesOf(t1) = IF c1 THEN {"core.Time"} ELSE {}
      /\ InPrefix(t1) = IF c1 THEN {Native("core.Time", {})} ELSE {}
  BY <1>1, WhenListing, NativeNamesOfThree
<1>4. /\ Listing(t2) /\ NamesOf(t2) = IF c2 THEN {"core.Window"} ELSE {}
      /\ InPrefix(t2) = IF c2 THEN {Native("core.Window", {})} ELSE {}
  BY <1>1, WhenListing, NativeNamesOfThree
<1>5. /\ Listing(t3) /\ NamesOf(t3) = IF c3 THEN {"core.Renderer"} ELSE {}
      /\ InPrefix(t3) = IF c3 THEN {Renderer} ELSE {}
  BY <1>1, WhenListing, NativeNamesOfThree
<1> HIDE DEF t1, t2, t3
<1>6. /\ Listing(t1 \o t2) /\ InPrefix(t1 \o t2) = InPrefix(t1) \cup InPrefix(t2)
      /\ NamesOf(t1 \o t2) = NamesOf(t1) \cup NamesOf(t2)
  BY <1>3, <1>4, JoinedListing
<1>7. NamesOf(t1 \o t2) \cap NamesOf(t3) = {}
  BY <1>3, <1>4, <1>5, <1>6
<1>8. /\ Listing((t1 \o t2) \o t3)
      /\ InPrefix((t1 \o t2) \o t3) = InPrefix(t1 \o t2) \cup InPrefix(t3)
      /\ NamesOf((t1 \o t2) \o t3) = NamesOf(t1 \o t2) \cup NamesOf(t3)
  BY <1>5, <1>6, <1>7, JoinedListing
<1> DEFINE table == (t1 \o t2) \o t3
<1> HIDE DEF table
<1>9. NamesOf(table) = (IF c1 THEN {"core.Time"} ELSE {}) \cup (IF c2 THEN {"core.Window"} ELSE {})
                       \cup (IF c3 THEN {"core.Renderer"} ELSE {})
  BY <1>3, <1>4, <1>5, <1>6, <1>8 DEF table
<1>10. \A x \in InPrefix(table) : x.name = "core.Renderer" => x = Renderer
  BY <1>3, <1>4, <1>5, <1>6, <1>8, NativeNamesOfThree DEF table
<1>11. NamesOf(table) \subseteq {"core.Time", "core.Window", "core.Renderer"}
  BY <1>9
<1> QED
  BY <1>2, <1>8, <1>9, <1>10, <1>11 DEF table, c1, c2, c3

LEMMA ManagedListing ==
  ASSUME NEW m \in Modules
  PROVE  /\ Listing(m.managed)
         /\ NamesOf(m.managed) \cap {"core.Time", "core.Window", "core.Renderer"} = {}
<1>1. m.managed \in Seq({m.managed[i] : i \in Slots(m.managed)})
  BY ModulesAssumption
<1>2. {m.managed[i] : i \in Slots(m.managed)} = InPrefix(m.managed)
  BY DEF InPrefix, Slots
<1> QED
  BY <1>1, <1>2, NamesAssumption DEF Listing, NamesOf

(* The systems of a module are listed under names of their own; its        *)
(* renderer comes with a window.                                           *)
LEMMA TableListing ==
  ASSUME NEW m \in Modules, NEW components
  PROVE  LET table == Table(m, components) IN
         /\ Listing(table)
         /\ NamesOf(table) = NamesOf(NativeTable(m, components)) \cup NamesOf(m.managed)
         /\ \A x \in InPrefix(table) :
              x.name = "core.Renderer" => x = Renderer /\ "core.Window" \in NamesOf(table)
<1> DEFINE nt == NativeTable(m, components)
<1>1. /\ Listing(nt) /\ NamesOf(nt) \subseteq {"core.Time", "core.Window", "core.Renderer"}
      /\ "core.Renderer" \in NamesOf(nt) => "core.Window" \in NamesOf(nt)
      /\ \A x \in InPrefix(nt) : x.name = "core.Renderer" => x = Renderer
  BY NativeTableListing
<1> HIDE DEF nt
<1>2. /\ Listing(m.managed)
      /\ NamesOf(m.managed) \cap {"core.Time", "core.Window", "core.Renderer"} = {}
  BY ManagedListing
<1>3. NamesOf(nt) \cap NamesOf(m.managed) = {}
  BY <1>1, <1>2
<1> DEFINE table == nt \o m.managed
<1>4. /\ Listing(table) /\ InPrefix(table) = InPrefix(nt) \cup InPrefix(m.managed)
      /\ NamesOf(table) = NamesOf(nt) \cup NamesOf(m.managed)
  BY <1>1, <1>2, <1>3, JoinedListing
<1> HIDE DEF table
<1>5. ASSUME NEW x \in InPrefix(table), x.name = "core.Renderer"
      PROVE  x = Renderer /\ "core.Window" \in NamesOf(table)
  <2>1. \A y \in InPrefix(nt) : y.name \in NamesOf(nt)
    BY DEF InPrefix, NamesOf, Slots
  <2>2. \A y \in InPrefix(m.managed) : y.name \in NamesOf(m.managed)
    BY DEF InPrefix, NamesOf, Slots
  <2>3. x \in InPrefix(nt)
    BY <1>2, <1>4, <1>5, <2>2
  <2> QED
    BY <1>1, <1>4, <1>5, <2>1, <2>3
<1>6. Table(m, components) = table
  BY DEF Table, table, nt
<1> QED
  BY <1>4, <1>5, <1>6 DEF nt

(* A pipeline that was not refused names every system of its table once,   *)
(* and each after all that precede it.                                     *)
LEMMA PipelineOrders ==
  ASSUME NEW table, Listing(table)
  PROVE  /\ Pipeline(table) \in Seq(NamesOf(table))
         /\ \A q \in 1 .. Len(Pipeline(table)) :
              /\ \A p \in 1 .. Len(Pipeline(table)) :
                   Pipeline(table)[p] = Pipeline(table)[q] => p = q
              /\ \A n \in NamesOf(table) : \E p \in 1 .. Len(Pipeline(table)) : Pipeline(table)[p] = n
              /\ \E j \in Slots(table) :
                   /\ Pipeline(table)[q] = table[j].name
                   /\ \A i \in Slots(table) : <<i, j>> \in MustPrecede(table) =>
                        \E p \in 1 .. q - 1 : Pipeline(table)[p] = table[i].name
<1>1. CASE Cyclic(table)
  BY <1>1 DEF Pipeline
<1>2. CASE ~Cyclic(table)
  <2> DEFINE order == RegistrationOrder(table)
             names == [k \in 1 .. Len(order) |-> table[order[k]].name]
  <2>1. /\ order \in Seq(Slots(table)) /\ IsOrderOf(order, table) /\ InPrefix(order) = Slots(table)
    BY <1>2, ListingLength, RegistrationOrderCorrect
  <2>2. Pipeline(table) = names
    BY <1>2 DEF Pipeline
  <2> HIDE DEF order
  <2>3. Len(order) \in Nat /\ \A k \in 1 .. Len(order) : order[k] \in Slots(table)
    BY <2>1
  <2>4. \A k \in 1 .. Len(order) : names[k] = table[order[k]].name /\ names[k] \in NamesOf(table)
    BY <2>3 DEF NamesOf
  <2>5. names \in Seq(NamesOf(table)) /\ Len(names) = Len(order)
    BY <2>3, <2>4
  <2> HIDE DEF names
  <2>6. ASSUME NEW p \in 1 .. Len(order), NEW q \in 1 .. Len(order), names[p] = names[q]
        PROVE  p = q
    <3>1. order[p] = order[q]
      BY <2>3, <2>4, <2>6 DEF Listing
    <3> QED
      BY <2>1, <3>1 DEF IsOrderOf
  <2>7. \A i \in Slots(table) : \E p \in 1 .. Len(order) : order[p] = i
    BY <2>1 DEF InPrefix
  <2>8. \A n \in NamesOf(table) : \E p \in 1 .. Len(order) : names[p] = n
    BY <2>4, <2>7 DEF NamesOf
  <2>9. ASSUME NEW q \in 1 .. Len(order), NEW i \in Slots(table),
               <<i, order[q]>> \in MustPrecede(table)
        PROVE  \E p \in 1 .. q - 1 : names[p] = table[i].name
    <3>1. PICK p \in 1 .. Len(order) : order[p] = i
      BY <2>7
    <3>2. p < q
      BY <2>1, <2>9, <3>1 DEF IsOrderOf
    <3>3. p \in 1 .. q - 1
      BY <2>3, <3>2
    <3> QED
      BY <2>4, <3>1, <3>3
  <2>10. ASSUME NEW q \in 1 .. Len(order)
         PROVE  \E j \in Slots(table) :
                  /\ names[q] = table[j].name
                  /\ \A i \in Slots(table) : <<i, j>> \in MustPrecede(table) =>
                       \E p \in 1 .. q - 1 : names[p] = table[i].name
    BY <2>3, <2>4, <2>9
  <2> QED
    BY ONLY <2>2, <2>5, <2>6, <2>8, <2>10
<1> QED
  BY <1>1, <1>2

-----------------------------------------------------------------------------
(***************************************************************************)
(* The inductive invariant.                                                *)
(***************************************************************************)
TypeInv ==
  /\ module \in Modules /\ known \subseteq Components
  /\ phase \in {"between", "ticking", "ended"} /\ stop \in BOOLEAN
  /\ entities \in 0 .. MaxEntities /\ reloads \in 0 .. MaxReloads
  /\ window.initialized \in BOOLEAN /\ window.close_pending \in BOOLEAN
  /\ window.should_close \in BOOLEAN
  /\ window = [entity |-> window.entity, initialized |-> window.initialized,
               close_pending |-> window.close_pending, should_close |-> window.should_close]

\* The table was made for what was known when the module was registered.
TableInv ==
  /\ \E components \in SUBSET known : systems = Table(module, components)
  /\ pipeline = Pipeline(systems)

\* Rows belong to entities; an entity made for the window keeps its row.
RowsInv ==
  /\ DOMAIN windowRows \subseteq 1 .. entities /\ timeRows \subseteq 1 .. entities
  /\ \A e \in DOMAIN windowRows : windowRows[e] \in BOOLEAN
  /\ time \in {0} \cup timeRows
  /\ window.entity \in {0} \cup DOMAIN windowRows
  /\ made \subseteq DOMAIN windowRows

\* A time system that has no entity yet will make one for its registration.
TimeInv == Cardinality(timeRows) + (IF time = 0 THEN 1 ELSE 0) <= reloads + 1

\* What is left of the pipeline after d calls.
Rest(d) == [k \in 1 .. Len(pipeline) - d |-> pipeline[d + k]]

(* A managed system that was not called since the request comes before the *)
(* window will be called again.                                            *)
HeardAt(d) ==
  \A w \in 1 .. Len(pipeline) : pipeline[w] = "core.Window" =>
    \A n \in ManagedNames \ heard : \E r \in 1 .. Len(pipeline) :
      /\ pipeline[r] = n
      /\ IF d < w THEN d < r /\ r < w ELSE d < r \/ r < w

\* The renderer is not called before the window is there.
DrawnAt(d) ==
  \A q \in 1 .. Len(pipeline) : d < q /\ pipeline[q] = "core.Renderer" =>
    window.initialized \/ \E p \in 1 .. q - 1 : d < p /\ pipeline[p] = "core.Window"

QueueInv ==
  /\ queue \in Seq(NamesOf(systems)) /\ heard \subseteq ManagedNames
  /\ phase = "ticking" => \E d \in 0 .. Len(pipeline) :
       queue = Rest(d) /\ (window.close_pending => HeardAt(d)) /\ DrawnAt(d)
  /\ phase = "between" => queue = <<>> /\ (window.close_pending => HeardAt(Len(pipeline)))

IInv == TypeInv /\ TableInv /\ RowsInv /\ TimeInv /\ OneWindowIsMade /\ QueueInv

-----------------------------------------------------------------------------
(* What the table being that of the module means for the pipeline.         *)
LEMMA PipelineFacts ==
  ASSUME TypeInv, TableInv
  PROVE  /\ pipeline \in Seq(NamesOf(systems)) /\ Len(pipeline) \in Nat
         /\ ManagedNames \subseteq NamesOf(systems)
         /\ NamesOf(systems) \subseteq ManagedNames \cup NamesOf(NativeTable(module, known))
         /\ ManagedNames \cap {"core.Time", "core.Window", "core.Renderer"} = {}
         /\ \A p, q \in 1 .. Len(pipeline) : pipeline[p] = pipeline[q] => p = q
         /\ \A q \in 1 .. Len(pipeline) : \A n \in ManagedNames :
              \E p \in 1 .. Len(pipeline) : pipeline[p] = n
         /\ \A q \in 1 .. Len(pipeline) : pipeline[q] = "core.Renderer" =>
              \E p \in 1 .. q - 1 : pipeline[p] = "core.Window"
<1>1. PICK components \in SUBSET known : systems = Table(module, components)
  BY DEF TableInv
<1>2. module \in Modules
  BY DEF TypeInv
<1>3. /\ Listing(systems)
      /\ NamesOf(systems) = NamesOf(NativeTable(module, components)) \cup ManagedNames
      /\ \A x \in InPrefix(systems) :
           x.name = "core.Renderer" => x = Renderer /\ "core.Window" \in NamesOf(systems)
  BY <1>1, <1>2, TableListing DEF ManagedNames
<1>4. ManagedNames \cap {"core.Time", "core.Window", "core.Renderer"} = {}
  BY <1>2, ManagedListing DEF ManagedNames
<1>5. NamesOf(NativeTable(module, components)) \subseteq NamesOf(NativeTable(module, known))
  BY <1>1, NativeTableListing
<1>6. /\ pipeline \in Seq(NamesOf(systems))
      /\ \A q \in 1 .. Len(pipeline) :
           /\ \A p \in 1 .. Len(pipeline) : pipeline[p] = pipeline[q] => p = q
           /\ \A n \in NamesOf(systems) : \E p \in 1 .. Len(pipeline) : pipeline[p] = n
           /\ \E j \in Slots(systems) :
                /\ pipeline[q] = systems[j].name
                /\ \A i \in Slots(systems) : <<i, j>> \in MustPrecede(systems) =>
                     \E p \in 1 .. q - 1 : pipeline[p] = systems[i].name
  <2>1. pipeline = Pipeline(systems)
    BY DEF TableInv
  <2> QED
    BY <1>3, <2>1, PipelineOrders
<1>7. ASSUME NEW q \in 1 .. Len(pipeline), pipeline[q] = "core.Renderer"
      PROVE  \E p \in 1 .. q - 1 : pipeline[p] = "core.Window"
  <2>1. PICK j \in Slots(systems) :
          /\ pipeline[q] = systems[j].name
          /\ \A i \in Slots(systems) : <<i, j>> \in MustPrecede(systems) =>
               \E p \in 1 .. q - 1 : pipeline[p] = systems[i].name
    BY <1>6
  <2>2. systems[j] \in InPrefix(systems) /\ systems[j].name = "core.Renderer"
    BY <1>7, <2>1 DEF InPrefix, Slots
  <2>3. systems[j].after = {"core.Window"} /\ "core.Window" \in NamesOf(systems)
    BY <1>3, <2>2, NativeNamesOfThree
  <2>4. PICK i \in Slots(systems) : systems[i].name = "core.Window"
    BY <2>3 DEF NamesOf
  <2>5. <<i, j>> \in MustPrecede(systems)
    <3>1. i # j
      BY <2>2, <2>4
    <3> QED
      BY <2>3, <2>4, <3>1 DEF MustPrecede
  <2> QED
    BY <2>1, <2>4, <2>5
<1> QED
  BY <1>3, <1>4, <1>5, <1>6, <1>7

(* The call under way is the next of the pipeline.                         *)
LEMMA NextCall ==
  ASSUME IInv, phase = "ticking", queue # <<>>
  PROVE  \E d \in 0 .. Len(pipeline) - 1 :
           /\ d + 1 \in 1 .. Len(pipeline)
           /\ Head(queue) = pipeline[d + 1] /\ Tail(queue) = Rest(d + 1)
           /\ window.close_pending => HeardAt(d)
           /\ DrawnAt(d)
<1>1. PICK d \in 0 .. Len(pipeline) :
        queue = Rest(d) /\ (window.close_pending => HeardAt(d)) /\ DrawnAt(d)
  BY DEF IInv, QueueInv
<1> DEFINE n == Len(pipeline) - d
<1>2. Len(pipeline) \in Nat
  BY PipelineFacts DEF IInv
<1>3. n \in Nat /\ Len(pipeline) - (d + 1) = n - 1
  BY <1>2
<1> HIDE DEF n
<1>4. queue = [k \in 1 .. n |-> pipeline[d + k]]
  BY <1>1 DEF Rest, n
<1>5. n # 0
  <2>1. n = 0 => queue = <<>>
    BY <1>4
  <2> QED
    BY <2>1
<1>6. d \in 0 .. Len(pipeline) - 1 /\ d + 1 \in 1 .. Len(pipeline)
  <2>1. n = Len(pipeline) - d
    BY DEF n
  <2>2. d \in Nat /\ n >= 1
    BY <1>2, <1>3, <1>5
  <2> DEFINE length == Len(pipeline)
  <2>3. length \in Nat /\ length = n + d
    BY <1>2, <1>3, <2>1, <2>2
  <2> HIDE DEF length
  <2>4. d \in 0 .. length - 1 /\ d + 1 \in 1 .. length
    BY <1>3, <2>2, <2>3
  <2> QED
    BY <2>4 DEF length
<1>7. Head(queue) = pipeline[d + 1]
  BY <1>3, <1>4, <1>5
<1>8. Tail(queue) = [k \in 1 .. n - 1 |-> queue[k + 1]]
  BY <1>3, <1>4, <1>5
<1>9. \A k \in 1 .. n - 1 : queue[k + 1] = pipeline[d + 1 + k]
  <2> SUFFICES ASSUME NEW k \in 1 .. n - 1 PROVE queue[k + 1] = pipeline[d + 1 + k]
    OBVIOUS
  <2>1. k + 1 \in 1 .. n /\ d + (k + 1) = d + 1 + k
    BY <1>3, <1>6
  <2> QED
    BY <1>4, <2>1
<1>10. Rest(d + 1) = [k \in 1 .. n - 1 |-> pipeline[d + 1 + k]]
  BY <1>3 DEF Rest
<1>11. Tail(queue) = Rest(d + 1)
  BY <1>8, <1>9, <1>10
<1> QED
  BY <1>1, <1>6, <1>7, <1>11

(* A tick whose queue is empty made every call of its pipeline.            *)
LEMMA LastCall ==
  ASSUME IInv, phase = "ticking", queue = <<>>
  PROVE  window.close_pending => HeardAt(Len(pipeline))
<1>1. PICK d \in 0 .. Len(pipeline) : queue = Rest(d) /\ (window.close_pending => HeardAt(d))
  BY DEF IInv, QueueInv
<1> DEFINE n == Len(pipeline) - d
<1>2. Len(pipeline) \in Nat
  BY PipelineFacts DEF IInv
<1>3. n \in Nat
  BY <1>2
<1> HIDE DEF n
<1>4. <<>> = [k \in 1 .. n |-> pipeline[d + k]]
  BY <1>1 DEF Rest, n
<1>5. n = 0
  BY <1>3, <1>4
<1>6. Len(pipeline) - d = 0 /\ d \in Nat
  BY <1>2, <1>5 DEF n
<1>7. d = Len(pipeline)
  BY ONLY <1>2, <1>6
<1> QED
  BY <1>1, <1>7

(* A call of another system than the window brings the tick closer to it.  *)
LEMMA CallOfAnother ==
  ASSUME IInv, phase = "ticking", queue # <<>>, Head(queue) # "core.Window",
         queue' = Tail(queue), UNCHANGED <<phase, module, systems, pipeline, window>>,
         \/ heard' = heard /\ Head(queue) \notin ManagedNames
         \/ heard' = heard \cup {Head(queue)} /\ Head(queue) \in ManagedNames
  PROVE  QueueInv'
<1>1. PICK d \in 0 .. Len(pipeline) - 1 :
        /\ d + 1 \in 1 .. Len(pipeline)
        /\ Head(queue) = pipeline[d + 1] /\ Tail(queue) = Rest(d + 1)
        /\ window.close_pending => HeardAt(d)
        /\ DrawnAt(d)
  BY NextCall
<1>2. Len(pipeline) \in Nat
  BY PipelineFacts DEF IInv
<1>3. ManagedNames' = ManagedNames
  BY DEF ManagedNames
<1>4. ASSUME window.close_pending PROVE HeardAt(d + 1)'
  <2> SUFFICES ASSUME NEW w \in 1 .. Len(pipeline), pipeline[w] = "core.Window",
                      NEW n \in ManagedNames \ heard'
               PROVE  \E r \in 1 .. Len(pipeline) :
                        /\ pipeline[r] = n
                        /\ IF d + 1 < w THEN d + 1 < r /\ r < w ELSE d + 1 < r \/ r < w
    BY <1>3 DEF HeardAt
  <2>1. n \in ManagedNames \ heard /\ n # Head(queue)
    OBVIOUS
  <2>2. PICK r \in 1 .. Len(pipeline) :
          /\ pipeline[r] = n
          /\ IF d < w THEN d < r /\ r < w ELSE d < r \/ r < w
    BY <1>1, <1>4, <2>1 DEF HeardAt
  <2>3. r # d + 1 /\ w # d + 1
    BY <1>1, <2>1, <2>2
  <2>4. IF d + 1 < w THEN d + 1 < r /\ r < w ELSE d + 1 < r \/ r < w
    BY <1>2, <2>2, <2>3
  <2> QED
    BY <2>2, <2>4
<1>5. DrawnAt(d + 1)'
  <2> SUFFICES ASSUME NEW q \in 1 .. Len(pipeline), d + 1 < q, pipeline[q] = "core.Renderer",
                      ~window.initialized
               PROVE  \E p \in 1 .. q - 1 : d + 1 < p /\ pipeline[p] = "core.Window"
    BY DEF DrawnAt
  <2>1. d < q
    BY <1>2
  <2>2. PICK p \in 1 .. q - 1 : d < p /\ pipeline[p] = "core.Window"
    BY <1>1, <2>1 DEF DrawnAt
  <2>3. p # d + 1
    BY <1>1, <2>2
  <2>4. d + 1 < p
    BY <1>2, <2>2, <2>3
  <2> QED
    BY <2>2, <2>4
<1>6. queue' = Rest(d + 1)'
  BY <1>1 DEF Rest
<1>7. queue' \in Seq(NamesOf(systems))
  BY DEF IInv, QueueInv
<1>8. d + 1 \in 0 .. Len(pipeline)
  BY <1>1, <1>2
<1>9. heard' \subseteq ManagedNames
  BY DEF IInv, QueueInv
<1> QED
  BY <1>3, <1>4, <1>5, <1>6, <1>7, <1>8, <1>9 DEF QueueInv

-----------------------------------------------------------------------------
(***************************************************************************)
(* Each step preserves the invariant.                                      *)
(***************************************************************************)

LEMMA Bounds == MaxEntities \in Nat /\ MaxReloads \in Nat
BY ModulesAssumption

LEMMA FiniteRows ==
  ASSUME TypeInv, RowsInv
  PROVE  /\ IsFiniteSet(timeRows) /\ Cardinality(timeRows) \in Nat
         /\ IsFiniteSet(made) /\ Cardinality(made) \in Nat
<1>1. IsFiniteSet(1 .. entities)
  <2>1. entities \in Nat
    BY Bounds DEF TypeInv
  <2> QED
    BY <2>1, FS_Interval
<1>2. timeRows \in SUBSET (1 .. entities) /\ made \in SUBSET (1 .. entities)
  BY DEF RowsInv
<1> QED
  BY <1>1, <1>2, FS_Subset, FS_CardinalityType

LEMMA NoWindowFields ==
  /\ NoWindow.entity = 0 /\ NoWindow.initialized = FALSE
  /\ NoWindow.close_pending = FALSE /\ NoWindow.should_close = FALSE
  /\ NoWindow = [entity |-> NoWindow.entity, initialized |-> NoWindow.initialized,
                 close_pending |-> NoWindow.close_pending, should_close |-> NoWindow.should_close]
BY DEF NoWindow

LEMMA InitIInv == Init => IInv
<1> SUFFICES ASSUME Init PROVE IInv
  OBVIOUS
<1>1. TypeInv
  <2>1. known \subseteq Components
    BY ModulesAssumption DEF Init, Components
  <2>2. window = NoWindow /\ module \in Modules /\ phase = "between" /\ stop = FALSE
        /\ entities = 0 /\ reloads = 0
    BY DEF Init
  <2>3. 0 \in 0 .. MaxEntities /\ 0 \in 0 .. MaxReloads
    BY Bounds
  <2>4. /\ window.initialized = FALSE /\ window.close_pending = FALSE /\ window.should_close = FALSE
        /\ window = [entity |-> window.entity, initialized |-> window.initialized,
               close_pending |-> window.close_pending, should_close |-> window.should_close]
    BY <2>2, NoWindowFields
  <2> QED
    BY <2>1, <2>2, <2>3, <2>4 DEF TypeInv
<1>2. TableInv
  BY DEF Init, TableInv
<1>3. RowsInv
  BY NoWindowFields DEF Init, RowsInv
<1>4. TimeInv /\ OneWindowIsMade
  BY FS_EmptySet DEF Init, TimeInv, OneWindowIsMade
<1>5. QueueInv
  BY NoWindowFields DEF Init, QueueInv
<1> QED
  BY <1>1, <1>2, <1>3, <1>4, <1>5 DEF IInv

(* What a step must keep besides the queue.                                *)
LEMMA Unmoved ==
  ASSUME IInv, UNCHANGED <<runtime, ecs, natives, heard, made>>,
         phase' \in {"between", "ticking", "ended"}, stop' \in BOOLEAN
  PROVE  TypeInv' /\ TableInv' /\ RowsInv' /\ TimeInv' /\ OneWindowIsMade'
BY DEF IInv, runtime, ecs, natives, TypeInv, TableInv, RowsInv, TimeInv, OneWindowIsMade

LEMMA LoopStepsIInv ==
  ASSUME IInv, BeginTick \/ Leave \/ EndTick \/ Fail
  PROVE  IInv'
<1>1. UNCHANGED <<runtime, ecs, natives, heard, made, stop>>
  BY DEF BeginTick, Leave, EndTick, Fail
<1>2. phase' \in {"between", "ticking", "ended"}
  BY DEF BeginTick, Leave, EndTick, Fail, End
<1>3. TypeInv' /\ TableInv' /\ RowsInv' /\ TimeInv' /\ OneWindowIsMade'
  BY <1>1, <1>2, Unmoved DEF IInv, TypeInv
<1>4. UNCHANGED <<module, systems, pipeline, window, heard>>
  BY <1>1 DEF runtime, natives
<1>5. Len(pipeline) \in Nat
  BY PipelineFacts DEF IInv
<1>6. CASE BeginTick
  <2>1. /\ queue' = pipeline /\ phase = "between" /\ phase' = "ticking"
        /\ window.close_pending => HeardAt(Len(pipeline))
    BY <1>6 DEF BeginTick, IInv, QueueInv
  <2>2. pipeline \in Seq(NamesOf(systems)) /\ heard \subseteq ManagedNames
    BY PipelineFacts DEF IInv, QueueInv
  <2>3. pipeline = Rest(0)
    <3>1. pipeline = [k \in 1 .. Len(pipeline) |-> pipeline[k]]
      BY <2>2
    <3>2. Len(pipeline) - 0 = Len(pipeline) /\ \A k \in 1 .. Len(pipeline) : 0 + k = k
      BY <1>5
    <3> QED
      BY <3>1, <3>2 DEF Rest
  <2>4. ASSUME window.close_pending PROVE HeardAt(0)
    <3> SUFFICES ASSUME NEW w \in 1 .. Len(pipeline), pipeline[w] = "core.Window",
                        NEW n \in ManagedNames \ heard
                 PROVE  \E r \in 1 .. Len(pipeline) :
                          pipeline[r] = n /\ IF 0 < w THEN 0 < r /\ r < w ELSE 0 < r \/ r < w
      BY DEF HeardAt
    <3>1. PICK r \in 1 .. Len(pipeline) :
            /\ pipeline[r] = n
            /\ IF Len(pipeline) < w THEN Len(pipeline) < r /\ r < w
               ELSE Len(pipeline) < r \/ r < w
      BY <2>1, <2>4 DEF HeardAt
    <3> QED
      BY <1>5, <3>1
  <2>5. DrawnAt(0)
    <3> SUFFICES ASSUME NEW q \in 1 .. Len(pipeline), pipeline[q] = "core.Renderer"
                 PROVE  \E p \in 1 .. q - 1 : 0 < p /\ pipeline[p] = "core.Window"
      BY DEF DrawnAt
    <3>1. PICK p \in 1 .. q - 1 : pipeline[p] = "core.Window"
      BY PipelineFacts DEF IInv
    <3> QED
      BY <3>1
  <2>6. 0 \in 0 .. Len(pipeline)
    BY <1>5
  <2>7. /\ queue' = Rest(0)' /\ (window'.close_pending => HeardAt(0)') /\ DrawnAt(0)'
    BY <1>4, <2>1, <2>3, <2>4, <2>5 DEF Rest, HeardAt, DrawnAt, ManagedNames
  <2> QED
    BY <1>3, <1>4, <2>1, <2>2, <2>6, <2>7 DEF IInv, QueueInv, ManagedNames
<1>7. CASE EndTick
  <2>1. /\ queue = <<>> /\ queue' = <<>> /\ phase = "ticking" /\ phase' = "between"
    BY <1>7 DEF EndTick
  <2>2. window.close_pending => HeardAt(Len(pipeline))
    BY <2>1, LastCall
  <2>3. window'.close_pending => HeardAt(Len(pipeline))'
    BY <1>4, <2>2 DEF HeardAt, ManagedNames
  <2>4. queue' \in Seq(NamesOf(systems')) /\ heard' \subseteq ManagedNames'
    BY <1>4, <2>1 DEF IInv, QueueInv, ManagedNames
  <2> QED
    BY <1>3, <2>1, <2>3, <2>4 DEF IInv, QueueInv
<1>8. CASE Leave \/ Fail
  <2>1. phase' = "ended" /\ queue' = queue
    BY <1>8 DEF Leave, Fail, End
  <2> QED
    BY <1>3, <1>4, <2>1 DEF IInv, QueueInv, ManagedNames
<1> QED
  BY <1>6, <1>7, <1>8

(* A module is registered anew.                                            *)
LEMMA InstallIInv ==
  ASSUME IInv, NEW m \in Modules, Install(m), known' \subseteq Components,
         queue' = <<>>, phase' = "between", reloads' = reloads + 1, reloads < MaxReloads,
         UNCHANGED <<stop, entities, windowRows, timeRows, made>>
  PROVE  IInv'
<1>1. /\ module' = m /\ systems' = Table(m, known') /\ pipeline' = Pipeline(systems')
      /\ time' = 0 /\ window' = NoWindow /\ heard' = {}
  BY DEF Install
<1>2. TypeInv'
  <2>1. reloads' \in 0 .. MaxReloads
    BY Bounds DEF IInv, TypeInv
  <2>2. entities' \in 0 .. MaxEntities /\ stop' \in BOOLEAN
    BY DEF IInv, TypeInv
  <2>3. /\ window'.initialized = FALSE /\ window'.close_pending = FALSE /\ window'.should_close = FALSE
        /\ window' = [entity |-> window'.entity, initialized |-> window'.initialized,
               close_pending |-> window'.close_pending, should_close |-> window'.should_close]
    BY <1>1, NoWindowFields
  <2> QED
    BY <1>1, <2>1, <2>2, <2>3 DEF TypeInv
<1>3. TableInv'
  BY <1>1 DEF TableInv
<1>4. RowsInv'
  <2>1. window'.entity = 0
    BY <1>1, NoWindowFields
  <2> QED
    BY <1>1, <2>1 DEF IInv, RowsInv
<1>5. TimeInv'
  <2> DEFINE rows == Cardinality(timeRows)
  <2>1. rows \in Nat
    BY FiniteRows DEF IInv
  <2>2. rows + (IF time = 0 THEN 1 ELSE 0) <= reloads + 1 /\ reloads \in Nat
    BY Bounds DEF IInv, TimeInv, TypeInv
  <2>3. Cardinality(timeRows') = rows
    OBVIOUS
  <2> HIDE DEF rows
  <2>4. rows + 1 <= reloads' + 1
    BY <2>1, <2>2
  <2> QED
    BY <1>1, <2>3, <2>4 DEF TimeInv
<1>6. OneWindowIsMade'
  BY DEF IInv, OneWindowIsMade
<1>7. QueueInv'
  <2>1. window'.close_pending = FALSE
    BY <1>1, NoWindowFields
  <2> QED
    BY <1>1, <2>1 DEF QueueInv
<1> QED
  BY <1>2, <1>3, <1>4, <1>5, <1>6, <1>7 DEF IInv

LEMMA ReloadIInv ==
  ASSUME IInv, NEW m \in Modules, Reload(m)
  PROVE  IInv'
<1>1. /\ queue = <<>> /\ queue' = <<>> /\ phase = "ticking" /\ phase' \in {"between", "ended"}
      /\ reloads' = reloads + 1 /\ reloads < MaxReloads
      /\ UNCHANGED <<stop, entities, windowRows, timeRows, made>>
  BY DEF Reload, End, ecs
<1>2. known' \subseteq Components /\ known \subseteq known'
  BY ModulesAssumption DEF Reload, IInv, TypeInv, Components
<1>3. \/ phase' = "between" /\ \E mm \in Modules : Install(mm)
      \/ UNCHANGED <<module, systems, pipeline, natives, heard>>
  BY DEF Reload, IInv, TypeInv
<1>4. CASE phase' = "between" /\ \E mm \in Modules : Install(mm)
  BY <1>1, <1>2, <1>4, InstallIInv
<1>5. CASE UNCHANGED <<module, systems, pipeline, natives, heard>>
  <2>1. UNCHANGED <<module, systems, pipeline, time, window, heard>>
    BY <1>5 DEF natives
  <2>2. TypeInv'
    <3>1. reloads' \in 0 .. MaxReloads
      BY <1>1, Bounds DEF IInv, TypeInv
    <3> QED
      BY <1>1, <1>2, <2>1, <3>1 DEF IInv, TypeInv
  <2>3. TableInv'
    BY <1>2, <2>1 DEF IInv, TableInv
  <2>4. RowsInv' /\ OneWindowIsMade'
    BY <1>1, <2>1 DEF IInv, RowsInv, OneWindowIsMade
  <2>5. TimeInv'
    <3> DEFINE rows == Cardinality(timeRows) + (IF time = 0 THEN 1 ELSE 0)
    <3>1. Cardinality(timeRows) \in Nat
      BY FiniteRows DEF IInv
    <3>2. rows \in Nat /\ reloads \in Nat
      BY <3>1, Bounds DEF IInv, TypeInv
    <3>3. rows <= reloads + 1
      BY DEF IInv, TimeInv
    <3>4. Cardinality(timeRows') + (IF time' = 0 THEN 1 ELSE 0) = rows
      BY <1>1, <2>1
    <3> HIDE DEF rows
    <3>5. rows <= reloads' + 1
      BY <1>1, <3>2, <3>3
    <3> QED
      BY <3>4, <3>5 DEF TimeInv
  <2>6. window'.close_pending => HeardAt(Len(pipeline))'
    BY <1>1, <2>1, LastCall DEF HeardAt, ManagedNames
  <2>7. QueueInv'
    <3>1. queue' \in Seq(NamesOf(systems')) /\ heard' \subseteq ManagedNames'
      BY <1>1, <2>1 DEF IInv, QueueInv, ManagedNames
    <3> QED
      BY <1>1, <2>6, <3>1 DEF QueueInv
  <2> QED
    BY <2>2, <2>3, <2>4, <2>5, <2>7 DEF IInv
<1> QED
  BY <1>3, <1>4, <1>5

LEMMA CallManagedIInv ==
  ASSUME IInv, CallManaged
  PROVE  IInv'
<1>1. /\ phase = "ticking" /\ queue # <<>> /\ Head(queue) \in ManagedNames
      /\ queue' = Tail(queue) /\ phase' = phase
      /\ entities' \in entities .. MaxEntities /\ stop' \in {stop, TRUE}
      /\ heard' = heard \cup {Head(queue)}
      /\ UNCHANGED <<module, known, systems, pipeline, reloads, timeRows, time, window, made>>
  BY DEF CallManaged, Goes, runtime, natives
<1>2. PICK rows \in SUBSET (1 .. entities') :
        DOMAIN windowRows \subseteq rows /\ windowRows' \in [rows -> BOOLEAN]
  BY DEF CallManaged
<1>3. entities \in Nat /\ entities' \in Nat /\ entities <= entities'
  BY <1>1, Bounds DEF IInv, TypeInv
<1>4. TypeInv'
  <2>1. entities' \in 0 .. MaxEntities
    BY <1>1, <1>3
  <2>2. stop' \in BOOLEAN
    BY <1>1 DEF IInv, TypeInv
  <2> QED
    BY <1>1, <2>1, <2>2 DEF IInv, TypeInv
<1>5. TableInv' /\ TimeInv' /\ OneWindowIsMade'
  BY <1>1 DEF IInv, TableInv, TimeInv, OneWindowIsMade
<1>6. RowsInv'
  <2>1. DOMAIN windowRows' = rows /\ \A e \in rows : windowRows'[e] \in BOOLEAN
    BY <1>2
  <2>2. 1 .. entities \subseteq 1 .. entities'
    BY <1>3
  <2>3. timeRows' \subseteq 1 .. entities'
    BY <1>1, <2>2 DEF IInv, RowsInv
  <2>4. /\ time' \in {0} \cup timeRows'
        /\ window'.entity \in {0} \cup DOMAIN windowRows'
        /\ made' \subseteq DOMAIN windowRows'
    BY <1>1, <1>2, <2>1 DEF IInv, RowsInv
  <2> QED
    BY <2>1, <2>3, <2>4 DEF RowsInv
<1>7. Head(queue) # "core.Window"
  BY <1>1, PipelineFacts DEF IInv
<1>8. QueueInv'
  BY <1>1, <1>7, CallOfAnother
<1> QED
  BY <1>4, <1>5, <1>6, <1>8 DEF IInv

LEMMA CallTimeIInv ==
  ASSUME IInv, CallTime
  PROVE  IInv'
<1>1. /\ phase = "ticking" /\ queue # <<>> /\ Head(queue) = "core.Time"
      /\ queue' = Tail(queue) /\ phase' = phase
      /\ UNCHANGED <<module, known, systems, pipeline, reloads, stop, windowRows, window, heard, made>>
  BY DEF CallTime, Runs, Goes, runtime
<1>2. Head(queue) \notin ManagedNames
  BY <1>1, PipelineFacts DEF IInv
<1>3. QueueInv'
  BY <1>1, <1>2, CallOfAnother
<1>4. CASE time # 0
  <2>1. UNCHANGED <<time, timeRows, entities>>
    BY <1>4 DEF CallTime
  <2>2. TypeInv' /\ TableInv' /\ RowsInv' /\ TimeInv' /\ OneWindowIsMade'
    BY <1>1, <2>1 DEF IInv, TypeInv, TableInv, RowsInv, TimeInv, OneWindowIsMade
  <2> QED
    BY <1>3, <2>2 DEF IInv
<1>5. CASE time = 0
  <2>1. /\ entities < MaxEntities /\ entities' = entities + 1
        /\ timeRows' = timeRows \cup {entities'} /\ time' = entities'
    BY <1>5 DEF CallTime, RemembersTime
  <2>2. entities \in Nat /\ entities' \in 0 .. MaxEntities /\ entities' # 0
    BY <2>1, Bounds DEF IInv, TypeInv
  <2>3. TypeInv' /\ TableInv' /\ OneWindowIsMade'
    BY <1>1, <2>2 DEF IInv, TypeInv, TableInv, OneWindowIsMade
  <2>4. 1 .. entities' = (1 .. entities) \cup {entities'} /\ entities' \notin 1 .. entities
    BY <2>1, <2>2
  <2>5. RowsInv'
    BY <1>1, <2>1, <2>4 DEF IInv, RowsInv
  <2>6. TimeInv'
    <3>1. IsFiniteSet(timeRows) /\ Cardinality(timeRows) \in Nat /\ entities' \notin timeRows
      BY <2>4, FiniteRows DEF IInv, RowsInv
    <3>2. Cardinality(timeRows') = Cardinality(timeRows) + 1
      BY <2>1, <3>1, FS_AddElement
    <3>3. Cardinality(timeRows) + 1 <= reloads + 1
      BY <1>5 DEF IInv, TimeInv
    <3>4. Cardinality(timeRows') + 0 = Cardinality(timeRows) + 1
      BY <3>1, <3>2
    <3> QED
      BY <1>1, <2>1, <2>2, <3>3, <3>4 DEF TimeInv
  <2> QED
    BY <1>3, <2>3, <2>5, <2>6 DEF IInv
<1> QED
  BY <1>4, <1>5

LEMMA CallRendererIInv ==
  ASSUME IInv, CallRenderer
  PROVE  IInv'
<1>1. /\ phase = "ticking" /\ queue # <<>> /\ Head(queue) = "core.Renderer"
      /\ queue' = Tail(queue) /\ phase' = phase
      /\ UNCHANGED <<runtime, stop, ecs, natives, heard, made>>
  BY DEF CallRenderer, Runs, Goes
<1>2. Head(queue) \notin ManagedNames
  BY <1>1, PipelineFacts DEF IInv
<1>3. UNCHANGED <<module, systems, pipeline, window>>
  BY <1>1 DEF runtime, natives
<1>4. QueueInv'
  BY <1>1, <1>2, <1>3, CallOfAnother
<1>5. TypeInv' /\ TableInv' /\ RowsInv' /\ TimeInv' /\ OneWindowIsMade'
  BY <1>1, Unmoved DEF IInv, TypeInv
<1> QED
  BY <1>4, <1>5 DEF IInv

(* Before a request of an earlier call is looked at, every managed system  *)
(* was called; a new one has to be heard by all of them.                   *)
LEMMA WindowHears ==
  ASSUME IInv, Runs("core.Window"), window.close_pending
  PROVE  ManagedNames \subseteq heard
<1>1. PICK d \in 0 .. Len(pipeline) - 1 :
        d + 1 \in 1 .. Len(pipeline) /\ Head(queue) = pipeline[d + 1] /\ HeardAt(d)
  BY NextCall DEF Runs
<1>2. Len(pipeline) \in Nat
  BY PipelineFacts DEF IInv
<1>3. pipeline[d + 1] = "core.Window" /\ d < d + 1
  BY <1>1, <1>2 DEF Runs
<1> SUFFICES ASSUME NEW n \in ManagedNames \ heard PROVE FALSE
  OBVIOUS
<1>4. PICK r \in 1 .. Len(pipeline) : d < r /\ r < d + 1
  BY <1>1, <1>3 DEF HeardAt
<1> QED
  BY <1>2, <1>4

LEMMA CallOfWindow ==
  ASSUME IInv, Runs("core.Window"), Goes, UNCHANGED <<module, systems, pipeline>>,
         window'.initialized = TRUE,
         \/ heard' = {}
         \/ heard' = heard /\ (window'.close_pending => window.close_pending)
  PROVE  QueueInv'
<1>1. PICK d \in 0 .. Len(pipeline) - 1 :
        /\ d + 1 \in 1 .. Len(pipeline)
        /\ Head(queue) = pipeline[d + 1] /\ Tail(queue) = Rest(d + 1)
  BY NextCall DEF Runs
<1>2. /\ phase = "ticking" /\ phase' = phase /\ queue # <<>> /\ queue' = Tail(queue)
      /\ pipeline[d + 1] = "core.Window"
  BY <1>1 DEF Runs, Goes
<1>3. Len(pipeline) \in Nat
  BY PipelineFacts DEF IInv
<1>4. ManagedNames' = ManagedNames
  BY DEF ManagedNames
<1>5. ASSUME window'.close_pending PROVE HeardAt(d + 1)'
  <2> SUFFICES ASSUME NEW w \in 1 .. Len(pipeline), pipeline[w] = "core.Window",
                      NEW n \in ManagedNames, n \notin heard'
               PROVE  \E r \in 1 .. Len(pipeline) :
                        /\ pipeline[r] = n
                        /\ IF d + 1 < w THEN d + 1 < r /\ r < w ELSE d + 1 < r \/ r < w
    BY <1>4 DEF HeardAt
  <2>1. w = d + 1
    BY <1>1, <1>2, PipelineFacts DEF IInv
  <2>2. heard' = {}
    BY <1>5, WindowHears
  <2>3. PICK r \in 1 .. Len(pipeline) : pipeline[r] = n
    BY <1>1, PipelineFacts DEF IInv
  <2>4. r # d + 1
    BY <1>2, <2>3, PipelineFacts DEF IInv
  <2>5. ~(d + 1 < w) /\ (d + 1 < r \/ r < w)
    BY <1>3, <2>1, <2>4
  <2> QED
    BY <2>3, <2>5
<1>6. DrawnAt(d + 1)'
  BY DEF DrawnAt
<1>7. queue' = Rest(d + 1)'
  BY <1>1, <1>2 DEF Rest
<1>8. queue' \in Seq(NamesOf(systems)) /\ heard' \subseteq ManagedNames
  BY <1>2 DEF IInv, QueueInv
<1>9. d + 1 \in 0 .. Len(pipeline)
  BY <1>1, <1>3
<1> QED
  BY <1>2, <1>4, <1>5, <1>6, <1>7, <1>8, <1>9 DEF QueueInv

(* The window system uses a row there is, or makes the first entity that   *)
(* has one.                                                                *)
LEMMA EntityOfWindow ==
  ASSUME IInv
  PROVE  \/ WindowEntity \in DOMAIN windowRows /\ WindowEntity \in 1 .. entities
         \/ WindowEntity = entities + 1 /\ DOMAIN windowRows = {} /\ made = {}
<1>1. DOMAIN windowRows \subseteq 1 .. entities /\ made \subseteq DOMAIN windowRows
  BY DEF IInv, RowsInv
<1>2. CASE window.entity \in DOMAIN windowRows
  BY <1>1, <1>2 DEF WindowEntity
<1>3. CASE window.entity \notin DOMAIN windowRows /\ DOMAIN windowRows # {}
  <2>1. DOMAIN windowRows \subseteq Nat
    BY <1>1
  <2>2. Lowest(DOMAIN windowRows) \in DOMAIN windowRows
    BY <1>3, <2>1, LowestIsLeast
  <2> QED
    BY <1>1, <1>3, <2>2 DEF WindowEntity
<1>4. CASE window.entity \notin DOMAIN windowRows /\ DOMAIN windowRows = {}
  BY <1>1, <1>4 DEF WindowEntity
<1> QED
  BY <1>2, <1>3, <1>4

(* What a call leaves in the state of the window system.                   *)
LEMMA WindowState ==
  ASSUME NEW e, NEW pending \in BOOLEAN, NEW close \in BOOLEAN, TypeInv, WindowIs(e, pending, close)
  PROVE  /\ window'.entity = e /\ window'.initialized = TRUE
         /\ window'.close_pending = pending /\ window'.should_close = (window.should_close \/ close)
         /\ window' = [entity |-> window'.entity, initialized |-> window'.initialized,
                 close_pending |-> window'.close_pending, should_close |-> window'.should_close]
         /\ window'.should_close \in BOOLEAN /\ stop' \in BOOLEAN
         /\ \/ heard' = {}
            \/ heard' = heard /\ (window'.close_pending => window.close_pending)
<1>1. window' = [entity |-> e, initialized |-> TRUE, close_pending |-> pending,
                 should_close |-> window.should_close \/ close]
  BY DEF WindowIs
<1>2. /\ window'.entity = e /\ window'.initialized = TRUE
      /\ window'.close_pending = pending /\ window'.should_close = (window.should_close \/ close)
  BY <1>1
<1>3. (window.should_close \/ close) \in BOOLEAN /\ (stop \/ close) \in BOOLEAN
  OBVIOUS
<1>4. window'.should_close \in BOOLEAN /\ stop' \in BOOLEAN
  BY <1>2, <1>3, Zenon DEF WindowIs
<1>5. /\ pending /\ ~window.close_pending => heard' = {}
      /\ ~(pending /\ ~window.close_pending) => heard' = heard
  BY DEF WindowIs
<1>6. \/ heard' = {}
      \/ heard' = heard /\ (window'.close_pending => window.close_pending)
  BY <1>2, <1>5
<1>7. window' = [entity |-> window'.entity, initialized |-> window'.initialized,
                 close_pending |-> window'.close_pending, should_close |-> window'.should_close]
  BY <1>1, <1>2
<1> QED
  BY <1>2, <1>4, <1>6, <1>7

LEMMA CallWindowIInv ==
  ASSUME IInv, CallWindow
  PROVE  IInv'
<1>1. /\ Runs("core.Window") /\ Goes /\ phase' = phase
      /\ UNCHANGED <<module, known, systems, pipeline, reloads, timeRows, time>>
  BY DEF CallWindow, Goes, runtime
<1>2. PICK requested \in BOOLEAN :
        IF "core.ui.Window" \in known
        THEN UpdateWindow(WindowEntity, requested)
        ELSE UpdateBareWindow(requested)
  BY DEF CallWindow
<1>3. TypeInv /\ RowsInv
  BY DEF IInv
<1>4. CASE "core.ui.Window" \notin known
  <2>1. WindowIs(0, requested, requested) /\ UNCHANGED <<entities, windowRows, made>>
    BY <1>2, <1>4 DEF UpdateBareWindow
  <2>2. /\ window'.entity = 0 /\ window'.initialized = TRUE
        /\ window'.close_pending \in BOOLEAN /\ window'.should_close \in BOOLEAN /\ stop' \in BOOLEAN
        /\ window' = [entity |-> window'.entity, initialized |-> window'.initialized,
                 close_pending |-> window'.close_pending, should_close |-> window'.should_close]
        /\ \/ heard' = {}
           \/ heard' = heard /\ (window'.close_pending => window.close_pending)
    BY <1>3, <2>1, WindowState
  <2>3. QueueInv'
    BY <1>1, <2>2, CallOfWindow
  <2>4. TypeInv'
    BY <1>1, <1>3, <2>1, <2>2 DEF TypeInv
  <2>5. TableInv' /\ RowsInv' /\ TimeInv' /\ OneWindowIsMade'
    BY <1>1, <2>1, <2>2 DEF IInv, TableInv, RowsInv, TimeInv, OneWindowIsMade
  <2> QED
    BY <2>3, <2>4, <2>5 DEF IInv
<1>5. CASE "core.ui.Window" \in known
  <2> DEFINE e == WindowEntity
             closing == e \in DOMAIN windowRows /\ windowRows[e]
             pending == Pending(closing, requested)
             close == Confirmed(closing, requested)
  <2>1. /\ e <= MaxEntities
        /\ entities' = IF e > entities THEN e ELSE entities
        /\ windowRows' = With(windowRows, e, closing \/ requested)
        /\ made' = IF e > entities THEN made \cup {e} ELSE made
        /\ WindowIs(e, pending, close)
    BY <1>2, <1>5 DEF UpdateWindow
  <2>2. \/ e \in DOMAIN windowRows /\ e \in 1 .. entities
        \/ e = entities + 1 /\ DOMAIN windowRows = {} /\ made = {}
    BY EntityOfWindow
  <2>3. (closing \/ requested) \in BOOLEAN /\ pending \in BOOLEAN /\ close \in BOOLEAN
    BY DEF Pending, Confirmed
  <2> HIDE DEF e, pending, close
  <2>4. /\ window'.entity = e /\ window'.initialized = TRUE
        /\ window'.close_pending \in BOOLEAN /\ window'.should_close \in BOOLEAN /\ stop' \in BOOLEAN
        /\ window' = [entity |-> window'.entity, initialized |-> window'.initialized,
                 close_pending |-> window'.close_pending, should_close |-> window'.should_close]
        /\ \/ heard' = {}
           \/ heard' = heard /\ (window'.close_pending => window.close_pending)
    BY <1>3, <2>1, <2>3, WindowState
  <2> DEFINE value == closing \/ requested
  <2>5. value \in BOOLEAN /\ windowRows' = With(windowRows, e, value)
    BY <2>1, <2>3
  <2> HIDE DEF closing, value
  <2>6. /\ DOMAIN windowRows' = DOMAIN windowRows \cup {e}
        /\ \A x \in DOMAIN windowRows' : windowRows'[x] \in BOOLEAN
    <3>1. /\ DOMAIN windowRows' = DOMAIN windowRows \cup {e}
          /\ \A x \in DOMAIN windowRows \cup {e} :
               windowRows'[x] = IF x = e THEN value ELSE windowRows[x]
      BY <2>5 DEF With
    <3>2. \A x \in DOMAIN windowRows : windowRows[x] \in BOOLEAN
      BY <1>3 DEF RowsInv
    <3>3. ASSUME NEW x \in DOMAIN windowRows \cup {e} PROVE windowRows'[x] \in BOOLEAN
      <4>1. CASE x = e
        BY <2>5, <3>1, <4>1
      <4>2. CASE x # e
        <5>1. x \in DOMAIN windowRows /\ windowRows'[x] = windowRows[x]
          BY <3>1, <4>2
        <5> QED
          BY <3>2, <5>1
      <4> QED
        BY <4>1, <4>2
    <3> QED
      BY <3>1, <3>3
  <2>7. entities \in Nat /\ MaxEntities \in Nat /\ entities <= MaxEntities
    BY <1>3, Bounds DEF TypeInv
  <2>8. entities' \in Nat /\ entities <= entities' /\ entities' <= MaxEntities /\ e \in 1 .. entities'
    BY <2>1, <2>2, <2>7
  <2>9. TypeInv'
    <3>1. entities' \in 0 .. MaxEntities
      BY <2>7, <2>8
    <3> QED
      BY <1>1, <1>3, <2>4, <3>1 DEF TypeInv
  <2>10. made' \subseteq DOMAIN windowRows'
    BY <1>3, <2>1, <2>6 DEF RowsInv
  <2>11. RowsInv'
    <3>1. 1 .. entities \subseteq 1 .. entities'
      BY <2>7, <2>8
    <3>2. DOMAIN windowRows' \subseteq 1 .. entities' /\ timeRows' \subseteq 1 .. entities'
      BY <1>1, <1>3, <2>6, <2>8, <3>1 DEF RowsInv
    <3> QED
      BY <1>1, <1>3, <2>4, <2>6, <2>10, <3>2 DEF RowsInv
  <2>12. OneWindowIsMade'
    <3>1. CASE e \in 1 .. entities
      <4>1. made' = made
        BY <2>1, <2>7, <3>1
      <4> QED
        BY <4>1 DEF IInv, OneWindowIsMade
    <3>2. CASE e = entities + 1 /\ made = {}
      <4>1. made' = {e}
        BY <2>1, <2>7, <3>2
      <4>2. Cardinality({e}) = 1
        BY FS_Singleton
      <4> QED
        BY <4>1, <4>2 DEF OneWindowIsMade
    <3> QED
      BY <2>2, <3>1, <3>2
  <2>13. TableInv' /\ TimeInv'
    BY <1>1 DEF IInv, TableInv, TimeInv
  <2>14. QueueInv'
    BY <1>1, <2>4, CallOfWindow
  <2> QED
    BY <2>9, <2>11, <2>12, <2>13, <2>14 DEF IInv
<1> QED
  BY <1>4, <1>5

LEMMA NextIInv == IInv /\ [Next]_vars => IInv'
<1> SUFFICES ASSUME IInv, [Next]_vars PROVE IInv'
  OBVIOUS
<1>1. CASE BeginTick \/ EndTick \/ Leave \/ Fail
  BY <1>1, LoopStepsIInv
<1>2. CASE CallManaged
  BY <1>2, CallManagedIInv
<1>3. CASE CallTime
  BY <1>3, CallTimeIInv
<1>4. CASE CallWindow
  BY <1>4, CallWindowIInv
<1>5. CASE CallRenderer
  BY <1>5, CallRendererIInv
<1>6. CASE \E next \in Modules : Reload(next)
  BY <1>6, ReloadIInv
<1>7. CASE UNCHANGED vars
  <2>1. /\ UNCHANGED <<runtime, ecs, natives, heard, made, stop, phase, queue>>
        /\ UNCHANGED <<module, systems, pipeline, window>>
    BY <1>7 DEF vars, runtime, natives
  <2>2. TypeInv' /\ TableInv' /\ RowsInv' /\ TimeInv' /\ OneWindowIsMade'
    BY <2>1, Unmoved DEF IInv, TypeInv
  <2>3. QueueInv'
    BY <2>1 DEF IInv, QueueInv, Rest, HeardAt, DrawnAt, ManagedNames
  <2> QED
    BY <2>2, <2>3 DEF IInv
<1> QED
  BY <1>1, <1>2, <1>3, <1>4, <1>5, <1>6, <1>7 DEF Next, Loop

-----------------------------------------------------------------------------
(***************************************************************************)
(* The theorems.                                                           *)
(***************************************************************************)

(* Tables, rows, the rest of the tick and what was heard stay as the       *)
(* invariant says, for any modules, rows and reloads.                      *)
THEOREM Invariance == Spec => []IInv
BY InitIInv, NextIInv, PTL DEF Spec

LEMMA Typed == IInv => TypeOK
<1> SUFFICES ASSUME IInv PROVE TypeOK
  OBVIOUS
<1>1. window.entity \in {0} \cup DOMAIN windowRows
  BY DEF IInv, RowsInv
<1>2. window \in [entity : {0} \cup DOMAIN windowRows, initialized : BOOLEAN,
                  close_pending : BOOLEAN, should_close : BOOLEAN]
  <2>1. /\ window = [entity |-> window.entity, initialized |-> window.initialized,
                close_pending |-> window.close_pending, should_close |-> window.should_close]
        /\ window.initialized \in BOOLEAN /\ window.close_pending \in BOOLEAN
        /\ window.should_close \in BOOLEAN
    BY DEF IInv, TypeInv
  <2> QED
    BY <1>1, <2>1
<1>3. /\ pipeline \in Seq(NamesOf(systems)) /\ ManagedNames \subseteq NamesOf(systems)
      /\ NamesOf(systems) \subseteq ManagedNames \cup NamesOf(NativeTable(module, known))
  BY PipelineFacts DEF IInv
<1> QED
  BY <1>2, <1>3 DEF TypeOK, IInv, TypeInv, RowsInv, QueueInv

(* Every value stays in its type (ecsvm_run_project).                      *)
THEOREM TypeCorrect == Spec => []TypeOK
BY Invariance, Typed, PTL

(* However often the project is reloaded, and whatever its managed systems *)
(* add, the window system makes one entity (window_ensure_component).      *)
THEOREM OneWindow == Spec => []OneWindowIsMade
<1>1. IInv => OneWindowIsMade
  BY DEF IInv
<1> QED
  BY <1>1, Invariance, PTL

(* In whatever order the dependencies of the systems leave, the renderer   *)
(* finds the window made (system_renderer.c:225).                          *)
THEOREM WindowFirst == Spec => []WindowBeforeRenderer
<1>1. IInv => WindowBeforeRenderer
  <2> SUFFICES ASSUME IInv, Runs("core.Renderer") PROVE window.initialized
    BY DEF WindowBeforeRenderer
  <2>1. PICK d \in 0 .. Len(pipeline) - 1 :
          d + 1 \in 1 .. Len(pipeline) /\ Head(queue) = pipeline[d + 1] /\ DrawnAt(d)
    BY NextCall DEF Runs
  <2>2. pipeline[d + 1] = "core.Renderer" /\ d < d + 1
    BY <2>1 DEF Runs
  <2>3. \/ window.initialized
        \/ \E p \in 1 .. (d + 1) - 1 : d < p
    BY <2>1, <2>2 DEF DrawnAt
  <2> QED
    BY <2>1, <2>3
<1> QED
  BY <1>1, Invariance, PTL

(* One Time row for each registration, at most (system_time.c:73).         *)
THEOREM TimeRowsCounted == Spec => []TimeRowsOfRegistrations
<1>1. IInv => TimeRowsOfRegistrations
  <2> SUFFICES ASSUME IInv PROVE Cardinality(timeRows) <= reloads + 1
    BY DEF TimeRowsOfRegistrations
  <2> DEFINE rows == Cardinality(timeRows)
  <2>1. rows \in Nat /\ reloads \in Nat
    BY FiniteRows, Bounds DEF IInv, TypeInv
  <2>2. rows + (IF time = 0 THEN 1 ELSE 0) <= reloads + 1
    BY DEF IInv, TimeInv
  <2> HIDE DEF rows
  <2>3. rows <= reloads + 1
    BY <2>1, <2>2
  <2> QED
    BY <2>3 DEF rows
<1> QED
  BY <1>1, Invariance, PTL

(* No order of the systems and no reload lets the window close the program *)
(* before each managed system was called with the request on its row       *)
(* (system_window.c:329).                                                  *)
THEOREM ClosingConfirmed == Spec => ClosingIsConfirmed
<1>1. IInv /\ [Next]_vars =>
        [Closes /\ "core.ui.Window" \in known => ManagedNames \subseteq heard]_vars
  <2> SUFFICES ASSUME IInv, Next, Closes, "core.ui.Window" \in known
               PROVE  ManagedNames \subseteq heard
    BY Zenon DEF Closes
  <2>1. window' # window
    BY DEF Closes
  <2>2. CASE CallWindow
    <3>1. Runs("core.Window")
      BY <2>2 DEF CallWindow
    <3>2. PICK requested \in BOOLEAN : UpdateWindow(WindowEntity, requested)
      BY <2>2 DEF CallWindow
    <3> DEFINE closing == WindowEntity \in DOMAIN windowRows /\ windowRows[WindowEntity]
    <3>3. WindowIs(WindowEntity, Pending(closing, requested), Confirmed(closing, requested))
      BY <3>2 DEF UpdateWindow
    <3>4. Pending(closing, requested) \in BOOLEAN /\ Confirmed(closing, requested) \in BOOLEAN
      BY DEF Pending, Confirmed
    <3>5. window'.should_close = (window.should_close \/ Confirmed(closing, requested))
      BY <3>3, <3>4, WindowState DEF IInv
    <3>6. window.close_pending
      BY <3>5 DEF Closes, Confirmed
    <3> QED
      BY <3>1, <3>6, WindowHears
  <2>3. CASE \E next \in Modules : Reload(next)
    <3>1. window' = NoWindow
      BY <2>1, <2>3 DEF Reload, Install, natives
    <3> QED
      BY <3>1, NoWindowFields DEF Closes
  <2>4. CASE BeginTick \/ EndTick \/ Leave \/ Fail
    BY <2>1, <2>4 DEF BeginTick, EndTick, Leave, Fail, natives
  <2>5. CASE CallManaged \/ CallTime \/ CallRenderer
    BY <2>1, <2>5 DEF CallManaged, CallTime, CallRenderer, natives
  <2> QED
    BY <2>2, <2>3, <2>4, <2>5 DEF Next, Loop
<1> QED
  BY <1>1, Invariance, PTL DEF Spec, ClosingIsConfirmed
=============================================================================
