------------------------ MODULE PipelineOrderProofs ------------------------
(***************************************************************************)
(* What RegistrationOrder returns, for every registry: an order of all its *)
(* systems that respects every Before and After unless they are cyclic,    *)
(* and something shorter when they are.                                    *)
(***************************************************************************)
EXTENDS PipelineOrder, FiniteSetTheorems, TLAPS

(* A sequence of systems, each once and each after all it waits for.       *)
Prefix(prefix, systems) ==
  /\ prefix \in Seq(Slots(systems))
  /\ Cardinality(InPrefix(prefix)) = Len(prefix)
  /\ \A p, q \in 1 .. Len(prefix) : prefix[p] = prefix[q] => p = q
  /\ \A q \in 1 .. Len(prefix) : \A i \in Slots(systems) :
       <<i, prefix[q]>> \in MustPrecede(systems) => \E p \in 1 .. q - 1 : prefix[p] = i

(* The loop that takes one system after the other into the order.          *)
TakeNext(systems, prefix, k) == Extended(systems, prefix)
IsTaken(systems, k, prefix) == Prefix(prefix, systems)

OrderLoop == INSTANCE Loops WITH Step <- TakeNext, May <- IsTaken

-----------------------------------------------------------------------------
LEMMA Concatenation ==
  ASSUME NEW S, NEW l \in Seq(S), NEW r \in Seq(S)
  PROVE  /\ l \o r \in Seq(S) /\ Len(l \o r) = Len(l) + Len(r)
         /\ \A k \in 1 .. Len(l) + Len(r) :
              (l \o r)[k] = IF k <= Len(l) THEN l[k] ELSE r[k - Len(l)]
OBVIOUS

(* The lowest of a set of indices is in the set, and it alone is.          *)
LEMMA LowestIsLeast ==
  ASSUME NEW S \in SUBSET Nat, S # {}
  PROVE  /\ Lowest(S) \in S /\ \A j \in S : Lowest(S) <= j
         /\ \A i \in S : (\A j \in S : i <= j) => i = Lowest(S)
<1>1. \E i \in S : \A j \in S : i <= j
  BY OrderLoop!LeastOfNat
<1>2. Lowest(S) \in S /\ \A j \in S : Lowest(S) <= j
  BY <1>1 DEF Lowest
<1>3. ASSUME NEW i \in S, \A j \in S : i <= j PROVE i = Lowest(S)
  <2>1. i <= Lowest(S) /\ Lowest(S) <= i /\ i \in Nat /\ Lowest(S) \in Nat
    BY <1>2, <1>3
  <2> QED
    BY <2>1
<1> QED
  BY <1>2, <1>3

LEMMA SlotsFinite ==
  ASSUME NEW systems, Len(systems) \in Nat
  PROVE  IsFiniteSet(Slots(systems)) /\ Cardinality(Slots(systems)) = Len(systems)
<1> DEFINE n == Len(systems)
<1> HIDE DEF n
<1>1. n \in Nat /\ Slots(systems) = 1 .. n
  BY DEF n, Slots
<1>2. IsFiniteSet(1 .. n) /\ Cardinality(1 .. n) = n
  BY <1>1, FS_Interval
<1> QED
  BY <1>1, <1>2 DEF n

(* The steps are those of the recursion: it is defined up to the length of *)
(* the registry, one step after another.                                   *)
LEMMA StepsRecur ==
  ASSUME NEW systems, Len(systems) \in Nat
  PROVE  /\ OrderSteps(systems)[0] = <<>>
         /\ \A k \in 1 .. Len(systems) :
              OrderSteps(systems)[k] = Extended(systems, OrderSteps(systems)[k - 1])
<1> DEFINE n == Len(systems)
           Is(f, m) == f = [k \in 0 .. m |-> IF k = 0 THEN <<>> ELSE Extended(systems, f[k - 1])]
           S == {m \in Nat : \E f : Is(f, m)}
<1>1. 0 \in S
  <2>1. Is([k \in 0 .. 0 |-> <<>>], 0)
    OBVIOUS
  <2> QED
    BY <2>1
<1>2. ASSUME NEW m \in 0 .. n - 1, m \in S PROVE m + 1 \in S
  <2>1. PICK f : Is(f, m)
    BY <1>2
  <2> DEFINE g == [k \in 0 .. m + 1 |-> IF k = m + 1 THEN Extended(systems, f[m]) ELSE f[k]]
  <2>2. ASSUME NEW k \in 0 .. m + 1
        PROVE  g[k] = IF k = 0 THEN <<>> ELSE Extended(systems, g[k - 1])
    <3>1. CASE k = m + 1
      BY <3>1
    <3>2. CASE k \in 0 .. m
      <4>1. f[k] = IF k = 0 THEN <<>> ELSE Extended(systems, f[k - 1])
        BY <2>1, <3>2
      <4>2. g[k] = f[k] /\ (k # 0 => g[k - 1] = f[k - 1])
        BY <3>2
      <4> QED
        BY <4>1, <4>2
    <3> QED
      BY <3>1, <3>2
  <2> HIDE DEF g
  <2>3. g = [k \in 0 .. m + 1 |-> IF k = 0 THEN <<>> ELSE Extended(systems, g[k - 1])]
    BY <2>2 DEF g
  <2>4. m + 1 \in Nat
    OBVIOUS
  <2> QED
    BY <2>3, <2>4
<1>3. n \in S
  <2> HIDE DEF S
  <2>1. \A k \in 0 .. n : k \in S
    BY <1>1, <1>2, OrderLoop!InductionSet
  <2> QED
    BY <2>1
<1>4. PICK f : Is(f, n)
  BY <1>3
<1>5. Is(OrderSteps(systems), n)
  BY <1>4 DEF OrderSteps
<1> HIDE DEF n
<1>6. n = Len(systems)
  BY DEF n
<1> DEFINE g == OrderSteps(systems)
<1> HIDE DEF g
<1>7. \A k \in 0 .. n : g[k] = IF k = 0 THEN <<>> ELSE Extended(systems, g[k - 1])
  BY <1>5 DEF g
<1> QED
  BY <1>6, <1>7 DEF g

LEMMA PrefixLists ==
  ASSUME NEW systems, NEW prefix, Prefix(prefix, systems)
  PROVE  InPrefix(prefix) \subseteq Slots(systems)
<1>1. prefix \in Seq(Slots(systems))
  BY DEF Prefix
<1>2. \A p \in 1 .. Len(prefix) : prefix[p] \in Slots(systems)
  BY <1>1
<1> QED
  BY <1>2 DEF InPrefix

(* A step keeps what is listed and adds at most one system, that waits for *)
(* none that is not listed.                                                *)
LEMMA ExtendedIsPrefix ==
  ASSUME NEW systems, Len(systems) \in Nat, NEW prefix, Prefix(prefix, systems)
  PROVE  Prefix(Extended(systems, prefix), systems)
<1>1. CASE MayRunNext(systems, prefix) = {}
  BY <1>1 DEF Extended
<1>2. CASE MayRunNext(systems, prefix) # {}
  <2> DEFINE j == Lowest(MayRunNext(systems, prefix))
             longer == Append(prefix, j)
  <2>1. j \in MayRunNext(systems, prefix)
    <3>1. MayRunNext(systems, prefix) \in SUBSET Nat
      BY DEF MayRunNext, Slots
    <3> QED
      BY <1>2, <3>1, LowestIsLeast
  <2>2. /\ j \in Slots(systems) /\ j \notin InPrefix(prefix)
        /\ \A i \in Slots(systems) : <<i, j>> \in MustPrecede(systems) => i \in InPrefix(prefix)
    BY <2>1 DEF MayRunNext
  <2> HIDE DEF j
  <2>3. prefix \in Seq(Slots(systems)) /\ Len(prefix) \in Nat
    BY DEF Prefix
  <2>4. /\ longer \in Seq(Slots(systems)) /\ Len(longer) = Len(prefix) + 1
        /\ longer[Len(prefix) + 1] = j
        /\ \A p \in 1 .. Len(prefix) : longer[p] = prefix[p]
    BY <2>2, <2>3
  <2> HIDE DEF longer
  <2>5. \A p \in 1 .. Len(longer) : p \in 1 .. Len(prefix) \/ p = Len(prefix) + 1
    BY <2>3, <2>4
  <2>6. \A p \in 1 .. Len(prefix) : prefix[p] \in InPrefix(prefix)
    BY DEF InPrefix
  <2>7. Cardinality(InPrefix(longer)) = Len(longer)
    <3>1. InPrefix(longer) = InPrefix(prefix) \cup {j}
      <4>1. \A x \in InPrefix(longer) : x \in InPrefix(prefix) \cup {j}
        BY <2>4, <2>5 DEF InPrefix
      <4>2. \A x \in InPrefix(prefix) : x \in InPrefix(longer)
        BY <2>3, <2>4 DEF InPrefix
      <4>3. j \in InPrefix(longer)
        BY <2>3, <2>4 DEF InPrefix
      <4> QED
        BY <4>1, <4>2, <4>3
    <3>2. IsFiniteSet(InPrefix(prefix))
      <4>1. InPrefix(prefix) \in SUBSET Slots(systems)
        BY PrefixLists
      <4> QED
        BY <4>1, SlotsFinite, FS_Subset
    <3>3. Cardinality(InPrefix(prefix) \cup {j}) = Cardinality(InPrefix(prefix)) + 1
      BY <2>2, <3>2, FS_AddElement
    <3> QED
      BY <2>4, <3>1, <3>3 DEF Prefix
  <2>8. \A p, q \in 1 .. Len(longer) : longer[p] = longer[q] => p = q
    BY <2>2, <2>4, <2>5, <2>6 DEF Prefix
  <2>9. ASSUME NEW q \in 1 .. Len(longer), NEW i \in Slots(systems),
               <<i, longer[q]>> \in MustPrecede(systems)
        PROVE  \E p \in 1 .. q - 1 : longer[p] = i
    <3>1. CASE q \in 1 .. Len(prefix)
      <4>1. PICK p \in 1 .. q - 1 : prefix[p] = i
        BY <2>4, <2>9, <3>1 DEF Prefix
      <4>2. p \in 1 .. Len(prefix)
        BY <2>3, <3>1
      <4> QED
        BY <2>4, <4>1, <4>2
    <3>2. CASE q = Len(prefix) + 1
      <4>1. PICK p \in 1 .. Len(prefix) : prefix[p] = i
        BY <2>2, <2>4, <2>9, <3>2 DEF InPrefix
      <4>2. p \in 1 .. q - 1
        BY <2>3, <3>2
      <4> QED
        BY <2>4, <4>1, <4>2
    <3> QED
      BY <2>5, <3>1, <3>2
  <2>10. Prefix(longer, systems)
    BY <2>4, <2>7, <2>8, <2>9 DEF Prefix
  <2> QED
    BY <1>2, <2>10 DEF Extended, j, longer
<1> QED
  BY <1>1, <1>2

LEMMA ExtendedLength ==
  ASSUME NEW systems, NEW prefix \in Seq(Nat)
  PROVE  Len(Extended(systems, prefix)) =
           IF MayRunNext(systems, prefix) = {} THEN Len(prefix) ELSE Len(prefix) + 1
BY DEF Extended

(* Every step is a prefix of an order, no longer than the steps taken.     *)
LEMMA StepsArePrefixes ==
  ASSUME NEW systems, Len(systems) \in Nat
  PROVE  \A k \in 0 .. Len(systems) :
           Prefix(OrderSteps(systems)[k], systems) /\ Len(OrderSteps(systems)[k]) <= k
<1> DEFINE f == OrderSteps(systems)
           S == {k \in Nat : Prefix(f[k], systems) /\ Len(f[k]) <= k}
<1>1. 0 \in S
  <2>1. f[0] = <<>>
    BY StepsRecur
  <2>2. Prefix(<<>>, systems)
    BY FS_EmptySet DEF Prefix, InPrefix
  <2> QED
    BY <2>1, <2>2
<1>2. ASSUME NEW k \in 0 .. Len(systems) - 1, k \in S PROVE k + 1 \in S
  <2>1. f[k + 1] = Extended(systems, f[k])
    <3>1. k + 1 \in 1 .. Len(systems) /\ k + 1 - 1 = k
      BY <1>2
    <3> QED
      BY <3>1, StepsRecur
  <2>2. Prefix(f[k], systems) /\ Len(f[k]) <= k /\ f[k] \in Seq(Nat)
    BY <1>2 DEF Prefix, Slots
  <2>3. Prefix(Extended(systems, f[k]), systems)
    BY <2>2, ExtendedIsPrefix
  <2>4. Len(Extended(systems, f[k])) <= k + 1
    BY <2>2, ExtendedLength
  <2> QED
    BY <2>1, <2>3, <2>4
<1>3. \A k \in 0 .. Len(systems) : k \in S
  <2> HIDE DEF S
  <2> QED
    BY <1>1, <1>2, OrderLoop!InductionSet
<1> QED
  BY <1>3

(* A prefix that lists every system is an order, and there is no cycle.    *)
LEMMA FullPrefixIsOrder ==
  ASSUME NEW systems, Len(systems) \in Nat, NEW prefix, Prefix(prefix, systems),
         Len(prefix) = Len(systems)
  PROVE  IsOrderOf(prefix, systems) /\ InPrefix(prefix) = Slots(systems) /\ ~Cyclic(systems)
<1>1. prefix \in Seq(Slots(systems)) /\ Len(prefix) \in Nat
  BY DEF Prefix
<1>2. InPrefix(prefix) = Slots(systems)
  <2>1. InPrefix(prefix) \in SUBSET Slots(systems)
    BY <1>1 DEF InPrefix
  <2>2. IsFiniteSet(Slots(systems)) /\ Cardinality(Slots(systems)) = Len(systems)
    BY SlotsFinite
  <2> QED
    BY <2>1, <2>2, FS_Subset DEF Prefix
<1>3. ASSUME NEW p \in 1 .. Len(prefix), NEW q \in 1 .. Len(prefix),
             <<prefix[p], prefix[q]>> \in MustPrecede(systems)
      PROVE  p < q
  <2>1. prefix[p] \in Slots(systems)
    BY <1>1
  <2>2. PICK r \in 1 .. q - 1 : prefix[r] = prefix[p]
    BY <1>3, <2>1 DEF Prefix
  <2>3. r \in 1 .. Len(prefix)
    BY <1>1, <2>2
  <2>4. r = p
    BY <2>2, <2>3 DEF Prefix
  <2> QED
    BY <2>2, <2>4
<1>4. ASSUME NEW S, IsDeadlocked(S, systems) PROVE FALSE
  <2> DEFINE At == {p \in 1 .. Len(prefix) : prefix[p] \in S}
  <2>1. At \in SUBSET Nat /\ At # {}
    BY <1>1, <1>2, <1>4 DEF IsDeadlocked, InPrefix
  <2>2. PICK q \in At : \A p \in At : q <= p
    BY <2>1, OrderLoop!LeastOfNat
  <2>3. PICK i \in S : <<i, prefix[q]>> \in MustPrecede(systems)
    BY <1>4, <2>2 DEF IsDeadlocked
  <2>4. i \in Slots(systems)
    BY <1>4, <2>3 DEF IsDeadlocked
  <2>5. PICK p \in 1 .. q - 1 : prefix[p] = i
    BY <2>2, <2>3, <2>4 DEF Prefix
  <2>6. p \in At /\ p < q
    BY <1>1, <2>2, <2>3, <2>5
  <2> QED
    BY <2>1, <2>2, <2>6
<1> QED
  BY <1>1, <1>2, <1>3, <1>4 DEF IsOrderOf, Cyclic, Prefix

(* A prefix gets stuck only on systems that all wait for one another.      *)
LEMMA StuckOnCycle ==
  ASSUME NEW systems, Len(systems) \in Nat, NEW prefix, Prefix(prefix, systems),
         Len(prefix) < Len(systems), MayRunNext(systems, prefix) = {}
  PROVE  Cyclic(systems)
<1> DEFINE S == Slots(systems) \ InPrefix(prefix)
<1>1. S # {}
  <2>1. IsFiniteSet(Slots(systems)) /\ Cardinality(Slots(systems)) = Len(systems)
    BY SlotsFinite
  <2>2. Cardinality(InPrefix(prefix)) = Len(prefix) /\ InPrefix(prefix) \subseteq Slots(systems)
    BY PrefixLists DEF Prefix
  <2>3. InPrefix(prefix) # Slots(systems)
    BY <2>1, <2>2
  <2> QED
    BY <2>2, <2>3
<1>2. ASSUME NEW j \in S PROVE \E i \in S : <<i, j>> \in MustPrecede(systems)
  BY <1>2 DEF MayRunNext
<1>3. IsDeadlocked(S, systems)
  BY <1>1, <1>2 DEF IsDeadlocked
<1> QED
  BY <1>3 DEF Cyclic

(* Once stuck, the steps change nothing.                                   *)
LEMMA StuckForGood ==
  ASSUME NEW systems, Len(systems) \in Nat, NEW n \in 0 .. Len(systems),
         MayRunNext(systems, OrderSteps(systems)[n]) = {}
  PROVE  RegistrationOrder(systems) = OrderSteps(systems)[n]
<1> DEFINE f == OrderSteps(systems)
           S == {d \in Nat : f[n + d] = f[n]}
<1>1. 0 \in S
  OBVIOUS
<1>2. ASSUME NEW d \in 0 .. (Len(systems) - n) - 1, d \in S PROVE d + 1 \in S
  <2>1. n + d + 1 \in 1 .. Len(systems) /\ n + d + 1 - 1 = n + d
    BY <1>2
  <2>2. f[n + d + 1] = Extended(systems, f[n + d])
    BY <2>1, StepsRecur
  <2>3. Extended(systems, f[n + d]) = f[n]
    BY <1>2 DEF Extended
  <2> HIDE DEF f
  <2> QED
    BY <2>2, <2>3
<1>3. Len(systems) - n \in S
  <2>1. Len(systems) - n \in Nat
    OBVIOUS
  <2> HIDE DEF S
  <2>2. \A d \in 0 .. Len(systems) - n : d \in S
    BY <1>1, <1>2, <2>1, OrderLoop!InductionSet
  <2> QED
    BY <2>1, <2>2
<1>4. n + (Len(systems) - n) = Len(systems)
  OBVIOUS
<1> QED
  BY <1>3, <1>4 DEF RegistrationOrder

-----------------------------------------------------------------------------
(* Whatever is registered: an acyclic registry has an order, and its       *)
(* registration order is one, of all its systems; a cyclic one stops short *)
(* (ecsvm_pipeline_build, pipeline.c).                                     *)
THEOREM RegistrationOrderCorrect ==
  ASSUME NEW systems, Len(systems) \in Nat
  PROVE  /\ RegistrationOrder(systems) \in Seq(Slots(systems))
         /\ ~Cyclic(systems) => /\ IsOrderOf(RegistrationOrder(systems), systems)
                                /\ InPrefix(RegistrationOrder(systems)) = Slots(systems)
         /\ Cyclic(systems) => Len(RegistrationOrder(systems)) < Len(systems)
<1> DEFINE f == OrderSteps(systems)
           n == Len(systems)
           S == {k \in Nat : Len(f[k]) = k}
<1>1. Prefix(f[n], systems) /\ Len(f[n]) <= n /\ f[n] \in Seq(Slots(systems)) /\ Len(f[n]) \in Nat
  <2>1. n \in 0 .. n
    OBVIOUS
  <2>2. Prefix(f[n], systems) /\ Len(f[n]) <= n
    BY <2>1, StepsArePrefixes
  <2>3. f[n] \in Seq(Slots(systems)) /\ Len(f[n]) \in Nat
    BY <2>2 DEF Prefix
  <2> QED
    BY <2>2, <2>3
<1>2. ASSUME ~Cyclic(systems) PROVE Len(f[n]) = n
  <2>1. 0 \in S
    BY StepsRecur
  <2>2. ASSUME NEW k \in 0 .. n - 1, k \in S PROVE k + 1 \in S
    <3>1. k \in 0 .. n /\ k + 1 \in 1 .. n /\ k + 1 - 1 = k
      BY <2>2
    <3>2. Prefix(f[k], systems) /\ f[k] \in Seq(Nat) /\ Len(f[k]) = k
      <4>1. Prefix(f[k], systems) /\ Len(f[k]) = k
        BY <2>2, <3>1, StepsArePrefixes
      <4>2. f[k] \in Seq(Slots(systems)) /\ Slots(systems) \subseteq Nat
        BY <4>1 DEF Prefix, Slots
      <4> QED
        BY <4>1, <4>2
    <3>3. MayRunNext(systems, f[k]) # {}
      BY <1>2, <2>2, <3>2, StuckOnCycle
    <3>4. f[k + 1] = Extended(systems, f[k])
      BY <3>1, StepsRecur
    <3>5. Len(Extended(systems, f[k])) = k + 1
      BY <3>2, <3>3, ExtendedLength
    <3> QED
      BY <3>4, <3>5
  <2>3. \A k \in 0 .. n : k \in S
    <3> HIDE DEF S
    <3> QED
      BY <2>1, <2>2, OrderLoop!InductionSet
  <2> QED
    BY <2>3
<1>3. Len(f[n]) = n => /\ IsOrderOf(f[n], systems) /\ InPrefix(f[n]) = Slots(systems)
                       /\ ~Cyclic(systems)
  BY <1>1, FullPrefixIsOrder
<1> QED
  BY <1>1, <1>2, <1>3 DEF RegistrationOrder
=============================================================================
