-------------------------- MODULE ProjectBuildProofs --------------------------
(***************************************************************************)
(* Proofs about a build, for every project: the walk over the structs      *)
(* finishes each after those it holds; the tables of a module say what is  *)
(* declared; a file that lost its end is refused and a whole one is        *)
(* accepted exactly when types.h could be written; the loader reads back   *)
(* what the declarations mean; and a C compiler gives the structs of       *)
(* types.h the sizes the loader gives them.  What the parameters           *)
(* CollectDeclarations and LinkBodies return is the hypothesis             *)
(* PassesDeliver; all passes in between are proved to keep it.             *)
(***************************************************************************)
EXTENDS ProjectBuild, FiniteSetTheorems, TLAPS

(* A loop of n steps from base on, where S[k] are the ones of T that the   *)
(* result may be after k steps.                                            *)
IsLoop(n, T, S, step, base) ==
  /\ n \in Nat /\ S \in [0 .. n -> SUBSET T] /\ base \in S[0]
  /\ \A k \in 1 .. n : \A a \in S[k - 1] : step[<<k, a>>] \in S[k]

(* What it had after each step.                                            *)
AreResults(g, n, S, step, base) ==
  /\ g[0] = base
  /\ \A k \in 1 .. n : g[k] = step[<<k, g[k - 1]>>]
  /\ \A k \in 0 .. n : g[k] \in S[k]

TableStep(step, a, k) == step[<<k, a>>]
MayResult(S, k, a) == a \in S[k]

StepLoop == INSTANCE Loops WITH Step <- TableStep, May <- MayResult

(* The results of such a loop are a function with the values it allows.    *)
LEMMA LoopResults ==
  ASSUME NEW n, NEW T, NEW S, NEW step, NEW base, IsLoop(n, T, S, step, base)
  PROVE  \E g \in [0 .. n -> T] : AreResults(g, n, S, step, base)
<1>0. /\ n \in Nat /\ S \in [0 .. n -> SUBSET T] /\ base \in S[0]
      /\ \A k \in 1 .. n : \A a \in S[k - 1] : step[<<k, a>>] \in S[k]
  BY DEF IsLoop
<1> USE <1>0
<1> DEFINE Good(m, g) == /\ g[0] = base
                         /\ \A k \in 1 .. m : g[k] = step[<<k, g[k - 1]>>]
                         /\ \A k \in 0 .. m : g[k] \in S[k]
           R == {m \in 0 .. n : \E g \in [0 .. m -> T] : Good(m, g)}
<1>1. 0 \in R
  <2> DEFINE g == [k \in 0 .. 0 |-> base]
  <2>1. base \in T
    OBVIOUS
  <2>2. g \in [0 .. 0 -> T] /\ Good(0, g)
    BY <2>1
  <2> HIDE DEF g, Good
  <2> QED
    BY <2>2
<1>2. ASSUME NEW m \in 0 .. n - 1, m \in R PROVE m + 1 \in R
  <2>1. PICK g \in [0 .. m -> T] : Good(m, g)
    BY <1>2
  <2> DEFINE next == step[<<m + 1, g[m]>>]
             h == [k \in 0 .. m + 1 |-> IF k = m + 1 THEN next ELSE g[k]]
  <2>2. m \in Nat /\ m + 1 \in 1 .. n /\ m + 1 - 1 = m
    OBVIOUS
  <2>3. next \in S[m + 1]
    BY <2>1, <2>2
  <2>4. next \in T
    BY <2>2, <2>3
  <2>5. h \in [0 .. m + 1 -> T]
    <3>1. \A k \in 0 .. m + 1 : k # m + 1 => k \in 0 .. m
      BY <2>2
    <3> HIDE DEF next, Good
    <3> QED
      BY <2>1, <2>4, <3>1
  <2>6. h[m + 1] = next /\ \A k \in 0 .. m : h[k] = g[k]
    BY <2>2
  <2>7. \A k \in 1 .. m + 1 : h[k] = step[<<k, h[k - 1]>>]
    <3> SUFFICES ASSUME NEW k \in 1 .. m + 1 PROVE h[k] = step[<<k, h[k - 1]>>]
      OBVIOUS
    <3>1. CASE k = m + 1
      <4>1. h[k] = next /\ h[k - 1] = g[m]
        <5> HIDE DEF h, next
        <5> QED
          BY <2>2, <2>6, <3>1
      <4> HIDE DEF h
      <4> QED
        BY <3>1, <4>1
    <3>2. CASE k # m + 1
      <4>1. k \in 1 .. m /\ k - 1 \in 0 .. m /\ k \in 0 .. m
        BY <2>2, <3>2
      <4>2. h[k] = g[k] /\ h[k - 1] = g[k - 1]
        <5> HIDE DEF h, next
        <5> QED
          BY <4>1, <2>6
      <4>3. g[k] = step[<<k, g[k - 1]>>]
        BY <4>1, <2>1
      <4> HIDE DEF h, next
      <4> QED
        BY <4>2, <4>3
    <3> QED
      BY <3>1, <3>2
  <2>8. \A k \in 0 .. m + 1 : h[k] \in S[k]
    BY <2>1, <2>2, <2>3, <2>6
  <2>9. h[0] = base
    BY <2>1, <2>2, <2>6
  <2>10. Good(m + 1, h)
    BY <2>7, <2>8, <2>9
  <2> QED
    <3> HIDE DEF h, Good
    <3> QED
      BY <2>2, <2>5, <2>10
<1>3. n \in R
  <2> HIDE DEF R
  <2>1. \A k \in 0 .. n : k \in R
    BY <1>1, <1>2, StepLoop!InductionSet
  <2> QED
    BY <2>1
<1>4. PICK g \in [0 .. n -> T] : Good(n, g)
  BY <1>3
<1> QED
  BY <1>4 DEF AreResults

(* The running totals of lengths.                                          *)
LEMMA PrefixSumsAdd ==
  ASSUME NEW lengths \in Seq(Nat)
  PROVE  /\ PrefixSums(lengths) \in [0 .. Len(lengths) -> Nat]
         /\ PrefixSums(lengths)[0] = 0
         /\ \A k \in 1 .. Len(lengths) :
              PrefixSums(lengths)[k] = PrefixSums(lengths)[k - 1] + lengths[k]
<1> DEFINE n == Len(lengths)
           S == [k \in 0 .. n |-> Nat]
           step == [p \in (1 .. n) \X Nat |-> p[2] + lengths[p[1]]]
           Sums(f) == f = [k \in 0 .. n |-> IF k = 0 THEN 0 ELSE f[k - 1] + lengths[k]]
           sums == CHOOSE f : Sums(f)
<1>0. n \in Nat /\ \A k \in 1 .. n : lengths[k] \in Nat
  OBVIOUS
<1>1. \A k \in 1 .. n : \A a \in S[k - 1] : step[<<k, a>>] = a + lengths[k] /\ step[<<k, a>>] \in S[k]
  BY <1>0
<1>2. 0 \in S[0]
  BY <1>0
<1>3. IsLoop(n, Nat, S, step, 0)
  <2>1. \A k \in 1 .. n : \A a \in S[k - 1] : step[<<k, a>>] \in S[k]
    BY <1>1
  <2>2. S \in [0 .. n -> SUBSET Nat]
    OBVIOUS
  <2> HIDE DEF S, step, n
  <2> QED
    BY <1>0, <1>2, <2>1, <2>2 DEF IsLoop
<1>4. PICK g \in [0 .. n -> Nat] : AreResults(g, n, S, step, 0)
  <2> HIDE DEF S, step, n
  <2> QED
    BY <1>3, LoopResults
<1>5. \A k \in 1 .. n : g[k] = g[k - 1] + lengths[k]
  <2>1. \A k \in 1 .. n : k - 1 \in 0 .. n /\ g[k - 1] \in S[k - 1]
    <3> HIDE DEF S, step, n
    <3> QED
      BY <1>0, <1>4 DEF AreResults
  <2> HIDE DEF S, step, n
  <2> QED
    BY <1>1, <1>4, <2>1 DEF AreResults
<1>6. Sums(g)
  <2>0. \A k \in 0 .. n : k = 0 \/ k \in 1 .. n
    BY <1>0
  <2>1. \A k \in 0 .. n : g[k] = IF k = 0 THEN 0 ELSE g[k - 1] + lengths[k]
    <3> HIDE DEF n, S, step
    <3> QED
      BY <2>0, <1>4, <1>5 DEF AreResults
  <2> HIDE DEF n
  <2> QED
    BY <1>4, <2>1
<1>7. Sums(sums)
  <2> HIDE DEF Sums
  <2> QED
    BY <1>6
<1>8. PrefixSums(lengths) = sums
  BY DEF PrefixSums
<1>9. /\ sums[0] = 0
      /\ \A k \in 1 .. n : sums[k] = sums[k - 1] + lengths[k]
  <2> HIDE DEF sums
  <2> QED
    BY <1>0, <1>7
<1>10. \A k \in 0 .. n : sums[k] \in Nat
  <2> DEFINE N == {k \in 0 .. n : sums[k] \in Nat}
  <2> HIDE DEF sums, n
  <2>1. 0 \in N
    BY <1>0, <1>9
  <2>2. \A k \in 0 .. n - 1 : k \in N => k + 1 \in N
    <3> SUFFICES ASSUME NEW k \in 0 .. n - 1, sums[k] \in Nat PROVE sums[k + 1] \in Nat
      BY <1>0
    <3>1. k + 1 \in 1 .. n /\ k + 1 - 1 = k
      BY <1>0
    <3>2. sums[k + 1] = sums[k] + lengths[k + 1] /\ lengths[k + 1] \in Nat
      BY <1>0, <1>9, <3>1
    <3> QED
      BY <3>2
  <2> HIDE DEF N
  <2>3. \A k \in 0 .. n : k \in N
    BY <1>0, <2>1, <2>2, StepLoop!InductionSet
  <2> QED
    BY <2>3 DEF N
<1>11. sums = [k \in 0 .. n |-> sums[k]]
  <2> HIDE DEF sums
  <2> QED
    BY <1>7
<1> QED
  <2> HIDE DEF sums, n
  <2>1. sums \in [0 .. n -> Nat]
    BY <1>10, <1>11
  <2> QED
    BY <1>8, <1>9, <2>1 DEF n

(* They never shrink.                                                      *)
LEMMA PrefixSumsMonotone ==
  ASSUME NEW lengths \in Seq(Nat), NEW i \in 0 .. Len(lengths), NEW j \in i .. Len(lengths)
  PROVE  PrefixSums(lengths)[i] <= PrefixSums(lengths)[j]
<1> DEFINE n == Len(lengths)
           sums == PrefixSums(lengths)
           M == {k \in 0 .. n : k < i \/ sums[i] <= sums[k]}
<1> HIDE DEF sums, n
<1>0. n \in Nat /\ i \in 0 .. n /\ j \in i .. n
  BY DEF n
<1>1. /\ \A k \in 0 .. n : sums[k] \in Nat
      /\ \A k \in 1 .. n : sums[k] = sums[k - 1] + lengths[k] /\ lengths[k] \in Nat
  <2>1. \A k \in 1 .. n : lengths[k] \in Nat
    BY DEF n
  <2>2. sums \in [0 .. n -> Nat] /\ \A k \in 1 .. n : sums[k] = sums[k - 1] + lengths[k]
    BY PrefixSumsAdd DEF sums, n
  <2> QED
    BY <2>1, <2>2
<1>2. 0 \in M
  BY <1>0, <1>1
<1>3. \A k \in 0 .. n - 1 : k \in M => k + 1 \in M
  <2> SUFFICES ASSUME NEW k \in 0 .. n - 1, k < i \/ sums[i] <= sums[k]
               PROVE  k + 1 < i \/ sums[i] <= sums[k + 1]
    BY <1>0
  <2>1. k + 1 \in 1 .. n /\ k + 1 - 1 = k /\ k \in 0 .. n
    BY <1>0
  <2>2. sums[k + 1] = sums[k] + lengths[k + 1] /\ lengths[k + 1] \in Nat
        /\ sums[k] \in Nat /\ sums[i] \in Nat
    BY <1>0, <1>1, <2>1
  <2>3. CASE k + 1 < i
    BY <2>3
  <2>4. CASE k + 1 = i
    BY <2>2, <2>4
  <2>5. CASE k + 1 > i
    BY <1>0, <2>2, <2>5
  <2> QED
    BY <1>0, <2>3, <2>4, <2>5
<1>4. \A k \in 0 .. n : k \in M
  <2> HIDE DEF M
  <2> QED
    BY <1>0, <1>2, <1>3, StepLoop!InductionSet
<1> QED
  BY <1>0, <1>4 DEF sums

-----------------------------------------------------------------------------
(***************************************************************************)
(* Loops of visits.                                                        *)
(***************************************************************************)

FoldOf(f, base, seq) == Fold(LAMBDA acc, x : f[<<acc, x>>], base, seq)

-----------------------------------------------------------------------------
(***************************************************************************)
(* The walk.                                                               *)
(***************************************************************************)

(* The structs that were begun and are not finished.                       *)
Grey(walk) == walk.open \ Finished(walk)

(* Each finished struct is finished once, after those it holds.            *)
IsOrdered(parts, walk) ==
  /\ \A j, k \in 1 .. Len(walk.order) : walk.order[j] = walk.order[k] => j = k
  /\ \A k \in 1 .. Len(walk.order) : \A p \in 1 .. Len(parts[walk.order[k]]) :
       \/ parts[walk.order[k]][p] = 0
       \/ \E j \in 1 .. k - 1 : walk.order[j] = parts[walk.order[k]][p]

(* next follows walk: if nothing broke in between, what was finished still *)
(* is, and as many are being visited.                                      *)
Follows(parts, walk, next) ==
  /\ next \in Walks(Len(parts))
  /\ next.ok => /\ walk.ok
                /\ Finished(walk) \subseteq Finished(next)
                /\ Grey(next) = Grey(walk)
                /\ IsOrdered(parts, walk) => IsOrdered(parts, next)

(* A visit finishes what it visits.                                        *)
IsVisit(parts, f) ==
  \A walk \in Walks(Len(parts)), i \in 0 .. Len(parts) :
    /\ Follows(parts, walk, f[<<walk, i>>])
    /\ f[<<walk, i>>].ok => i = 0 \/ i \in Finished(f[<<walk, i>>])

(* A loop of visits follows the walk it starts from, and finishes all.     *)
VisitStep(c, walk, i) == c.f[<<walk, i>>]
VisitedSoFar(c, k, next) ==
  /\ Follows(c.parts, c.walk, next)
  /\ next.ok => \A j \in 1 .. k : c.items[j] = 0 \/ c.items[j] \in Finished(next)

VisitLoop == INSTANCE Loops WITH Step <- VisitStep, May <- VisitedSoFar

(* So does a loop over all of them, if each step is a visit.               *)
LEMMA VisitAll ==
  ASSUME NEW parts, NEW f, IsVisit(parts, f),
         NEW walk \in Walks(Len(parts)), NEW items \in Seq(0 .. Len(parts))
  PROVE  LET next == FoldOf(f, walk, items)
         IN  /\ Follows(parts, walk, next)
             /\ next.ok => \A k \in 1 .. Len(items) : items[k] = 0 \/ items[k] \in Finished(next)
<1> DEFINE c == [f |-> f, parts |-> parts, walk |-> walk, items |-> items]
           m == Len(items)
<1>1. m \in Nat /\ \A k \in 1 .. m : items[k] \in 0 .. Len(parts)
  OBVIOUS
<1>2. VisitedSoFar(c, 0, walk)
  BY DEF VisitedSoFar, Follows
<1>3. ASSUME NEW k \in 1 .. m, NEW w, VisitedSoFar(c, k - 1, w)
      PROVE  VisitedSoFar(c, k, VisitStep(c, w, items[k]))
  <2> DEFINE v == f[<<w, items[k]>>]
  <2>1. /\ Follows(parts, walk, w)
        /\ w.ok => \A j \in 1 .. k - 1 : items[j] = 0 \/ items[j] \in Finished(w)
    BY <1>3 DEF VisitedSoFar
  <2>2. items[k] \in 0 .. Len(parts) /\ w \in Walks(Len(parts))
    BY <1>1, <2>1 DEF Follows
  <2>3. Follows(parts, w, v) /\ (v.ok => items[k] = 0 \/ items[k] \in Finished(v))
    BY <2>2 DEF IsVisit
  <2> HIDE DEF v
  <2>4. Follows(parts, walk, v)
    BY <2>1, <2>3 DEF Follows
  <2>5. ASSUME v.ok, NEW j \in 1 .. k PROVE items[j] = 0 \/ items[j] \in Finished(v)
    <3>1. w.ok /\ Finished(w) \subseteq Finished(v)
      BY <2>3, <2>5 DEF Follows
    <3>2. j = k \/ j \in 1 .. k - 1
      BY <1>1
    <3> QED
      BY <2>1, <2>3, <2>5, <3>1, <3>2
  <2> QED
    BY <2>4, <2>5 DEF VisitedSoFar, VisitStep, v
<1>4. VisitedSoFar(c, m, VisitLoop!Result(c, walk, items))
  <2> HIDE DEF c
  <2> QED
    BY <1>1, <1>2, <1>3, VisitLoop!LoopInvariant
<1>5. VisitLoop!Result(c, walk, items) = FoldOf(f, walk, items)
  BY DEF VisitLoop!Result, FoldOf, Fold, VisitStep
<1> QED
  BY <1>4, <1>5 DEF VisitedSoFar

(* What a visit does with a struct that is neither finished nor begun.     *)
LEMMA VisitNew ==
  ASSUME NEW parts, parts \in Seq(Seq(0 .. Len(parts))), NEW f, IsVisit(parts, f),
         NEW walk \in Walks(Len(parts)), NEW i \in 1 .. Len(parts),
         walk.ok, i \notin Finished(walk), i \notin walk.open
  PROVE  LET next == Complete(FoldOf(f, Enter(walk, i), parts[i]), i)
         IN  Follows(parts, walk, next) /\ (next.ok => i \in Finished(next))
<1> DEFINE n == Len(parts)
           begun == Enter(walk, i)
           done == FoldOf(f, begun, parts[i])
           next == Complete(done, i)
<1> SUFFICES Follows(parts, walk, next) /\ (next.ok => i \in Finished(next))
  OBVIOUS
<1>0. n \in Nat /\ parts[i] \in Seq(0 .. n) /\ walk.order \in Seq(1 .. n) /\ walk.open \in SUBSET (1 .. n)
  BY DEF Walks
<1>1. /\ begun \in Walks(n)
      /\ begun.ok = walk.ok /\ begun.order = walk.order /\ begun.open = walk.open \cup {i}
  BY DEF Walks, Enter
<1>2. Finished(begun) = Finished(walk)
  BY <1>1 DEF Finished
<1>3. /\ Follows(parts, begun, done)
      /\ done.ok => \A k \in 1 .. Len(parts[i]) : parts[i][k] = 0 \/ parts[i][k] \in Finished(done)
  <2> HIDE DEF begun
  <2> QED
    BY <1>0, <1>1, VisitAll
<1>4. done \in Walks(n) /\ done.order \in Seq(1 .. n)
  BY <1>3 DEF Follows, Walks
<1> HIDE DEF begun, done
<1>5. CASE ~done.ok
  <2>1. next = done
    BY <1>5 DEF Complete
  <2> QED
    BY <1>4, <1>5, <2>1 DEF Follows
<1>6. CASE done.ok
  <2>1. /\ next \in Walks(n) /\ next.ok /\ next.open = done.open
        /\ next.order = Append(done.order, i)
    <3>1. Append(done.order, i) \in Seq(1 .. n)
      BY <1>4
    <3>2. done = [ok |-> done.ok, order |-> done.order, open |-> done.open]
          /\ done.open \in SUBSET (1 .. n)
      BY <1>4 DEF Walks
    <3>3. next = [ok |-> TRUE, order |-> Append(done.order, i), open |-> done.open]
      BY <1>6, <3>2 DEF Complete
    <3>4. next.ok /\ next.open = done.open /\ next.order = Append(done.order, i)
      BY ONLY <3>3
    <3>5. next \in Walks(n)
      BY ONLY <3>1, <3>2, <3>3 DEF Walks
    <3> QED
      BY ONLY <3>4, <3>5
  <2> HIDE DEF next
  <2>2. /\ Len(next.order) = Len(done.order) + 1 /\ Len(done.order) \in Nat
        /\ \A k \in 1 .. Len(done.order) : next.order[k] = done.order[k]
        /\ next.order[Len(done.order) + 1] = i
    <3>1. next.order = Append(done.order, i) /\ done.order \in Seq(1 .. n)
      BY <1>4, <2>1
    <3> QED
      BY ONLY <3>1, i \in 1 .. n
  <2>3. Finished(next) = Finished(done) \cup {i}
    <3>1. 1 .. Len(next.order) = (1 .. Len(done.order)) \cup {Len(done.order) + 1}
      BY ONLY <2>2
    <3> DEFINE m == Len(done.order)
    <3>2. Finished(next) = {next.order[k] : k \in 1 .. m} \cup {next.order[m + 1]}
      BY <3>1 DEF Finished
    <3>3. {next.order[k] : k \in 1 .. m} = {done.order[k] : k \in 1 .. m}
      BY <2>2
    <3> QED
      BY <2>2, <3>2, <3>3 DEF Finished
  <2>4. /\ Finished(walk) \subseteq Finished(done)
        /\ Grey(done) = (walk.open \cup {i}) \ Finished(walk)
    BY <1>1, <1>2, <1>3, <1>6 DEF Follows, Grey
  <2>5. i \notin Finished(done)
    BY <2>4 DEF Grey
  <2>6. Grey(next) = Grey(walk)
    BY <2>1, <2>3, <2>4, <2>5 DEF Grey
  <2>7. ASSUME IsOrdered(parts, walk) PROVE IsOrdered(parts, next)
    <3>1. IsOrdered(parts, begun)
      <4>1. begun.order = walk.order
        BY ONLY <1>1
      <4> QED
        BY ONLY <4>1, <2>7 DEF IsOrdered
    <3>2. IsOrdered(parts, done)
      BY <1>3, <1>6, <3>1 DEF Follows
    <3>3. ASSUME NEW j \in 1 .. Len(next.order), NEW k \in 1 .. Len(next.order),
                 next.order[j] = next.order[k]
          PROVE  j = k
      <4>1. \A l \in 1 .. Len(done.order) : next.order[l] # i
        BY <2>2, <2>5 DEF Finished
      <4>2. j \in 1 .. Len(done.order) /\ k \in 1 .. Len(done.order) => j = k
        BY <2>2, <3>2, <3>3 DEF IsOrdered
      <4>3. \A l \in 1 .. Len(next.order) : l \in 1 .. Len(done.order) \/ l = Len(done.order) + 1
        BY <2>2
      <4> QED
        BY <2>2, <3>3, <4>1, <4>2, <4>3
    <3>4. ASSUME NEW k \in 1 .. Len(next.order), NEW p \in 1 .. Len(parts[next.order[k]]),
                 parts[next.order[k]][p] # 0
          PROVE  \E j \in 1 .. k - 1 : next.order[j] = parts[next.order[k]][p]
      <4>1. CASE k \in 1 .. Len(done.order)
        <5>1. next.order[k] = done.order[k]
          BY <2>2, <4>1
        <5>2. PICK j \in 1 .. k - 1 : done.order[j] = parts[done.order[k]][p]
          <6>1. done.order[k] = next.order[k] /\ p \in 1 .. Len(parts[done.order[k]])
                /\ parts[done.order[k]][p] # 0
            BY <3>4, <5>1
          <6> QED
            BY <3>2, <4>1, <6>1 DEF IsOrdered
        <5>3. next.order[j] = done.order[j]
          <6>1. j \in 1 .. Len(done.order)
            BY <4>1
          <6> QED
            BY <2>2, <6>1
        <5> QED
          BY <5>1, <5>2, <5>3
      <4>2. CASE k = Len(done.order) + 1
        <5>1. next.order[k] = i
          BY <2>2, <4>2
        <5>2. parts[i][p] \in Finished(done)
          BY <1>3, <1>6, <3>4, <5>1
        <5>3. PICK j \in 1 .. Len(done.order) : done.order[j] = parts[i][p]
          BY <5>2 DEF Finished
        <5>4. j \in 1 .. k - 1 /\ next.order[j] = parts[i][p]
          BY <2>2, <4>2, <5>3
        <5> QED
          BY <5>1, <5>4
      <4> QED
        BY <2>2, <4>1, <4>2
    <3> QED
      BY <3>3, <3>4 DEF IsOrdered
  <2> QED
    BY <1>0, <2>1, <2>3, <2>4, <2>6, <2>7 DEF Follows, next
<1> QED
  BY <1>5, <1>6

(* Visits, however deep they may go.                                       *)
LEMMA VisitsSound ==
  ASSUME NEW parts, parts \in Seq(Seq(0 .. Len(parts))), NEW d \in 0 .. Len(parts) + 1
  PROVE  IsVisit(parts, Visits(parts)[d])
<1> DEFINE n == Len(parts)
           W == Walks(n)
           Visited(f, depth, v) ==
             IF depth = 0 THEN Break(v[1])
             ELSE IF ~v[1].ok \/ v[2] = 0 \/ v[2] \in Finished(v[1]) THEN v[1]
             ELSE IF v[2] \in v[1].open THEN Break(v[1])
             ELSE Complete(FoldOf(f, Enter(v[1], v[2]), parts[v[2]]), v[2])
           T == [W \X (0 .. n) -> W]
           S == [k \in 0 .. n + 1 |-> {f \in T : IsVisit(parts, f)}]
           step == [p \in (1 .. n + 1) \X T |-> [v \in W \X (0 .. n) |-> Visited(p[2], p[1], v)]]
           base == [v \in W \X (0 .. n) |-> Break(v[1])]
           Equation(g) == g = [depth \in 0 .. n + 1 |->
                                [v \in W \X (0 .. n) |-> Visited(g[depth - 1], depth, v)]]
           F == CHOOSE g : Equation(g)
<1>0. n \in Nat /\ n + 1 \in Nat
  OBVIOUS
<1>1. ASSUME NEW walk \in W PROVE Break(walk) \in W /\ ~Break(walk).ok
  BY <1>1 DEF Walks, Break
<1>2. base \in S[0]
  <2>1. base \in T
    BY <1>1
  <2>2. ASSUME NEW walk \in W, NEW i \in 0 .. n
        PROVE  base[<<walk, i>>] = Break(walk)
    OBVIOUS
  <2>3. IsVisit(parts, base)
    <3> HIDE DEF base
    <3> QED
      BY <1>1, <2>2 DEF IsVisit, Follows
  <2> HIDE DEF base, T
  <2> QED
    BY <1>0, <2>1, <2>3
<1>3. ASSUME NEW f, IsVisit(parts, f), NEW k \in 1 .. n + 1, NEW walk \in W, NEW i \in 0 .. n
      PROVE  LET next == Visited(f, k, <<walk, i>>)
             IN  Follows(parts, walk, next) /\ (next.ok => i = 0 \/ i \in Finished(next))
  <2> DEFINE next == Visited(f, k, <<walk, i>>)
  <2> SUFFICES Follows(parts, walk, next) /\ (next.ok => i = 0 \/ i \in Finished(next))
    OBVIOUS
  <2>1. k # 0 /\ Follows(parts, walk, walk)
    BY <1>0 DEF Follows
  <2>2. CASE ~walk.ok \/ i = 0 \/ i \in Finished(walk)
    <3>1. next = walk
      BY <2>1, <2>2
    <3> HIDE DEF next
    <3> QED
      BY <2>1, <2>2, <3>1
  <2>3. CASE walk.ok /\ i # 0 /\ i \notin Finished(walk) /\ i \in walk.open
    <3>1. next = Break(walk)
      BY <2>1, <2>3
    <3> HIDE DEF next
    <3> QED
      BY <1>1, <3>1 DEF Follows
  <2>4. CASE walk.ok /\ i # 0 /\ i \notin Finished(walk) /\ i \notin walk.open
    <3>1. next = Complete(FoldOf(f, Enter(walk, i), parts[i]), i)
      BY <2>1, <2>4
    <3>2. i \in 1 .. n
      BY <1>0, <2>4
    <3> HIDE DEF next
    <3> QED
      BY <1>3, <2>4, <3>1, <3>2, VisitNew
  <2> QED
    BY <2>2, <2>3, <2>4
<1>4. ASSUME NEW k \in 1 .. n + 1, NEW f \in S[k - 1] PROVE step[<<k, f>>] \in S[k]
  <2>0. k \in 0 .. n + 1 /\ k - 1 \in 0 .. n + 1
    BY <1>0
  <2>1. f \in T /\ IsVisit(parts, f)
    BY <1>4, <2>0
  <2> DEFINE v == [v \in W \X (0 .. n) |-> Visited(f, k, v)]
  <2>2. step[<<k, f>>] = v
    BY <2>1
  <2>3. ASSUME NEW walk \in W, NEW i \in 0 .. n
        PROVE  /\ v[<<walk, i>>] = Visited(f, k, <<walk, i>>)
               /\ Follows(parts, walk, v[<<walk, i>>])
               /\ v[<<walk, i>>].ok => i = 0 \/ i \in Finished(v[<<walk, i>>])
    <3>1. v[<<walk, i>>] = Visited(f, k, <<walk, i>>)
      OBVIOUS
    <3> HIDE DEF v, Visited
    <3> QED
      BY <1>3, <2>1, <3>1
  <2>4. IsVisit(parts, v)
    <3> HIDE DEF v, Visited
    <3> QED
      BY <2>3 DEF IsVisit
  <2>5. v \in T
    <3>1. ASSUME NEW p \in W \X (0 .. n) PROVE Visited(f, k, p) \in W
      <4>1. PICK walk \in W, i \in 0 .. n : p = <<walk, i>>
        OBVIOUS
      <4> HIDE DEF Visited, v
      <4> QED
        BY <2>3, <4>1 DEF Follows
    <3> HIDE DEF Visited
    <3> QED
      BY <3>1
  <2> HIDE DEF v, step, T
  <2> QED
    BY <2>0, <2>2, <2>4, <2>5
<1>5. IsLoop(n + 1, T, S, step, base)
  <2>1. S \in [0 .. n + 1 -> SUBSET T]
    <3> HIDE DEF T
    <3> QED
      OBVIOUS
  <2> HIDE DEF T, S, step, base, n
  <2> QED
    BY <1>0, <1>2, <1>4, <2>1 DEF IsLoop
<1>6. PICK g \in [0 .. n + 1 -> T] : AreResults(g, n + 1, S, step, base)
  <2> HIDE DEF T, S, step, base, n
  <2> QED
    BY <1>5, LoopResults
<1>7. g[0] = base /\ \A k \in 1 .. n + 1 : g[k] = step[<<k, g[k - 1]>>]
  BY <1>6 DEF AreResults
<1>8. \A k \in 1 .. n + 1 : g[k] = [v \in W \X (0 .. n) |-> Visited(g[k - 1], k, v)]
  <2>1. \A k \in 1 .. n + 1 : \A f \in T : step[<<k, f>>] = [v \in W \X (0 .. n) |-> Visited(f, k, v)]
    <3> HIDE DEF T, Visited
    <3> QED
      OBVIOUS
  <2>2. \A k \in 1 .. n + 1 : g[k - 1] \in T
    <3>1. \A k \in 1 .. n + 1 : k - 1 \in 0 .. n + 1
      BY <1>0
    <3> HIDE DEF T, n
    <3> QED
      BY <3>1
  <2> HIDE DEF T, Visited, step
  <2> QED
    BY <1>7, <2>1, <2>2
<1>9. Equation(g)
  <2>1. ASSUME NEW k \in 0 .. n + 1 PROVE g[k] = [v \in W \X (0 .. n) |-> Visited(g[k - 1], k, v)]
    <3>1. CASE k = 0
      <4>1. \A v \in W \X (0 .. n) : Visited(g[k - 1], k, v) = Break(v[1])
        BY <3>1
      <4>2. [v \in W \X (0 .. n) |-> Visited(g[k - 1], k, v)] = base
        <5> HIDE DEF Visited
        <5> QED
          BY <4>1
      <4> HIDE DEF base, Visited
      <4> QED
        BY <1>7, <3>1, <4>2
    <3>2. CASE k # 0
      <4>1. k \in 1 .. n + 1
        BY <1>0, <3>2
      <4> HIDE DEF Visited
      <4> QED
        BY <1>8, <4>1
    <3> QED
      BY <3>1, <3>2
  <2> HIDE DEF Visited
  <2> QED
    BY <2>1
<1>10. Equation(F)
  <2> HIDE DEF Equation
  <2> QED
    BY <1>9
<1>11. Visits(parts) = F
  BY DEF Visits, FoldOf
<1>12. ASSUME NEW k \in 0 .. n + 1
       PROVE  F[k] = [v \in W \X (0 .. n) |-> Visited(F[k - 1], k, v)]
  <2>1. F = [k_1 \in 0 .. n + 1 |-> [v \in W \X (0 .. n) |-> Visited(F[k_1 - 1], k_1, v)]]
    BY <1>10
  <2> HIDE DEF F, Visited
  <2> QED
    BY <2>1
<1>13. ASSUME NEW k \in 0 .. n + 1 PROVE k \in {j \in 0 .. n + 1 : F[j] = g[j]}
  <2> DEFINE E == {j \in 0 .. n + 1 : F[j] = g[j]}
  <2> HIDE DEF F
  <2>1. 0 \in E
    <3>1. \A v \in W \X (0 .. n) : Visited(F[0 - 1], 0, v) = Break(v[1])
      OBVIOUS
    <3>2. 0 \in 0 .. n + 1
      BY <1>0
    <3>3. F[0] = [v \in W \X (0 .. n) |-> Visited(F[0 - 1], 0, v)]
      <4> HIDE DEF Visited
      <4> QED
        BY <1>12, <3>2
    <3>4. F[0] = base
      <4> HIDE DEF Visited
      <4> QED
        BY <3>1, <3>3
    <3> HIDE DEF base
    <3> QED
      BY <1>7, <3>2, <3>4
  <2>2. ASSUME NEW j \in 0 .. n + 1 - 1, j \in E PROVE j + 1 \in E
    <3>1. j + 1 \in 1 .. n + 1 /\ j + 1 - 1 = j /\ j + 1 \in 0 .. n + 1
      BY <1>0
    <3>2. F[j] = g[j]
      BY <2>2
    <3>3. /\ g[j + 1] = [v \in W \X (0 .. n) |-> Visited(g[j], j + 1, v)]
          /\ F[j + 1] = [v \in W \X (0 .. n) |-> Visited(F[j], j + 1, v)]
      <4> HIDE DEF Visited
      <4>1. /\ g[j + 1] = [v \in W \X (0 .. n) |-> Visited(g[(j + 1) - 1], j + 1, v)]
            /\ F[j + 1] = [v \in W \X (0 .. n) |-> Visited(F[(j + 1) - 1], j + 1, v)]
        BY <1>8, <1>12, <3>1
      <4>2. ASSUME NEW i, i = j
            PROVE  /\ [v \in W \X (0 .. n) |-> Visited(g[i], j + 1, v)]
                        = [v \in W \X (0 .. n) |-> Visited(g[j], j + 1, v)]
                   /\ [v \in W \X (0 .. n) |-> Visited(F[i], j + 1, v)]
                        = [v \in W \X (0 .. n) |-> Visited(F[j], j + 1, v)]
        BY <4>2
      <4>3. (j + 1) - 1 = j
        BY <1>0
      <4> QED
        BY <4>1, <4>2, <4>3
    <3> HIDE DEF Visited
    <3> QED
      BY <3>1, <3>2, <3>3
  <2> HIDE DEF E, n
  <2>3. \A j \in 0 .. (n + 1) - 1 : j \in E => j + 1 \in E
    BY <1>0, <2>2
  <2>4. \A j \in 0 .. n + 1 : j \in E
    BY <1>0, <2>1, <2>3, StepLoop!InductionSet
  <2> QED
    BY <2>4 DEF E
<1>14. g[d] \in S[d] /\ F[d] = g[d]
  <2> HIDE DEF F, S
  <2> QED
    BY <1>6, <1>13 DEF AreResults
<1> QED
  <2> HIDE DEF F
  <2> QED
    BY <1>11, <1>14

(* The walk over all structs, if it does not break, has every struct once, *)
(* after those it holds.                                                   *)
THEOREM DepthFirstOrder ==
  ASSUME NEW parts, parts \in Seq(Seq(0 .. Len(parts)))
  PROVE  /\ DepthFirst(parts) \in Walks(Len(parts))
         /\ DepthFirst(parts).ok => /\ Finished(DepthFirst(parts)) = 1 .. Len(parts)
                                    /\ IsOrdered(parts, DepthFirst(parts))
<1> DEFINE n == Len(parts)
           f == Visits(parts)[n + 1]
           items == [i \in 1 .. n |-> i]
           w == DepthFirst(parts)
<1>0. n \in Nat
  OBVIOUS
<1>1. w = FoldOf(f, NoWalk, items)
  BY DEF DepthFirst, FoldOf
<1>2. IsVisit(parts, f)
  <2>1. n + 1 \in 0 .. n + 1
    BY <1>0
  <2> QED
    BY <2>1, VisitsSound
<1>3. items \in Seq(0 .. n) /\ Len(items) = n
  BY <1>0
<1>4. NoWalk \in Walks(n) /\ NoWalk.order = <<>> /\ Len(NoWalk.order) = 0
  BY DEF NoWalk, Walks
<1>5. IsOrdered(parts, NoWalk)
  BY <1>4 DEF IsOrdered
<1>6. /\ Follows(parts, NoWalk, w)
      /\ w.ok => \A k \in 1 .. Len(items) : items[k] = 0 \/ items[k] \in Finished(w)
  <2> HIDE DEF f, items, w, n
  <2>1. items \in Seq(0 .. Len(parts)) /\ NoWalk \in Walks(Len(parts))
    BY <1>3, <1>4 DEF n
  <2> QED
    BY <1>1, <1>2, <2>1, VisitAll
<1>7. w \in Walks(n)
  BY <1>6 DEF Follows
<1>8. ASSUME w.ok PROVE Finished(w) = 1 .. n /\ IsOrdered(parts, w)
  <2>1. \A k \in 1 .. n : items[k] = k /\ k # 0
    BY <1>0
  <2>2. 1 .. n \subseteq Finished(w)
    <3> HIDE DEF items, w
    <3> QED
      BY <1>3, <1>6, <1>8, <2>1
  <2>3. Finished(w) \subseteq 1 .. n
    <3> HIDE DEF w
    <3> QED
      BY <1>7 DEF Walks, Finished
  <2> HIDE DEF w
  <2> QED
    BY <1>5, <1>6, <1>8, <2>2, <2>3 DEF Follows
<1> QED
  BY <1>7, <1>8

-----------------------------------------------------------------------------
(***************************************************************************)
(* Looking up.                                                             *)
(***************************************************************************)

LEMMA MinOfNat ==
  ASSUME NEW I \in SUBSET Nat, I # {}
  PROVE  Min(I) \in I /\ \A i \in I : Min(I) <= i
<1>1. \E m \in I : \A i \in I : m <= i
  BY StepLoop!LeastOfNat
<1> QED
  BY <1>1 DEF Min

(* And one that is bounded has a greatest element.                         *)
LEMMA MaxOfRange ==
  ASSUME NEW n \in Nat, NEW I \in SUBSET (1 .. n), I # {}
  PROVE  Max(I) \in I /\ \A i \in I : i <= Max(I)
<1> DEFINE J == {n - i : i \in I}
<1>1. J \in SUBSET Nat /\ J # {}
  <2>1. \A i \in I : n - i \in Nat
    OBVIOUS
  <2> QED
    BY <2>1
<1>2. PICK m \in J : \A j \in J : m <= j
  BY <1>1, StepLoop!LeastOfNat
<1>3. PICK x \in I : m = n - x
  BY <1>2
<1>4. \A i \in I : x >= i
  <2> SUFFICES ASSUME NEW i \in I PROVE x >= i
    OBVIOUS
  <2>1. n - i \in J
    OBVIOUS
  <2>2. n - x <= n - i
    BY <1>2, <1>3, <2>1
  <2> QED
    BY <2>2
<1>5. Max(I) \in I /\ \A i \in I : Max(I) >= i
  BY <1>4 DEF Max
<1> QED
  BY <1>5

(* What a search for the first item finds.                                 *)
LEMMA FindExactFinds ==
  ASSUME NEW items, Len(items) \in Nat, NEW name
  PROVE  /\ FindExact(items, name) \in 0 .. Len(items)
         /\ FindExact(items, name) # 0 => items[FindExact(items, name)].qualified = name
         /\ \A i \in 1 .. Len(items) : items[i].qualified = name =>
              FindExact(items, name) # 0 /\ FindExact(items, name) <= i
<1> DEFINE I == {i \in 1 .. Len(items) : items[i].qualified = name}
<1>1. FindExact(items, name) = IF I # {} THEN Min(I) ELSE 0
  BY DEF FindExact, SelectInSeq
<1>2. CASE I = {}
  BY <1>1, <1>2
<1>3. CASE I # {}
  <2>1. I \in SUBSET Nat
    OBVIOUS
  <2>2. Min(I) \in I /\ \A i \in I : Min(I) <= i
    <3> HIDE DEF I
    <3> QED
      BY <1>3, <2>1, MinOfNat
  <2>3. FindExact(items, name) \in I /\ \A i \in I : FindExact(items, name) <= i
    <3> HIDE DEF I
    <3> QED
      BY <1>1, <1>3, <2>2
  <2> QED
    BY <2>3
<1> QED
  BY <1>2, <1>3

(* A blob that is in the pool is found.                                    *)
LEMMA BlobIdFinds ==
  ASSUME NEW o, Len(o.blobs) \in Nat, NEW blob
  PROVE  /\ BlobId(o, blob) \in 0 .. Len(o.blobs)
         /\ BlobId(o, blob) # 0 => o.blobs[BlobId(o, blob)] = blob
         /\ \A i \in 1 .. Len(o.blobs) : o.blobs[i] = blob => BlobId(o, blob) # 0
<1> DEFINE I == {i \in 1 .. Len(o.blobs) : o.blobs[i] = blob}
<1>1. BlobId(o, blob) = IF I # {} THEN Min(I) ELSE 0
  BY DEF BlobId, SelectInSeq
<1>2. CASE I = {}
  BY <1>1, <1>2
<1>3. CASE I # {}
  <2>1. I \in SUBSET Nat
    OBVIOUS
  <2>2. Min(I) \in I /\ \A i \in I : Min(I) <= i
    <3> HIDE DEF I
    <3> QED
      BY <1>3, <2>1, MinOfNat
  <2>3. BlobId(o, blob) \in I /\ \A i \in I : BlobId(o, blob) <= i
    <3> HIDE DEF I
    <3> QED
      BY <1>1, <1>3, <2>2
  <2> QED
    BY <2>3
<1> QED
  BY <1>2, <1>3

(* A struct that is found is one of the table, of that type.               *)
LEMMA StructOfTypeFinds ==
  ASSUME NEW module, Len(module.structs) \in Nat, NEW type
  PROVE  /\ StructOfType(module, type) \in 0 .. Len(module.structs)
         /\ StructOfType(module, type) # 0 => module.structs[StructOfType(module, type)].type = type
         /\ \A i \in 1 .. Len(module.structs) : module.structs[i].type = type =>
              StructOfType(module, type) # 0 /\ StructOfType(module, type) <= i
<1> DEFINE I == {i \in 1 .. Len(module.structs) : module.structs[i].type = type}
<1>1. StructOfType(module, type) = IF I # {} THEN Min(I) ELSE 0
  BY DEF StructOfType, SelectInSeq
<1>2. CASE I = {}
  BY <1>1, <1>2
<1>3. CASE I # {}
  <2>1. I \in SUBSET Nat
    OBVIOUS
  <2>2. Min(I) \in I /\ \A i \in I : Min(I) <= i
    <3> HIDE DEF I
    <3> QED
      BY <1>3, <2>1, MinOfNat
  <2>3. StructOfType(module, type) \in I /\ \A i \in I : StructOfType(module, type) <= i
    <3> HIDE DEF I
    <3> QED
      BY <1>1, <1>3, <2>2
  <2> QED
    BY <2>3
<1> QED
  BY <1>2, <1>3

-----------------------------------------------------------------------------
(***************************************************************************)
(* Names.                                                                  *)
(***************************************************************************)

LEMMA JoinParts ==
  ASSUME NEW S, NEW a \in Seq(S), NEW x \in S, NEW b \in Seq(S)
  PROVE  /\ a \o <<x>> \o b \in Seq(S)
         /\ Len(a \o <<x>> \o b) = Len(a) + 1 + Len(b)
         /\ \A i \in 1 .. Len(a) : (a \o <<x>> \o b)[i] = a[i]
         /\ (a \o <<x>> \o b)[Len(a) + 1] = x
         /\ \A i \in 1 .. Len(b) : (a \o <<x>> \o b)[Len(a) + 1 + i] = b[i]
<1> DEFINE c == <<x>> \o b
<1>1. <<x>> \in Seq(S) /\ Len(<<x>>) = 1 /\ <<x>>[1] = x
  OBVIOUS
<1>2. c \in Seq(S) /\ Len(c) = 1 + Len(b) /\ c[1] = x /\ \A i \in 1 .. Len(b) : c[1 + i] = b[i]
  BY <1>1
<1>3. a \o <<x>> \o b = a \o c
  BY <1>1
<1> HIDE DEF c
<1> QED
  BY <1>2, <1>3

(* A name is the join of what it is split into.                            *)
LEMMA JoinOfSplit ==
  ASSUME NEW q \in NameText
  PROVE  /\ SplitName(q).namespace \in NameText
         /\ SplitName(q).name \in NameText
         /\ Join(SplitName(q).namespace, SplitName(q).name) = q
<1> DEFINE I == {i \in 1 .. Len(q) : q[i] = "."}
           dot == IF I # {} THEN Max(I) ELSE 0
           namespace == SubSeq(q, 1, dot - 1)
           name == SubSeq(q, dot + 1, Len(q))
<1>1. SplitName(q) = [namespace |-> namespace, name |-> name]
  BY DEF SplitName, SelectLastInSeq
<1>2. q \in Seq(STRING) /\ Len(q) \in Nat /\ (q = <<>> \/ q[1] # ".")
  BY DEF NameText
<1>3. /\ dot \in 0 .. Len(q) /\ dot # 1
      /\ dot # 0 => q[dot] = "."
      /\ \A i \in dot + 1 .. Len(q) : q[i] # "."
  <2>1. CASE I = {}
    BY <1>2, <2>1
  <2>2. CASE I # {}
    <3>1. Max(I) \in I /\ \A i \in I : i <= Max(I)
      <4>1. I \in SUBSET (1 .. Len(q))
        OBVIOUS
      <4> HIDE DEF I
      <4> QED
        BY <1>2, <2>2, <4>1, MaxOfRange
    <3>2. dot \in I /\ \A i \in I : i <= dot
      BY <2>2, <3>1
    <3> HIDE DEF dot
    <3> QED
      BY <1>2, <3>2
  <2> QED
    BY <2>1, <2>2
<1> HIDE DEF dot
<1>4. /\ namespace \in Seq(STRING) /\ Len(namespace) = IF dot = 0 THEN 0 ELSE dot - 1
      /\ \A i \in 1 .. Len(namespace) : namespace[i] = q[i]
  BY <1>2, <1>3
<1>5. /\ name \in Seq(STRING) /\ Len(name) = Len(q) - dot
      /\ \A i \in 1 .. Len(name) : name[i] = q[dot + i]
  BY <1>2, <1>3
<1> HIDE DEF namespace, name
<1>6. namespace \in NameText
  <2>1. CASE Len(namespace) = 0
    BY <1>4, <2>1 DEF NameText
  <2>2. CASE Len(namespace) # 0
    <3>1. 1 \in 1 .. Len(namespace) /\ namespace[1] = q[1] /\ q # <<>>
      BY <1>2, <1>3, <1>4, <2>2
    <3> QED
      BY <1>2, <1>4, <3>1 DEF NameText
  <2> QED
    BY <2>1, <2>2
<1>7. name \in NameText
  <2>1. CASE Len(name) = 0
    BY <1>5, <2>1 DEF NameText
  <2>2. CASE Len(name) # 0
    <3>1. 1 \in 1 .. Len(name) /\ name[1] = q[dot + 1] /\ dot + 1 \in dot + 1 .. Len(q)
      BY <1>2, <1>3, <1>5, <2>2
    <3> QED
      BY <1>3, <1>5, <3>1 DEF NameText
  <2> QED
    BY <2>1, <2>2
<1>8. Join(namespace, name) = q
  <2>1. CASE dot = 0
    <3>1. namespace = <<>>
      BY <1>4, <2>1
    <3>2. Len(name) = Len(q) /\ \A i \in 1 .. Len(q) : name[i] = q[i]
      BY <1>2, <1>5, <2>1
    <3>3. name = q
      BY <1>2, <1>5, <3>2
    <3> QED
      BY <3>1, <3>3 DEF Join
  <2>2. CASE dot # 0
    <3>1. namespace # <<>> /\ Len(namespace) = dot - 1 /\ dot \in Nat /\ dot > 1
      BY <1>3, <1>4, <2>2
    <3> DEFINE whole == namespace \o <<".">> \o name
    <3> DEFINE Token == STRING \cup {"."}
    <3>0. namespace \in Seq(Token) /\ name \in Seq(Token) /\ q \in Seq(Token) /\ "." \in Token
      BY <1>2, <1>4, <1>5
    <3>a. /\ whole \in Seq(Token)
          /\ Len(whole) = Len(namespace) + 1 + Len(name)
          /\ \A i \in 1 .. Len(namespace) : whole[i] = namespace[i]
          /\ whole[Len(namespace) + 1] = "."
          /\ \A i \in 1 .. Len(name) : whole[Len(namespace) + 1 + i] = name[i]
      <4> HIDE DEF Token
      <4> QED
        BY <3>0, JoinParts
    <3>b. Len(namespace) + 1 = dot /\ Len(namespace) = dot - 1
      BY <3>1
    <3>2. Len(whole) = Len(q) /\ whole \in Seq(Token) /\ q \in Seq(Token)
      <4> HIDE DEF whole, Token
      <4> QED
        BY <1>2, <1>3, <1>5, <3>0, <3>a, <3>b
    <3>3. ASSUME NEW i \in 1 .. Len(q) PROVE whole[i] = q[i]
      <4> HIDE DEF whole
      <4>1. CASE i < dot
        BY <1>4, <3>1, <3>a, <3>b, <4>1
      <4>2. CASE i = dot
        BY <1>3, <3>1, <3>a, <3>b, <4>2
      <4>3. CASE i > dot
        <5>1. i - dot \in 1 .. Len(name) /\ dot + (i - dot) = i
          BY <1>2, <1>3, <1>5, <4>3
        <5> QED
          BY <1>5, <3>a, <3>b, <5>1
      <4> QED
        BY <1>3, <4>1, <4>2, <4>3
    <3>4. whole = q
      <4> HIDE DEF whole, Token
      <4> QED
        BY <1>2, <3>2, <3>3
    <3> QED
      BY <3>1, <3>4 DEF Join
  <2> QED
    BY <2>1, <2>2
<1> QED
  BY <1>1, <1>6, <1>7, <1>8

-----------------------------------------------------------------------------
(***************************************************************************)
(* Sound tables: every reference is to a row that is there.  b, t and so   *)
(* on are the lengths of the tables that are referred to.                  *)
(***************************************************************************)

Blobs == [text : NameText] \cup [type : Nat]
TypeRows(b) == [qualified : NameText, namespaceBlob : 1 .. b, nameBlob : 1 .. b]
FieldRows(b, t) == [nameBlob : 1 .. b, type : 1 .. t]
FieldDefRows(f) == [field : 1 .. f, attributeStart : {0}, attributeCount : {0}]
AttributeRows(b, t) == [type : 1 .. t, data : 1 .. b]
ParameterRows(b, t) ==
  [nameBlob : 1 .. b, type : 1 .. t, attributeStart : {0}, attributeCount : {0},
   defaultBlob : 0 .. b]
StructRows(t) ==
  [type : 1 .. t, isComponent : BOOLEAN, fieldStart : Nat, fieldCount : Nat,
   attributeStart : Nat, attributeCount : Nat]
FunctionRows(b) ==
  [namespaceBlob : 1 .. b, nameBlob : 1 .. b, parameterStart : Nat, parameterCount : Nat,
   attributeStart : Nat, attributeCount : Nat, body : {0}]

HasTables(o) ==
  o = [blobs |-> o.blobs, types |-> o.types, fields |-> o.fields, fieldDefs |-> o.fieldDefs,
       functions |-> o.functions, parameters |-> o.parameters, attributes |-> o.attributes,
       structs |-> o.structs]

RefersWithin(o) ==
  /\ o.blobs \in Seq(Blobs)
  /\ o.types \in Seq(TypeRows(Len(o.blobs)))
  /\ o.fields \in Seq(FieldRows(Len(o.blobs), Len(o.types)))
  /\ o.fieldDefs \in Seq(FieldDefRows(Len(o.fields)))
  /\ o.attributes \in Seq(AttributeRows(Len(o.blobs), Len(o.types)))
  /\ o.parameters \in Seq(ParameterRows(Len(o.blobs), Len(o.types)))
  /\ o.structs \in Seq(StructRows(Len(o.types)))
  /\ o.functions \in Seq(FunctionRows(Len(o.blobs)))

(* The blobs of a type are the parts of its name.                          *)
IsNamed(o, row) ==
  /\ o.blobs[row.namespaceBlob] = TextBlob(SplitName(row.qualified).namespace)
  /\ o.blobs[row.nameBlob] = TextBlob(SplitName(row.qualified).name)

TypesNamed(o) ==
  /\ \A i \in 1 .. Len(o.types) : IsNamed(o, o.types[i])
  /\ \A i, j \in 1 .. Len(o.types) : o.types[i].qualified = o.types[j].qualified => i = j

(* IsRange of a table with so many rows.                                   *)
Spans(length, start, count) ==
  IF count = 0 THEN start = 0 ELSE start # 0 /\ start - 1 + count <= length

RangesWithin(o) ==
  /\ \A i \in 1 .. Len(o.structs) :
       /\ Spans(Len(o.fields), o.structs[i].fieldStart, o.structs[i].fieldCount)
       /\ Spans(Len(o.attributes), o.structs[i].attributeStart, o.structs[i].attributeCount)
  /\ \A i \in 1 .. Len(o.functions) :
       /\ Spans(Len(o.parameters), o.functions[i].parameterStart, o.functions[i].parameterCount)
       /\ Spans(Len(o.attributes), o.functions[i].attributeStart, o.functions[i].attributeCount)

Sound(o) == HasTables(o) /\ RefersWithin(o) /\ TypesNamed(o) /\ RangesWithin(o)

(* The rows of s are the first of t.                                       *)
Begins(s, t) == Len(s) <= Len(t) /\ \A i \in 1 .. Len(s) : t[i] = s[i]

(* Blobs and types were added.                                             *)
Interns(o, p) ==
  /\ Begins(o.blobs, p.blobs) /\ Begins(o.types, p.types)
  /\ p.fields = o.fields /\ p.fieldDefs = o.fieldDefs /\ p.functions = o.functions
  /\ p.parameters = o.parameters /\ p.attributes = o.attributes /\ p.structs = o.structs

(* A row is added behind the others, which stay.                           *)
LEMMA AppendRows ==
  ASSUME NEW S, NEW s \in Seq(S), NEW x \in S
  PROVE  /\ Append(s, x) \in Seq(S) /\ Len(s) \in Nat /\ Len(Append(s, x)) = Len(s) + 1
         /\ \A i \in 1 .. Len(s) : Append(s, x)[i] = s[i]
         /\ Append(s, x)[Len(s) + 1] = x
         /\ Begins(s, Append(s, x))
  BY DEF Begins

(* Rows that refer to fewer refer to more as well.                         *)
LEMMA RowsWiden ==
  ASSUME NEW b \in Nat, NEW b2 \in Nat, b <= b2, NEW t \in Nat, NEW t2 \in Nat, t <= t2
  PROVE  /\ TypeRows(b) \subseteq TypeRows(b2)
         /\ FieldRows(b, t) \subseteq FieldRows(b2, t2)
         /\ FieldDefRows(b) \subseteq FieldDefRows(b2)
         /\ AttributeRows(b, t) \subseteq AttributeRows(b2, t2)
         /\ ParameterRows(b, t) \subseteq ParameterRows(b2, t2)
         /\ StructRows(t) \subseteq StructRows(t2)
         /\ FunctionRows(b) \subseteq FunctionRows(b2)
  BY DEF TypeRows, FieldRows, FieldDefRows, AttributeRows, ParameterRows, StructRows, FunctionRows

(* The same for whole tables.                                              *)
LEMMA SeqWidens ==
  ASSUME NEW S, NEW T, S \subseteq T, NEW s \in Seq(S)
  PROVE  s \in Seq(T)
  OBVIOUS

(* What begins a table begins one that grew from it.                       *)
LEMMA BeginsTransitive ==
  ASSUME NEW s, NEW t, NEW u, Len(s) \in Nat, Len(t) \in Nat, Begins(s, t), Begins(t, u)
  PROVE  Begins(s, u)
  BY DEF Begins

(* The lengths of sound tables.                                            *)
LEMMA SoundLengths ==
  ASSUME NEW o, Sound(o)
  PROVE  /\ Len(o.blobs) \in Nat /\ Len(o.types) \in Nat /\ Len(o.fields) \in Nat
         /\ Len(o.fieldDefs) \in Nat /\ Len(o.functions) \in Nat /\ Len(o.parameters) \in Nat
         /\ Len(o.attributes) \in Nat /\ Len(o.structs) \in Nat
  BY DEF Sound, RefersWithin

(* Adding a blob.                                                          *)
LEMMA EnsureBlobSound ==
  ASSUME NEW o, Sound(o), NEW blob \in Blobs
  PROVE  LET p == EnsureBlob(o, blob)
         IN  /\ Sound(p) /\ Interns(o, p) /\ p.types = o.types
             /\ BlobId(p, blob) \in 1 .. Len(p.blobs) /\ p.blobs[BlobId(p, blob)] = blob
<1> DEFINE p == EnsureBlob(o, blob)
           b == Len(o.blobs)
<1> SUFFICES /\ Sound(p) /\ Interns(o, p) /\ p.types = o.types
             /\ BlobId(p, blob) \in 1 .. Len(p.blobs) /\ p.blobs[BlobId(p, blob)] = blob
  OBVIOUS
<1>0. HasTables(o) /\ RefersWithin(o) /\ TypesNamed(o) /\ RangesWithin(o) /\ b \in Nat
      /\ Len(o.types) \in Nat /\ Len(o.fields) \in Nat
  BY SoundLengths DEF Sound
<1>1. BlobId(o, blob) \in 0 .. b /\ (BlobId(o, blob) # 0 => o.blobs[BlobId(o, blob)] = blob)
  BY <1>0, BlobIdFinds
<1>2. CASE BlobId(o, blob) # 0
  <2>1. p = o
    BY <1>2 DEF EnsureBlob
  <2> HIDE DEF p
  <2>2. Interns(o, o)
    BY <1>0 DEF Interns, Begins
  <2> QED
    BY <1>1, <1>2, <2>1, <2>2
<1>3. CASE BlobId(o, blob) = 0
  <2>1. /\ HasTables(p) /\ p.blobs = Append(o.blobs, blob)
        /\ p.types = o.types /\ p.fields = o.fields /\ p.fieldDefs = o.fieldDefs
        /\ p.functions = o.functions /\ p.parameters = o.parameters
        /\ p.attributes = o.attributes /\ p.structs = o.structs
    BY <1>0, <1>3 DEF EnsureBlob, HasTables
  <2> HIDE DEF p
  <2>2. /\ p.blobs \in Seq(Blobs) /\ Len(p.blobs) = b + 1 /\ Begins(o.blobs, p.blobs)
        /\ p.blobs[b + 1] = blob
        /\ \A i \in 1 .. b : p.blobs[i] = o.blobs[i]
    BY <1>0, <2>1, AppendRows DEF RefersWithin
  <2>3. RefersWithin(p)
    <3>1. /\ TypeRows(b) \subseteq TypeRows(b + 1)
          /\ FieldRows(b, Len(o.types)) \subseteq FieldRows(b + 1, Len(o.types))
          /\ AttributeRows(b, Len(o.types)) \subseteq AttributeRows(b + 1, Len(o.types))
          /\ ParameterRows(b, Len(o.types)) \subseteq ParameterRows(b + 1, Len(o.types))
          /\ FunctionRows(b) \subseteq FunctionRows(b + 1)
      BY <1>0, RowsWiden
    <3>2. p.types \in Seq(TypeRows(b + 1))
      BY <1>0, <2>1, <3>1, SeqWidens DEF RefersWithin
    <3>3. p.fields \in Seq(FieldRows(b + 1, Len(p.types)))
      BY <1>0, <2>1, <3>1, SeqWidens DEF RefersWithin
    <3>4. p.attributes \in Seq(AttributeRows(b + 1, Len(p.types)))
      BY <1>0, <2>1, <3>1, SeqWidens DEF RefersWithin
    <3>5. p.parameters \in Seq(ParameterRows(b + 1, Len(p.types)))
      BY <1>0, <2>1, <3>1, SeqWidens DEF RefersWithin
    <3>6. p.functions \in Seq(FunctionRows(b + 1))
      BY <1>0, <2>1, <3>1, SeqWidens DEF RefersWithin
    <3>7. p.fieldDefs \in Seq(FieldDefRows(Len(p.fields))) /\ p.structs \in Seq(StructRows(Len(p.types)))
      BY <1>0, <2>1 DEF RefersWithin
    <3> QED
      BY <2>2, <3>2, <3>3, <3>4, <3>5, <3>6, <3>7 DEF RefersWithin
  <2>4. TypesNamed(p)
    <3>1. ASSUME NEW i \in 1 .. Len(o.types) PROVE IsNamed(p, o.types[i])
      <4>0. o.types[i] \in TypeRows(b)
        BY <1>0 DEF RefersWithin
      <4>1. o.types[i].namespaceBlob \in 1 .. b /\ o.types[i].nameBlob \in 1 .. b
        BY <4>0 DEF TypeRows
      <4> QED
        BY <1>0, <2>2, <4>1 DEF TypesNamed, IsNamed
    <3> QED
      BY <1>0, <2>1, <3>1 DEF TypesNamed
  <2>5. RangesWithin(p)
    BY <1>0, <2>1 DEF RangesWithin
  <2>6. Interns(o, p)
    BY <1>0, <2>1, <2>2 DEF Interns, Begins
  <2>7. BlobId(p, blob) \in 1 .. Len(p.blobs) /\ p.blobs[BlobId(p, blob)] = blob
    <3>1. Len(p.blobs) \in Nat /\ b + 1 \in 1 .. Len(p.blobs)
      BY <1>0, <2>2
    <3> QED
      BY <2>2, <3>1, BlobIdFinds
  <2> QED
    BY <2>1, <2>3, <2>4, <2>5, <2>6, <2>7 DEF Sound
<1> QED
  BY <1>2, <1>3

(* Interning twice is interning.                                           *)
LEMMA InternsTransitive ==
  ASSUME NEW o, NEW p, NEW q, Sound(o), Sound(p), Interns(o, p), Interns(p, q)
  PROVE  Interns(o, q)
<1>1. /\ Len(o.blobs) \in Nat /\ Len(p.blobs) \in Nat
      /\ Len(o.types) \in Nat /\ Len(p.types) \in Nat
  BY SoundLengths
<1>2. Begins(o.blobs, q.blobs) /\ Begins(o.types, q.types)
  BY <1>1, BeginsTransitive DEF Interns
<1> QED
  BY <1>2 DEF Interns

(* Interning nothing is interning.                                         *)
LEMMA InternsSelf ==
  ASSUME NEW o, Sound(o)
  PROVE  Interns(o, o)
  BY SoundLengths DEF Interns, Begins

(* The bytes of a text, with their terminator, are a blob.                 *)
LEMMA TextBlobs ==
  ASSUME NEW text \in NameText
  PROVE  TextBlob(text) \in Blobs
  BY DEF TextBlob, Blobs

(* Adding two texts, as for the parts of a name.                           *)
HasTexts(o, first, second) ==
  /\ BlobId(o, TextBlob(first)) \in 1 .. Len(o.blobs)
  /\ o.blobs[BlobId(o, TextBlob(first))] = TextBlob(first)
  /\ BlobId(o, TextBlob(second)) \in 1 .. Len(o.blobs)
  /\ o.blobs[BlobId(o, TextBlob(second))] = TextBlob(second)

LEMMA EnsureTextsSound ==
  ASSUME NEW o, Sound(o), NEW first \in NameText, NEW second \in NameText
  PROVE  LET p == EnsureTexts(o, first, second)
         IN  /\ Sound(p) /\ Interns(o, p) /\ p.types = o.types
             /\ HasTexts(p, first, second)
<1> DEFINE m == EnsureBlob(o, TextBlob(first))
           p == EnsureBlob(m, TextBlob(second))
<1>1. TextBlob(first) \in Blobs /\ TextBlob(second) \in Blobs
  BY TextBlobs
<1>2. /\ Sound(m) /\ Interns(o, m) /\ m.types = o.types
      /\ BlobId(m, TextBlob(first)) \in 1 .. Len(m.blobs)
      /\ m.blobs[BlobId(m, TextBlob(first))] = TextBlob(first)
  BY <1>1, EnsureBlobSound
<1> HIDE DEF m
<1>3. /\ Sound(p) /\ Interns(m, p) /\ p.types = m.types
      /\ BlobId(p, TextBlob(second)) \in 1 .. Len(p.blobs)
      /\ p.blobs[BlobId(p, TextBlob(second))] = TextBlob(second)
  BY <1>1, <1>2, EnsureBlobSound
<1> HIDE DEF p
<1>4. Len(m.blobs) \in Nat /\ Len(p.blobs) \in Nat
  BY <1>2, <1>3, SoundLengths
<1>5. Begins(m.blobs, p.blobs)
  BY <1>3 DEF Interns
<1>6. \E i \in 1 .. Len(p.blobs) : p.blobs[i] = TextBlob(first)
  BY <1>2, <1>4, <1>5 DEF Begins
<1>7. /\ BlobId(p, TextBlob(first)) \in 1 .. Len(p.blobs)
      /\ p.blobs[BlobId(p, TextBlob(first))] = TextBlob(first)
  BY <1>4, <1>6, BlobIdFinds
<1>8. Interns(o, p)
  BY <1>2, <1>3, InternsTransitive
<1>a. HasTexts(p, first, second)
  BY ONLY <1>3, <1>7 DEF HasTexts
<1>9. p = EnsureTexts(o, first, second)
  BY DEF EnsureTexts, m, p
<1> QED
  BY <1>2, <1>3, <1>8, <1>9, <1>a

(* Adding a type.                                                          *)
LEMMA EnsureTypeSound ==
  ASSUME NEW o, Sound(o), NEW q \in NameText
  PROVE  LET p == EnsureType(o, q)
         IN  /\ Sound(p) /\ Interns(o, p)
             /\ TypeId(p, q) \in 1 .. Len(p.types) /\ p.types[TypeId(p, q)].qualified = q
<1> DEFINE parts == SplitName(q)
           m == EnsureTexts(o, parts.namespace, parts.name)
           p == EnsureType(o, q)
<1> SUFFICES /\ Sound(p) /\ Interns(o, p)
             /\ TypeId(p, q) \in 1 .. Len(p.types) /\ p.types[TypeId(p, q)].qualified = q
  OBVIOUS
<1>0. Len(o.types) \in Nat
  BY SoundLengths
<1>1. /\ TypeId(o, q) \in 0 .. Len(o.types)
      /\ TypeId(o, q) # 0 => o.types[TypeId(o, q)].qualified = q
      /\ \A i \in 1 .. Len(o.types) : o.types[i].qualified = q => TypeId(o, q) # 0
  BY <1>0, FindExactFinds DEF TypeId
<1>2. CASE TypeId(o, q) # 0
  <2>1. p = o
    BY <1>2 DEF EnsureType
  <2> HIDE DEF p
  <2> QED
    BY <1>1, <1>2, <2>1, InternsSelf
<1>3. CASE TypeId(o, q) = 0
  <2>0. parts.namespace \in NameText /\ parts.name \in NameText
    BY JoinOfSplit
  <2>1. /\ Sound(m) /\ Interns(o, m) /\ m.types = o.types
        /\ BlobId(m, TextBlob(parts.namespace)) \in 1 .. Len(m.blobs)
        /\ m.blobs[BlobId(m, TextBlob(parts.namespace))] = TextBlob(parts.namespace)
        /\ BlobId(m, TextBlob(parts.name)) \in 1 .. Len(m.blobs)
        /\ m.blobs[BlobId(m, TextBlob(parts.name))] = TextBlob(parts.name)
    <3>1. /\ Sound(m) /\ Interns(o, m) /\ m.types = o.types
          /\ HasTexts(m, parts.namespace, parts.name)
      BY <2>0, EnsureTextsSound
    <3> HIDE DEF m
    <3> QED
      BY ONLY <3>1 DEF HasTexts
  <2> DEFINE row == [qualified |-> q,
                     namespaceBlob |-> BlobId(m, TextBlob(parts.namespace)),
                     nameBlob |-> BlobId(m, TextBlob(parts.name))]
             t == Len(o.types)
  <2>2. p = [m EXCEPT !.types = Append(@, row)]
    BY <1>3 DEF EnsureType, AppendType
  <2> HIDE DEF m, p
  <2>3. row \in TypeRows(Len(m.blobs)) /\ IsNamed(m, row) /\ row.qualified = q
    BY <2>1 DEF TypeRows, IsNamed
  <2> HIDE DEF row, parts
  <2>4. HasTables(m) /\ RefersWithin(m) /\ TypesNamed(m) /\ RangesWithin(m)
        /\ Len(m.blobs) \in Nat /\ Len(m.fields) \in Nat /\ t \in Nat /\ t = Len(m.types)
    BY <1>0, <2>1, SoundLengths DEF Sound
  <2>5. /\ HasTables(p) /\ p.types = Append(m.types, row)
        /\ p.blobs = m.blobs /\ p.fields = m.fields /\ p.fieldDefs = m.fieldDefs
        /\ p.functions = m.functions /\ p.parameters = m.parameters
        /\ p.attributes = m.attributes /\ p.structs = m.structs
    BY <2>2, <2>4 DEF HasTables
  <2>6. /\ p.types \in Seq(TypeRows(Len(p.blobs))) /\ Len(p.types) = t + 1
        /\ Begins(m.types, p.types)
        /\ p.types[t + 1] = row
        /\ \A i \in 1 .. t : p.types[i] = m.types[i]
    BY <2>3, <2>4, <2>5, AppendRows DEF RefersWithin
  <2>7. RefersWithin(p)
    <3>1. /\ FieldRows(Len(m.blobs), t) \subseteq FieldRows(Len(m.blobs), t + 1)
          /\ AttributeRows(Len(m.blobs), t) \subseteq AttributeRows(Len(m.blobs), t + 1)
          /\ ParameterRows(Len(m.blobs), t) \subseteq ParameterRows(Len(m.blobs), t + 1)
          /\ StructRows(t) \subseteq StructRows(t + 1)
      BY <2>4, RowsWiden
    <3>2. p.fields \in Seq(FieldRows(Len(p.blobs), t + 1))
      BY <2>4, <2>5, <3>1, SeqWidens DEF RefersWithin
    <3>3. p.attributes \in Seq(AttributeRows(Len(p.blobs), t + 1))
      BY <2>4, <2>5, <3>1, SeqWidens DEF RefersWithin
    <3>4. p.parameters \in Seq(ParameterRows(Len(p.blobs), t + 1))
      BY <2>4, <2>5, <3>1, SeqWidens DEF RefersWithin
    <3>5. p.structs \in Seq(StructRows(t + 1))
      BY <2>4, <2>5, <3>1, SeqWidens DEF RefersWithin
    <3>6. /\ p.blobs \in Seq(Blobs) /\ p.fieldDefs \in Seq(FieldDefRows(Len(p.fields)))
          /\ p.functions \in Seq(FunctionRows(Len(p.blobs)))
      BY <2>4, <2>5 DEF RefersWithin
    <3> QED
      BY <2>6, <3>2, <3>3, <3>4, <3>5, <3>6 DEF RefersWithin
  <2>8. TypesNamed(p)
    <3>1. ASSUME NEW i \in 1 .. t + 1 PROVE IsNamed(p, p.types[i])
      <4>1. CASE i = t + 1
        BY <2>3, <2>5, <2>6, <4>1 DEF IsNamed
      <4>2. CASE i # t + 1
        <5>1. i \in 1 .. t /\ IsNamed(m, m.types[i])
          BY <2>4, <4>2 DEF TypesNamed
        <5> QED
          BY <2>5, <2>6, <5>1 DEF IsNamed
      <4> QED
        BY <4>1, <4>2
    <3>2. \A i \in 1 .. t : p.types[i].qualified # q
      BY <1>1, <1>3, <2>1, <2>6
    <3>3. ASSUME NEW i \in 1 .. t + 1, NEW j \in 1 .. t + 1,
                 p.types[i].qualified = p.types[j].qualified
          PROVE  i = j
      <4>1. \A k \in 1 .. t + 1 : k = t + 1 \/ k \in 1 .. t
        BY <2>4
      <4>2. p.types[t + 1].qualified = q
        BY <2>3, <2>6
      <4>3. i \in 1 .. t /\ j \in 1 .. t => i = j
        BY <2>4, <2>6, <3>3 DEF TypesNamed
      <4> QED
        BY <3>2, <3>3, <4>1, <4>2, <4>3
    <3> QED
      BY <2>6, <3>1, <3>3 DEF TypesNamed
  <2>9. RangesWithin(p)
    BY <2>4, <2>5 DEF RangesWithin
  <2>10. Sound(p)
    BY <2>5, <2>7, <2>8, <2>9 DEF Sound
  <2>11. Interns(m, p)
    BY <2>4, <2>5, <2>6 DEF Interns, Begins
  <2>12. Interns(o, p)
    BY <2>1, <2>11, InternsTransitive
  <2>13. Len(p.types) \in Nat /\ t + 1 \in 1 .. Len(p.types) /\ p.types[t + 1].qualified = q
    BY <2>3, <2>4, <2>6
  <2>14. TypeId(p, q) \in 1 .. Len(p.types) /\ p.types[TypeId(p, q)].qualified = q
    BY <2>13, FindExactFinds DEF TypeId
  <2> QED
    BY <2>10, <2>12, <2>14
<1> QED
  BY <1>2, <1>3

-----------------------------------------------------------------------------
(***************************************************************************)
(* Attributes.                                                             *)
(***************************************************************************)

(* The row says what the declaration does.                                 *)
SaysAttribute(structs, o, row, attribute) ==
  /\ o.types[row.type].qualified = attribute.name
  /\ HasTypePayload(structs, attribute) =>
       \E t \in 1 .. Len(o.types) :
         o.blobs[row.data] = TypeBlob(t) /\ o.types[t].qualified = attribute.data
  /\ ~HasTypePayload(structs, attribute) => o.blobs[row.data] = TextBlob(attribute.data)

(* Blobs, types and attributes were added.                                 *)
AddsAttributes(o, p) ==
  /\ Begins(o.blobs, p.blobs) /\ Begins(o.types, p.types)
  /\ Begins(o.attributes, p.attributes)
  /\ p.fields = o.fields /\ p.fieldDefs = o.fieldDefs /\ p.functions = o.functions
  /\ p.parameters = o.parameters /\ p.structs = o.structs

(* Adding attributes twice is adding attributes.                           *)
LEMMA AddsAttributesTransitive ==
  ASSUME NEW o, NEW p, NEW q, Sound(o), Sound(p), AddsAttributes(o, p), AddsAttributes(p, q)
  PROVE  AddsAttributes(o, q)
<1>1. /\ Len(o.blobs) \in Nat /\ Len(p.blobs) \in Nat
      /\ Len(o.types) \in Nat /\ Len(p.types) \in Nat
      /\ Len(o.attributes) \in Nat /\ Len(p.attributes) \in Nat
  BY SoundLengths
<1>2. /\ Begins(o.blobs, q.blobs) /\ Begins(o.types, q.types)
      /\ Begins(o.attributes, q.attributes)
  BY <1>1, BeginsTransitive DEF AddsAttributes
<1> QED
  BY <1>2 DEF AddsAttributes

(* It says so in larger tables too.                                        *)
LEMMA SaysAttributeStill ==
  ASSUME NEW o, NEW p, Sound(o), Sound(p), Begins(o.blobs, p.blobs), Begins(o.types, p.types),
         NEW structs, NEW attribute, NEW row \in AttributeRows(Len(o.blobs), Len(o.types)),
         SaysAttribute(structs, o, row, attribute)
  PROVE  SaysAttribute(structs, p, row, attribute)
<1>1. row.type \in 1 .. Len(o.types) /\ row.data \in 1 .. Len(o.blobs)
  BY DEF AttributeRows
<1>2. Len(o.types) \in Nat /\ Len(p.types) \in Nat /\ Len(o.types) <= Len(p.types)
  BY SoundLengths DEF Begins
<1>3. \A t \in 1 .. Len(o.types) : t \in 1 .. Len(p.types) /\ p.types[t] = o.types[t]
  BY <1>2 DEF Begins
<1>4. p.blobs[row.data] = o.blobs[row.data]
  BY <1>1 DEF Begins
<1> QED
  BY <1>1, <1>3, <1>4 DEF SaysAttribute

(* A range of rows lies in a longer table as well.                         *)
LEMMA SpansMore ==
  ASSUME NEW m \in Nat, NEW n \in Nat, m <= n, NEW start \in Nat, NEW count \in Nat,
         Spans(m, start, count)
  PROVE  Spans(n, start, count)
  BY DEF Spans

(* Putting an attribute.                                                   *)
LEMMA PutAttributeSound ==
  ASSUME NEW o, Sound(o), NEW structs, NEW attribute \in AttributeText1
  PROVE  LET p == PutAttribute(structs, o, attribute)
         IN  /\ Sound(p) /\ AddsAttributes(o, p)
             /\ Len(p.attributes) = Len(o.attributes) + 1
             /\ SaysAttribute(structs, p, p.attributes[Len(o.attributes) + 1], attribute)
<1> DEFINE named == EnsureType(o, attribute.name)
           typed == IF HasTypePayload(structs, attribute) THEN EnsureType(named, attribute.data)
                    ELSE named
           blob == AttributeBlob(structs, typed, attribute)
           m == EnsureBlob(typed, blob)
           row == [type |-> TypeId(m, attribute.name), data |-> BlobId(m, blob)]
           p == PutAttribute(structs, o, attribute)
           a == Len(o.attributes)
<1> SUFFICES /\ Sound(p) /\ AddsAttributes(o, p)
             /\ Len(p.attributes) = Len(o.attributes) + 1
             /\ SaysAttribute(structs, p, p.attributes[Len(o.attributes) + 1], attribute)
  OBVIOUS
<1>0. attribute.name \in NameText /\ attribute.data \in NameText
  BY DEF AttributeText1
<1>1. p = [m EXCEPT !.attributes = Append(@, row)]
  BY DEF PutAttribute, AppendAttribute
<1>2. /\ Sound(named) /\ Interns(o, named)
      /\ TypeId(named, attribute.name) \in 1 .. Len(named.types)
      /\ named.types[TypeId(named, attribute.name)].qualified = attribute.name
  BY <1>0, EnsureTypeSound
<1> HIDE DEF named
<1>3. /\ Sound(typed) /\ Interns(named, typed)
      /\ HasTypePayload(structs, attribute) =>
           /\ TypeId(typed, attribute.data) \in 1 .. Len(typed.types)
           /\ typed.types[TypeId(typed, attribute.data)].qualified = attribute.data
  BY <1>0, <1>2, EnsureTypeSound, InternsSelf
<1> HIDE DEF typed
<1>4. /\ blob \in Blobs
      /\ HasTypePayload(structs, attribute) => blob = TypeBlob(TypeId(typed, attribute.data))
      /\ ~HasTypePayload(structs, attribute) => blob = TextBlob(attribute.data)
  <2>1. CASE HasTypePayload(structs, attribute)
    <3>1. TypeId(typed, attribute.data) \in Nat
      BY <1>3, <2>1, SoundLengths
    <3> QED
      BY <2>1, <3>1 DEF AttributeBlob, TypeBlob, Blobs
  <2>2. CASE ~HasTypePayload(structs, attribute)
    BY <1>0, <2>2, TextBlobs DEF AttributeBlob
  <2> QED
    BY <2>1, <2>2
<1> HIDE DEF blob
<1>5. /\ Sound(m) /\ Interns(typed, m) /\ m.types = typed.types
      /\ BlobId(m, blob) \in 1 .. Len(m.blobs) /\ m.blobs[BlobId(m, blob)] = blob
  BY <1>3, <1>4, EnsureBlobSound
<1> HIDE DEF m
<1>6. Interns(o, m)
  <2>1. Interns(o, typed)
    BY <1>2, <1>3, InternsTransitive
  <2> QED
    BY <1>3, <1>5, <2>1, InternsTransitive
<1>7. TypeId(m, attribute.name) \in 1 .. Len(m.types)
      /\ m.types[TypeId(m, attribute.name)].qualified = attribute.name
  <2>1. Len(named.types) \in Nat /\ Len(m.types) \in Nat
    BY <1>2, <1>5, SoundLengths
  <2>2. Begins(named.types, m.types)
    BY <1>3, <1>5 DEF Interns
  <2>3. \E i \in 1 .. Len(m.types) : m.types[i].qualified = attribute.name
    BY <1>2, <2>1, <2>2 DEF Begins
  <2> QED
    BY <2>1, <2>3, FindExactFinds DEF TypeId
<1>8. /\ HasTables(m) /\ RefersWithin(m) /\ TypesNamed(m) /\ RangesWithin(m)
      /\ Len(m.blobs) \in Nat /\ Len(m.types) \in Nat /\ a \in Nat /\ m.attributes = o.attributes
  BY <1>5, <1>6, SoundLengths DEF Sound, Interns
<1>9. row \in AttributeRows(Len(m.blobs), Len(m.types))
  BY <1>5, <1>7 DEF AttributeRows
<1>10. SaysAttribute(structs, m, row, attribute)
  BY <1>3, <1>4, <1>5, <1>7 DEF SaysAttribute
<1> HIDE DEF row, p
<1>11. /\ HasTables(p) /\ p.attributes = Append(m.attributes, row)
       /\ p.blobs = m.blobs /\ p.types = m.types /\ p.fields = m.fields
       /\ p.fieldDefs = m.fieldDefs /\ p.functions = m.functions
       /\ p.parameters = m.parameters /\ p.structs = m.structs
  BY <1>1, <1>8 DEF HasTables
<1>12. /\ p.attributes \in Seq(AttributeRows(Len(p.blobs), Len(p.types)))
       /\ Len(p.attributes) = a + 1 /\ Begins(m.attributes, p.attributes)
       /\ p.attributes[a + 1] = row
  BY <1>8, <1>9, <1>11, AppendRows DEF RefersWithin
<1>13. RefersWithin(p)
  BY <1>8, <1>11, <1>12 DEF RefersWithin
<1>14. TypesNamed(p)
  BY <1>8, <1>11 DEF TypesNamed, IsNamed
<1>15. RangesWithin(p)
  <2>1. ASSUME NEW i \in 1 .. Len(m.structs)
        PROVE  Spans(a + 1, m.structs[i].attributeStart, m.structs[i].attributeCount)
    <3>1. m.structs[i] \in StructRows(Len(m.types))
      BY <1>8 DEF RefersWithin
    <3>2. Spans(a, m.structs[i].attributeStart, m.structs[i].attributeCount)
      BY <1>8 DEF RangesWithin
    <3>3. m.structs[i].attributeStart \in Nat /\ m.structs[i].attributeCount \in Nat
      BY <3>1 DEF StructRows
    <3>4. a \in Nat /\ a + 1 \in Nat /\ a <= a + 1
      BY <1>8
    <3> QED
      BY ONLY <3>2, <3>3, <3>4, SpansMore
  <2>2. ASSUME NEW i \in 1 .. Len(m.functions)
        PROVE  Spans(a + 1, m.functions[i].attributeStart, m.functions[i].attributeCount)
    <3>1. m.functions[i] \in FunctionRows(Len(m.blobs))
      BY <1>8 DEF RefersWithin
    <3>2. Spans(a, m.functions[i].attributeStart, m.functions[i].attributeCount)
      BY <1>8 DEF RangesWithin
    <3>3. m.functions[i].attributeStart \in Nat /\ m.functions[i].attributeCount \in Nat
      BY <3>1 DEF FunctionRows
    <3>4. a \in Nat /\ a + 1 \in Nat /\ a <= a + 1
      BY <1>8
    <3> QED
      BY ONLY <3>2, <3>3, <3>4, SpansMore
  <2> QED
    BY <1>8, <1>11, <1>12, <2>1, <2>2 DEF RangesWithin
<1>16. Sound(p)
  BY <1>11, <1>13, <1>14, <1>15 DEF Sound
<1>17. AddsAttributes(o, p)
  BY <1>6, <1>8, <1>11, <1>12 DEF AddsAttributes, Interns
<1>18. SaysAttribute(structs, p, row, attribute)
  BY <1>10, <1>11 DEF SaysAttribute
<1> QED
  BY <1>12, <1>16, <1>17, <1>18

(* Putting all attributes of a struct or function.                         *)
AttributeStep(c, acc, attribute) == PutAttribute(c.structs, acc, attribute)
AttributesPut(c, k, acc) ==
  /\ Sound(acc) /\ AddsAttributes(c.from, acc)
  /\ Len(acc.attributes) = Len(c.from.attributes) + k
  /\ \A j \in 1 .. k :
       SaysAttribute(c.structs, acc, acc.attributes[Len(c.from.attributes) + j], c.attributes[j])

AttributeLoop == INSTANCE Loops WITH Step <- AttributeStep, May <- AttributesPut

(* The rows of all attributes of an item are there, in their order.        *)
LEMMA PutAttributesSound ==
  ASSUME NEW o, Sound(o), NEW structs, NEW attributes \in Seq(AttributeText1)
  PROVE  AttributesPut([structs |-> structs, from |-> o, attributes |-> attributes],
                       Len(attributes), PutAttributes(structs, o, attributes))
<1> DEFINE c == [structs |-> structs, from |-> o, attributes |-> attributes]
           n == Len(attributes)
           a == Len(o.attributes)
<1>0. n \in Nat /\ a \in Nat /\ \A k \in 1 .. n : attributes[k] \in AttributeText1
  BY SoundLengths
<1>1. AttributesPut(c, 0, o)
  BY <1>0, SoundLengths DEF AttributesPut, AddsAttributes, Begins
<1>2. ASSUME NEW k \in 1 .. n, NEW m, AttributesPut(c, k - 1, m)
      PROVE  AttributesPut(c, k, AttributeStep(c, m, attributes[k]))
  <2> DEFINE p == PutAttribute(structs, m, attributes[k])
  <2>1. /\ Sound(m) /\ AddsAttributes(o, m) /\ Len(m.attributes) = a + (k - 1)
        /\ \A j \in 1 .. k - 1 : SaysAttribute(structs, m, m.attributes[a + j], attributes[j])
    BY <1>2 DEF AttributesPut
  <2>2. Len(m.attributes) + 1 = a + k /\ k \in 1 .. n
    BY <1>0, <2>1
  <2>3. /\ Sound(p) /\ AddsAttributes(m, p) /\ Len(p.attributes) = Len(m.attributes) + 1
        /\ SaysAttribute(structs, p, p.attributes[Len(m.attributes) + 1], attributes[k])
    BY <1>0, <2>1, PutAttributeSound
  <2> HIDE DEF p
  <2>4. AddsAttributes(o, p)
    BY <2>1, <2>3, AddsAttributesTransitive
  <2>5. ASSUME NEW j \in 1 .. k
        PROVE  SaysAttribute(structs, p, p.attributes[a + j], attributes[j])
    <3>1. CASE j = k
      BY <2>2, <2>3, <3>1
    <3>2. CASE j # k
      <4>1. j \in 1 .. k - 1 /\ a + j \in 1 .. Len(m.attributes)
        BY <1>0, <2>1, <3>2
      <4>2. p.attributes[a + j] = m.attributes[a + j]
        BY <2>3, <4>1 DEF AddsAttributes, Begins
      <4>3. m.attributes[a + j] \in AttributeRows(Len(m.blobs), Len(m.types))
        <5>1. m.attributes \in Seq(AttributeRows(Len(m.blobs), Len(m.types)))
          BY <2>1 DEF Sound, RefersWithin
        <5> QED
          BY <4>1, <5>1
      <4>4. SaysAttribute(structs, m, m.attributes[a + j], attributes[j])
        BY <2>1, <4>1
      <4>5. Begins(m.blobs, p.blobs) /\ Begins(m.types, p.types)
        BY <2>3 DEF AddsAttributes
      <4> QED
        BY <2>1, <2>3, <4>2, <4>3, <4>4, <4>5, SaysAttributeStill
    <3> QED
      BY <3>1, <3>2
  <2>6. AttributeStep(c, m, attributes[k]) = p
    BY DEF AttributeStep, p
  <2>7. Len(p.attributes) = a + k
    BY <2>2, <2>3
  <2> QED
    BY <2>3, <2>4, <2>5, <2>6, <2>7 DEF AttributesPut
<1>3. AttributesPut(c, n, AttributeLoop!Result(c, o, attributes))
  <2> HIDE DEF c
  <2> QED
    BY <1>0, <1>1, <1>2, AttributeLoop!LoopInvariant
<1>4. AttributeLoop!Result(c, o, attributes) = PutAttributes(structs, o, attributes)
  BY DEF AttributeLoop!Result, PutAttributes, Fold, AttributeStep
<1> QED
  BY <1>3, <1>4

-----------------------------------------------------------------------------
(***************************************************************************)
(* Fields.                                                                 *)
(***************************************************************************)

FieldTexts == [name : NameText, type : NameText]

SaysField(o, row, field) ==
  /\ o.blobs[row.nameBlob] = TextBlob(field.name)
  /\ o.types[row.type].qualified = field.type

(* Blobs, types and fields were added.                                     *)
AddsFields(o, p) ==
  /\ Begins(o.blobs, p.blobs) /\ Begins(o.types, p.types)
  /\ Begins(o.fields, p.fields) /\ Begins(o.fieldDefs, p.fieldDefs)
  /\ p.functions = o.functions /\ p.parameters = o.parameters
  /\ p.attributes = o.attributes /\ p.structs = o.structs

(* Adding fields twice is adding fields.                                   *)
LEMMA AddsFieldsTransitive ==
  ASSUME NEW o, NEW p, NEW q, Sound(o), Sound(p), AddsFields(o, p), AddsFields(p, q)
  PROVE  AddsFields(o, q)
<1>1. /\ Len(o.blobs) \in Nat /\ Len(p.blobs) \in Nat
      /\ Len(o.types) \in Nat /\ Len(p.types) \in Nat
      /\ Len(o.fields) \in Nat /\ Len(p.fields) \in Nat
      /\ Len(o.fieldDefs) \in Nat /\ Len(p.fieldDefs) \in Nat
  BY SoundLengths
<1>2. /\ Begins(o.blobs, q.blobs) /\ Begins(o.types, q.types)
      /\ Begins(o.fields, q.fields) /\ Begins(o.fieldDefs, q.fieldDefs)
  BY <1>1, BeginsTransitive DEF AddsFields
<1> QED
  BY <1>2 DEF AddsFields

(* A row still says what it said when fields are added.                    *)
LEMMA SaysFieldStill ==
  ASSUME NEW o, NEW p, Begins(o.blobs, p.blobs), Begins(o.types, p.types),
         NEW field, NEW row \in FieldRows(Len(o.blobs), Len(o.types)), SaysField(o, row, field)
  PROVE  SaysField(p, row, field)
<1>1. row.type \in 1 .. Len(o.types) /\ row.nameBlob \in 1 .. Len(o.blobs)
  BY DEF FieldRows
<1> QED
  BY <1>1 DEF SaysField, Begins

(* A name and a type, as of a field or a parameter, put among the blobs    *)
(* and types.                                                              *)
LEMMA EnsureNamedType ==
  ASSUME NEW o, Sound(o), NEW name \in NameText, NEW type \in NameText
  PROVE  LET m == EnsureType(EnsureBlob(o, TextBlob(name)), type)
         IN  /\ Sound(m) /\ Interns(o, m)
             /\ BlobId(m, TextBlob(name)) \in 1 .. Len(m.blobs)
             /\ m.blobs[BlobId(m, TextBlob(name))] = TextBlob(name)
             /\ TypeId(m, type) \in 1 .. Len(m.types)
             /\ m.types[TypeId(m, type)].qualified = type
<1> DEFINE n == EnsureBlob(o, TextBlob(name))
           m == EnsureType(n, type)
<1>1. /\ Sound(n) /\ Interns(o, n)
      /\ BlobId(n, TextBlob(name)) \in 1 .. Len(n.blobs)
      /\ n.blobs[BlobId(n, TextBlob(name))] = TextBlob(name)
  BY TextBlobs, EnsureBlobSound
<1> HIDE DEF n
<1>2. /\ Sound(m) /\ Interns(n, m)
      /\ TypeId(m, type) \in 1 .. Len(m.types) /\ m.types[TypeId(m, type)].qualified = type
  BY <1>1, EnsureTypeSound
<1> HIDE DEF m
<1>3. Interns(o, m)
  BY <1>1, <1>2, InternsTransitive
<1>4. Len(n.blobs) \in Nat /\ Len(m.blobs) \in Nat /\ Begins(n.blobs, m.blobs)
  BY <1>1, <1>2, SoundLengths DEF Interns
<1>5. \E i \in 1 .. Len(m.blobs) : m.blobs[i] = TextBlob(name)
  BY <1>1, <1>4 DEF Begins
<1>6. /\ BlobId(m, TextBlob(name)) \in 1 .. Len(m.blobs)
      /\ m.blobs[BlobId(m, TextBlob(name))] = TextBlob(name)
  BY <1>4, <1>5, BlobIdFinds
<1> QED
  BY <1>2, <1>3, <1>6 DEF m, n

(* Putting a field.                                                        *)
LEMMA PutFieldSound ==
  ASSUME NEW o, Sound(o), NEW field \in FieldTexts
  PROVE  LET p == PutField(o, field)
         IN  /\ Sound(p) /\ AddsFields(o, p)
             /\ Len(p.fields) = Len(o.fields) + 1
             /\ SaysField(p, p.fields[Len(o.fields) + 1], field)
<1> DEFINE m == EnsureType(EnsureBlob(o, TextBlob(field.name)), field.type)
           row == [nameBlob |-> BlobId(m, TextBlob(field.name)), type |-> TypeId(m, field.type)]
           def == [field |-> Len(m.fields) + 1, attributeStart |-> 0, attributeCount |-> 0]
           p == PutField(o, field)
           f == Len(o.fields)
<1> SUFFICES /\ Sound(p) /\ AddsFields(o, p)
             /\ Len(p.fields) = Len(o.fields) + 1
             /\ SaysField(p, p.fields[Len(o.fields) + 1], field)
  OBVIOUS
<1>0. field.name \in NameText /\ field.type \in NameText
  BY DEF FieldTexts
<1>1. p = [m EXCEPT !.fields = Append(@, row), !.fieldDefs = Append(@, def)]
  BY DEF PutField, AppendField
<1>2. /\ Sound(m) /\ Interns(o, m)
      /\ BlobId(m, TextBlob(field.name)) \in 1 .. Len(m.blobs)
      /\ m.blobs[BlobId(m, TextBlob(field.name))] = TextBlob(field.name)
      /\ TypeId(m, field.type) \in 1 .. Len(m.types)
      /\ m.types[TypeId(m, field.type)].qualified = field.type
  BY <1>0, EnsureNamedType
<1> HIDE DEF m
<1>3. /\ HasTables(m) /\ RefersWithin(m) /\ TypesNamed(m) /\ RangesWithin(m)
      /\ Len(m.blobs) \in Nat /\ Len(m.types) \in Nat /\ f \in Nat /\ m.fields = o.fields
      /\ Len(m.fieldDefs) \in Nat
  BY <1>2, SoundLengths DEF Sound, Interns
<1>4. row \in FieldRows(Len(m.blobs), Len(m.types)) /\ SaysField(m, row, field)
  BY <1>2 DEF FieldRows, SaysField
<1>5. def \in FieldDefRows(f + 1)
  BY <1>3 DEF FieldDefRows
<1> HIDE DEF row, def, p
<1>6. /\ HasTables(p)
      /\ p.fields = Append(m.fields, row) /\ p.fieldDefs = Append(m.fieldDefs, def)
      /\ p.blobs = m.blobs /\ p.types = m.types /\ p.functions = m.functions
      /\ p.parameters = m.parameters /\ p.attributes = m.attributes /\ p.structs = m.structs
  BY <1>1, <1>3 DEF HasTables
<1>7. /\ p.fields \in Seq(FieldRows(Len(p.blobs), Len(p.types)))
      /\ Len(p.fields) = f + 1 /\ Begins(m.fields, p.fields)
      /\ p.fields[f + 1] = row
  BY <1>3, <1>4, <1>6, AppendRows DEF RefersWithin
<1>8. m.fieldDefs \in Seq(FieldDefRows(f + 1))
  <2>1. FieldDefRows(f) \subseteq FieldDefRows(f + 1)
    BY <1>3, RowsWiden
  <2> QED
    BY <1>3, <2>1, SeqWidens DEF RefersWithin
<1>9. p.fieldDefs \in Seq(FieldDefRows(f + 1)) /\ Begins(m.fieldDefs, p.fieldDefs)
  BY <1>5, <1>6, <1>8, AppendRows
<1>10. RefersWithin(p)
  BY <1>3, <1>6, <1>7, <1>9 DEF RefersWithin
<1>11. TypesNamed(p)
  BY <1>3, <1>6 DEF TypesNamed, IsNamed
<1>12. RangesWithin(p)
  <2>1. ASSUME NEW i \in 1 .. Len(m.structs)
        PROVE  Spans(f + 1, m.structs[i].fieldStart, m.structs[i].fieldCount)
    <3>1. m.structs[i] \in StructRows(Len(m.types))
      BY <1>3 DEF RefersWithin
    <3>2. Spans(f, m.structs[i].fieldStart, m.structs[i].fieldCount)
      BY <1>3 DEF RangesWithin
    <3>3. m.structs[i].fieldStart \in Nat /\ m.structs[i].fieldCount \in Nat
      BY <3>1 DEF StructRows
    <3>4. f \in Nat /\ f + 1 \in Nat /\ f <= f + 1
      BY <1>3
    <3> QED
      BY ONLY <3>2, <3>3, <3>4, SpansMore
  <2> QED
    BY <1>3, <1>6, <1>7, <2>1 DEF RangesWithin
<1>13. Sound(p)
  BY <1>6, <1>10, <1>11, <1>12 DEF Sound
<1>14. AddsFields(o, p)
  BY <1>2, <1>6, <1>7, <1>9 DEF AddsFields, Interns
<1>15. SaysField(p, row, field)
  BY <1>4, <1>6 DEF SaysField
<1> QED
  BY <1>7, <1>13, <1>14, <1>15

(* Putting all fields of a struct.                                         *)
FieldStep(c, acc, field) == PutField(acc, field)
FieldsPut(c, k, acc) ==
  /\ Sound(acc) /\ AddsFields(c.from, acc)
  /\ Len(acc.fields) = Len(c.from.fields) + k
  /\ \A j \in 1 .. k : SaysField(acc, acc.fields[Len(c.from.fields) + j], c.fields[j])

FieldLoop == INSTANCE Loops WITH Step <- FieldStep, May <- FieldsPut

(* The rows of all fields of a struct are there, in their order.           *)
LEMMA PutFieldsSound ==
  ASSUME NEW o, Sound(o), NEW fields \in Seq(FieldTexts)
  PROVE  FieldsPut([from |-> o, fields |-> fields], Len(fields), Fold(PutField, o, fields))
<1> DEFINE c == [from |-> o, fields |-> fields]
           n == Len(fields)
           a == Len(o.fields)
<1>0. n \in Nat /\ a \in Nat /\ \A k \in 1 .. n : fields[k] \in FieldTexts
  BY SoundLengths
<1>1. FieldsPut(c, 0, o)
  BY <1>0, SoundLengths DEF FieldsPut, AddsFields, Begins
<1>2. ASSUME NEW k \in 1 .. n, NEW m, FieldsPut(c, k - 1, m)
      PROVE  FieldsPut(c, k, FieldStep(c, m, fields[k]))
  <2> DEFINE p == PutField(m, fields[k])
  <2>1. /\ Sound(m) /\ AddsFields(o, m) /\ Len(m.fields) = a + (k - 1)
        /\ \A j \in 1 .. k - 1 : SaysField(m, m.fields[a + j], fields[j])
    BY <1>2 DEF FieldsPut
  <2>2. Len(m.fields) + 1 = a + k /\ k \in 1 .. n
    BY <1>0, <2>1
  <2>3. /\ Sound(p) /\ AddsFields(m, p) /\ Len(p.fields) = Len(m.fields) + 1
        /\ SaysField(p, p.fields[Len(m.fields) + 1], fields[k])
    BY <1>0, <2>1, PutFieldSound
  <2> HIDE DEF p
  <2>4. AddsFields(o, p)
    BY <2>1, <2>3, AddsFieldsTransitive
  <2>5. ASSUME NEW j \in 1 .. k
        PROVE  SaysField(p, p.fields[a + j], fields[j])
    <3>1. CASE j = k
      BY <2>2, <2>3, <3>1
    <3>2. CASE j # k
      <4>1. j \in 1 .. k - 1 /\ a + j \in 1 .. Len(m.fields)
        BY <1>0, <2>1, <3>2
      <4>2. p.fields[a + j] = m.fields[a + j]
        BY <2>3, <4>1 DEF AddsFields, Begins
      <4>3. m.fields[a + j] \in FieldRows(Len(m.blobs), Len(m.types))
        <5>1. m.fields \in Seq(FieldRows(Len(m.blobs), Len(m.types)))
          BY <2>1 DEF Sound, RefersWithin
        <5> QED
          BY <4>1, <5>1
      <4>4. SaysField(m, m.fields[a + j], fields[j])
        BY <2>1, <4>1
      <4>5. Begins(m.blobs, p.blobs) /\ Begins(m.types, p.types)
        BY <2>3 DEF AddsFields
      <4> QED
        BY <4>2, <4>3, <4>4, <4>5, SaysFieldStill
    <3> QED
      BY <3>1, <3>2
  <2>6. FieldStep(c, m, fields[k]) = p
    BY DEF FieldStep, p
  <2>7. Len(p.fields) = a + k
    BY <2>2, <2>3
  <2> QED
    BY <2>3, <2>4, <2>5, <2>6, <2>7 DEF FieldsPut
<1>3. FieldsPut(c, n, FieldLoop!Result(c, o, fields))
  <2> HIDE DEF c
  <2> QED
    BY <1>0, <1>1, <1>2, FieldLoop!LoopInvariant
<1>4. FieldLoop!Result(c, o, fields) = Fold(PutField, o, fields)
  BY DEF FieldLoop!Result, Fold, FieldStep
<1> QED
  BY <1>3, <1>4

-----------------------------------------------------------------------------
(***************************************************************************)
(* Structs.                                                                *)
(***************************************************************************)

(* Rows were added to any of the tables.                                   *)
Grown(o, p) ==
  /\ Begins(o.blobs, p.blobs) /\ Begins(o.types, p.types) /\ Begins(o.fields, p.fields)
  /\ Begins(o.fieldDefs, p.fieldDefs) /\ Begins(o.functions, p.functions)
  /\ Begins(o.parameters, p.parameters) /\ Begins(o.attributes, p.attributes)
  /\ Begins(o.structs, p.structs)

(* Growing twice is growing.                                               *)
LEMMA GrownTransitive ==
  ASSUME NEW o, NEW p, NEW q, Sound(o), Sound(p), Grown(o, p), Grown(p, q)
  PROVE  Grown(o, q)
<1>1. Begins(o.blobs, q.blobs) /\ Begins(o.types, q.types)
  BY SoundLengths, BeginsTransitive DEF Grown
<1>2. Begins(o.fields, q.fields) /\ Begins(o.fieldDefs, q.fieldDefs)
  BY SoundLengths, BeginsTransitive DEF Grown
<1>3. Begins(o.functions, q.functions) /\ Begins(o.parameters, q.parameters)
  BY SoundLengths, BeginsTransitive DEF Grown
<1>4. Begins(o.attributes, q.attributes) /\ Begins(o.structs, q.structs)
  BY SoundLengths, BeginsTransitive DEF Grown
<1> QED
  BY <1>1, <1>2, <1>3, <1>4 DEF Grown

(* Tables with new fields and attributes have grown.                       *)
LEMMA AddedIsGrown ==
  ASSUME NEW o, NEW p, Sound(o)
  PROVE  /\ Interns(o, p) => Grown(o, p)
         /\ AddsAttributes(o, p) => Grown(o, p)
         /\ AddsFields(o, p) => Grown(o, p)
<1>1. \A s : Len(s) \in Nat => Begins(s, s)
  BY DEF Begins
<1> QED
  BY <1>1, SoundLengths DEF Interns, AddsAttributes, AddsFields, Grown

(* The rows of a span.                                                     *)
LEMMA SpanRows ==
  ASSUME NEW m \in Nat, NEW start \in Nat, NEW count \in Nat, Spans(m, start, count),
         NEW k \in 1 .. count
  PROVE  (start - 1) + k \in 1 .. m
  BY DEF Spans

(* The attributes of a struct or function say what the declaration does.   *)
SaysAttributes(structs, o, row, attributes) ==
  \A k \in 1 .. Len(attributes) :
    SaysAttribute(structs, o, o.attributes[(row.attributeStart - 1) + k], attributes[k])

SaysStruct(structs, o, row, struct) ==
  /\ o.types[row.type].qualified = struct.qualified
  /\ row.isComponent = struct.isComponent
  /\ row.fieldCount = Len(struct.fields)
  /\ row.attributeCount = Len(struct.attributes)
  /\ \A k \in 1 .. Len(struct.fields) :
       SaysField(o, o.fields[(row.fieldStart - 1) + k], struct.fields[k])
  /\ SaysAttributes(structs, o, row, struct.attributes)

(* The attributes of an item still say what they said in grown tables.     *)
LEMMA SaysAttributesStill ==
  ASSUME NEW o, NEW p, Sound(o), Sound(p), Grown(o, p), NEW structs,
         NEW attributes \in Seq(AttributeText1),
         NEW row, row.attributeStart \in Nat, row.attributeCount = Len(attributes),
         Spans(Len(o.attributes), row.attributeStart, row.attributeCount),
         SaysAttributes(structs, o, row, attributes)
  PROVE  SaysAttributes(structs, p, row, attributes)
<1> SUFFICES ASSUME NEW k \in 1 .. Len(attributes)
             PROVE  SaysAttribute(structs, p, p.attributes[(row.attributeStart - 1) + k],
                                  attributes[k])
  BY DEF SaysAttributes
<1> DEFINE i == (row.attributeStart - 1) + k
<1>0. row.attributeCount \in Nat /\ k \in 1 .. row.attributeCount /\ Len(o.attributes) \in Nat
  BY SoundLengths
<1>1. i \in 1 .. Len(o.attributes)
  BY <1>0, SpanRows
<1> HIDE DEF i
<1>2. p.attributes[i] = o.attributes[i]
  BY <1>1 DEF Grown, Begins
<1>3. o.attributes[i] \in AttributeRows(Len(o.blobs), Len(o.types))
  <2>1. o.attributes \in Seq(AttributeRows(Len(o.blobs), Len(o.types)))
    BY DEF Sound, RefersWithin
  <2> QED
    BY <1>1, <2>1
<1>4. SaysAttribute(structs, o, o.attributes[i], attributes[k])
  BY DEF SaysAttributes, i
<1>5. Begins(o.blobs, p.blobs) /\ Begins(o.types, p.types)
  BY DEF Grown
<1>6. SaysAttribute(structs, p, p.attributes[i], attributes[k])
  BY <1>2, <1>3, <1>4, <1>5, SaysAttributeStill
<1> QED
  BY <1>6 DEF i

(* So does the row of a struct.                                            *)
LEMMA SaysStructStill ==
  ASSUME NEW o, NEW p, Sound(o), Sound(p), Grown(o, p), NEW structs,
         NEW struct \in StructText1, NEW row \in StructRows(Len(o.types)),
         Spans(Len(o.fields), row.fieldStart, row.fieldCount),
         Spans(Len(o.attributes), row.attributeStart, row.attributeCount),
         SaysStruct(structs, o, row, struct)
  PROVE  SaysStruct(structs, p, row, struct)
<1>1. /\ row.type \in 1 .. Len(o.types) /\ row.fieldStart \in Nat /\ row.fieldCount \in Nat
      /\ row.attributeStart \in Nat /\ row.attributeCount \in Nat
  BY DEF StructRows
<1>2. /\ o.types[row.type].qualified = struct.qualified
      /\ row.isComponent = struct.isComponent
      /\ row.fieldCount = Len(struct.fields)
      /\ row.attributeCount = Len(struct.attributes)
      /\ \A k \in 1 .. Len(struct.fields) :
           SaysField(o, o.fields[(row.fieldStart - 1) + k], struct.fields[k])
      /\ SaysAttributes(structs, o, row, struct.attributes)
  BY DEF SaysStruct
<1>3. p.types[row.type] = o.types[row.type]
  BY <1>1 DEF Grown, Begins
<1>4. SaysAttributes(structs, p, row, struct.attributes)
  <2>1. struct.attributes \in Seq(AttributeText1)
    BY DEF StructText1
  <2> QED
    BY <1>1, <1>2, <2>1, SaysAttributesStill
<1>5. ASSUME NEW k \in 1 .. Len(struct.fields)
      PROVE  SaysField(p, p.fields[(row.fieldStart - 1) + k], struct.fields[k])
  <2> DEFINE i == (row.fieldStart - 1) + k
  <2>1. i \in 1 .. Len(o.fields)
    BY <1>1, <1>2, SoundLengths, SpanRows
  <2>2. SaysField(o, o.fields[i], struct.fields[k])
    BY <1>2
  <2> HIDE DEF i
  <2>3. p.fields[i] = o.fields[i]
    BY <2>1 DEF Grown, Begins
  <2>4. o.fields[i] \in FieldRows(Len(o.blobs), Len(o.types))
    <3>1. o.fields \in Seq(FieldRows(Len(o.blobs), Len(o.types)))
      BY DEF Sound, RefersWithin
    <3> QED
      BY <2>1, <3>1
  <2>5. Begins(o.blobs, p.blobs) /\ Begins(o.types, p.types)
    BY DEF Grown
  <2>6. SaysField(p, p.fields[i], struct.fields[k])
    BY <2>2, <2>3, <2>4, <2>5, SaysFieldStill
  <2> QED
    BY <2>6 DEF i
<1> QED
  BY <1>2, <1>3, <1>4, <1>5 DEF SaysStruct

(* The first row that is put lies behind those that were there.            *)
LEMMA RowAfter ==
  ASSUME NEW m \in Nat, NEW n \in Nat, NEW k \in 1 .. n, NEW total, total = m + n
  PROVE  m + k \in 1 .. total
  OBVIOUS

(* Where rows that are put next start.                                     *)
LEMMA StartOfSpans ==
  ASSUME NEW rows, Len(rows) \in Nat, NEW count \in Nat, NEW length \in Nat,
         length >= Len(rows) + count
  PROVE  /\ StartOf(rows, count) \in Nat
         /\ Spans(length, StartOf(rows, count), count)
         /\ \A k \in 1 .. count : (StartOf(rows, count) - 1) + k = Len(rows) + k
  BY DEF StartOf, Spans

(* Putting a struct.                                                       *)
LEMMA PutStructSound ==
  ASSUME NEW o, Sound(o), NEW structs, NEW struct \in StructText1
  PROVE  LET p == PutStruct(structs, o, struct)
         IN  /\ Sound(p) /\ Grown(o, p)
             /\ p.functions = o.functions /\ p.parameters = o.parameters
             /\ Len(p.structs) = Len(o.structs) + 1
             /\ SaysStruct(structs, p, p.structs[Len(o.structs) + 1], struct)
<1> DEFINE typed == EnsureType(o, struct.qualified)
           row == [type |-> TypeId(typed, struct.qualified),
                   isComponent |-> struct.isComponent,
                   fieldStart |-> StartOf(o.fields, Len(struct.fields)),
                   fieldCount |-> Len(struct.fields),
                   attributeStart |-> StartOf(o.attributes, Len(struct.attributes)),
                   attributeCount |-> Len(struct.attributes)]
           a == PutAttributes(structs, typed, struct.attributes)
           m == Fold(PutField, a, struct.fields)
           p == PutStruct(structs, o, struct)
           s == Len(o.structs)
<1> SUFFICES /\ Sound(p) /\ Grown(o, p)
             /\ p.functions = o.functions /\ p.parameters = o.parameters
             /\ Len(p.structs) = s + 1
             /\ SaysStruct(structs, p, p.structs[s + 1], struct)
  OBVIOUS
<1>0. /\ struct.qualified \in NameText /\ struct.isComponent \in BOOLEAN
      /\ struct.attributes \in Seq(AttributeText1) /\ struct.fields \in Seq(FieldTexts)
      /\ Len(struct.attributes) \in Nat /\ Len(struct.fields) \in Nat
  BY DEF StructText1, FieldTexts
<1>1. p = [m EXCEPT !.structs = Append(@, row)]
  BY DEF PutStruct
<1> HIDE DEF p
<1>2. /\ Sound(typed) /\ Interns(o, typed)
      /\ TypeId(typed, struct.qualified) \in 1 .. Len(typed.types)
      /\ typed.types[TypeId(typed, struct.qualified)].qualified = struct.qualified
  BY <1>0, EnsureTypeSound
<1> HIDE DEF typed
<1>3. /\ Sound(a) /\ AddsAttributes(typed, a)
      /\ Len(a.attributes) = Len(typed.attributes) + Len(struct.attributes)
      /\ \A j \in 1 .. Len(struct.attributes) :
           SaysAttribute(structs, a, a.attributes[Len(typed.attributes) + j], struct.attributes[j])
  BY <1>0, <1>2, PutAttributesSound DEF AttributesPut
<1> HIDE DEF a
<1>4. /\ Sound(m) /\ AddsFields(a, m)
      /\ Len(m.fields) = Len(a.fields) + Len(struct.fields)
      /\ \A j \in 1 .. Len(struct.fields) :
           SaysField(m, m.fields[Len(a.fields) + j], struct.fields[j])
  BY <1>0, <1>3, PutFieldsSound DEF FieldsPut
<1> HIDE DEF m
<1>5. Grown(o, typed) /\ Grown(typed, a) /\ Grown(a, m) /\ Grown(o, m) /\ Grown(typed, m)
  <2>1. Grown(o, typed) /\ Grown(typed, a) /\ Grown(a, m)
    BY <1>2, <1>3, <1>4, AddedIsGrown
  <2>2. Grown(typed, m)
    BY <1>2, <1>3, <2>1, GrownTransitive
  <2> QED
    BY <1>2, <2>1, <2>2, GrownTransitive
<1>6. /\ m.functions = o.functions /\ m.parameters = o.parameters /\ m.structs = o.structs
      /\ a.fields = o.fields /\ typed.attributes = o.attributes /\ m.attributes = a.attributes
  BY <1>2, <1>3, <1>4 DEF Interns, AddsAttributes, AddsFields
<1>7. /\ HasTables(m) /\ RefersWithin(m) /\ TypesNamed(m) /\ RangesWithin(m)
      /\ Len(m.blobs) \in Nat /\ Len(m.types) \in Nat /\ Len(m.fields) \in Nat
      /\ Len(m.attributes) \in Nat /\ s \in Nat
      /\ Len(o.fields) \in Nat /\ Len(o.attributes) \in Nat /\ Len(typed.types) \in Nat
  BY <1>2, <1>4, SoundLengths DEF Sound
<1>8. /\ row.fieldStart \in Nat
      /\ Spans(Len(m.fields), row.fieldStart, row.fieldCount)
      /\ \A k \in 1 .. Len(struct.fields) : (row.fieldStart - 1) + k = Len(o.fields) + k
  <2>1. Len(m.fields) >= Len(o.fields) + Len(struct.fields)
    BY <1>0, <1>4, <1>6, <1>7
  <2> QED
    BY <1>0, <1>7, <2>1, StartOfSpans
<1>9. /\ row.attributeStart \in Nat
      /\ Spans(Len(m.attributes), row.attributeStart, row.attributeCount)
      /\ \A k \in 1 .. Len(struct.attributes) :
           (row.attributeStart - 1) + k = Len(o.attributes) + k
  <2>0. Len(m.attributes) = Len(o.attributes) + Len(struct.attributes)
    BY <1>3, <1>6
  <2>1. Len(m.attributes) >= Len(o.attributes) + Len(struct.attributes)
    BY <1>0, <1>7, <2>0
  <2> QED
    BY <1>0, <1>7, <2>1, StartOfSpans
<1>10. /\ row.type \in 1 .. Len(m.types) /\ m.types[row.type].qualified = struct.qualified
       /\ row.isComponent = struct.isComponent
       /\ row.fieldCount = Len(struct.fields) /\ row.attributeCount = Len(struct.attributes)
  <2>1. Begins(typed.types, m.types)
    BY <1>5 DEF Grown
  <2> QED
    BY <1>2, <1>7, <2>1 DEF Begins
<1>11. row \in StructRows(Len(m.types))
  BY <1>0, <1>8, <1>9, <1>10 DEF StructRows
<1> HIDE DEF row
<1>12. SaysStruct(structs, m, row, struct)
  <2>1. ASSUME NEW k \in 1 .. Len(struct.fields)
        PROVE  SaysField(m, m.fields[(row.fieldStart - 1) + k], struct.fields[k])
    BY <1>4, <1>6, <1>8
  <2>2. ASSUME NEW k \in 1 .. Len(struct.attributes)
        PROVE  SaysAttribute(structs, m, m.attributes[(row.attributeStart - 1) + k],
                             struct.attributes[k])
    <3> DEFINE i == Len(o.attributes) + k
    <3>0. Len(a.attributes) = Len(o.attributes) + Len(struct.attributes)
      BY <1>3, <1>6
    <3>1. /\ i \in 1 .. Len(a.attributes)
          /\ SaysAttribute(structs, a, a.attributes[i], struct.attributes[k])
      <4>1. i \in 1 .. Len(a.attributes)
        <5>1. Len(o.attributes) \in Nat /\ Len(struct.attributes) \in Nat
          BY <1>0, <1>7
        <5> QED
          BY <3>0, <5>1, RowAfter
      <4>2. SaysAttribute(structs, a, a.attributes[Len(typed.attributes) + k], struct.attributes[k])
        BY <1>3
      <4> QED
        BY <1>6, <4>1, <4>2
    <3>2. a.attributes[i] \in AttributeRows(Len(a.blobs), Len(a.types))
      <4>1. a.attributes \in Seq(AttributeRows(Len(a.blobs), Len(a.types)))
        BY <1>3 DEF Sound, RefersWithin
      <4> QED
        BY <3>1, <4>1
    <3>3. Begins(a.blobs, m.blobs) /\ Begins(a.types, m.types)
      BY <1>5 DEF Grown
    <3> HIDE DEF i
    <3>4. SaysAttribute(structs, m, a.attributes[i], struct.attributes[k])
      BY <1>3, <1>4, <3>1, <3>2, <3>3, SaysAttributeStill
    <3>5. (row.attributeStart - 1) + k = i
      BY <1>9 DEF i
    <3> QED
      BY <1>6, <3>4, <3>5
  <2> QED
    BY <1>10, <2>1, <2>2 DEF SaysStruct, SaysAttributes
<1>13. /\ HasTables(p) /\ p.structs = Append(m.structs, row)
       /\ p.blobs = m.blobs /\ p.types = m.types /\ p.fields = m.fields
       /\ p.fieldDefs = m.fieldDefs /\ p.functions = m.functions
       /\ p.parameters = m.parameters /\ p.attributes = m.attributes
  BY <1>1, <1>7 DEF HasTables
<1>14. /\ p.structs \in Seq(StructRows(Len(p.types))) /\ Len(p.structs) = s + 1
       /\ Begins(m.structs, p.structs) /\ p.structs[s + 1] = row
       /\ \A i \in 1 .. s : p.structs[i] = m.structs[i]
  BY <1>6, <1>7, <1>11, <1>13, AppendRows DEF RefersWithin
<1>15. RefersWithin(p)
  BY <1>7, <1>13, <1>14 DEF RefersWithin
<1>16. TypesNamed(p)
  BY <1>7, <1>13 DEF TypesNamed, IsNamed
<1>17. RangesWithin(p)
  <2>1. ASSUME NEW i \in 1 .. s + 1
        PROVE  /\ Spans(Len(m.fields), p.structs[i].fieldStart, p.structs[i].fieldCount)
               /\ Spans(Len(m.attributes), p.structs[i].attributeStart, p.structs[i].attributeCount)
    <3>1. CASE i = s + 1
      BY <1>8, <1>9, <1>14, <3>1
    <3>2. CASE i # s + 1
      <4>1. i \in 1 .. s /\ s = Len(m.structs)
        BY <1>6, <1>7, <3>2
      <4> QED
        BY <1>7, <1>14, <4>1 DEF RangesWithin
    <3> QED
      BY <3>1, <3>2
  <2> QED
    BY <1>7, <1>13, <1>14, <2>1 DEF RangesWithin
<1>18. Sound(p)
  BY <1>13, <1>15, <1>16, <1>17 DEF Sound
<1>19. Grown(m, p)
  <2>1. \A t : Len(t) \in Nat => Begins(t, t)
    BY DEF Begins
  <2> QED
    BY <1>4, <1>13, <1>14, <2>1, SoundLengths DEF Grown
<1>20. Grown(o, p)
  BY <1>4, <1>5, <1>19, GrownTransitive
<1>21. SaysStruct(structs, p, row, struct)
  BY <1>12, <1>13 DEF SaysStruct, SaysAttributes, SaysAttribute, SaysField
<1> QED
  BY <1>6, <1>13, <1>14, <1>18, <1>20, <1>21

-----------------------------------------------------------------------------
(***************************************************************************)
(* Whole tables: all structs, all functions.                                *)
(***************************************************************************)

(* Putting all structs.                                                    *)
StructStep(structs, acc, struct) == PutStruct(structs, acc, struct)
StructsPut(structs, k, acc) ==
  /\ Sound(acc) /\ acc.functions = <<>> /\ acc.parameters = <<>>
  /\ Len(acc.structs) = k
  /\ \A j \in 1 .. k : SaysStruct(structs, acc, acc.structs[j], structs[j])

StructLoop == INSTANCE Loops WITH Step <- StructStep, May <- StructsPut

(* The row of a struct refers to rows that are there.                      *)
LEMMA SoundStructRow ==
  ASSUME NEW o, Sound(o), NEW i \in 1 .. Len(o.structs)
  PROVE  /\ o.structs[i] \in StructRows(Len(o.types))
         /\ Spans(Len(o.fields), o.structs[i].fieldStart, o.structs[i].fieldCount)
         /\ Spans(Len(o.attributes), o.structs[i].attributeStart, o.structs[i].attributeCount)
<1>1. o.structs \in Seq(StructRows(Len(o.types)))
  BY DEF Sound, RefersWithin
<1> QED
  BY <1>1 DEF Sound, RangesWithin

(* The rows of all structs are there, in their order.                      *)
LEMMA PutStructsSound ==
  ASSUME NEW o, Sound(o), o.functions = <<>>, o.parameters = <<>>, o.structs = <<>>,
         NEW semantics, semantics.structs \in Seq(StructText1)
  PROVE  StructsPut(semantics.structs, Len(semantics.structs), PutStructs(semantics, o))
<1> DEFINE structs == semantics.structs
           n == Len(structs)
<1>0. n \in Nat /\ \A k \in 1 .. n : structs[k] \in StructText1
  OBVIOUS
<1>1. StructsPut(structs, 0, o)
  BY DEF StructsPut
<1>2. ASSUME NEW k \in 1 .. n, NEW m, StructsPut(structs, k - 1, m)
      PROVE  StructsPut(structs, k, StructStep(structs, m, structs[k]))
  <2> DEFINE p == PutStruct(structs, m, structs[k])
  <2>1. /\ Sound(m) /\ m.functions = <<>> /\ m.parameters = <<>> /\ Len(m.structs) = k - 1
        /\ \A j \in 1 .. k - 1 : SaysStruct(structs, m, m.structs[j], structs[j])
    BY <1>2 DEF StructsPut
  <2>2. structs[k] \in StructText1
    BY <1>0
  <2>3. /\ Sound(p) /\ Grown(m, p)
        /\ p.functions = m.functions /\ p.parameters = m.parameters
        /\ Len(p.structs) = Len(m.structs) + 1
        /\ SaysStruct(structs, p, p.structs[Len(m.structs) + 1], structs[k])
    <3> HIDE DEF structs
    <3> QED
      BY <2>1, <2>2, PutStructSound
  <2> HIDE DEF p, structs
  <2>4. k \in Nat /\ Len(m.structs) + 1 = k
    BY <1>0, <2>1
  <2>5. ASSUME NEW j \in 1 .. k
        PROVE  SaysStruct(structs, p, p.structs[j], structs[j])
    <3>1. CASE j = k
      BY <2>3, <2>4, <3>1
    <3>2. CASE j # k
      <4>1. j \in 1 .. k - 1 /\ j \in 1 .. Len(m.structs) /\ j \in 1 .. n
        BY <1>0, <2>1, <2>4, <3>2
      <4>2. p.structs[j] = m.structs[j]
        BY <2>3, <4>1 DEF Grown, Begins
      <4>3. SaysStruct(structs, m, m.structs[j], structs[j])
        BY <2>1, <4>1
      <4>4. structs[j] \in StructText1
        BY <1>0, <4>1
      <4>5. /\ m.structs[j] \in StructRows(Len(m.types))
            /\ Spans(Len(m.fields), m.structs[j].fieldStart, m.structs[j].fieldCount)
            /\ Spans(Len(m.attributes), m.structs[j].attributeStart,
                     m.structs[j].attributeCount)
        BY <2>1, <4>1, SoundStructRow
      <4> QED
        BY <2>1, <2>3, <4>2, <4>3, <4>4, <4>5, SaysStructStill
    <3> QED
      BY <3>1, <3>2
  <2>6. StructStep(structs, m, structs[k]) = p
    BY DEF StructStep, p
  <2> QED
    BY <2>1, <2>3, <2>4, <2>5, <2>6 DEF StructsPut
<1>3. StructsPut(structs, n, StructLoop!Result(structs, o, structs))
  <2> HIDE DEF structs
  <2> QED
    BY <1>0, <1>1, <1>2, StructLoop!LoopInvariant
<1>4. StructLoop!Result(structs, o, structs) = PutStructs(semantics, o)
  BY DEF StructLoop!Result, PutStructs, Fold, StructStep
<1> QED
  BY <1>3, <1>4

-----------------------------------------------------------------------------
(***************************************************************************)
(* Parameters.                                                             *)
(***************************************************************************)

ParameterTexts == [name : NameText, type : NameText, default : NameText]

SaysParameter(o, row, parameter) ==
  /\ o.blobs[row.nameBlob] = TextBlob(parameter.name)
  /\ o.types[row.type].qualified = parameter.type
  /\ parameter.default = <<>> => row.defaultBlob = 0
  /\ parameter.default # <<>> =>
       row.defaultBlob # 0 /\ o.blobs[row.defaultBlob] = TextBlob(parameter.default)

(* Blobs, types and parameters were added.                                 *)
AddsParameters(o, p) ==
  /\ Begins(o.blobs, p.blobs) /\ Begins(o.types, p.types)
  /\ Begins(o.parameters, p.parameters)
  /\ p.fields = o.fields /\ p.fieldDefs = o.fieldDefs /\ p.functions = o.functions
  /\ p.attributes = o.attributes /\ p.structs = o.structs

(* Adding parameters twice is adding parameters.                           *)
LEMMA AddsParametersTransitive ==
  ASSUME NEW o, NEW p, NEW q, Sound(o), Sound(p), AddsParameters(o, p), AddsParameters(p, q)
  PROVE  AddsParameters(o, q)
<1>1. /\ Len(o.blobs) \in Nat /\ Len(p.blobs) \in Nat
      /\ Len(o.types) \in Nat /\ Len(p.types) \in Nat
      /\ Len(o.parameters) \in Nat /\ Len(p.parameters) \in Nat
  BY SoundLengths
<1>2. /\ Begins(o.blobs, q.blobs) /\ Begins(o.types, q.types)
      /\ Begins(o.parameters, q.parameters)
  BY <1>1, BeginsTransitive DEF AddsParameters
<1> QED
  BY <1>2 DEF AddsParameters

(* A row still says what it said when parameters are added.                *)
LEMMA SaysParameterStill ==
  ASSUME NEW o, NEW p, Begins(o.blobs, p.blobs), Begins(o.types, p.types),
         NEW parameter, NEW row \in ParameterRows(Len(o.blobs), Len(o.types)),
         SaysParameter(o, row, parameter), Len(o.blobs) \in Nat
  PROVE  SaysParameter(p, row, parameter)
<1>1. /\ row.type \in 1 .. Len(o.types) /\ row.nameBlob \in 1 .. Len(o.blobs)
      /\ row.defaultBlob \in 0 .. Len(o.blobs)
  BY DEF ParameterRows
<1>2. row.defaultBlob # 0 => row.defaultBlob \in 1 .. Len(o.blobs)
  BY <1>1
<1> QED
  BY <1>1, <1>2 DEF SaysParameter, Begins

(* Putting a parameter.                                                    *)
LEMMA PutParameterSound ==
  ASSUME NEW o, Sound(o), NEW parameter \in ParameterTexts
  PROVE  LET p == PutParameter(o, parameter)
         IN  /\ Sound(p) /\ AddsParameters(o, p)
             /\ Len(p.parameters) = Len(o.parameters) + 1
             /\ SaysParameter(p, p.parameters[Len(o.parameters) + 1], parameter)
<1> DEFINE typed == EnsureType(EnsureBlob(o, TextBlob(parameter.name)), parameter.type)
           m == IF parameter.default = <<>> THEN typed
                ELSE EnsureBlob(typed, TextBlob(parameter.default))
           row == [nameBlob |-> BlobId(m, TextBlob(parameter.name)),
                   type |-> TypeId(m, parameter.type),
                   attributeStart |-> 0, attributeCount |-> 0,
                   defaultBlob |-> IF parameter.default = <<>> THEN 0
                                   ELSE BlobId(m, TextBlob(parameter.default))]
           p == PutParameter(o, parameter)
           f == Len(o.parameters)
<1> SUFFICES /\ Sound(p) /\ AddsParameters(o, p)
             /\ Len(p.parameters) = f + 1
             /\ SaysParameter(p, p.parameters[f + 1], parameter)
  OBVIOUS
<1>0. /\ parameter.name \in NameText /\ parameter.type \in NameText
      /\ parameter.default \in NameText
  BY DEF ParameterTexts
<1>1. p = [m EXCEPT !.parameters = Append(@, row)]
  BY DEF PutParameter, AppendParameter
<1> HIDE DEF p
<1>2. /\ Sound(typed) /\ Interns(o, typed)
      /\ BlobId(typed, TextBlob(parameter.name)) \in 1 .. Len(typed.blobs)
      /\ typed.blobs[BlobId(typed, TextBlob(parameter.name))] = TextBlob(parameter.name)
      /\ TypeId(typed, parameter.type) \in 1 .. Len(typed.types)
      /\ typed.types[TypeId(typed, parameter.type)].qualified = parameter.type
  BY <1>0, EnsureNamedType
<1> HIDE DEF typed
<1>3. /\ Sound(m) /\ Interns(typed, m) /\ m.types = typed.types
      /\ parameter.default # <<>> =>
           /\ BlobId(m, TextBlob(parameter.default)) \in 1 .. Len(m.blobs)
           /\ m.blobs[BlobId(m, TextBlob(parameter.default))] = TextBlob(parameter.default)
  BY <1>0, <1>2, TextBlobs, EnsureBlobSound, InternsSelf
<1> HIDE DEF m
<1>4. Interns(o, m)
  BY <1>2, <1>3, InternsTransitive
<1>5. /\ BlobId(m, TextBlob(parameter.name)) \in 1 .. Len(m.blobs)
      /\ m.blobs[BlobId(m, TextBlob(parameter.name))] = TextBlob(parameter.name)
  <2>1. Len(typed.blobs) \in Nat /\ Len(m.blobs) \in Nat /\ Begins(typed.blobs, m.blobs)
    BY <1>2, <1>3, SoundLengths DEF Interns
  <2>2. \E i \in 1 .. Len(m.blobs) : m.blobs[i] = TextBlob(parameter.name)
    BY <1>2, <2>1 DEF Begins
  <2> QED
    BY <2>1, <2>2, BlobIdFinds
<1>6. /\ TypeId(m, parameter.type) \in 1 .. Len(m.types)
      /\ m.types[TypeId(m, parameter.type)].qualified = parameter.type
  BY <1>2, <1>3 DEF TypeId
<1>7. /\ HasTables(m) /\ RefersWithin(m) /\ TypesNamed(m) /\ RangesWithin(m)
      /\ Len(m.blobs) \in Nat /\ Len(m.types) \in Nat /\ f \in Nat
      /\ m.parameters = o.parameters
  BY <1>3, <1>4, SoundLengths DEF Sound, Interns
<1>8. /\ row.nameBlob \in 1 .. Len(m.blobs) /\ row.type \in 1 .. Len(m.types)
      /\ row.defaultBlob \in 0 .. Len(m.blobs)
      /\ SaysParameter(m, row, parameter)
  <2>1. CASE parameter.default = <<>>
    BY <1>5, <1>6, <1>7, <2>1 DEF SaysParameter
  <2>2. CASE parameter.default # <<>>
    BY <1>3, <1>5, <1>6, <1>7, <2>2 DEF SaysParameter
  <2> QED
    BY <2>1, <2>2
<1>9. row \in ParameterRows(Len(m.blobs), Len(m.types))
  BY <1>8 DEF ParameterRows
<1> HIDE DEF row
<1>10. /\ HasTables(p) /\ p.parameters = Append(m.parameters, row)
       /\ p.blobs = m.blobs /\ p.types = m.types /\ p.fields = m.fields
       /\ p.fieldDefs = m.fieldDefs /\ p.functions = m.functions
       /\ p.attributes = m.attributes /\ p.structs = m.structs
  BY <1>1, <1>7 DEF HasTables
<1>11. /\ p.parameters \in Seq(ParameterRows(Len(p.blobs), Len(p.types)))
       /\ Len(p.parameters) = f + 1 /\ Begins(m.parameters, p.parameters)
       /\ p.parameters[f + 1] = row
  BY <1>7, <1>9, <1>10, AppendRows DEF RefersWithin
<1>12. RefersWithin(p)
  BY <1>7, <1>10, <1>11 DEF RefersWithin
<1>13. TypesNamed(p)
  BY <1>7, <1>10 DEF TypesNamed, IsNamed
<1>14. RangesWithin(p)
  <2>1. ASSUME NEW i \in 1 .. Len(m.functions)
        PROVE  Spans(f + 1, m.functions[i].parameterStart, m.functions[i].parameterCount)
    <3>1. m.functions[i] \in FunctionRows(Len(m.blobs))
      BY <1>7 DEF RefersWithin
    <3>2. Spans(f, m.functions[i].parameterStart, m.functions[i].parameterCount)
      BY <1>7 DEF RangesWithin
    <3>3. m.functions[i].parameterStart \in Nat /\ m.functions[i].parameterCount \in Nat
      BY <3>1 DEF FunctionRows
    <3>4. f \in Nat /\ f + 1 \in Nat /\ f <= f + 1
      BY <1>7
    <3> HIDE DEF f
    <3> QED
      BY <3>2, <3>3, <3>4, SpansMore
  <2> QED
    BY <1>7, <1>10, <1>11, <2>1 DEF RangesWithin
<1>15. Sound(p)
  BY <1>10, <1>12, <1>13, <1>14 DEF Sound
<1>16. AddsParameters(o, p)
  BY <1>4, <1>7, <1>10, <1>11 DEF AddsParameters, Interns
<1>17. SaysParameter(p, row, parameter)
  BY <1>8, <1>10 DEF SaysParameter
<1> QED
  BY <1>11, <1>15, <1>16, <1>17

(* Putting all parameters of a function.                                   *)
ParameterStep(c, acc, parameter) == PutParameter(acc, parameter)
ParametersPut(c, k, acc) ==
  /\ Sound(acc) /\ AddsParameters(c.from, acc)
  /\ Len(acc.parameters) = Len(c.from.parameters) + k
  /\ \A j \in 1 .. k :
       SaysParameter(acc, acc.parameters[Len(c.from.parameters) + j], c.parameters[j])

ParameterLoop == INSTANCE Loops WITH Step <- ParameterStep, May <- ParametersPut

(* The rows of all parameters are there, in their order.                   *)
LEMMA PutParametersSound ==
  ASSUME NEW o, Sound(o), NEW parameters \in Seq(ParameterTexts)
  PROVE  ParametersPut([from |-> o, parameters |-> parameters], Len(parameters),
                       Fold(PutParameter, o, parameters))
<1> DEFINE c == [from |-> o, parameters |-> parameters]
           n == Len(parameters)
           a == Len(o.parameters)
<1>0. n \in Nat /\ a \in Nat /\ \A k \in 1 .. n : parameters[k] \in ParameterTexts
  BY SoundLengths
<1>1. ParametersPut(c, 0, o)
  BY <1>0, SoundLengths DEF ParametersPut, AddsParameters, Begins
<1>2. ASSUME NEW k \in 1 .. n, NEW m, ParametersPut(c, k - 1, m)
      PROVE  ParametersPut(c, k, ParameterStep(c, m, parameters[k]))
  <2> DEFINE p == PutParameter(m, parameters[k])
  <2>1. /\ Sound(m) /\ AddsParameters(o, m) /\ Len(m.parameters) = a + (k - 1)
        /\ \A j \in 1 .. k - 1 : SaysParameter(m, m.parameters[a + j], parameters[j])
    BY <1>2 DEF ParametersPut
  <2>2. Len(m.parameters) + 1 = a + k /\ k \in 1 .. n
    BY <1>0, <2>1
  <2>3. /\ Sound(p) /\ AddsParameters(m, p) /\ Len(p.parameters) = Len(m.parameters) + 1
        /\ SaysParameter(p, p.parameters[Len(m.parameters) + 1], parameters[k])
    BY <1>0, <2>1, PutParameterSound
  <2> HIDE DEF p
  <2>4. AddsParameters(o, p)
    BY <2>1, <2>3, AddsParametersTransitive
  <2>5. ASSUME NEW j \in 1 .. k
        PROVE  SaysParameter(p, p.parameters[a + j], parameters[j])
    <3>1. CASE j = k
      BY <2>2, <2>3, <3>1
    <3>2. CASE j # k
      <4>1. j \in 1 .. k - 1 /\ a + j \in 1 .. Len(m.parameters)
        BY <1>0, <2>1, <3>2
      <4>2. p.parameters[a + j] = m.parameters[a + j]
        BY <2>3, <4>1 DEF AddsParameters, Begins
      <4>3. m.parameters[a + j] \in ParameterRows(Len(m.blobs), Len(m.types))
        <5>1. m.parameters \in Seq(ParameterRows(Len(m.blobs), Len(m.types)))
          BY <2>1 DEF Sound, RefersWithin
        <5> QED
          BY <4>1, <5>1
      <4>4. SaysParameter(m, m.parameters[a + j], parameters[j])
        BY <2>1, <4>1
      <4>5. Begins(m.blobs, p.blobs) /\ Begins(m.types, p.types) /\ Len(m.blobs) \in Nat
        BY <2>1, <2>3, SoundLengths DEF AddsParameters
      <4> QED
        BY <4>2, <4>3, <4>4, <4>5, SaysParameterStill
    <3> QED
      BY <3>1, <3>2
  <2>6. ParameterStep(c, m, parameters[k]) = p
    BY DEF ParameterStep, p
  <2>7. Len(p.parameters) = a + k
    BY <2>2, <2>3
  <2> QED
    BY <2>3, <2>4, <2>5, <2>6, <2>7 DEF ParametersPut
<1>3. ParametersPut(c, n, ParameterLoop!Result(c, o, parameters))
  <2> HIDE DEF c
  <2> QED
    BY <1>0, <1>1, <1>2, ParameterLoop!LoopInvariant
<1>4. ParameterLoop!Result(c, o, parameters) = Fold(PutParameter, o, parameters)
  BY DEF ParameterLoop!Result, Fold, ParameterStep
<1> QED
  BY <1>3, <1>4

-----------------------------------------------------------------------------
(***************************************************************************)
(* Functions.                                                              *)
(***************************************************************************)

ReturnsFirst(function) ==
  <<[name |-> function.returns, data |-> <<>>]>> \o function.attributes

SaysFunction(structs, o, row, function) ==
  /\ o.blobs[row.namespaceBlob] = TextBlob(function.namespace)
  /\ o.blobs[row.nameBlob] = TextBlob(function.name)
  /\ row.parameterCount = Len(function.parameters)
  /\ row.attributeCount = Len(function.attributes) + 1
  /\ \A k \in 1 .. Len(function.parameters) :
       SaysParameter(o, o.parameters[(row.parameterStart - 1) + k], function.parameters[k])
  /\ SaysAttributes(structs, o, row, ReturnsFirst(function))

(* The attributes of a function are one more: core.Returns comes first.    *)
LEMMA FirstReturns ==
  ASSUME NEW function, IsFunctionText(function)
  PROVE  /\ ReturnsFirst(function) \in Seq(AttributeText1)
         /\ Len(ReturnsFirst(function)) = Len(function.attributes) + 1
         /\ ReturnsFirst(function)[1] = [name |-> function.returns, data |-> <<>>]
         /\ \A k \in 1 .. Len(function.attributes) :
              ReturnsFirst(function)[k + 1] = function.attributes[k]
<1> DEFINE first == [name |-> function.returns, data |-> <<>>]
<1>1. <<>> \in NameText
  BY DEF NameText
<1>2. function.returns \in NameText /\ function.attributes \in Seq(AttributeText1)
  BY DEF IsFunctionText
<1>3. first \in AttributeText1
  BY <1>1, <1>2 DEF AttributeText1
<1> HIDE DEF first
<1>4. <<first>> \in Seq(AttributeText1) /\ Len(<<first>>) = 1 /\ <<first>>[1] = first
  BY <1>3
<1>5. ReturnsFirst(function) = <<first>> \o function.attributes
  BY DEF ReturnsFirst, first
<1>6. /\ ReturnsFirst(function) \in Seq(AttributeText1)
      /\ Len(ReturnsFirst(function)) = 1 + Len(function.attributes)
      /\ ReturnsFirst(function)[1] = first
      /\ \A k \in 1 .. Len(function.attributes) :
           ReturnsFirst(function)[1 + k] = function.attributes[k]
  BY <1>2, <1>4, <1>5
<1>7. Len(function.attributes) \in Nat
  BY <1>2
<1> QED
  BY <1>6, <1>7 DEF first

(* Tables with new parameters have grown.                                  *)
LEMMA ParametersAddedIsGrown ==
  ASSUME NEW o, NEW p, Sound(o), AddsParameters(o, p)
  PROVE  Grown(o, p)
<1>1. \A s : Len(s) \in Nat => Begins(s, s)
  BY DEF Begins
<1> QED
  BY <1>1, SoundLengths DEF AddsParameters, Grown

(* The row of a function refers to rows that are there.                    *)
LEMMA SoundFunctionRow ==
  ASSUME NEW o, Sound(o), NEW i \in 1 .. Len(o.functions)
  PROVE  /\ o.functions[i] \in FunctionRows(Len(o.blobs))
         /\ Spans(Len(o.parameters), o.functions[i].parameterStart, o.functions[i].parameterCount)
         /\ Spans(Len(o.attributes), o.functions[i].attributeStart, o.functions[i].attributeCount)
<1>1. o.functions \in Seq(FunctionRows(Len(o.blobs)))
  BY DEF Sound, RefersWithin
<1> QED
  BY <1>1 DEF Sound, RangesWithin

(* The row of a function still says what it said in grown tables.          *)
LEMMA SaysFunctionStill ==
  ASSUME NEW o, NEW p, Sound(o), Sound(p), Grown(o, p), NEW structs,
         NEW function, IsFunctionText(function), NEW row \in FunctionRows(Len(o.blobs)),
         Spans(Len(o.parameters), row.parameterStart, row.parameterCount),
         Spans(Len(o.attributes), row.attributeStart, row.attributeCount),
         SaysFunction(structs, o, row, function)
  PROVE  SaysFunction(structs, p, row, function)
<1>1. /\ row.namespaceBlob \in 1 .. Len(o.blobs) /\ row.nameBlob \in 1 .. Len(o.blobs)
      /\ row.parameterStart \in Nat /\ row.parameterCount \in Nat
      /\ row.attributeStart \in Nat /\ row.attributeCount \in Nat
  BY DEF FunctionRows
<1>2. /\ o.blobs[row.namespaceBlob] = TextBlob(function.namespace)
      /\ o.blobs[row.nameBlob] = TextBlob(function.name)
      /\ row.parameterCount = Len(function.parameters)
      /\ row.attributeCount = Len(function.attributes) + 1
      /\ \A k \in 1 .. Len(function.parameters) :
           SaysParameter(o, o.parameters[(row.parameterStart - 1) + k], function.parameters[k])
      /\ SaysAttributes(structs, o, row, ReturnsFirst(function))
  BY DEF SaysFunction
<1>3. /\ p.blobs[row.namespaceBlob] = o.blobs[row.namespaceBlob]
      /\ p.blobs[row.nameBlob] = o.blobs[row.nameBlob]
  BY <1>1 DEF Grown, Begins
<1>4. SaysAttributes(structs, p, row, ReturnsFirst(function))
  BY <1>1, <1>2, FirstReturns, SaysAttributesStill
<1>5. ASSUME NEW k \in 1 .. Len(function.parameters)
      PROVE  SaysParameter(p, p.parameters[(row.parameterStart - 1) + k], function.parameters[k])
  <2> DEFINE i == (row.parameterStart - 1) + k
  <2>1. i \in 1 .. Len(o.parameters)
    BY <1>1, <1>2, SoundLengths, SpanRows
  <2>2. SaysParameter(o, o.parameters[i], function.parameters[k])
    BY <1>2
  <2> HIDE DEF i
  <2>3. p.parameters[i] = o.parameters[i]
    BY <2>1 DEF Grown, Begins
  <2>4. o.parameters[i] \in ParameterRows(Len(o.blobs), Len(o.types))
    <3>1. o.parameters \in Seq(ParameterRows(Len(o.blobs), Len(o.types)))
      BY DEF Sound, RefersWithin
    <3> QED
      BY <2>1, <3>1
  <2>5. Begins(o.blobs, p.blobs) /\ Begins(o.types, p.types) /\ Len(o.blobs) \in Nat
    BY SoundLengths DEF Grown
  <2>6. SaysParameter(p, p.parameters[i], function.parameters[k])
    BY <2>2, <2>3, <2>4, <2>5, SaysParameterStill
  <2> QED
    BY <2>6 DEF i
<1> QED
  BY <1>2, <1>3, <1>4, <1>5 DEF SaysFunction

(* Putting a function.                                                     *)
LEMMA PutFunctionSound ==
  ASSUME NEW o, Sound(o), NEW structs, NEW function, IsFunctionText(function)
  PROVE  LET p == PutFunction(structs, o, function)
         IN  /\ Sound(p) /\ Grown(o, p) /\ p.structs = o.structs
             /\ Len(p.functions) = Len(o.functions) + 1
             /\ SaysFunction(structs, p, p.functions[Len(o.functions) + 1], function)
<1> DEFINE named == EnsureTexts(o, function.namespace, function.name)
           row == [namespaceBlob |-> BlobId(named, TextBlob(function.namespace)),
                   nameBlob |-> BlobId(named, TextBlob(function.name)),
                   parameterStart |-> StartOf(o.parameters, Len(function.parameters)),
                   parameterCount |-> Len(function.parameters),
                   attributeStart |-> Len(o.attributes) + 1,
                   attributeCount |-> Len(function.attributes) + 1,
                   body |-> 0]
           attributes == ReturnsFirst(function)
           a == PutAttributes(structs, named, attributes)
           m == Fold(PutParameter, a, function.parameters)
           p == PutFunction(structs, o, function)
           s == Len(o.functions)
<1> SUFFICES /\ Sound(p) /\ Grown(o, p) /\ p.structs = o.structs
             /\ Len(p.functions) = s + 1
             /\ SaysFunction(structs, p, p.functions[s + 1], function)
  OBVIOUS
<1>0. /\ function.namespace \in NameText /\ function.name \in NameText
      /\ function.parameters \in Seq(ParameterTexts) /\ Len(function.parameters) \in Nat
      /\ Len(function.attributes) \in Nat
  BY DEF IsFunctionText, ParameterTexts
<1>1. p = [m EXCEPT !.functions = Append(@, row)]
  BY DEF PutFunction, ReturnsFirst
<1>a. /\ attributes \in Seq(AttributeText1) /\ Len(attributes) = Len(function.attributes) + 1
      /\ Len(attributes) \in Nat
  <2>1. attributes \in Seq(AttributeText1) /\ Len(attributes) = Len(function.attributes) + 1
    BY FirstReturns
  <2> HIDE DEF attributes
  <2> QED
    BY <1>0, <2>1
<1> HIDE DEF p, attributes
<1>2. /\ Sound(named) /\ Interns(o, named)
      /\ BlobId(named, TextBlob(function.namespace)) \in 1 .. Len(named.blobs)
      /\ named.blobs[BlobId(named, TextBlob(function.namespace))] = TextBlob(function.namespace)
      /\ BlobId(named, TextBlob(function.name)) \in 1 .. Len(named.blobs)
      /\ named.blobs[BlobId(named, TextBlob(function.name))] = TextBlob(function.name)
  <2>1. /\ Sound(named) /\ Interns(o, named)
        /\ HasTexts(named, function.namespace, function.name)
    BY ONLY Sound(o), <1>0, EnsureTextsSound DEF named
  <2> HIDE DEF named
  <2> QED
    BY ONLY <2>1 DEF HasTexts
<1> HIDE DEF named
<1>3. /\ Sound(a) /\ AddsAttributes(named, a)
      /\ Len(a.attributes) = Len(named.attributes) + Len(attributes)
      /\ \A j \in 1 .. Len(attributes) :
           SaysAttribute(structs, a, a.attributes[Len(named.attributes) + j], attributes[j])
  BY <1>2, <1>a, PutAttributesSound DEF AttributesPut
<1> HIDE DEF a
<1>4. /\ Sound(m) /\ AddsParameters(a, m)
      /\ Len(m.parameters) = Len(a.parameters) + Len(function.parameters)
      /\ \A j \in 1 .. Len(function.parameters) :
           SaysParameter(m, m.parameters[Len(a.parameters) + j], function.parameters[j])
  BY <1>0, <1>3, PutParametersSound DEF ParametersPut
<1> HIDE DEF m
<1>5. Grown(o, named) /\ Grown(named, a) /\ Grown(a, m) /\ Grown(o, m) /\ Grown(named, m)
  <2>1. Grown(o, named) /\ Grown(named, a) /\ Grown(a, m)
    BY <1>2, <1>3, <1>4, AddedIsGrown, ParametersAddedIsGrown
  <2>2. Grown(named, m)
    BY <1>2, <1>3, <2>1, GrownTransitive
  <2> QED
    BY <1>2, <2>1, <2>2, GrownTransitive
<1>6. /\ m.functions = o.functions /\ m.structs = o.structs
      /\ a.parameters = o.parameters /\ named.attributes = o.attributes
      /\ m.attributes = a.attributes
  BY <1>2, <1>3, <1>4 DEF Interns, AddsAttributes, AddsParameters
<1>7. /\ HasTables(m) /\ RefersWithin(m) /\ TypesNamed(m) /\ RangesWithin(m)
      /\ Len(m.blobs) \in Nat /\ Len(m.types) \in Nat /\ Len(m.parameters) \in Nat
      /\ Len(m.attributes) \in Nat /\ s \in Nat
      /\ Len(o.parameters) \in Nat /\ Len(o.attributes) \in Nat /\ Len(named.blobs) \in Nat
  BY <1>2, <1>4, SoundLengths DEF Sound
<1>8. /\ row.parameterStart \in Nat
      /\ Spans(Len(m.parameters), row.parameterStart, row.parameterCount)
      /\ \A k \in 1 .. Len(function.parameters) :
           (row.parameterStart - 1) + k = Len(o.parameters) + k
  <2>1. Len(m.parameters) >= Len(o.parameters) + Len(function.parameters)
    BY <1>0, <1>4, <1>6, <1>7
  <2> QED
    BY <1>0, <1>7, <2>1, StartOfSpans
<1>9. /\ row.attributeStart \in Nat
      /\ Spans(Len(m.attributes), row.attributeStart, row.attributeCount)
      /\ \A k \in 1 .. Len(attributes) :
           (row.attributeStart - 1) + k = Len(o.attributes) + k
  <2>0. Len(m.attributes) = Len(o.attributes) + Len(attributes)
    BY <1>3, <1>6
  <2>1. Len(o.attributes) \in Nat /\ Len(m.attributes) = Len(o.attributes) + (Len(function.attributes) + 1)
    BY <1>7, <1>a, <2>0
  <2>2. row.attributeStart = Len(o.attributes) + 1 /\ row.attributeCount = Len(function.attributes) + 1
    OBVIOUS
  <2> HIDE DEF row
  <2> QED
    BY <1>0, <2>1, <2>2 DEF Spans
<1>10. /\ row.namespaceBlob \in 1 .. Len(m.blobs)
       /\ m.blobs[row.namespaceBlob] = TextBlob(function.namespace)
       /\ row.nameBlob \in 1 .. Len(m.blobs)
       /\ m.blobs[row.nameBlob] = TextBlob(function.name)
       /\ row.parameterCount = Len(function.parameters)
       /\ row.attributeCount = Len(function.attributes) + 1
       /\ row.body = 0
  <2>1. Begins(named.blobs, m.blobs)
    BY <1>5 DEF Grown
  <2> QED
    BY <1>2, <1>7, <2>1 DEF Begins
<1>11. row \in FunctionRows(Len(m.blobs))
  BY <1>0, <1>8, <1>9, <1>10 DEF FunctionRows
<1> HIDE DEF row
<1>12. SaysFunction(structs, m, row, function)
  <2>1. ASSUME NEW k \in 1 .. Len(function.parameters)
        PROVE  SaysParameter(m, m.parameters[(row.parameterStart - 1) + k],
                             function.parameters[k])
    BY <1>4, <1>6, <1>8
  <2>2. ASSUME NEW k \in 1 .. Len(attributes)
        PROVE  SaysAttribute(structs, m, m.attributes[(row.attributeStart - 1) + k],
                             attributes[k])
    <3> DEFINE i == Len(o.attributes) + k
    <3>0. Len(a.attributes) = Len(o.attributes) + Len(attributes)
      BY <1>3, <1>6
    <3>1. /\ i \in 1 .. Len(a.attributes)
          /\ SaysAttribute(structs, a, a.attributes[i], attributes[k])
      <4>1. i \in 1 .. Len(a.attributes)
        BY <1>7, <1>a, <3>0, RowAfter
      <4>2. SaysAttribute(structs, a, a.attributes[Len(named.attributes) + k], attributes[k])
        BY <1>3
      <4> QED
        BY <1>6, <4>1, <4>2
    <3>2. a.attributes[i] \in AttributeRows(Len(a.blobs), Len(a.types))
      <4>1. a.attributes \in Seq(AttributeRows(Len(a.blobs), Len(a.types)))
        BY <1>3 DEF Sound, RefersWithin
      <4> QED
        BY <3>1, <4>1
    <3>3. Begins(a.blobs, m.blobs) /\ Begins(a.types, m.types)
      BY <1>5 DEF Grown
    <3> HIDE DEF i
    <3>4. SaysAttribute(structs, m, a.attributes[i], attributes[k])
      BY <1>3, <1>4, <3>1, <3>2, <3>3, SaysAttributeStill
    <3>5. (row.attributeStart - 1) + k = i
      BY <1>9 DEF i
    <3> QED
      BY <1>6, <3>4, <3>5
  <2>3. SaysAttributes(structs, m, row, ReturnsFirst(function))
    BY <2>2 DEF SaysAttributes, attributes
  <2> QED
    BY <1>10, <2>1, <2>3 DEF SaysFunction
<1>13. /\ HasTables(p) /\ p.functions = Append(m.functions, row)
       /\ p.blobs = m.blobs /\ p.types = m.types /\ p.fields = m.fields
       /\ p.fieldDefs = m.fieldDefs /\ p.structs = m.structs
       /\ p.parameters = m.parameters /\ p.attributes = m.attributes
  BY <1>1, <1>7 DEF HasTables
<1>14. /\ p.functions \in Seq(FunctionRows(Len(p.blobs))) /\ Len(p.functions) = s + 1
       /\ Begins(m.functions, p.functions) /\ p.functions[s + 1] = row
       /\ \A i \in 1 .. s : p.functions[i] = m.functions[i]
  BY <1>6, <1>7, <1>11, <1>13, AppendRows DEF RefersWithin
<1>15. RefersWithin(p)
  BY <1>7, <1>13, <1>14 DEF RefersWithin
<1>16. TypesNamed(p)
  BY <1>7, <1>13 DEF TypesNamed, IsNamed
<1>17. RangesWithin(p)
  <2>1. ASSUME NEW i \in 1 .. s + 1
        PROVE  /\ Spans(Len(m.parameters), p.functions[i].parameterStart,
                        p.functions[i].parameterCount)
               /\ Spans(Len(m.attributes), p.functions[i].attributeStart,
                        p.functions[i].attributeCount)
    <3>1. CASE i = s + 1
      BY <1>8, <1>9, <1>14, <3>1
    <3>2. CASE i # s + 1
      <4>1. i \in 1 .. s /\ s = Len(m.functions)
        BY <1>6, <1>7, <3>2
      <4> QED
        BY <1>7, <1>14, <4>1 DEF RangesWithin
    <3> QED
      BY <3>1, <3>2
  <2> QED
    BY <1>7, <1>13, <1>14, <2>1 DEF RangesWithin
<1>18. Sound(p)
  BY <1>13, <1>15, <1>16, <1>17 DEF Sound
<1>19. Grown(m, p)
  <2>1. \A t : Len(t) \in Nat => Begins(t, t)
    BY DEF Begins
  <2> QED
    BY <1>4, <1>13, <1>14, <2>1, SoundLengths DEF Grown
<1>20. Grown(o, p)
  BY <1>4, <1>5, <1>19, GrownTransitive
<1>21. SaysFunction(structs, p, row, function)
  BY <1>12, <1>13 DEF SaysFunction, SaysAttributes, SaysAttribute, SaysParameter
<1> QED
  BY <1>6, <1>13, <1>14, <1>18, <1>20, <1>21

(* Putting all functions.                                                  *)
FunctionStep(c, acc, function) == PutFunction(c.structs, acc, function)
FunctionsPut(c, k, acc) ==
  /\ Sound(acc) /\ Grown(c.from, acc) /\ acc.structs = c.from.structs
  /\ Len(acc.functions) = k
  /\ \A j \in 1 .. k : SaysFunction(c.structs, acc, acc.functions[j], c.functions[j])

FunctionLoop == INSTANCE Loops WITH Step <- FunctionStep, May <- FunctionsPut

(* The rows of all functions are there, in their order.                    *)
LEMMA PutFunctionsSound ==
  ASSUME NEW o, Sound(o), o.functions = <<>>, NEW semantics,
         Len(semantics.functions) \in Nat,
         \A i \in 1 .. Len(semantics.functions) : IsFunctionText(semantics.functions[i])
  PROVE  FunctionsPut([structs |-> semantics.structs, from |-> o,
                       functions |-> semantics.functions],
                      Len(semantics.functions), PutFunctions(semantics, o))
<1> DEFINE structs == semantics.structs
           functions == semantics.functions
           c == [structs |-> structs, from |-> o, functions |-> functions]
           n == Len(functions)
<1>0. n \in Nat /\ \A k \in 1 .. n : IsFunctionText(functions[k])
  OBVIOUS
<1>1. FunctionsPut(c, 0, o)
  BY SoundLengths DEF FunctionsPut, Grown, Begins
<1>2. ASSUME NEW k \in 1 .. n, NEW m, FunctionsPut(c, k - 1, m)
      PROVE  FunctionsPut(c, k, FunctionStep(c, m, functions[k]))
  <2> DEFINE p == PutFunction(structs, m, functions[k])
  <2>1. /\ Sound(m) /\ Grown(o, m) /\ m.structs = o.structs /\ Len(m.functions) = k - 1
        /\ \A j \in 1 .. k - 1 : SaysFunction(structs, m, m.functions[j], functions[j])
    BY <1>2 DEF FunctionsPut
  <2>2. IsFunctionText(functions[k])
    BY <1>0
  <2>3. /\ Sound(p) /\ Grown(m, p) /\ p.structs = m.structs
        /\ Len(p.functions) = Len(m.functions) + 1
        /\ SaysFunction(structs, p, p.functions[Len(m.functions) + 1], functions[k])
    <3> HIDE DEF structs, functions
    <3> QED
      BY <2>1, <2>2, PutFunctionSound
  <2> HIDE DEF p, structs, functions
  <2>4. k \in Nat /\ Len(m.functions) + 1 = k
    BY <1>0, <2>1
  <2>5. ASSUME NEW j \in 1 .. k
        PROVE  SaysFunction(structs, p, p.functions[j], functions[j])
    <3>1. CASE j = k
      BY <2>3, <2>4, <3>1
    <3>2. CASE j # k
      <4>1. j \in 1 .. k - 1 /\ j \in 1 .. Len(m.functions) /\ j \in 1 .. n
        BY <1>0, <2>1, <2>4, <3>2
      <4>2. p.functions[j] = m.functions[j]
        BY <2>3, <4>1 DEF Grown, Begins
      <4>3. SaysFunction(structs, m, m.functions[j], functions[j])
        BY <2>1, <4>1
      <4>4. IsFunctionText(functions[j])
        BY <1>0, <4>1
      <4>5. /\ m.functions[j] \in FunctionRows(Len(m.blobs))
            /\ Spans(Len(m.parameters), m.functions[j].parameterStart,
                     m.functions[j].parameterCount)
            /\ Spans(Len(m.attributes), m.functions[j].attributeStart,
                     m.functions[j].attributeCount)
        BY <2>1, <4>1, SoundFunctionRow
      <4> QED
        BY <2>1, <2>3, <4>2, <4>3, <4>4, <4>5, SaysFunctionStill
    <3> QED
      BY <3>1, <3>2
  <2>6. FunctionStep(c, m, functions[k]) = p
    BY DEF FunctionStep, p
  <2>7. Grown(o, p)
    BY <2>1, <2>3, GrownTransitive
  <2> QED
    BY <2>1, <2>3, <2>4, <2>5, <2>6, <2>7 DEF FunctionsPut
<1>3. FunctionsPut(c, n, FunctionLoop!Result(c, o, functions))
  <2> HIDE DEF c, functions
  <2> QED
    BY <1>0, <1>1, <1>2, FunctionLoop!LoopInvariant
<1>4. FunctionLoop!Result(c, o, functions) = PutFunctions(semantics, o)
  BY DEF FunctionLoop!Result, PutFunctions, Fold, FunctionStep
<1> QED
  BY <1>3, <1>4

-----------------------------------------------------------------------------
(***************************************************************************)
(* The tables of a module say what its declarations do.                    *)
(***************************************************************************)

Says(o, semantics) ==
  /\ Len(o.structs) = Len(semantics.structs)
  /\ \A j \in 1 .. Len(o.structs) :
       SaysStruct(semantics.structs, o, o.structs[j], semantics.structs[j])
  /\ Len(o.functions) = Len(semantics.functions)
  /\ \A j \in 1 .. Len(o.functions) :
       SaysFunction(semantics.structs, o, o.functions[j], semantics.functions[j])

(* The empty tables are sound.                                             *)
LEMMA NoTablesSound == Sound(NoTables)
<1>1. \A S : <<>> \in Seq(S)
  OBVIOUS
<1>2. RefersWithin(NoTables)
  BY <1>1 DEF NoTables, RefersWithin
<1>3. Len(<<>>) = 0
  OBVIOUS
<1> QED
  BY <1>2, <1>3 DEF NoTables, Sound, HasTables, TypesNamed, RangesWithin

(* Whatever was declared: every reference in the tables is to a row that   *)
(* is there, every type and blob is there once, and the rows of each       *)
(* struct and function say what it says (ecs_generator.c 1489-2562).       *)
THEOREM TablesSayWhatIsDeclared ==
  ASSUME NEW semantics, Declares(semantics)
  PROVE  Sound(DeclaredTables(semantics)) /\ Says(DeclaredTables(semantics), semantics)
<1> DEFINE o == EnsureBlob(NoTables, TextBlob(<<>>))
           s == PutStructs(semantics, o)
           p == PutFunctions(semantics, s)
           structs == semantics.structs
           functions == semantics.functions
<1>1. /\ structs \in Seq(StructText1) /\ functions \in Seq(Range(functions))
      /\ \A i \in DOMAIN functions : IsFunctionText(functions[i])
  BY DEF Declares, IsSequence
<1>2. Len(functions) \in Nat /\ Len(structs) \in Nat /\ DOMAIN functions = 1 .. Len(functions)
  BY <1>1
<1>3. TextBlob(<<>>) \in Blobs
  <2>1. <<>> \in NameText
    BY DEF NameText
  <2> QED
    BY <2>1, TextBlobs
<1>4. Sound(o) /\ Interns(NoTables, o)
  BY <1>3, NoTablesSound, EnsureBlobSound
<1>5. o.functions = <<>> /\ o.parameters = <<>> /\ o.structs = <<>>
  BY <1>4 DEF Interns, NoTables
<1> HIDE DEF o
<1>6. StructsPut(structs, Len(structs), s)
  BY <1>1, <1>4, <1>5, PutStructsSound
<1> HIDE DEF s
<1>7. /\ Sound(s) /\ s.functions = <<>> /\ Len(s.structs) = Len(structs)
      /\ \A j \in 1 .. Len(structs) : SaysStruct(structs, s, s.structs[j], structs[j])
  BY <1>6 DEF StructsPut
<1>8. FunctionsPut([structs |-> structs, from |-> s, functions |-> functions],
                   Len(functions), p)
  BY <1>1, <1>2, <1>7, PutFunctionsSound
<1> HIDE DEF p
<1>9. /\ Sound(p) /\ Grown(s, p) /\ p.structs = s.structs /\ Len(p.functions) = Len(functions)
      /\ \A j \in 1 .. Len(functions) : SaysFunction(structs, p, p.functions[j], functions[j])
  BY <1>8 DEF FunctionsPut
<1>10. ASSUME NEW j \in 1 .. Len(structs)
       PROVE  SaysStruct(structs, p, p.structs[j], structs[j])
  <2>1. structs[j] \in StructText1
    BY <1>1
  <2>2. /\ s.structs[j] \in StructRows(Len(s.types))
        /\ Spans(Len(s.fields), s.structs[j].fieldStart, s.structs[j].fieldCount)
        /\ Spans(Len(s.attributes), s.structs[j].attributeStart, s.structs[j].attributeCount)
    BY <1>7, SoundStructRow
  <2>3. SaysStruct(structs, s, s.structs[j], structs[j])
    BY <1>7
  <2> HIDE DEF structs
  <2> QED
    BY <1>7, <1>9, <2>1, <2>2, <2>3, SaysStructStill
<1>11. p = DeclaredTables(semantics)
  BY DEF p, s, o, DeclaredTables
<1> QED
  BY <1>7, <1>9, <1>10, <1>11 DEF Says

-----------------------------------------------------------------------------
(***************************************************************************)
(* The file.                                                               *)
(***************************************************************************)

LEMMA SectionPlaces ==
  /\ DOMAIN Sections = 1 .. 8 /\ Len(Sections) = 8
  /\ Range(Sections) = {"types", "fields", "structs", "fieldDefs", "functions", "parameters",
                        "attributes", "blobs"}
  /\ \A k \in 1 .. 8 : Position(Sections[k]) = k
  /\ Sections[8] = "blobs" /\ Position("blobs") = 8
<1>1. DOMAIN Sections = 1 .. 8 /\ Len(Sections) = 8 /\ Sections[8] = "blobs"
  BY DEF Sections
<1>2. Range(Sections) = {"types", "fields", "structs", "fieldDefs", "functions", "parameters",
                         "attributes", "blobs"}
  BY DEF Range, Sections
<1>3. ASSUME NEW k \in 1 .. 8, NEW j \in 1 .. 8, Sections[k] = Sections[j]
      PROVE  k = j
  BY <1>3 DEF Sections
<1>4. ASSUME NEW k \in 1 .. 8
      PROVE  Position(Sections[k]) = k
  BY <1>1, <1>3 DEF Position
<1> QED
  BY <1>1, <1>2, <1>4

(* The sections before a section are the first ones.                       *)
LEMMA Preceding ==
  ASSUME NEW m \in Nat, NEW k \in 1 .. m
  PROVE  k \in 0 .. m /\ k - 1 \in 0 .. m
  OBVIOUS

(* Every section and every blob has its place in the file, and the last    *)
(* blob ends where the file does.                                          *)
LEMMA FileLayout ==
  ASSUME NEW l, \A s \in Range(Sections) : Len(l[s]) \in Nat,
         Len(l.blobs) \in Nat, DOMAIN l.blobs = 1 .. Len(l.blobs)
  PROVE  LET f == FileOf(l)
             n == Len(l.blobs)
         IN  /\ f.rows = l /\ f.size \in Nat /\ f.size >= 1
             /\ \A s \in Range(Sections) : SectionReads(f, s)
             /\ BlobDataOffset(f) \in Nat /\ BlobDataOffset(f) <= f.size
             /\ DOMAIN f.ranges = 1 .. n
             /\ \A i \in 1 .. n : f.ranges[i].offset \in Nat /\ f.ranges[i].length \in Nat
             /\ \A i \in 1 .. n :
                  BlobDataOffset(f) + f.ranges[i].offset + f.ranges[i].length <= f.size
             /\ n = 0 => BlobDataOffset(f) = f.size
             /\ n # 0 => BlobDataOffset(f) + f.ranges[n].offset + f.ranges[n].length = f.size
<1> DEFINE f == FileOf(l)
           n == Len(l.blobs)
           counts == [k \in DOMAIN Sections |-> Len(l[Sections[k]])]
           ends == PrefixSums(counts)
           lengths == Map(BlobLength, l.blobs)
           data == PrefixSums(lengths)
<1>1. f = [offset |-> [s \in Range(Sections) |-> 1 + ends[Position(s) - 1]],
           count |-> [s \in Range(Sections) |-> Len(l[s])],
           rows |-> l,
           ranges |-> [i \in DOMAIN l.blobs |-> [offset |-> data[i - 1], length |-> lengths[i]]],
           size |-> 1 + ends[Len(Sections)] + data[Len(l.blobs)]]
  BY DEF FileOf
<1> HIDE DEF f
<1>2. counts \in Seq(Nat) /\ Len(counts) = 8 /\ \A k \in 1 .. 8 : counts[k] = Len(l[Sections[k]])
  <2>1. counts = [k \in 1 .. 8 |-> Len(l[Sections[k]])]
    BY SectionPlaces
  <2>2. \A k \in 1 .. 8 : Sections[k] \in Range(Sections)
    BY SectionPlaces DEF Sections
  <2>3. \A k \in 1 .. 8 : Len(l[Sections[k]]) \in Nat
    BY <2>2
  <2> HIDE DEF counts
  <2> QED
    BY <2>1, <2>3
<1>3. lengths \in Seq(Nat) /\ Len(lengths) = n
  <2>1. lengths = [i \in 1 .. n |-> BlobLength(l.blobs[i])]
    BY DEF Map
  <2>2. \A i \in 1 .. n : BlobLength(l.blobs[i]) \in Nat
    BY DEF BlobLength
  <2> HIDE DEF lengths
  <2> QED
    BY <2>1, <2>2
<1> HIDE DEF counts, lengths
<1>4. /\ ends \in [0 .. 8 -> Nat]
      /\ \A k \in 1 .. 8 : ends[k] = ends[k - 1] + Len(l[Sections[k]])
      /\ \A k \in 0 .. 8 : ends[k] <= ends[8]
  <2>1. \A k \in 0 .. 8 : 8 \in k .. 8
    OBVIOUS
  <2> QED
    BY <1>2, <2>1, PrefixSumsAdd, PrefixSumsMonotone
<1>5. /\ data \in [0 .. n -> Nat] /\ data[0] = 0
      /\ \A i \in 1 .. n : data[i] = data[i - 1] + lengths[i]
      /\ \A i \in 0 .. n : data[i] <= data[n]
  <2>1. \A k \in 0 .. n : n \in k .. n
    OBVIOUS
  <2> QED
    BY <1>3, <2>1, PrefixSumsAdd, PrefixSumsMonotone
<1> HIDE DEF ends, data
<1>6. /\ f.rows = l /\ f.size = (1 + ends[8]) + data[n] /\ DOMAIN f.ranges = 1 .. n
      /\ \A i \in 1 .. n : f.ranges[i].offset = data[i - 1] /\ f.ranges[i].length = lengths[i]
      /\ \A s \in Range(Sections) : /\ f.offset[s] = 1 + ends[Position(s) - 1]
                                    /\ f.count[s] = Len(l[s])
  BY <1>1, SectionPlaces
<1>7. ends[8] \in Nat /\ data[n] \in Nat /\ n \in Nat
  <2>1. 8 \in 0 .. 8 /\ n \in 0 .. n
    OBVIOUS
  <2> QED
    BY <1>4, <1>5, <2>1
<1>8. ASSUME NEW k \in 1 .. 8
      PROVE  /\ f.offset[Sections[k]] + f.count[Sections[k]] = 1 + ends[k]
             /\ ends[k] <= ends[8] /\ ends[k] \in Nat
  <2>1. Sections[k] \in Range(Sections) /\ Position(Sections[k]) = k
    BY SectionPlaces DEF Sections
  <2>2. /\ f.offset[Sections[k]] = 1 + ends[k - 1]
        /\ f.count[Sections[k]] = Len(l[Sections[k]])
    BY <1>6, <2>1
  <2>3. ends[k - 1] \in Nat /\ Len(l[Sections[k]]) \in Nat
    <3>1. k - 1 \in 0 .. 8
      OBVIOUS
    <3> QED
      BY <1>4, <2>1, <3>1
  <2>4. ends[k] = ends[k - 1] + Len(l[Sections[k]]) /\ ends[k] <= ends[8] /\ ends[k] \in Nat
    <3>1. k \in 0 .. 8
      OBVIOUS
    <3> QED
      BY <1>4, <3>1
  <2> QED
    BY <2>2, <2>3, <2>4
<1>9. BlobDataOffset(f) = 1 + ends[8]
  BY <1>8, SectionPlaces DEF BlobDataOffset
<1>10. ASSUME NEW s \in Range(Sections)
       PROVE  SectionReads(f, s)
  <2>1. PICK k \in 1 .. 8 : s = Sections[k]
    BY SectionPlaces DEF Range
  <2>2. f.offset[s] + f.count[s] = 1 + ends[k] /\ ends[k] <= ends[8] /\ ends[k] \in Nat
    BY <1>8, <2>1
  <2>3. f.offset[s] + f.count[s] <= f.size
    BY <1>6, <1>7, <2>2
  <2> QED
    BY <2>3 DEF SectionReads
<1>11. ASSUME NEW i \in 1 .. n
       PROVE  /\ f.ranges[i].offset \in Nat /\ f.ranges[i].length \in Nat
              /\ BlobDataOffset(f) + f.ranges[i].offset + f.ranges[i].length
                   = (1 + ends[8]) + data[i]
              /\ data[i] <= data[n] /\ data[i] \in Nat
  <2>1. data[i - 1] \in Nat /\ lengths[i] \in Nat /\ data[i] = data[i - 1] + lengths[i]
    <3>1. i - 1 \in 0 .. n
      BY Preceding
    <3> QED
      BY <1>3, <1>5, <3>1
  <2>2. data[i] <= data[n] /\ data[i] \in Nat
    <3>1. i \in 0 .. n
      BY Preceding
    <3> QED
      BY <1>5, <3>1
  <2>3. f.ranges[i].offset = data[i - 1] /\ f.ranges[i].length = lengths[i]
    BY <1>6
  <2> QED
    BY <1>7, <1>9, <2>1, <2>2, <2>3
<1>12. BlobDataOffset(f) \in Nat /\ BlobDataOffset(f) <= f.size /\ f.size \in Nat /\ f.size >= 1
  BY <1>6, <1>7, <1>9
<1>13. n = 0 => BlobDataOffset(f) = f.size
  BY <1>5, <1>6, <1>7, <1>9
<1>14. ASSUME NEW i \in 1 .. n
       PROVE  BlobDataOffset(f) + f.ranges[i].offset + f.ranges[i].length <= f.size
  <2>1. (1 + ends[8]) + data[i] <= (1 + ends[8]) + data[n]
    BY <1>7, <1>11
  <2> QED
    BY <1>6, <1>11, <2>1
<1>15. n # 0 => BlobDataOffset(f) + f.ranges[n].offset + f.ranges[n].length = f.size
  BY <1>6, <1>7, <1>11
<1> QED
  BY <1>6, <1>10, <1>11, <1>12, <1>13, <1>14, <1>15 DEF f

(* A file that lost its end is not accepted.                               *)
LEMMA CutFileIsRefused ==
  ASSUME NEW l, \A s \in Range(Sections) : Len(l[s]) \in Nat,
         Len(l.blobs) \in Nat, DOMAIN l.blobs = 1 .. Len(l.blobs),
         NEW size \in 0 .. (FileOf(l).size - 1)
  PROVE  LoadFile(CutFile(FileOf(l), size)) = Refused
<1> DEFINE f == FileOf(l)
           c == CutFile(f, size)
           n == Len(l.blobs)
<1>1. /\ f.size \in Nat /\ BlobDataOffset(f) \in Nat /\ DOMAIN f.ranges = 1 .. n
      /\ n = 0 => BlobDataOffset(f) = f.size
      /\ n # 0 => BlobDataOffset(f) + f.ranges[n].offset + f.ranges[n].length = f.size
  BY FileLayout
<1>2. /\ c.size = size /\ c.offset = f.offset /\ c.count = f.count /\ c.ranges = f.ranges
  BY DEF CutFile, FileOf
<1>3. size \in Nat /\ size < f.size
  BY <1>1
<1>4. BlobDataOffset(c) = BlobDataOffset(f)
  BY <1>2 DEF BlobDataOffset
<1> HIDE DEF c, f
<1>5. ~BlobsRead(c)
  <2>1. CASE n = 0
    BY <1>1, <1>2, <1>3, <1>4, <2>1 DEF BlobsRead
  <2>2. CASE n # 0
    <3>1. n \in DOMAIN c.ranges
      BY <1>1, <1>2, <2>2
    <3>2. BlobDataOffset(c) + c.ranges[n].offset + c.ranges[n].length = f.size
      BY <1>1, <1>2, <1>4, <2>2
    <3>3. ~(f.size <= size)
      BY <1>1, <1>3
    <3> QED
      BY <1>2, <3>1, <3>2, <3>3 DEF BlobsRead
  <2> QED
    BY <2>1, <2>2
<1>6. ~Readable(c)
  BY <1>5 DEF Readable
<1> QED
  BY <1>6 DEF LoadFile, c, f

-----------------------------------------------------------------------------
(***************************************************************************)
(* Tables with bodies.                                                     *)
(***************************************************************************)

(* Only blobs and the bodies of functions are new.                         *)
LEMMA LinkedTables ==
  ASSUME NEW t, Sound(t), NEW l, AddsBodies(t, l)
  PROVE  /\ l.types = t.types /\ l.fields = t.fields /\ l.fieldDefs = t.fieldDefs
         /\ l.parameters = t.parameters /\ l.attributes = t.attributes
         /\ l.structs = t.structs
         /\ Len(l.blobs) \in Nat /\ DOMAIN l.blobs = 1 .. Len(l.blobs)
         /\ Begins(t.blobs, l.blobs)
         /\ DOMAIN l.functions = 1 .. Len(t.functions) /\ Len(l.functions) = Len(t.functions)
         /\ \A i \in 1 .. Len(t.functions) :
              /\ l.functions[i].namespaceBlob = t.functions[i].namespaceBlob
              /\ l.functions[i].nameBlob = t.functions[i].nameBlob
              /\ l.functions[i].parameterStart = t.functions[i].parameterStart
              /\ l.functions[i].parameterCount = t.functions[i].parameterCount
              /\ l.functions[i].attributeStart = t.functions[i].attributeStart
              /\ l.functions[i].attributeCount = t.functions[i].attributeCount
              /\ l.functions[i].body \in 0 .. Len(l.blobs)
         /\ l["types"] = l.types /\ l["fields"] = l.fields /\ l["structs"] = l.structs
         /\ l["fieldDefs"] = l.fieldDefs /\ l["functions"] = l.functions
         /\ l["parameters"] = l.parameters /\ l["attributes"] = l.attributes
         /\ l["blobs"] = l.blobs
<1> DEFINE F == [i \in DOMAIN t.functions |-> [t.functions[i] EXCEPT !.body = l.functions[i].body]]
           n == Len(t.functions)
<1>1. /\ l.blobs \in Seq(Range(l.blobs)) /\ IsPrefix(t.blobs, l.blobs)
      /\ \A i \in DOMAIN l.functions : l.functions[i].body \in 0 .. Len(l.blobs)
      /\ l = [t EXCEPT !.blobs = l.blobs, !.functions = F]
  BY DEF AddsBodies, IsSequence
<1>2. /\ HasTables(t) /\ t.functions \in Seq(FunctionRows(Len(t.blobs)))
      /\ t.blobs \in Seq(Blobs)
  BY DEF Sound, RefersWithin
<1>3. n \in Nat /\ DOMAIN t.functions = 1 .. n
      /\ \A i \in 1 .. n : t.functions[i] \in FunctionRows(Len(t.blobs))
  BY <1>2
<1>4. /\ l.types = t.types /\ l.fields = t.fields /\ l.fieldDefs = t.fieldDefs
      /\ l.parameters = t.parameters /\ l.attributes = t.attributes
      /\ l.structs = t.structs /\ l.functions = F
  <2> HIDE DEF F
  <2> QED
    BY <1>1, <1>2 DEF HasTables
<1>5. Len(l.blobs) \in Nat /\ DOMAIN l.blobs = 1 .. Len(l.blobs)
  BY <1>1
<1>6. Begins(t.blobs, l.blobs)
  <2>1. Len(t.blobs) \in Nat /\ DOMAIN t.blobs = 1 .. Len(t.blobs)
    BY <1>2
  <2>2. Len(t.blobs) <= Len(l.blobs) /\ \A i \in 1 .. Len(t.blobs) : t.blobs[i] = l.blobs[i]
    BY <1>1, <1>5, <2>1 DEF IsPrefix
  <2> QED
    BY <2>2 DEF Begins
<1>7. DOMAIN F = 1 .. n /\ Len(F) = n
  BY <1>3
<1>8. ASSUME NEW i \in 1 .. n
      PROVE  /\ F[i].namespaceBlob = t.functions[i].namespaceBlob
             /\ F[i].nameBlob = t.functions[i].nameBlob
             /\ F[i].parameterStart = t.functions[i].parameterStart
             /\ F[i].parameterCount = t.functions[i].parameterCount
             /\ F[i].attributeStart = t.functions[i].attributeStart
             /\ F[i].attributeCount = t.functions[i].attributeCount
  <2>1. F[i] = [t.functions[i] EXCEPT !.body = l.functions[i].body]
    BY <1>3
  <2> HIDE DEF F
  <2> QED
    BY <1>3, <2>1 DEF FunctionRows
<1> HIDE DEF F
<1>9. \A i \in 1 .. n : l.functions[i].body \in 0 .. Len(l.blobs)
  BY <1>1, <1>4, <1>7
<1> QED
  BY <1>4, <1>5, <1>6, <1>7, <1>8, <1>9

(* A table is indexed from one on.                                         *)
LEMMA RowsOf ==
  ASSUME NEW S, NEW s \in Seq(S)
  PROVE  DOMAIN s = 1 .. Len(s) /\ \A i \in DOMAIN s : s[i] \in S
  OBVIOUS

(* The rows of sound tables, one by one.                                   *)
LEMMA SoundRows ==
  ASSUME NEW t, Sound(t)
  PROVE  /\ \A i \in DOMAIN t.types : t.types[i] \in TypeRows(Len(t.blobs))
         /\ \A i \in DOMAIN t.fields : t.fields[i] \in FieldRows(Len(t.blobs), Len(t.types))
         /\ \A i \in DOMAIN t.fieldDefs : t.fieldDefs[i] \in FieldDefRows(Len(t.fields))
         /\ \A i \in DOMAIN t.attributes :
              t.attributes[i] \in AttributeRows(Len(t.blobs), Len(t.types))
         /\ \A i \in DOMAIN t.parameters :
              t.parameters[i] \in ParameterRows(Len(t.blobs), Len(t.types))
         /\ \A i \in DOMAIN t.structs : t.structs[i] \in StructRows(Len(t.types))
         /\ \A i \in DOMAIN t.functions : t.functions[i] \in FunctionRows(Len(t.blobs))
  BY RowsOf DEF Sound, RefersWithin

(* The file of sound tables with bodies is in order.                       *)
LEMMA LinkedIsReadable ==
  ASSUME NEW t, Sound(t), NEW l, AddsBodies(t, l)
  PROVE  /\ Readable(FileOf(l)) /\ FileOf(l).rows = l
         /\ FileOf(l).size \in Nat /\ FileOf(l).size >= 1
         /\ \A size \in 0 .. (FileOf(l).size - 1) : LoadFile(CutFile(FileOf(l), size)) = Refused
<1> DEFINE f == FileOf(l)
           b == Len(l.blobs)
<1>1. \A s \in Range(Sections) : Len(l[s]) \in Nat
  BY LinkedTables, SoundLengths, SectionPlaces
<1>2. /\ Len(l.blobs) \in Nat /\ DOMAIN l.blobs = 1 .. Len(l.blobs)
      /\ Len(t.blobs) <= Len(l.blobs) /\ Len(t.blobs) \in Nat
  BY LinkedTables, SoundLengths DEF Begins
<1>3. /\ f.rows = l /\ f.size \in Nat /\ f.size >= 1 /\ DOMAIN f.ranges = 1 .. b
      /\ \A s \in Range(Sections) : SectionReads(f, s)
      /\ BlobDataOffset(f) <= f.size
      /\ \A i \in 1 .. b : BlobDataOffset(f) + f.ranges[i].offset + f.ranges[i].length <= f.size
  BY <1>1, <1>2, FileLayout
<1>4. \A size \in 0 .. (FileOf(l).size - 1) : LoadFile(CutFile(FileOf(l), size)) = Refused
  BY <1>1, <1>2, CutFileIsRefused
<1> HIDE DEF f
<1>5. /\ SectionReads(f, "types") /\ SectionReads(f, "fields") /\ SectionReads(f, "structs")
      /\ SectionReads(f, "fieldDefs") /\ SectionReads(f, "functions")
      /\ SectionReads(f, "parameters") /\ SectionReads(f, "attributes")
      /\ SectionReads(f, "blobs")
  BY <1>3, SectionPlaces
<1>6. BlobsRead(f)
  BY <1>3, <1>5 DEF BlobsRead
<1>7. /\ DOMAIN t.structs = 1 .. Len(t.structs) /\ DOMAIN t.functions = 1 .. Len(t.functions)
  BY DEF Sound, RefersWithin
<1>8. /\ l.types = t.types /\ l.fields = t.fields /\ l.fieldDefs = t.fieldDefs
      /\ l.parameters = t.parameters /\ l.attributes = t.attributes
      /\ l.structs = t.structs
  BY LinkedTables
<1>9. TypesRead(f)
  <2>1. \A i \in DOMAIN l.types :
          /\ l.types[i].namespaceBlob \in 1 .. Len(t.blobs)
          /\ l.types[i].nameBlob \in 1 .. Len(t.blobs)
    BY <1>8, SoundRows DEF TypeRows
  <2> QED
    BY <1>2, <1>3, <1>5, <2>1 DEF TypesRead, IsRef
<1>10. FieldsRead(f)
  <2>1. \A i \in DOMAIN l.fields :
          /\ l.fields[i].nameBlob \in 1 .. Len(t.blobs) /\ l.fields[i].type \in 1 .. Len(l.types)
    BY <1>8, SoundRows DEF FieldRows
  <2> QED
    BY <1>2, <1>3, <1>5, <2>1 DEF FieldsRead, IsRef
<1>11. FieldDefsRead(f)
  <2>1. \A i \in DOMAIN l.fieldDefs : l.fieldDefs[i].field \in 1 .. Len(l.fields)
    BY <1>8, SoundRows DEF FieldDefRows
  <2> QED
    BY <1>3, <1>5, <2>1 DEF FieldDefsRead, IsRef
<1>12. AttributesRead(f)
  <2>1. \A i \in DOMAIN l.attributes :
          /\ l.attributes[i].type \in 1 .. Len(l.types)
          /\ l.attributes[i].data \in 1 .. Len(t.blobs)
    BY <1>8, SoundRows DEF AttributeRows
  <2> QED
    BY <1>2, <1>3, <1>5, <2>1 DEF AttributesRead, IsRef
<1>13. ParametersRead(f)
  <2>1. \A i \in DOMAIN l.parameters :
          /\ l.parameters[i].nameBlob \in 1 .. Len(t.blobs)
          /\ l.parameters[i].type \in 1 .. Len(l.types)
          /\ l.parameters[i].defaultBlob \in 0 .. Len(t.blobs)
    BY <1>8, SoundRows DEF ParameterRows
  <2> QED
    BY <1>2, <1>3, <1>5, <2>1 DEF ParametersRead, IsRef
<1>14. StructsRead(f)
  <2>1. \A i \in DOMAIN l.structs : l.structs[i].type \in 1 .. Len(l.types)
    BY <1>8, SoundRows DEF StructRows
  <2> QED
    BY <1>3, <1>5, <2>1 DEF StructsRead, IsRef
<1>15. /\ DOMAIN l.functions = 1 .. Len(t.functions)
       /\ \A i \in 1 .. Len(t.functions) :
            /\ l.functions[i].namespaceBlob = t.functions[i].namespaceBlob
            /\ l.functions[i].nameBlob = t.functions[i].nameBlob
            /\ l.functions[i].parameterStart = t.functions[i].parameterStart
            /\ l.functions[i].parameterCount = t.functions[i].parameterCount
            /\ l.functions[i].attributeStart = t.functions[i].attributeStart
            /\ l.functions[i].attributeCount = t.functions[i].attributeCount
            /\ l.functions[i].body \in 0 .. b
  BY LinkedTables
<1>16. FunctionsRead(f)
  <2>1. \A i \in DOMAIN l.functions :
          /\ l.functions[i].namespaceBlob \in 1 .. Len(t.blobs)
          /\ l.functions[i].nameBlob \in 1 .. Len(t.blobs)
          /\ l.functions[i].body \in 0 .. b
    BY <1>7, <1>15, SoundRows DEF FunctionRows
  <2> QED
    BY <1>2, <1>3, <1>5, <2>1 DEF FunctionsRead, IsRef
<1>17. RangesFit(l)
  <2>1. \A i \in 1 .. Len(t.structs) :
          /\ Spans(Len(t.fields), t.structs[i].fieldStart, t.structs[i].fieldCount)
          /\ Spans(Len(t.attributes), t.structs[i].attributeStart, t.structs[i].attributeCount)
    BY DEF Sound, RangesWithin
  <2>2. \A i \in 1 .. Len(t.functions) :
          /\ Spans(Len(t.parameters), t.functions[i].parameterStart,
                   t.functions[i].parameterCount)
          /\ Spans(Len(t.attributes), t.functions[i].attributeStart,
                   t.functions[i].attributeCount)
    BY DEF Sound, RangesWithin
  <2>3. \A i \in DOMAIN l.fieldDefs :
          l.fieldDefs[i].attributeStart = 0 /\ l.fieldDefs[i].attributeCount = 0
    BY <1>8, SoundRows DEF FieldDefRows
  <2>4. \A i \in DOMAIN l.parameters :
          l.parameters[i].attributeStart = 0 /\ l.parameters[i].attributeCount = 0
    BY <1>8, SoundRows DEF ParameterRows
  <2>5. DOMAIN l.structs = 1 .. Len(t.structs)
    BY <1>7, <1>8
  <2>6. \A i \in DOMAIN l.structs :
          /\ IsRange(l.fields, l.structs[i].fieldStart, l.structs[i].fieldCount)
          /\ IsRange(l.attributes, l.structs[i].attributeStart, l.structs[i].attributeCount)
    BY <1>8, <2>1, <2>5 DEF Spans, IsRange
  <2>7. \A i \in DOMAIN l.functions :
          /\ IsRange(l.parameters, l.functions[i].parameterStart, l.functions[i].parameterCount)
          /\ IsRange(l.attributes, l.functions[i].attributeStart, l.functions[i].attributeCount)
    BY <1>8, <1>15, <2>2 DEF Spans, IsRange
  <2>8. \A i \in DOMAIN l.fieldDefs :
          IsRange(l.attributes, l.fieldDefs[i].attributeStart, l.fieldDefs[i].attributeCount)
    BY <2>3 DEF IsRange
  <2>9. \A i \in DOMAIN l.parameters :
          IsRange(l.attributes, l.parameters[i].attributeStart, l.parameters[i].attributeCount)
    BY <2>4 DEF IsRange
  <2> QED
    BY <2>6, <2>7, <2>8, <2>9 DEF RangesFit
<1>18. Readable(f)
  BY <1>3, <1>6, <1>9, <1>10, <1>11, <1>12, <1>13, <1>14, <1>16, <1>17 DEF Readable
<1> QED
  BY <1>3, <1>4, <1>18 DEF f

-----------------------------------------------------------------------------
(***************************************************************************)
(* The module that is read back.                                           *)
(***************************************************************************)

LEMMA TextOfBlob ==
  ASSUME NEW blobs, NEW id, NEW text, blobs[id] = TextBlob(text)
  PROVE  BlobText(blobs, id) = text
  BY DEF BlobText, TextBlob

(* The rows of the module: a type has the name it was entered under.       *)
LEMMA ModuleRows ==
  ASSUME NEW t, Sound(t), NEW l, AddsBodies(t, l)
  PROVE  LET m == NamedRows(l)
         IN  /\ m.structs = t.structs /\ m.blobs = l.blobs
             /\ DOMAIN m.types = 1 .. Len(t.types) /\ Len(m.types) = Len(t.types)
             /\ \A i \in 1 .. Len(t.types) :
                  /\ m.types[i].qualified = t.types[i].qualified
                  /\ m.types[i].namespace = SplitName(t.types[i].qualified).namespace
                  /\ m.types[i].name = SplitName(t.types[i].qualified).name
             /\ \A i \in 1 .. Len(t.fields) :
                  m.fields[i] = [name |-> BlobText(l.blobs, t.fields[i].nameBlob),
                                 type |-> t.fields[i].type]
             /\ \A i \in 1 .. Len(t.attributes) :
                  m.attributes[i] = [type |-> t.attributes[i].type, blob |-> t.attributes[i].data,
                                     data |-> BlobText(l.blobs, t.attributes[i].data)]
             /\ \A i \in 1 .. Len(t.parameters) :
                  m.parameters[i] = [name |-> BlobText(l.blobs, t.parameters[i].nameBlob),
                                     type |-> t.parameters[i].type,
                                     defaultBlob |-> t.parameters[i].defaultBlob]
             /\ DOMAIN m.functions = 1 .. Len(t.functions) /\ Len(m.functions) = Len(t.functions)
             /\ \A i \in 1 .. Len(t.functions) :
                  LET namespace == BlobText(l.blobs, t.functions[i].namespaceBlob)
                      name == BlobText(l.blobs, t.functions[i].nameBlob)
                  IN  /\ m.functions[i].namespace = namespace
                      /\ m.functions[i].name = name
                      /\ m.functions[i].qualified = Join(namespace, name)
                      /\ m.functions[i].parameterStart = t.functions[i].parameterStart
                      /\ m.functions[i].parameterCount = t.functions[i].parameterCount
                      /\ m.functions[i].attributeStart = t.functions[i].attributeStart
                      /\ m.functions[i].attributeCount = t.functions[i].attributeCount
<1> DEFINE m == NamedRows(l)
           Type1(row) == FullName(l, row)
           Field1(row) == [name |-> BlobText(l.blobs, row.nameBlob), type |-> row.type]
           Attribute1(row) == [type |-> row.type, blob |-> row.data,
                               data |-> BlobText(l.blobs, row.data)]
           Parameter1(row) == [name |-> BlobText(l.blobs, row.nameBlob), type |-> row.type,
                               defaultBlob |-> row.defaultBlob]
           Function1(row) ==
             [namespace |-> FullName(l, row).namespace, name |-> FullName(l, row).name,
              qualified |-> FullName(l, row).qualified,
              parameterStart |-> row.parameterStart, parameterCount |-> row.parameterCount,
              attributeStart |-> row.attributeStart, attributeCount |-> row.attributeCount,
              body |-> row.body]
           types == [i \in DOMAIN l.types |-> Type1(l.types[i])]
           fields == [i \in DOMAIN l.fields |-> Field1(l.fields[i])]
           functions == [i \in DOMAIN l.functions |-> Function1(l.functions[i])]
           parameters == [i \in DOMAIN l.parameters |-> Parameter1(l.parameters[i])]
           attributes == [i \in DOMAIN l.attributes |-> Attribute1(l.attributes[i])]
<1>1. m = [l EXCEPT !.types = types, !.fields = fields, !.functions = functions,
                    !.parameters = parameters, !.attributes = attributes]
  BY DEF NamedRows, Map
<1>2. HasTables(l)
  <2>1. HasTables(t)
    BY DEF Sound
  <2> DEFINE F == [i \in DOMAIN t.functions |->
                     [t.functions[i] EXCEPT !.body = l.functions[i].body]]
  <2>2. l = [t EXCEPT !.blobs = l.blobs, !.functions = F]
    BY DEF AddsBodies
  <2> HIDE DEF F
  <2> QED
    BY <2>1, <2>2 DEF HasTables
<1>3. /\ m.types = types /\ m.fields = fields /\ m.functions = functions
      /\ m.parameters = parameters /\ m.attributes = attributes
      /\ m.structs = l.structs /\ m.blobs = l.blobs
  <2> HIDE DEF types, fields, functions, parameters, attributes, m
  <2> QED
    BY <1>1, <1>2 DEF HasTables
<1> HIDE DEF m
<1>4. /\ l.types = t.types /\ l.fields = t.fields /\ l.parameters = t.parameters
      /\ l.attributes = t.attributes /\ l.structs = t.structs
      /\ DOMAIN l.functions = 1 .. Len(t.functions)
  BY LinkedTables
<1>5. /\ DOMAIN t.types = 1 .. Len(t.types) /\ DOMAIN t.fields = 1 .. Len(t.fields)
      /\ DOMAIN t.attributes = 1 .. Len(t.attributes)
      /\ DOMAIN t.parameters = 1 .. Len(t.parameters)
  BY RowsOf DEF Sound, RefersWithin
<1>6. /\ DOMAIN m.types = 1 .. Len(t.types) /\ Len(m.types) = Len(t.types)
      /\ DOMAIN m.functions = 1 .. Len(t.functions) /\ Len(m.functions) = Len(t.functions)
  BY <1>3, <1>4, <1>5, SoundLengths
<1>7. \A i \in 1 .. Len(t.fields) :
        m.fields[i] = [name |-> BlobText(l.blobs, t.fields[i].nameBlob),
                       type |-> t.fields[i].type]
  BY <1>3, <1>4, <1>5
<1>8. \A i \in 1 .. Len(t.attributes) :
        m.attributes[i] = [type |-> t.attributes[i].type, blob |-> t.attributes[i].data,
                           data |-> BlobText(l.blobs, t.attributes[i].data)]
  BY <1>3, <1>4, <1>5
<1>9. \A i \in 1 .. Len(t.parameters) :
        m.parameters[i] = [name |-> BlobText(l.blobs, t.parameters[i].nameBlob),
                           type |-> t.parameters[i].type,
                           defaultBlob |-> t.parameters[i].defaultBlob]
  BY <1>3, <1>4, <1>5
<1>10. ASSUME NEW i \in 1 .. Len(t.types)
       PROVE  /\ m.types[i].qualified = t.types[i].qualified
              /\ m.types[i].namespace = SplitName(t.types[i].qualified).namespace
              /\ m.types[i].name = SplitName(t.types[i].qualified).name
  <2> DEFINE row == t.types[i]
  <2>1. m.types[i] = FullName(l, row)
    BY <1>3, <1>4, <1>5
  <2>2. row.qualified \in NameText /\ row.namespaceBlob \in 1 .. Len(t.blobs)
        /\ row.nameBlob \in 1 .. Len(t.blobs)
    BY <1>5, SoundRows DEF TypeRows
  <2>3. IsNamed(t, row)
    BY DEF Sound, TypesNamed
  <2> HIDE DEF row
  <2>4. /\ l.blobs[row.namespaceBlob] = TextBlob(SplitName(row.qualified).namespace)
        /\ l.blobs[row.nameBlob] = TextBlob(SplitName(row.qualified).name)
    BY <2>2, <2>3, LinkedTables DEF IsNamed, Begins
  <2>5. /\ BlobText(l.blobs, row.namespaceBlob) = SplitName(row.qualified).namespace
        /\ BlobText(l.blobs, row.nameBlob) = SplitName(row.qualified).name
    BY <2>4, TextOfBlob
  <2>6. Join(SplitName(row.qualified).namespace, SplitName(row.qualified).name) = row.qualified
    BY <2>2, JoinOfSplit
  <2>7. /\ FullName(l, row).qualified = row.qualified
        /\ FullName(l, row).namespace = SplitName(row.qualified).namespace
        /\ FullName(l, row).name = SplitName(row.qualified).name
    BY <2>5, <2>6 DEF FullName
  <2> QED
    BY <2>1, <2>7 DEF row
<1>11. ASSUME NEW i \in 1 .. Len(t.functions)
       PROVE  LET namespace == BlobText(l.blobs, t.functions[i].namespaceBlob)
                  name == BlobText(l.blobs, t.functions[i].nameBlob)
              IN  /\ m.functions[i].namespace = namespace
                  /\ m.functions[i].name = name
                  /\ m.functions[i].qualified = Join(namespace, name)
                  /\ m.functions[i].parameterStart = t.functions[i].parameterStart
                  /\ m.functions[i].parameterCount = t.functions[i].parameterCount
                  /\ m.functions[i].attributeStart = t.functions[i].attributeStart
                  /\ m.functions[i].attributeCount = t.functions[i].attributeCount
  <2>1. m.functions[i] = Function1(l.functions[i])
    BY <1>3, <1>4
  <2>2. /\ l.functions[i].namespaceBlob = t.functions[i].namespaceBlob
        /\ l.functions[i].nameBlob = t.functions[i].nameBlob
        /\ l.functions[i].parameterStart = t.functions[i].parameterStart
        /\ l.functions[i].parameterCount = t.functions[i].parameterCount
        /\ l.functions[i].attributeStart = t.functions[i].attributeStart
        /\ l.functions[i].attributeCount = t.functions[i].attributeCount
    BY LinkedTables
  <2> QED
    BY <2>1, <2>2 DEF FullName
<1> QED
  BY <1>3, <1>4, <1>6, <1>7, <1>8, <1>9, <1>10, <1>11 DEF m

(* What is known of a module that a build wrote.                           *)
Written(semantics, l, m) ==
  /\ Declares(semantics)
  /\ AddsBodies(DeclaredTables(semantics), l)
  /\ m = NamedRows(l)

(* What Declares says of the structs, as the proofs use it.                *)
LEMMA DeclaredStructs ==
  ASSUME NEW semantics, Declares(semantics)
  PROVE  /\ semantics.structs \in Seq(StructText1) /\ Len(semantics.structs) \in Nat
         /\ DOMAIN semantics.structs = 1 .. Len(semantics.structs)
         /\ \A i \in 1 .. Len(semantics.structs) :
              /\ semantics.structs[i] \in StructText1
              /\ semantics.structs[i].fields \in Seq(FieldTexts)
              /\ Len(semantics.structs[i].fields) \in Nat
              /\ DOMAIN semantics.structs[i].fields = 1 .. Len(semantics.structs[i].fields)
              /\ semantics.structs[i].attributes \in Seq(AttributeText1)
              /\ Len(semantics.structs[i].attributes) \in Nat
              /\ DOMAIN semantics.structs[i].attributes = 1 .. Len(semantics.structs[i].attributes)
         /\ \A i, j \in 1 .. Len(semantics.structs) :
              semantics.structs[i].qualified = semantics.structs[j].qualified => i = j
<1>1. semantics.structs \in Seq(StructText1)
  BY DEF Declares
<1>2. /\ Len(semantics.structs) \in Nat
      /\ DOMAIN semantics.structs = 1 .. Len(semantics.structs)
      /\ \A i \in 1 .. Len(semantics.structs) : semantics.structs[i] \in StructText1
  BY <1>1
<1>3. ASSUME NEW i \in 1 .. Len(semantics.structs)
      PROVE  /\ semantics.structs[i].fields \in Seq(FieldTexts)
             /\ semantics.structs[i].attributes \in Seq(AttributeText1)
  BY <1>2 DEF StructText1, FieldTexts
<1>4. ASSUME NEW i \in 1 .. Len(semantics.structs)
      PROVE  /\ Len(semantics.structs[i].fields) \in Nat
             /\ DOMAIN semantics.structs[i].fields = 1 .. Len(semantics.structs[i].fields)
             /\ Len(semantics.structs[i].attributes) \in Nat
             /\ DOMAIN semantics.structs[i].attributes
                  = 1 .. Len(semantics.structs[i].attributes)
  BY <1>3
<1>5. \A i, j \in 1 .. Len(semantics.structs) :
        semantics.structs[i].qualified = semantics.structs[j].qualified => i = j
  BY <1>2 DEF Declares
<1> QED
  BY <1>1, <1>2, <1>3, <1>4, <1>5

(* A struct row is at the place of the declaration it says.                *)
LEMMA StructRowSays ==
  ASSUME NEW semantics, NEW l, NEW m, Written(semantics, l, m)
  PROVE  LET t == DeclaredTables(semantics)
             s == semantics.structs
         IN  /\ Len(m.structs) = Len(s) /\ DOMAIN m.structs = 1 .. Len(s)
             /\ m.structs = t.structs /\ Sound(t)
             /\ \A i \in 1 .. Len(s) :
                  /\ m.structs[i] \in StructRows(Len(t.types))
                  /\ m.structs[i].type \in 1 .. Len(t.types)
                  /\ m.types[m.structs[i].type].qualified = s[i].qualified
                  /\ SaysStruct(s, t, m.structs[i], s[i])
<1> DEFINE t == DeclaredTables(semantics)
           s == semantics.structs
<1>1. Sound(t) /\ Says(t, semantics)
  BY TablesSayWhatIsDeclared DEF Written
<1> HIDE DEF t
<1>2. /\ m.structs = t.structs
      /\ \A i \in 1 .. Len(t.types) : m.types[i].qualified = t.types[i].qualified
  BY <1>1, ModuleRows DEF Written, t
<1>3. /\ Len(t.structs) = Len(s) /\ DOMAIN t.structs = 1 .. Len(t.structs)
      /\ \A i \in DOMAIN t.structs : t.structs[i] \in StructRows(Len(t.types))
  BY <1>1, RowsOf DEF Says, Sound, RefersWithin
<1>4. ASSUME NEW i \in 1 .. Len(s)
      PROVE  /\ m.structs[i] \in StructRows(Len(t.types))
             /\ m.structs[i].type \in 1 .. Len(t.types)
             /\ m.types[m.structs[i].type].qualified = s[i].qualified
             /\ SaysStruct(s, t, m.structs[i], s[i])
  <2>1. m.structs[i] \in StructRows(Len(t.types))
    BY <1>2, <1>3
  <2>2. m.structs[i].type \in 1 .. Len(t.types)
    BY <2>1 DEF StructRows
  <2>3. SaysStruct(s, t, m.structs[i], s[i])
    BY <1>1, <1>2, <1>3 DEF Says
  <2>4. t.types[m.structs[i].type].qualified = s[i].qualified
    BY <2>3 DEF SaysStruct
  <2> QED
    BY <1>2, <2>1, <2>2, <2>3, <2>4
<1> QED
  BY <1>1, <1>2, <1>3, <1>4 DEF t

(* The loader finds the struct of a type where the generator finds it by   *)
(* its name.                                                               *)
LEMMA SameStructIsFound ==
  ASSUME NEW semantics, NEW l, NEW m, Written(semantics, l, m),
         NEW type \in 1 .. Len(DeclaredTables(semantics).types)
  PROVE  StructOfType(m, type) = FindExact(semantics.structs, m.types[type].qualified)
<1> DEFINE t == DeclaredTables(semantics)
           s == semantics.structs
           n == Len(s)
           I == {i \in 1 .. n : m.structs[i].type = type}
           J == {i \in 1 .. n : s[i].qualified = m.types[type].qualified}
<1>1. /\ Len(m.structs) = n /\ Sound(t)
      /\ \A i \in 1 .. n :
           /\ m.structs[i].type \in 1 .. Len(t.types)
           /\ m.types[m.structs[i].type].qualified = s[i].qualified
  BY StructRowSays
<1>2. \A i \in 1 .. Len(t.types) : m.types[i].qualified = t.types[i].qualified
  BY <1>1, ModuleRows DEF Written
<1>3. \A i, j \in 1 .. Len(t.types) : t.types[i].qualified = t.types[j].qualified => i = j
  BY <1>1 DEF Sound, TypesNamed
<1>4. ASSUME NEW i \in 1 .. n
      PROVE  m.structs[i].type = type <=> s[i].qualified = m.types[type].qualified
  <2> HIDE DEF t
  <2>1. type \in 1 .. Len(t.types)
    BY DEF t
  <2>2. m.structs[i].type \in 1 .. Len(t.types)
        /\ m.types[m.structs[i].type].qualified = s[i].qualified
    BY <1>1
  <2> QED
    BY <1>2, <1>3, <2>1, <2>2
<1>5. I = J
  BY <1>4
<1>6. StructOfType(m, type) = IF I # {} THEN Min(I) ELSE 0
  BY <1>1 DEF StructOfType, SelectInSeq
<1>7. FindExact(s, m.types[type].qualified) = IF J # {} THEN Min(J) ELSE 0
  BY DEF FindExact, SelectInSeq
<1> HIDE DEF I, J
<1> QED
  BY <1>5, <1>6, <1>7

(* The fields of a struct row have the types of the declaration.           *)
FieldTypesAre(semantics, m, i) ==
  LET fields == semantics.structs[i].fields
      types == FieldTypes(m, m.structs[i])
  IN  /\ DOMAIN types = 1 .. Len(fields) /\ DOMAIN fields = 1 .. Len(fields)
      /\ m.structs[i].fieldCount = Len(fields)
      /\ \A k \in 1 .. Len(fields) :
           /\ types[k] \in 1 .. Len(DeclaredTables(semantics).types)
           /\ types[k] = m.fields[(m.structs[i].fieldStart - 1) + k].type
           /\ m.types[types[k]].qualified = fields[k].type
           /\ m.fields[(m.structs[i].fieldStart - 1) + k].name = fields[k].name

LEMMA FieldTypesSay ==
  ASSUME NEW semantics, NEW l, NEW m, Written(semantics, l, m),
         NEW i \in 1 .. Len(semantics.structs)
  PROVE  FieldTypesAre(semantics, m, i)
<1> DEFINE t == DeclaredTables(semantics)
           s == semantics.structs
           fields == s[i].fields
           row == m.structs[i]
           types == FieldTypes(m, row)
<1>1. /\ Sound(t) /\ m.structs = t.structs
      /\ row \in StructRows(Len(t.types)) /\ SaysStruct(s, t, row, s[i])
      /\ Len(t.structs) = Len(s)
  BY StructRowSays
<1>2. Declares(semantics) /\ AddsBodies(t, l) /\ m = NamedRows(l)
  BY DEF Written
<1> HIDE DEF t
<1>3. DOMAIN fields = 1 .. Len(fields) /\ Len(fields) \in Nat
  BY <1>2, DeclaredStructs
<1>4. /\ row.fieldCount = Len(fields) /\ row.fieldStart \in Nat
      /\ \A k \in 1 .. Len(fields) : SaysField(t, t.fields[(row.fieldStart - 1) + k], fields[k])
  BY <1>1 DEF SaysStruct, StructRows
<1>5. /\ \A j \in 1 .. Len(t.types) : m.types[j].qualified = t.types[j].qualified
      /\ \A j \in 1 .. Len(t.fields) :
           m.fields[j] = [name |-> BlobText(l.blobs, t.fields[j].nameBlob),
                          type |-> t.fields[j].type]
  BY <1>1, <1>2, ModuleRows
<1>6. Spans(Len(t.fields), row.fieldStart, row.fieldCount) /\ Len(t.fields) \in Nat
  BY <1>1, SoundStructRow, SoundLengths
<1>7. types = [k \in 1 .. row.fieldCount |-> m.fields[(row.fieldStart - 1) + k].type]
  BY DEF FieldTypes
<1> HIDE DEF row, types, fields
<1>8. ASSUME NEW k \in 1 .. Len(fields)
      PROVE  /\ types[k] \in 1 .. Len(t.types)
             /\ types[k] = m.fields[(row.fieldStart - 1) + k].type
             /\ m.types[types[k]].qualified = fields[k].type
             /\ m.fields[(row.fieldStart - 1) + k].name = fields[k].name
  <2> DEFINE j == (row.fieldStart - 1) + k
  <2>1. j \in 1 .. Len(t.fields)
    BY <1>3, <1>4, <1>6, SpanRows
  <2>2. types[k] = m.fields[j].type
    BY <1>4, <1>7
  <2>3. SaysField(t, t.fields[j], fields[k])
    BY <1>4
  <2> HIDE DEF j
  <2>4. m.fields[j] = [name |-> BlobText(l.blobs, t.fields[j].nameBlob), type |-> t.fields[j].type]
    BY <1>5, <2>1
  <2>5. t.fields[j].type \in 1 .. Len(t.types) /\ t.fields[j].nameBlob \in 1 .. Len(t.blobs)
    <3>1. DOMAIN t.fields = 1 .. Len(t.fields)
      BY <1>1, RowsOf DEF Sound, RefersWithin
    <3>2. t.fields[j] \in FieldRows(Len(t.blobs), Len(t.types))
      BY <1>1, <2>1, <3>1, SoundRows
    <3> QED
      BY <3>2 DEF FieldRows
  <2>6. l.blobs[t.fields[j].nameBlob] = TextBlob(fields[k].name)
    <3>1. Begins(t.blobs, l.blobs)
      BY <1>1, <1>2, LinkedTables
    <3> QED
      BY <2>3, <2>5, <3>1 DEF SaysField, Begins
  <2>7. m.fields[j].name = fields[k].name
    BY <2>4, <2>6, TextOfBlob
  <2>8. m.types[types[k]].qualified = fields[k].type
    BY <1>5, <2>2, <2>3, <2>4, <2>5 DEF SaysField
  <2> QED
    BY <2>2, <2>4, <2>5, <2>7, <2>8 DEF j
<1>9. DOMAIN types = 1 .. Len(fields)
  BY <1>4, <1>7
<1>10. /\ DOMAIN types = 1 .. Len(fields) /\ DOMAIN fields = 1 .. Len(fields)
       /\ row.fieldCount = Len(fields)
       /\ \A k \in 1 .. Len(fields) :
            /\ types[k] \in 1 .. Len(t.types)
            /\ types[k] = m.fields[(row.fieldStart - 1) + k].type
            /\ m.types[types[k]].qualified = fields[k].type
            /\ m.fields[(row.fieldStart - 1) + k].name = fields[k].name
  BY ONLY <1>3, <1>4, <1>8, <1>9
<1> QED
  BY ONLY <1>10 DEF FieldTypesAre, t, row, types, fields

(* The loader and the generator see the same structs in each other.        *)
LEMMA SameStructsAreHeld ==
  ASSUME NEW semantics, NEW l, NEW m, Written(semantics, l, m),
         NEW i \in 1 .. Len(semantics.structs)
  PROVE  /\ HeldByRow(m, m.structs[i]) = HeldBy(semantics.structs, semantics.structs[i])
         /\ HoldsOwn(m, m.structs[i]) <=> HoldsKnown(semantics.structs, semantics.structs[i])
<1> DEFINE s == semantics.structs
           fields == s[i].fields
           types == FieldTypes(m, m.structs[i])
<1>1. /\ DOMAIN types = 1 .. Len(fields) /\ DOMAIN fields = 1 .. Len(fields)
      /\ \A k \in 1 .. Len(fields) :
           /\ types[k] \in 1 .. Len(DeclaredTables(semantics).types)
           /\ m.types[types[k]].qualified = fields[k].type
  <2>1. FieldTypesAre(semantics, m, i)
    BY FieldTypesSay
  <2> QED
    BY ONLY <2>1 DEF FieldTypesAre
<1>2. ASSUME NEW k \in 1 .. Len(fields)
      PROVE  StructOfType(m, types[k]) = FindExact(s, fields[k].type)
  BY <1>1, SameStructIsFound
<1>3. HeldByRow(m, m.structs[i])
        = [k \in 1 .. Len(fields) |->
             IF BuiltinSize(m.types[types[k]].qualified) # 0 THEN 0 ELSE StructOfType(m, types[k])]
  BY <1>1 DEF HeldByRow, Map
<1>4. HeldBy(s, s[i])
        = [k \in 1 .. Len(fields) |->
             IF BuiltinSize(fields[k].type) # 0 THEN 0 ELSE FindExact(s, fields[k].type)]
  BY <1>1 DEF HeldBy, Map
<1> HIDE DEF types
<1>5. HeldByRow(m, m.structs[i]) = HeldBy(s, s[i])
  BY <1>1, <1>2, <1>3, <1>4
<1>6. HoldsOwn(m, m.structs[i])
        <=> \A k \in 1 .. Len(fields) : \/ BuiltinSize(m.types[types[k]].qualified) # 0
                                        \/ StructOfType(m, types[k]) # 0
  BY <1>1 DEF HoldsOwn, types
<1>7. HoldsKnown(s, s[i])
        <=> \A k \in 1 .. Len(fields) : \/ BuiltinSize(fields[k].type) # 0
                                        \/ FindExact(s, fields[k].type) # 0
  BY <1>1 DEF HoldsKnown, IsKnown
<1> QED
  BY <1>1, <1>2, <1>5, <1>6, <1>7

(* The loader accepts what a build wrote if types.h could be written.      *)
LEMMA LoadsWhenHeaderIsWritten ==
  ASSUME NEW semantics, NEW l, NEW m, Written(semantics, l, m)
  PROVE  /\ LoadFile(FileOf(l)).ok <=> WriteTypes(semantics.structs).ok
         /\ LoadFile(FileOf(l)).ok \in BOOLEAN
         /\ LoadFile(FileOf(l)).ok =>
              LoadFile(FileOf(l)).module
                = Sized(m, DepthFirst(Map(LAMBDA struct : HeldBy(semantics.structs, struct),
                                          semantics.structs)).order)
<1> DEFINE s == semantics.structs
           n == Len(s)
           rows == Map(LAMBDA definition : HeldByRow(m, definition), m.structs)
           parts == Map(LAMBDA struct : HeldBy(s, struct), s)
           walk == DepthFirst(rows)
           isSound == walk.ok /\ \A i \in DOMAIN m.structs : HoldsOwn(m, m.structs[i])
<1>1. Declares(semantics) /\ AddsBodies(DeclaredTables(semantics), l) /\ m = NamedRows(l)
  BY DEF Written
<1>2. DOMAIN m.structs = 1 .. n /\ Sound(DeclaredTables(semantics)) /\ DOMAIN s = 1 .. n
  BY <1>1, StructRowSays, DeclaredStructs
<1>3. Readable(FileOf(l)) /\ FileOf(l).rows = l
  BY <1>1, <1>2, LinkedIsReadable
<1>4. \A i \in 1 .. n : /\ HeldByRow(m, m.structs[i]) = HeldBy(s, s[i])
                        /\ HoldsOwn(m, m.structs[i]) <=> HoldsKnown(s, s[i])
  BY SameStructsAreHeld
<1>5. rows = parts
  <2>1. rows = [i \in 1 .. n |-> HeldByRow(m, m.structs[i])]
    BY <1>2 DEF Map
  <2>2. parts = [i \in 1 .. n |-> HeldBy(s, s[i])]
    BY <1>2 DEF Map
  <2> HIDE DEF rows, parts
  <2> QED
    BY <1>4, <2>1, <2>2
<1>6. LoadFile(FileOf(l)) = IF ~Readable(FileOf(l)) \/ ~isSound THEN Refused
                            ELSE [ok |-> TRUE, module |-> Sized(m, walk.order)]
  BY <1>1, <1>3 DEF LoadFile
<1>7. LoadFile(FileOf(l)) = IF ~isSound THEN Refused
                            ELSE [ok |-> TRUE, module |-> Sized(m, walk.order)]
  BY <1>3, <1>6
<1>8. WriteTypes(s).ok = (DepthFirst(parts).ok /\ \A i \in DOMAIN s : HoldsKnown(s, s[i]))
  BY DEF WriteTypes
<1>9. isSound <=> WriteTypes(s).ok
  <2>1. (\A i \in DOMAIN m.structs : HoldsOwn(m, m.structs[i]))
          <=> \A i \in DOMAIN s : HoldsKnown(s, s[i])
    BY <1>2, <1>4
  <2> HIDE DEF rows, parts
  <2> QED
    BY <1>5, <1>8, <2>1
<1>10. LoadFile(FileOf(l)).ok \in BOOLEAN /\ (LoadFile(FileOf(l)).ok <=> isSound)
  <2> HIDE DEF isSound
  <2>1. CASE isSound
    BY <1>7, <2>1
  <2>2. CASE ~isSound
    BY <1>7, <2>2 DEF Refused
  <2> QED
    BY <2>1, <2>2
<1>11. LoadFile(FileOf(l)).ok => LoadFile(FileOf(l)).module = Sized(m, DepthFirst(parts).order)
  <2> HIDE DEF isSound, rows, parts
  <2> SUFFICES ASSUME LoadFile(FileOf(l)).ok
               PROVE  LoadFile(FileOf(l)).module = Sized(m, DepthFirst(parts).order)
    OBVIOUS
  <2>1. isSound
    BY <1>10
  <2>2. LoadFile(FileOf(l)) = [ok |-> TRUE, module |-> Sized(m, walk.order)]
    BY <1>7, <2>1
  <2> QED
    BY <1>5, <2>2
<1> QED
  BY <1>9, <1>10, <1>11

-----------------------------------------------------------------------------
(***************************************************************************)
(* What the loader reads back.                                             *)
(***************************************************************************)

SizedLayouts(module, order) ==
  Fold(LAMBDA acc, i : SizeStruct(module, acc, i),
       [i \in DOMAIN module.structs |-> NothingYet], order)

(* Only sizes are new in a loaded module.                                  *)
LEMMA SizedKeeps ==
  ASSUME NEW semantics, NEW l, NEW m, Written(semantics, l, m), NEW order
  PROVE  LET M == Sized(m, order)
             n == Len(semantics.structs)
         IN  /\ M.types = m.types /\ M.fields = m.fields /\ M.attributes = m.attributes
             /\ M.parameters = m.parameters /\ M.functions = m.functions /\ M.blobs = m.blobs
             /\ DOMAIN M.structs = 1 .. n /\ Len(M.structs) = n
             /\ \A i \in 1 .. n :
                  /\ M.structs[i].type = m.structs[i].type
                  /\ M.structs[i].isComponent = m.structs[i].isComponent
                  /\ M.structs[i].fieldStart = m.structs[i].fieldStart
                  /\ M.structs[i].fieldCount = m.structs[i].fieldCount
                  /\ M.structs[i].attributeStart = m.structs[i].attributeStart
                  /\ M.structs[i].attributeCount = m.structs[i].attributeCount
                  /\ M.structs[i].size = SizedLayouts(m, order)[i].size
                  /\ M.structs[i].alignment = SizedLayouts(m, order)[i].alignment
             /\ \A type \in 1 .. Len(DeclaredTables(semantics).types) :
                  StructOfType(M, type) = FindExact(semantics.structs, m.types[type].qualified)
<1> DEFINE M == Sized(m, order)
           n == Len(semantics.structs)
           SizedRow(row, layout) ==
             [type |-> row.type, isComponent |-> row.isComponent,
              fieldStart |-> row.fieldStart, fieldCount |-> row.fieldCount,
              attributeStart |-> row.attributeStart, attributeCount |-> row.attributeCount,
              size |-> layout.size, alignment |-> layout.alignment]
           layouts == SizedLayouts(m, order)
           rows == [i \in DOMAIN m.structs |-> SizedRow(m.structs[i], layouts[i])]
           t == DeclaredTables(semantics)
<1>1. M = [m EXCEPT !.structs = rows]
  BY DEF Sized, SizedLayouts
<1> HIDE DEF layouts, M
<1>2. HasTables(m)
  <2>1. HasTables(l)
    <3>1. HasTables(t) /\ AddsBodies(t, l)
      BY TablesSayWhatIsDeclared DEF Sound, Written
    <3> HIDE DEF t
    <3> DEFINE F == [i \in DOMAIN t.functions |->
                       [t.functions[i] EXCEPT !.body = l.functions[i].body]]
    <3>2. l = [t EXCEPT !.blobs = l.blobs, !.functions = F]
      BY <3>1 DEF AddsBodies
    <3> HIDE DEF F
    <3> QED
      BY <3>1, <3>2 DEF HasTables
  <2>2. m = NamedRows(l)
    BY DEF Written
  <2>3. \E a, b, c, d, e : m = [l EXCEPT !.types = a, !.fields = b, !.functions = c,
                                         !.parameters = d, !.attributes = e]
    BY <2>2 DEF NamedRows
  <2> QED
    BY <2>1, <2>3 DEF HasTables
<1>3. /\ M.types = m.types /\ M.fields = m.fields /\ M.attributes = m.attributes
      /\ M.parameters = m.parameters /\ M.functions = m.functions /\ M.blobs = m.blobs
      /\ M.structs = rows
  <2> HIDE DEF rows
  <2> QED
    BY <1>1, <1>2 DEF HasTables
<1>4. DOMAIN m.structs = 1 .. n /\ n \in Nat /\ Len(m.structs) = n
  BY StructRowSays, DeclaredStructs DEF Written
<1>5. DOMAIN M.structs = 1 .. n /\ Len(M.structs) = n
  BY <1>3, <1>4
<1>6. ASSUME NEW i \in 1 .. n
      PROVE  M.structs[i] = SizedRow(m.structs[i], layouts[i])
  BY <1>3, <1>4
<1>7. ASSUME NEW i \in 1 .. n
      PROVE  /\ M.structs[i].type = m.structs[i].type
             /\ M.structs[i].isComponent = m.structs[i].isComponent
             /\ M.structs[i].fieldStart = m.structs[i].fieldStart
             /\ M.structs[i].fieldCount = m.structs[i].fieldCount
             /\ M.structs[i].attributeStart = m.structs[i].attributeStart
             /\ M.structs[i].attributeCount = m.structs[i].attributeCount
             /\ M.structs[i].size = layouts[i].size
             /\ M.structs[i].alignment = layouts[i].alignment
  <2>1. M.structs[i] = SizedRow(m.structs[i], layouts[i])
    BY <1>6
  <2> QED
    BY <2>1
<1>8. ASSUME NEW type \in 1 .. Len(t.types)
      PROVE  StructOfType(M, type) = FindExact(semantics.structs, m.types[type].qualified)
  <2>1. StructOfType(m, type) = FindExact(semantics.structs, m.types[type].qualified)
    BY SameStructIsFound
  <2> DEFINE I == {i \in 1 .. n : m.structs[i].type = type}
             J == {i \in 1 .. n : M.structs[i].type = type}
  <2>2. I = J
    BY <1>7
  <2>3. StructOfType(m, type) = IF I # {} THEN Min(I) ELSE 0
    BY <1>4 DEF StructOfType, SelectInSeq
  <2>4. StructOfType(M, type) = IF J # {} THEN Min(J) ELSE 0
    BY <1>5 DEF StructOfType, SelectInSeq
  <2> HIDE DEF I, J
  <2> QED
    BY <2>1, <2>2, <2>3, <2>4
<1> QED
  BY <1>3, <1>5, <1>7, <1>8 DEF M, layouts

(* The loader expects a type where the generator put one.                  *)
LEMMA SamePayloadsExpected ==
  ASSUME NEW semantics, NEW l, NEW m, Written(semantics, l, m), NEW order,
         NEW attribute, attribute.type \in 1 .. Len(DeclaredTables(semantics).types)
  PROVE  ExpectsTypePayload(Sized(m, order), attribute)
           <=> UsesTypePayload(semantics.structs, m.types[attribute.type].qualified)
<1> DEFINE M == Sized(m, order)
           s == semantics.structs
           i == FindExact(s, m.types[attribute.type].qualified)
<1>1. StructOfType(M, attribute.type) = i /\ M.types = m.types /\ M.fields = m.fields
  BY SizedKeeps
<1>2. i \in 0 .. Len(s)
  BY FindExactFinds, DeclaredStructs DEF Written
<1> HIDE DEF M
<1>3. CASE i = 0
  BY <1>1, <1>3 DEF ExpectsTypePayload, UsesTypePayload, M
<1>4. CASE i # 0
  <2>1. i \in 1 .. Len(s)
    BY <1>2, <1>4, DeclaredStructs DEF Written
  <2> HIDE DEF i
  <2>2. /\ M.structs[i].fieldCount = m.structs[i].fieldCount
        /\ M.structs[i].fieldStart = m.structs[i].fieldStart
    BY <2>1, SizedKeeps DEF M
  <2>3. /\ m.structs[i].fieldCount = Len(s[i].fields)
        /\ \A k \in 1 .. Len(s[i].fields) :
             m.types[m.fields[(m.structs[i].fieldStart - 1) + k].type].qualified
               = s[i].fields[k].type
    <3>1. FieldTypesAre(semantics, m, i)
      BY <2>1, FieldTypesSay
    <3>2. \A k \in 1 .. Len(s[i].fields) :
            /\ FieldTypes(m, m.structs[i])[k] = m.fields[(m.structs[i].fieldStart - 1) + k].type
            /\ m.types[FieldTypes(m, m.structs[i])[k]].qualified = s[i].fields[k].type
      BY ONLY <3>1 DEF FieldTypesAre
    <3>3. m.structs[i].fieldCount = Len(s[i].fields)
      BY ONLY <3>1 DEF FieldTypesAre
    <3> QED
      BY ONLY <3>2, <3>3
  <2>4. m.structs[i].fieldStart \in Nat
    BY <2>1, StructRowSays DEF StructRows
  <2>5. Len(s[i].fields) = 1 =>
          m.types[m.fields[m.structs[i].fieldStart].type].qualified = s[i].fields[1].type
    <3> SUFFICES ASSUME Len(s[i].fields) = 1
                 PROVE  m.types[m.fields[m.structs[i].fieldStart].type].qualified
                          = s[i].fields[1].type
      OBVIOUS
    <3>1. (m.structs[i].fieldStart - 1) + 1 = m.structs[i].fieldStart
      BY <2>4
    <3>2. 1 \in 1 .. Len(s[i].fields)
      OBVIOUS
    <3> QED
      BY <2>3, <3>1, <3>2
  <2>6. ExpectsTypePayload(M, attribute)
          <=> /\ Len(s[i].fields) = 1
              /\ m.types[m.fields[m.structs[i].fieldStart].type].qualified = Core("Type")
    BY <1>1, <1>4, <2>2, <2>3 DEF ExpectsTypePayload
  <2>7. UsesTypePayload(s, m.types[attribute.type].qualified)
          <=> Len(s[i].fields) = 1 /\ s[i].fields[1].type = Core("Type")
    BY <1>4 DEF UsesTypePayload, i
  <2> QED
    BY <2>5, <2>6, <2>7 DEF M
<1> QED
  BY <1>3, <1>4

(* An attribute is read back as it was declared.                           *)
LEMMA AttributeReads ==
  ASSUME NEW semantics, NEW l, NEW m, Written(semantics, l, m), NEW order,
         NEW j \in 1 .. Len(DeclaredTables(semantics).attributes),
         NEW attribute,
         SaysAttribute(semantics.structs, DeclaredTables(semantics),
                       DeclaredTables(semantics).attributes[j], attribute)
  PROVE  /\ AttributeType(Sized(m, order), j) = attribute.name
         /\ ImportAttributeData(Sized(m, order), Sized(m, order).attributes[j]) = attribute.data
<1> DEFINE M == Sized(m, order)
           s == semantics.structs
           t == DeclaredTables(semantics)
           row == t.attributes[j]
           read == M.attributes[j]
           blob == l.blobs[row.data]
<1>1. /\ Sound(t) /\ AddsBodies(t, l) /\ m = NamedRows(l)
  BY TablesSayWhatIsDeclared DEF Written
<1>2. /\ M.types = m.types /\ M.attributes = m.attributes /\ M.blobs = m.blobs
  BY SizedKeeps
<1>3. /\ row.type \in 1 .. Len(t.types) /\ row.data \in 1 .. Len(t.blobs)
  <2>1. DOMAIN t.attributes = 1 .. Len(t.attributes)
    BY <1>1, RowsOf DEF Sound, RefersWithin
  <2>2. row \in AttributeRows(Len(t.blobs), Len(t.types))
    BY <1>1, <2>1, SoundRows
  <2> QED
    BY <2>2 DEF AttributeRows
<1>4. /\ read = [type |-> row.type, blob |-> row.data, data |-> BlobText(l.blobs, row.data)]
      /\ m.blobs = l.blobs /\ Len(m.types) = Len(t.types)
      /\ \A i \in 1 .. Len(t.types) : m.types[i].qualified = t.types[i].qualified
  <2>0. j \in 1 .. Len(t.attributes)
    OBVIOUS
  <2> HIDE DEF t, M
  <2>1. /\ m.blobs = l.blobs /\ Len(m.types) = Len(t.types)
        /\ \A i \in 1 .. Len(t.types) : m.types[i].qualified = t.types[i].qualified
        /\ \A i \in 1 .. Len(t.attributes) :
             m.attributes[i] = [type |-> t.attributes[i].type, blob |-> t.attributes[i].data,
                                data |-> BlobText(l.blobs, t.attributes[i].data)]
    BY <1>1, ModuleRows
  <2> QED
    BY <1>2, <2>0, <2>1
<1>5. blob = t.blobs[row.data]
  <2>1. Begins(t.blobs, l.blobs)
    BY <1>1, LinkedTables
  <2> HIDE DEF t
  <2> QED
    BY <1>3, <2>1 DEF Begins
<1>6. /\ t.types[row.type].qualified = attribute.name
      /\ HasTypePayload(s, attribute) =>
           \E i \in 1 .. Len(t.types) : /\ t.blobs[row.data] = TypeBlob(i)
                                        /\ t.types[i].qualified = attribute.data
      /\ ~HasTypePayload(s, attribute) => t.blobs[row.data] = TextBlob(attribute.data)
  BY DEF SaysAttribute
<1>7. read.type \in 1 .. Len(t.types)
  BY <1>3, <1>4
<1>8. m.types[row.type].qualified = attribute.name
  BY <1>3, <1>4, <1>6
<1>9. ExpectsTypePayload(M, read) <=> UsesTypePayload(s, attribute.name)
  <2>1. m.types[read.type].qualified = attribute.name
    BY <1>4, <1>8
  <2> HIDE DEF M, read
  <2> QED
    BY <1>7, <2>1, SamePayloadsExpected DEF M
<1> HIDE DEF t, M, row, read
<1>10. AttributeType(M, j) = attribute.name
  BY <1>2, <1>4, <1>8 DEF AttributeType, read
<1>11. M.blobs[read.blob] = blob /\ M.types = m.types /\ Len(M.types) = Len(t.types)
  BY <1>2, <1>4
<1> HIDE DEF blob
<1>12. ImportAttributeData(M, read) = attribute.data
  <2>1. CASE ~UsesTypePayload(s, attribute.name)
    <3>1. t.blobs[row.data] = TextBlob(attribute.data)
      BY <1>6, <2>1 DEF HasTypePayload
    <3>2. BlobText(l.blobs, row.data) = attribute.data
      BY <1>5, <3>1, TextOfBlob DEF blob
    <3> QED
      BY <1>4, <1>9, <2>1, <3>2 DEF ImportAttributeData
  <2>2. CASE UsesTypePayload(s, attribute.name) /\ attribute.data = <<>>
    <3>1. blob = TextBlob(<<>>)
      BY <1>5, <1>6, <2>2 DEF HasTypePayload
    <3>2. ~("type" \in DOMAIN blob)
      BY <3>1 DEF TextBlob
    <3>3. TypePayload(M, read) = 0
      BY <1>11, <3>2 DEF TypePayload
    <3> QED
      BY <1>9, <2>2, <3>3 DEF ImportAttributeData
  <2>3. CASE UsesTypePayload(s, attribute.name) /\ attribute.data # <<>>
    <3>1. PICK i \in 1 .. Len(t.types) : /\ t.blobs[row.data] = TypeBlob(i)
                                         /\ t.types[i].qualified = attribute.data
      BY <1>6, <2>3 DEF HasTypePayload
    <3>2. "type" \in DOMAIN blob /\ blob.type = i
      BY <1>5, <3>1 DEF TypeBlob
    <3>3. TypePayload(M, read) = i
      BY <1>9, <1>11, <2>3, <3>2 DEF TypePayload, IsRef
    <3>4. i # 0 /\ M.types[i].qualified = attribute.data
      BY <1>1, <1>2, <1>4, <3>1, SoundLengths
    <3> QED
      BY <1>9, <2>3, <3>3, <3>4 DEF ImportAttributeData
  <2> QED
    BY <2>1, <2>2, <2>3
<1> QED
  BY <1>10, <1>12 DEF M, read

(* The attributes of an item are imported as they were declared, from the  *)
(* one after the first few on.                                             *)
ReadsAttributes(module, item, first, attributes) ==
  LET A == ImportAttributes(module, item, first)
      n == Len(attributes) - first
  IN  /\ DOMAIN A = 1 .. n
      /\ \A k \in 1 .. n : /\ A[k].name = attributes[first + k].name
                            /\ A[k].data = attributes[first + k].data

LEMMA AttributesAreRead ==
  ASSUME NEW semantics, NEW l, NEW m, Written(semantics, l, m), NEW order,
         NEW attributes, Len(attributes) \in Nat, NEW first \in Nat,
         first <= Len(attributes),
         NEW item, item.attributeStart \in Nat, item.attributeCount = Len(attributes),
         Spans(Len(DeclaredTables(semantics).attributes), item.attributeStart,
               item.attributeCount),
         SaysAttributes(semantics.structs, DeclaredTables(semantics), item, attributes)
  PROVE  ReadsAttributes(Sized(m, order), item, first, attributes)
<1> DEFINE t == DeclaredTables(semantics)
           M == Sized(m, order)
           A == ImportAttributes(M, item, first)
           ids == AttributeIds(item, first)
           n == Len(attributes) - first
<1>1. n \in Nat /\ item.attributeCount - first = n
  OBVIOUS
<1>2. ids = [k \in 1 .. n |-> (item.attributeStart + first) + (k - 1)]
  BY <1>1 DEF AttributeIds
<1>3. DOMAIN ids = 1 .. n /\ DOMAIN A = 1 .. n
  BY <1>2 DEF ImportAttributes, Map
<1>4. ASSUME NEW k \in 1 .. n
      PROVE  /\ A[k].name = attributes[first + k].name
             /\ A[k].data = attributes[first + k].data
             /\ ids[k] \in 1 .. Len(t.attributes)
             /\ AttributeType(M, ids[k]) = attributes[first + k].name
  <2> DEFINE j == (item.attributeStart - 1) + (first + k)
  <2>0. k \in Nat /\ first + k \in 1 .. Len(attributes)
    BY <1>1
  <2>1. ids[k] = j
    BY <1>2, <2>0
  <2>2. Len(t.attributes) \in Nat
    BY TablesSayWhatIsDeclared, SoundLengths DEF Written
  <2>3. j \in 1 .. Len(t.attributes)
    BY <2>0, <2>2, SpanRows
  <2>4. SaysAttribute(semantics.structs, t, t.attributes[j], attributes[first + k])
    BY <2>0 DEF SaysAttributes
  <2> HIDE DEF j
  <2>5. /\ AttributeType(M, j) = attributes[first + k].name
        /\ ImportAttributeData(M, M.attributes[j]) = attributes[first + k].data
    BY <2>3, <2>4, AttributeReads
  <2>6. A[k] = [name |-> AttributeType(M, ids[k]),
                data |-> ImportAttributeData(M, M.attributes[ids[k]])]
    BY <1>3 DEF ImportAttributes, Map
  <2> QED
    BY <2>1, <2>3, <2>5, <2>6
<1> QED
  BY <1>3, <1>4 DEF ReadsAttributes

(* Attributes that agree one by one attribute the same.                    *)
LEMMA SameAttribution ==
  ASSUME NEW A, NEW B, DOMAIN A = DOMAIN B,
         \A k \in DOMAIN A : A[k].name = B[k].name /\ A[k].data = B[k].data
  PROVE  Attribution(A) = Attribution(B)
<1>1. \A k \in DOMAIN A : <<A[k].name, A[k].data>> = <<B[k].name, B[k].data>>
  OBVIOUS
<1> QED
  BY <1>1 DEF Attribution

(* A list of the first k results with the next one is that of k + 1.       *)
LEMMA AppendNext ==
  ASSUME NEW n \in Nat, NEW f, NEW k \in 1 .. n
  PROVE  Append([j \in 1 .. (k - 1) |-> f[j]], f[k]) = [j \in 1 .. k |-> f[j]]
<1> DEFINE S == {f[j] : j \in 1 .. n}
           a == [j \in 1 .. (k - 1) |-> f[j]]
           b == [j \in 1 .. k |-> f[j]]
<1>1. k \in Nat /\ k - 1 \in Nat /\ (k - 1) + 1 = k /\ \A j \in 1 .. k : j \in 1 .. n
  OBVIOUS
<1>2. \A j \in 1 .. n : f[j] \in S
  OBVIOUS
<1> HIDE DEF S
<1>3. a \in Seq(S) /\ Len(a) = k - 1
  BY <1>1, <1>2
<1>4. b \in Seq(S) /\ Len(b) = k
  BY <1>1, <1>2
<1>5. f[k] \in S
  BY <1>2
<1>6. /\ Append(a, f[k]) \in Seq(S) /\ Len(Append(a, f[k])) = k
      /\ \A j \in 1 .. (k - 1) : Append(a, f[k])[j] = a[j]
      /\ Append(a, f[k])[k] = f[k]
  <2> HIDE DEF a, b
  <2> QED
    BY <1>1, <1>3, <1>5, AppendRows
<1>7. \A j \in 1 .. k : b[j] = f[j]
  OBVIOUS
<1>8. \A j \in 1 .. (k - 1) : a[j] = f[j]
  OBVIOUS
<1> HIDE DEF a, b
<1>9. ASSUME NEW j \in 1 .. k PROVE Append(a, f[k])[j] = b[j]
  <2>1. CASE j = k
    BY <1>6, <1>7, <2>1
  <2>2. CASE j # k
    <3>1. j \in 1 .. (k - 1)
      BY <1>1, <2>2
    <3> QED
      BY <1>6, <1>7, <1>8, <3>1
  <2> QED
    BY <2>1, <2>2
<1>10. Append(a, f[k]) = b
  BY <1>1, <1>4, <1>6, <1>9
<1> QED
  BY <1>10 DEF a, b

(* The import of a struct.                                                 *)
ImportedStruct(module, definition) ==
  LET type == module.types[definition.type]
      attributes == ImportAttributes(module, definition, 0)
      FieldAt(k) == module.fields[definition.fieldStart - 1 + k]
  IN  [namespace |-> type.namespace, name |-> type.name,
       qualified |-> type.qualified,
       isComponent |-> \/ IsComponent(module, definition)
                       \/ \E k \in DOMAIN attributes : attributes[k].name = Core("Component"),
       attributes |-> attributes,
       fields |-> [k \in 1..definition.fieldCount |->
                     [name |-> FieldAt(k).name,
                      type |-> module.types[FieldAt(k).type].qualified]],
       layout |-> IF definition.size = 0 THEN "none" ELSE "done",
       size |-> definition.size, alignment |-> definition.alignment]

(* The fields of a struct as they are read.                                *)
FieldNamed(m, i, k, field) ==
  LET row == m.fields[(m.structs[i].fieldStart - 1) + k]
  IN  row.name = field.name /\ m.types[row.type].qualified = field.type

(* The fields of a struct are read back as they were declared.             *)
LEMMA FieldsAreRead ==
  ASSUME NEW semantics, NEW l, NEW m, Written(semantics, l, m),
         NEW i \in 1 .. Len(semantics.structs)
  PROVE  LET fields == semantics.structs[i].fields
         IN  /\ m.structs[i].fieldCount = Len(fields)
             /\ \A k \in 1 .. Len(fields) : FieldNamed(m, i, k, fields[k])
<1> DEFINE fields == semantics.structs[i].fields
           types == FieldTypes(m, m.structs[i])
<1>1. /\ DOMAIN types = 1 .. Len(fields) /\ DOMAIN fields = 1 .. Len(fields)
      /\ m.structs[i].fieldCount = Len(fields)
      /\ \A k \in 1 .. Len(fields) :
           /\ types[k] \in 1 .. Len(DeclaredTables(semantics).types)
           /\ types[k] = m.fields[(m.structs[i].fieldStart - 1) + k].type
           /\ m.types[types[k]].qualified = fields[k].type
           /\ m.fields[(m.structs[i].fieldStart - 1) + k].name = fields[k].name
  <2>1. FieldTypesAre(semantics, m, i)
    BY FieldTypesSay
  <2> QED
    BY ONLY <2>1 DEF FieldTypesAre
<1> HIDE DEF types
<1>2. ASSUME NEW k \in 1 .. Len(fields)
      PROVE  FieldNamed(m, i, k, fields[k])
  BY <1>1 DEF FieldNamed
<1> QED
  BY <1>1, <1>2

(* An imported struct means what the declared one does.                    *)
LEMMA StructMeans ==
  ASSUME NEW semantics, NEW l, NEW m, Written(semantics, l, m), NEW order,
         NEW i \in 1 .. Len(semantics.structs)
  PROVE  LET M == Sized(m, order)
         IN  /\ ImportedStruct(M, M.structs[i]).qualified = semantics.structs[i].qualified
             /\ M.types[M.structs[i].type].qualified = semantics.structs[i].qualified
             /\ StructMeaning(ImportedStruct(M, M.structs[i]))
                  = StructMeaning(semantics.structs[i])
<1> DEFINE M == Sized(m, order)
           s == semantics.structs
           t == DeclaredTables(semantics)
           row == M.structs[i]
           struct == s[i]
           imported == ImportedStruct(M, row)
<1>1. /\ M.types = m.types /\ M.fields = m.fields
      /\ row.type = m.structs[i].type
      /\ row.fieldStart = m.structs[i].fieldStart /\ row.fieldCount = m.structs[i].fieldCount
      /\ row.attributeStart = m.structs[i].attributeStart
      /\ row.attributeCount = m.structs[i].attributeCount
  BY SizedKeeps
<1>2. /\ m.types[m.structs[i].type].qualified = struct.qualified
      /\ m.structs[i] \in StructRows(Len(t.types))
      /\ SaysStruct(s, t, m.structs[i], struct)
      /\ m.structs[i] = t.structs[i] /\ Sound(t) /\ i \in 1 .. Len(t.structs)
  BY StructRowSays
<1>3. /\ struct \in StructText1 /\ struct.fields \in Seq(FieldTexts)
      /\ Len(struct.fields) \in Nat /\ DOMAIN struct.fields = 1 .. Len(struct.fields)
      /\ Len(struct.attributes) \in Nat
      /\ DOMAIN struct.attributes = 1 .. Len(struct.attributes)
  BY DeclaredStructs DEF Written
<1>4. /\ row.attributeStart \in Nat /\ row.attributeCount = Len(struct.attributes)
      /\ SaysAttributes(s, t, row, struct.attributes)
      /\ Spans(Len(t.attributes), row.attributeStart, row.attributeCount)
  <2>1. /\ m.structs[i].attributeStart \in Nat
        /\ m.structs[i].attributeCount = Len(struct.attributes)
        /\ SaysAttributes(s, t, m.structs[i], struct.attributes)
    BY <1>2 DEF StructRows, SaysStruct
  <2>2. Spans(Len(t.attributes), m.structs[i].attributeStart, m.structs[i].attributeCount)
    BY <1>2, SoundStructRow
  <2> HIDE DEF row, t, s, struct
  <2> QED
    BY <1>1, <2>1, <2>2 DEF SaysAttributes
<1>5. Attribution(ImportAttributes(M, row, 0)) = Attribution(struct.attributes)
  <2> DEFINE A == ImportAttributes(M, row, 0)
  <2>a. ReadsAttributes(M, row, 0, struct.attributes)
    <3>1. 0 \in Nat /\ 0 <= Len(struct.attributes)
      BY <1>3
    <3> HIDE DEF row, struct
    <3> QED
      BY <1>3, <1>4, <3>1, AttributesAreRead
  <2>1. /\ DOMAIN A = 1 .. (Len(struct.attributes) - 0)
        /\ \A k \in 1 .. (Len(struct.attributes) - 0) :
             /\ A[k].name = struct.attributes[0 + k].name
             /\ A[k].data = struct.attributes[0 + k].data
    BY ONLY <2>a DEF ReadsAttributes
  <2>2. /\ Len(struct.attributes) - 0 = Len(struct.attributes)
        /\ \A k \in 1 .. Len(struct.attributes) : 0 + k = k
    BY <1>3
  <2> HIDE DEF A, struct
  <2>3. /\ DOMAIN A = DOMAIN struct.attributes
        /\ \A k \in DOMAIN A : /\ A[k].name = struct.attributes[k].name
                               /\ A[k].data = struct.attributes[k].data
    BY <1>3, <2>1, <2>2
  <2> QED
    BY <2>3, SameAttribution DEF A
<1>6. imported.fields = struct.fields
  <2> DEFINE Read(k) == [name |-> M.fields[(row.fieldStart - 1) + k].name,
                         type |-> M.types[M.fields[(row.fieldStart - 1) + k].type].qualified]
  <2>1. imported.fields = [k \in 1 .. row.fieldCount |-> Read(k)]
    BY DEF ImportedStruct
  <2>2. /\ m.structs[i].fieldCount = Len(struct.fields)
        /\ \A k \in 1 .. Len(struct.fields) : FieldNamed(m, i, k, struct.fields[k])
    BY FieldsAreRead
  <2>3. ASSUME NEW k \in 1 .. Len(struct.fields)
        PROVE  Read(k) = struct.fields[k]
    <3>1. Read(k) = [name |-> struct.fields[k].name, type |-> struct.fields[k].type]
      BY <1>1, <2>2 DEF FieldNamed
    <3>2. struct.fields[k] \in FieldTexts
      BY <1>3
    <3> HIDE DEF Read, struct
    <3> QED
      BY <3>1, <3>2 DEF FieldTexts
  <2>4. struct.fields = [k \in 1 .. Len(struct.fields) |-> struct.fields[k]]
    BY <1>3
  <2>5. row.fieldCount = Len(struct.fields)
    BY <1>1, <2>2
  <2> HIDE DEF Read, struct, imported, row
  <2> QED
    BY <2>1, <2>3, <2>4, <2>5
<1>7. imported.qualified = struct.qualified /\ M.types[row.type].qualified = struct.qualified
  BY <1>1, <1>2 DEF ImportedStruct
<1>8. imported.attributes = ImportAttributes(M, row, 0)
  BY DEF ImportedStruct
<1> HIDE DEF imported, row, M
<1>9. StructMeaning(imported) = StructMeaning(struct)
  BY <1>5, <1>6, <1>7, <1>8 DEF StructMeaning
<1> QED
  BY <1>7, <1>9 DEF imported, row, M

(* How long a list made from a range is.                                   *)
LEMMA LengthOfRows ==
  ASSUME NEW n \in Nat, NEW f
  PROVE  Len([j \in 1 .. n |-> f[j]]) = n
<1> DEFINE S == {f[j] : j \in 1 .. n}
<1>1. \A j \in 1 .. n : f[j] \in S
  OBVIOUS
<1> HIDE DEF S
<1>2. [j \in 1 .. n |-> f[j]] \in Seq(S)
  BY <1>1
<1> QED
  BY <1>2

(* A name that none of the first items has is not found among them.        *)
LEMMA NotFoundYet ==
  ASSUME NEW n \in Nat, NEW f, NEW name, \A j \in 1 .. n : f[j].qualified # name
  PROVE  FindExact([j \in 1 .. n |-> f[j]], name) = 0
<1> DEFINE rows == [j \in 1 .. n |-> f[j]]
<1>1. Len(rows) = n
  BY LengthOfRows
<1>2. \A j \in 1 .. n : rows[j] = f[j]
  OBVIOUS
<1> HIDE DEF rows
<1>3. FindExact(rows, name) \in 0 .. n
      /\ (FindExact(rows, name) # 0 => rows[FindExact(rows, name)].qualified = name)
  BY <1>1, FindExactFinds
<1>4. FindExact(rows, name) \in 1 .. n \/ FindExact(rows, name) = 0
  BY <1>3
<1> QED
  BY <1>2, <1>3, <1>4 DEF rows

ImportedStructs(module, n) == [j \in 1 .. n |-> ImportedStruct(module, module.structs[j])]

HasDeclarations(s) ==
  s = [ok |-> s.ok, structs |-> s.structs, functions |-> s.functions, constants |-> s.constants]

ImportStructStep(c, acc, definition) == ImportStruct(c, acc, definition)
StructsImported(c, k, acc) ==
  /\ HasDeclarations(acc) /\ acc.ok = TRUE /\ acc.functions = <<>>
  /\ acc.structs = ImportedStructs(c, k)

(* One struct more.                                                        *)
LEMMA ImportStructNext ==
  ASSUME NEW semantics, NEW l, NEW m, Written(semantics, l, m), NEW order,
         CanDecompile(Sized(m, order)), NEW k \in 1 .. Len(semantics.structs),
         NEW acc, StructsImported(Sized(m, order), k - 1, acc)
  PROVE  StructsImported(Sized(m, order), k,
                         ImportStructStep(Sized(m, order), acc, Sized(m, order).structs[k]))
<1> DEFINE M == Sized(m, order)
           n == Len(semantics.structs)
           f == [j \in 1 .. n |-> ImportedStruct(M, M.structs[j])]
           name == semantics.structs[k].qualified
           next == ImportStruct(M, acc, M.structs[k])
<1>a. /\ HasDeclarations(acc) /\ acc.ok = TRUE /\ acc.functions = <<>>
      /\ acc.structs = ImportedStructs(M, k - 1)
  BY DEF StructsImported
<1>0. n \in Nat /\ k \in Nat /\ k - 1 \in Nat /\ \A j \in 1 .. (k - 1) : j \in 1 .. n /\ j # k
  BY DeclaredStructs DEF Written
<1>1. \A j \in 1 .. n : f[j].qualified = semantics.structs[j].qualified
  BY StructMeans
<1>2. ImportedStructs(M, k - 1) = [j \in 1 .. (k - 1) |-> f[j]]
  BY <1>0 DEF ImportedStructs
<1>3. ImportedStructs(M, k) = [j \in 1 .. k |-> f[j]]
  BY <1>0 DEF ImportedStructs
<1>4. f[k] = ImportedStruct(M, M.structs[k])
  OBVIOUS
<1>5. M.types[M.structs[k].type].qualified = name
  BY StructMeans
<1>6. PayloadsPresent(M, M.structs[k], 0)
  <2>1. k \in DOMAIN M.structs
    BY SizedKeeps
  <2> QED
    BY <2>1 DEF CanDecompile
<1> HIDE DEF f, M
<1>7. FindExact(acc.structs, name) = 0
  <2>1. \A j \in 1 .. (k - 1) : f[j].qualified # name
    <3>1. \A j \in 1 .. (k - 1) : semantics.structs[j].qualified # name
      BY <1>0, DeclaredStructs DEF Written
    <3> QED
      BY <1>0, <1>1, <3>1
  <2> HIDE DEF name
  <2>2. FindExact([j \in 1 .. (k - 1) |-> f[j]], name) = 0
    BY <1>0, <2>1, NotFoundYet
  <2> QED
    BY <1>a, <1>2, <2>2
<1>8. next = [acc EXCEPT !.structs = Append(@, ImportedStruct(M, M.structs[k]))]
  <2> HIDE DEF name
  <2> QED
    BY <1>a, <1>5, <1>6, <1>7, Zenon DEF ImportStruct, ImportedStruct
<1>9. Append(ImportedStructs(M, k - 1), ImportedStruct(M, M.structs[k])) = ImportedStructs(M, k)
  <2>1. Append([j \in 1 .. (k - 1) |-> f[j]], f[k]) = [j \in 1 .. k |-> f[j]]
    BY <1>0, AppendNext
  <2> QED
    BY <1>2, <1>3, <1>4, <2>1
<1> DEFINE after == ImportedStructs(M, k)
<1>10. next = [acc EXCEPT !.structs = after]
  BY <1>a, <1>8, <1>9
<1> HIDE DEF after, next
<1>11. /\ HasDeclarations(next) /\ next.ok = TRUE /\ next.functions = <<>>
       /\ next.structs = after
  BY <1>a, <1>10 DEF HasDeclarations
<1>12. StructsImported(M, k, next)
  BY <1>11 DEF StructsImported, after
<1> QED
  BY <1>12 DEF M, next, ImportStructStep

ImportStructLoop == INSTANCE Loops WITH Step <- ImportStructStep, May <- StructsImported

(* All structs of the module are imported, in their order.                 *)
LEMMA StructsAreImported ==
  ASSUME NEW semantics, NEW l, NEW m, Written(semantics, l, m), NEW order,
         CanDecompile(Sized(m, order)),
         NEW base, HasDeclarations(base), base.ok = TRUE, base.functions = <<>>,
         base.structs = <<>>
  PROVE  StructsImported(Sized(m, order), Len(semantics.structs),
                         Fold(LAMBDA acc, s : ImportStruct(Sized(m, order), acc, s),
                              base, Sized(m, order).structs))
<1> DEFINE M == Sized(m, order)
           n == Len(semantics.structs)
<1>1. Len(M.structs) = n /\ n \in Nat
  BY SizedKeeps, DeclaredStructs DEF Written
<1>2. StructsImported(M, 0, base)
  <2>1. ImportedStructs(M, 0) = <<>>
    BY DEF ImportedStructs
  <2> HIDE DEF M
  <2> QED
    BY <2>1 DEF StructsImported
<1>3. ASSUME NEW k \in 1 .. n, NEW acc, StructsImported(M, k - 1, acc)
      PROVE  StructsImported(M, k, ImportStructStep(M, acc, M.structs[k]))
  BY <1>3, ImportStructNext
<1>4. StructsImported(M, n, ImportStructLoop!Result(M, base, M.structs))
  <2> HIDE DEF M
  <2> QED
    BY <1>1, <1>2, <1>3, ImportStructLoop!LoopInvariant
<1>5. ImportStructLoop!Result(M, base, M.structs)
        = Fold(LAMBDA acc, s : ImportStruct(M, acc, s), base, M.structs)
  <2> HIDE DEF M
  <2> QED
    BY DEF ImportStructLoop!Result, Fold, ImportStructStep
<1> QED
  BY <1>4, <1>5

-----------------------------------------------------------------------------
(***************************************************************************)
(* Functions.                                                              *)
(***************************************************************************)

LEMMA DeclaredFunctions ==
  ASSUME NEW semantics, Declares(semantics)
  PROVE  /\ Len(semantics.functions) \in Nat
         /\ DOMAIN semantics.functions = 1 .. Len(semantics.functions)
         /\ \A i \in 1 .. Len(semantics.functions) :
              /\ IsFunctionText(semantics.functions[i])
              /\ semantics.functions[i].parameters \in Seq(ParameterTexts)
              /\ Len(semantics.functions[i].parameters) \in Nat
              /\ DOMAIN semantics.functions[i].parameters
                   = 1 .. Len(semantics.functions[i].parameters)
              /\ Len(semantics.functions[i].attributes) \in Nat
              /\ DOMAIN semantics.functions[i].attributes
                   = 1 .. Len(semantics.functions[i].attributes)
         /\ \A i, j \in 1 .. Len(semantics.functions) :
              semantics.functions[i].qualified = semantics.functions[j].qualified => i = j
<1> DEFINE functions == semantics.functions
<1>1. functions \in Seq(Range(functions)) /\ \A i \in DOMAIN functions : IsFunctionText(functions[i])
  BY DEF Declares, IsSequence
<1>2. Len(functions) \in Nat /\ DOMAIN functions = 1 .. Len(functions)
  BY <1>1
<1>3. ASSUME NEW i \in 1 .. Len(functions)
      PROVE  /\ IsFunctionText(functions[i])
             /\ functions[i].parameters \in Seq(ParameterTexts)
             /\ functions[i].attributes \in Seq(AttributeText1)
  <2>1. IsFunctionText(functions[i])
    BY <1>1, <1>2
  <2> HIDE DEF functions
  <2> QED
    BY <2>1 DEF IsFunctionText, ParameterTexts
<1>4. ASSUME NEW i \in 1 .. Len(functions)
      PROVE  /\ Len(functions[i].parameters) \in Nat
             /\ DOMAIN functions[i].parameters = 1 .. Len(functions[i].parameters)
             /\ Len(functions[i].attributes) \in Nat
             /\ DOMAIN functions[i].attributes = 1 .. Len(functions[i].attributes)
  <2> DEFINE a == functions[i].parameters
             b == functions[i].attributes
  <2>1. a \in Seq(ParameterTexts) /\ b \in Seq(AttributeText1)
    BY <1>3
  <2> HIDE DEF a, b
  <2>2. Len(a) \in Nat /\ DOMAIN a = 1 .. Len(a) /\ Len(b) \in Nat /\ DOMAIN b = 1 .. Len(b)
    BY <2>1
  <2> QED
    BY <2>2 DEF a, b
<1>5. \A i, j \in 1 .. Len(functions) : functions[i].qualified = functions[j].qualified => i = j
  BY <1>2 DEF Declares
<1> QED
  BY <1>2, <1>3, <1>4, <1>5

(* A function has the name, the parameters and the attributes it was       *)
(* declared with.                                                          *)
FunctionRowIs(semantics, m, i) ==
  LET t == DeclaredTables(semantics)
      function == semantics.functions[i]
  IN  /\ SaysFunction(semantics.structs, t, t.functions[i], function)
      /\ m.functions[i].namespace = function.namespace
      /\ m.functions[i].name = function.name
      /\ m.functions[i].qualified = function.qualified
      /\ m.functions[i].parameterStart = t.functions[i].parameterStart
      /\ m.functions[i].parameterCount = Len(function.parameters)
      /\ m.functions[i].attributeStart = t.functions[i].attributeStart
      /\ m.functions[i].attributeCount = Len(function.attributes) + 1
      /\ t.functions[i].parameterStart \in Nat
      /\ t.functions[i].attributeStart \in Nat
      /\ Spans(Len(t.parameters), t.functions[i].parameterStart, Len(function.parameters))
      /\ Spans(Len(t.attributes), t.functions[i].attributeStart, Len(function.attributes) + 1)

LEMMA FunctionRowSays ==
  ASSUME NEW semantics, NEW l, NEW m, Written(semantics, l, m)
  PROVE  /\ Len(m.functions) = Len(semantics.functions)
         /\ DOMAIN m.functions = 1 .. Len(semantics.functions)
         /\ \A i \in 1 .. Len(semantics.functions) : FunctionRowIs(semantics, m, i)
<1> DEFINE t == DeclaredTables(semantics)
           f == semantics.functions
<1>1. Sound(t) /\ Says(t, semantics)
  BY TablesSayWhatIsDeclared DEF Written
<1>2. AddsBodies(t, l) /\ m = NamedRows(l) /\ Declares(semantics)
  BY DEF Written
<1> HIDE DEF t
<1>3. /\ Len(t.functions) = Len(f)
      /\ \A i \in 1 .. Len(f) : SaysFunction(semantics.structs, t, t.functions[i], f[i])
  BY <1>1 DEF Says
<1>4. Len(m.functions) = Len(f) /\ DOMAIN m.functions = 1 .. Len(f)
  BY <1>1, <1>2, <1>3, ModuleRows
<1>5. ASSUME NEW i \in 1 .. Len(f)
      PROVE  /\ m.functions[i].namespace = f[i].namespace
             /\ m.functions[i].name = f[i].name
             /\ m.functions[i].qualified = f[i].qualified
             /\ m.functions[i].parameterStart = t.functions[i].parameterStart
             /\ m.functions[i].parameterCount = Len(f[i].parameters)
             /\ m.functions[i].attributeStart = t.functions[i].attributeStart
             /\ m.functions[i].attributeCount = Len(f[i].attributes) + 1
             /\ t.functions[i].parameterStart \in Nat
             /\ t.functions[i].attributeStart \in Nat
             /\ Spans(Len(t.parameters), t.functions[i].parameterStart, Len(f[i].parameters))
             /\ Spans(Len(t.attributes), t.functions[i].attributeStart,
                      Len(f[i].attributes) + 1)
  <2> DEFINE row == t.functions[i]
  <2>1. /\ l.blobs[row.namespaceBlob] = t.blobs[row.namespaceBlob]
        /\ l.blobs[row.nameBlob] = t.blobs[row.nameBlob]
    <3>1. row \in FunctionRows(Len(t.blobs))
      BY <1>1, <1>3, SoundFunctionRow
    <3>2. row.namespaceBlob \in 1 .. Len(t.blobs) /\ row.nameBlob \in 1 .. Len(t.blobs)
      BY <3>1 DEF FunctionRows
    <3>3. Begins(t.blobs, l.blobs)
      BY <1>1, <1>2, LinkedTables
    <3> QED
      BY <3>2, <3>3 DEF Begins
  <2>2. /\ t.blobs[row.namespaceBlob] = TextBlob(f[i].namespace)
        /\ t.blobs[row.nameBlob] = TextBlob(f[i].name)
        /\ row.parameterCount = Len(f[i].parameters)
        /\ row.attributeCount = Len(f[i].attributes) + 1
    BY <1>3 DEF SaysFunction
  <2>3. /\ BlobText(l.blobs, row.namespaceBlob) = f[i].namespace
        /\ BlobText(l.blobs, row.nameBlob) = f[i].name
    BY <2>1, <2>2, TextOfBlob
  <2>4. f[i].qualified = Join(f[i].namespace, f[i].name)
    BY <1>2, DeclaredFunctions DEF IsFunctionText
  <2>5. i \in 1 .. Len(t.functions)
    BY <1>3
  <2> HIDE DEF f
  <2>6. /\ m.functions[i].namespace = BlobText(l.blobs, row.namespaceBlob)
        /\ m.functions[i].name = BlobText(l.blobs, row.nameBlob)
        /\ m.functions[i].qualified
             = Join(BlobText(l.blobs, row.namespaceBlob), BlobText(l.blobs, row.nameBlob))
        /\ m.functions[i].parameterStart = row.parameterStart
        /\ m.functions[i].parameterCount = row.parameterCount
        /\ m.functions[i].attributeStart = row.attributeStart
        /\ m.functions[i].attributeCount = row.attributeCount
    BY <1>1, <1>2, <2>5, ModuleRows
  <2>7. /\ Spans(Len(t.parameters), row.parameterStart, row.parameterCount)
        /\ Spans(Len(t.attributes), row.attributeStart, row.attributeCount)
        /\ row \in FunctionRows(Len(t.blobs))
    BY <1>1, <2>5, SoundFunctionRow
  <2>8. row.parameterStart \in Nat /\ row.attributeStart \in Nat
    BY <2>7 DEF FunctionRows
  <2> QED
    BY <2>2, <2>3, <2>4, <2>6, <2>7, <2>8
<1>6. ASSUME NEW i \in 1 .. Len(f) PROVE FunctionRowIs(semantics, m, i)
  <2> HIDE DEF t
  <2>1. /\ SaysFunction(semantics.structs, t, t.functions[i], f[i])
        /\ m.functions[i].namespace = f[i].namespace
        /\ m.functions[i].name = f[i].name
        /\ m.functions[i].qualified = f[i].qualified
        /\ m.functions[i].parameterStart = t.functions[i].parameterStart
        /\ m.functions[i].parameterCount = Len(f[i].parameters)
        /\ m.functions[i].attributeStart = t.functions[i].attributeStart
        /\ m.functions[i].attributeCount = Len(f[i].attributes) + 1
        /\ t.functions[i].parameterStart \in Nat
        /\ t.functions[i].attributeStart \in Nat
        /\ Spans(Len(t.parameters), t.functions[i].parameterStart, Len(f[i].parameters))
        /\ Spans(Len(t.attributes), t.functions[i].attributeStart, Len(f[i].attributes) + 1)
    BY <1>3, <1>5
  <2> QED
    BY ONLY <2>1 DEF FunctionRowIs, t
<1> QED
  BY <1>4, <1>6

ReadParameter(module, row) ==
  [name |-> row.name, type |-> module.types[row.type].qualified,
   default |-> IF row.defaultBlob = 0 THEN <<>> ELSE BlobText(module.blobs, row.defaultBlob)]

(* A parameter is read back as it was declared.                            *)
LEMMA ParameterReads ==
  ASSUME NEW semantics, NEW l, NEW m, Written(semantics, l, m), NEW order,
         NEW j \in 1 .. Len(DeclaredTables(semantics).parameters),
         NEW parameter \in ParameterTexts,
         SaysParameter(DeclaredTables(semantics), DeclaredTables(semantics).parameters[j],
                       parameter)
  PROVE  ReadParameter(Sized(m, order), Sized(m, order).parameters[j]) = parameter
<1> DEFINE M == Sized(m, order)
           t == DeclaredTables(semantics)
           row == t.parameters[j]
           read == M.parameters[j]
<1>1. Sound(t) /\ AddsBodies(t, l) /\ m = NamedRows(l)
  BY TablesSayWhatIsDeclared DEF Written
<1>2. M.types = m.types /\ M.parameters = m.parameters /\ M.blobs = m.blobs
  BY SizedKeeps
<1>3. /\ row.type \in 1 .. Len(t.types) /\ row.nameBlob \in 1 .. Len(t.blobs)
      /\ row.defaultBlob \in 0 .. Len(t.blobs) /\ Len(t.blobs) \in Nat
  <2>1. DOMAIN t.parameters = 1 .. Len(t.parameters)
    BY <1>1, RowsOf DEF Sound, RefersWithin
  <2>2. row \in ParameterRows(Len(t.blobs), Len(t.types))
    BY <1>1, <2>1, SoundRows
  <2> QED
    BY <1>1, <2>2, SoundLengths DEF ParameterRows
<1>4. /\ t.blobs[row.nameBlob] = TextBlob(parameter.name)
      /\ t.types[row.type].qualified = parameter.type
      /\ parameter.default = <<>> => row.defaultBlob = 0
      /\ parameter.default # <<>> =>
           row.defaultBlob # 0 /\ t.blobs[row.defaultBlob] = TextBlob(parameter.default)
  BY DEF SaysParameter
<1>5. parameter = [name |-> parameter.name, type |-> parameter.type,
                   default |-> parameter.default]
  BY DEF ParameterTexts
<1>j. j \in 1 .. Len(t.parameters)
  OBVIOUS
<1> HIDE DEF t, M
<1>6. /\ read = [name |-> BlobText(l.blobs, row.nameBlob), type |-> row.type,
                 defaultBlob |-> row.defaultBlob]
      /\ M.blobs = l.blobs
      /\ M.types[row.type].qualified = t.types[row.type].qualified
  <2>1. /\ m.blobs = l.blobs
        /\ \A i \in 1 .. Len(t.types) : m.types[i].qualified = t.types[i].qualified
        /\ \A i \in 1 .. Len(t.parameters) :
             m.parameters[i] = [name |-> BlobText(l.blobs, t.parameters[i].nameBlob),
                                type |-> t.parameters[i].type,
                                defaultBlob |-> t.parameters[i].defaultBlob]
    BY <1>1, ModuleRows
  <2> QED
    BY <1>2, <1>3, <1>j, <2>1
<1>7. \A i \in 1 .. Len(t.blobs) : l.blobs[i] = t.blobs[i]
  BY <1>1, LinkedTables DEF Begins
<1> HIDE DEF row, read
<1>8. BlobText(l.blobs, row.nameBlob) = parameter.name
  BY <1>3, <1>4, <1>7, TextOfBlob
<1>9. (IF row.defaultBlob = 0 THEN <<>> ELSE BlobText(l.blobs, row.defaultBlob))
        = parameter.default
  <2>1. CASE parameter.default = <<>>
    BY <1>4, <2>1
  <2>2. CASE parameter.default # <<>>
    <3>1. row.defaultBlob # 0 /\ t.blobs[row.defaultBlob] = TextBlob(parameter.default)
      BY <1>4, <2>2
    <3>2. row.defaultBlob \in 1 .. Len(t.blobs)
      BY <1>3, <3>1
    <3>3. BlobText(l.blobs, row.defaultBlob) = parameter.default
      BY <1>7, <3>1, <3>2, TextOfBlob
    <3> QED
      BY <3>1, <3>3
  <2> QED
    BY <2>1, <2>2
<1>10. ReadParameter(M, read)
         = [name |-> parameter.name, type |-> parameter.type, default |-> parameter.default]
  <2>1. /\ read.name = parameter.name /\ read.type = row.type
        /\ read.defaultBlob = row.defaultBlob
    BY <1>6, <1>8
  <2> QED
    BY <1>4, <1>6, <1>9, <2>1 DEF ReadParameter
<1> QED
  BY <1>5, <1>10 DEF M, read

(* The import of a function.                                               *)
ImportedFunction(module, function) ==
  LET ParameterAt(k) == module.parameters[function.parameterStart - 1 + k]
  IN  [namespace |-> function.namespace, name |-> function.name,
       qualified |-> function.qualified,
       returns |-> ReturnType(module, function),
       parameters |-> [k \in 1..function.parameterCount |->
          [name |-> ParameterAt(k).name,
           type |-> module.types[ParameterAt(k).type].qualified,
           default |-> IF ParameterAt(k).defaultBlob = 0 THEN <<>>
                       ELSE BlobText(module.blobs, ParameterAt(k).defaultBlob)]],
       attributes |-> ImportAttributes(module, function, 1),
       source |-> <<>>, body |-> <<>>]

(* An imported function means what the declared one does.                  *)
LEMMA FunctionMeans ==
  ASSUME NEW semantics, NEW l, NEW m, Written(semantics, l, m), NEW order,
         NEW i \in 1 .. Len(semantics.functions)
  PROVE  LET M == Sized(m, order)
         IN  /\ M.functions[i].qualified = semantics.functions[i].qualified
             /\ ImportedFunction(M, M.functions[i]).qualified = semantics.functions[i].qualified
             /\ FunctionMeaning(ImportedFunction(M, M.functions[i]))
                  = FunctionMeaning(semantics.functions[i])
<1> DEFINE M == Sized(m, order)
           s == semantics.structs
           t == DeclaredTables(semantics)
           function == semantics.functions[i]
           first == ReturnsFirst(function)
           row == M.functions[i]
           imported == ImportedFunction(M, row)
<1>1. M.functions = m.functions
  BY SizedKeeps
<1>2. /\ SaysFunction(s, t, t.functions[i], function)
      /\ row.qualified = function.qualified
      /\ row.parameterStart = t.functions[i].parameterStart
      /\ row.parameterCount = Len(function.parameters)
      /\ row.attributeStart = t.functions[i].attributeStart
      /\ row.attributeCount = Len(function.attributes) + 1
      /\ row.parameterStart \in Nat /\ row.attributeStart \in Nat
      /\ Spans(Len(t.parameters), row.parameterStart, Len(function.parameters))
      /\ Spans(Len(t.attributes), row.attributeStart, Len(function.attributes) + 1)
  <2>1. /\ SaysFunction(s, t, t.functions[i], function)
        /\ m.functions[i].qualified = function.qualified
        /\ m.functions[i].parameterStart = t.functions[i].parameterStart
        /\ m.functions[i].parameterCount = Len(function.parameters)
        /\ m.functions[i].attributeStart = t.functions[i].attributeStart
        /\ m.functions[i].attributeCount = Len(function.attributes) + 1
        /\ t.functions[i].parameterStart \in Nat
        /\ t.functions[i].attributeStart \in Nat
        /\ Spans(Len(t.parameters), t.functions[i].parameterStart, Len(function.parameters))
        /\ Spans(Len(t.attributes), t.functions[i].attributeStart,
                 Len(function.attributes) + 1)
    <3>1. FunctionRowIs(semantics, m, i)
      BY FunctionRowSays
    <3> QED
      BY ONLY <3>1 DEF FunctionRowIs
  <2>2. row = m.functions[i]
    BY <1>1
  <2> HIDE DEF row, t, function
  <2> QED
    BY <2>1, <2>2
<1>3. /\ IsFunctionText(function) /\ function.parameters \in Seq(ParameterTexts)
      /\ Len(function.parameters) \in Nat
      /\ DOMAIN function.parameters = 1 .. Len(function.parameters)
      /\ Len(function.attributes) \in Nat
      /\ DOMAIN function.attributes = 1 .. Len(function.attributes)
  BY DeclaredFunctions DEF Written
<1>4. /\ Len(first) = Len(function.attributes) + 1
      /\ first[1] = [name |-> function.returns, data |-> <<>>]
      /\ \A k \in 1 .. Len(function.attributes) : first[k + 1] = function.attributes[k]
  BY <1>3, FirstReturns
<1>5. SaysAttributes(s, t, row, first)
  <2>1. SaysAttributes(s, t, t.functions[i], first)
    BY <1>2 DEF SaysFunction
  <2> HIDE DEF row, first, t, s
  <2> QED
    BY <1>2, <2>1 DEF SaysAttributes
<1> HIDE DEF first
<1>6. /\ Len(t.attributes) \in Nat /\ Len(t.parameters) \in Nat
  BY TablesSayWhatIsDeclared, SoundLengths DEF Written
<1>7. ReturnType(M, row) = function.returns
  <2>1. 1 \in 1 .. Len(first) /\ Len(first) # 0 /\ row.attributeCount = Len(first)
    BY <1>2, <1>3, <1>4
  <2>2. (row.attributeStart - 1) + 1 \in 1 .. Len(t.attributes)
    <3>1. /\ row.attributeStart \in Nat /\ row.attributeCount \in Nat
          /\ 1 \in 1 .. row.attributeCount
          /\ Spans(Len(t.attributes), row.attributeStart, row.attributeCount)
      BY <1>2, <1>3
    <3> HIDE DEF row, t
    <3> QED
      BY <1>6, <3>1, SpanRows
  <2>3. (row.attributeStart - 1) + 1 = row.attributeStart
    BY <1>2
  <2>4. SaysAttribute(s, t, t.attributes[row.attributeStart], first[1])
    <3> HIDE DEF row
    <3> QED
      BY <1>5, <2>1, <2>3 DEF SaysAttributes
  <2>5. AttributeType(M, row.attributeStart) = first[1].name
    <3> HIDE DEF row
    <3> QED
      BY <2>2, <2>3, <2>4, AttributeReads
  <2> QED
    BY <1>4, <2>1, <2>5 DEF ReturnType
<1>8. Attribution(ImportAttributes(M, row, 1)) = Attribution(function.attributes)
  <2> DEFINE A == ImportAttributes(M, row, 1)
  <2>a. ReadsAttributes(M, row, 1, first)
    <3>1. 1 \in Nat /\ 1 <= Len(first) /\ Len(first) \in Nat /\ row.attributeCount = Len(first)
      BY <1>2, <1>3, <1>4
    <3> HIDE DEF row, function
    <3> QED
      BY <1>2, <1>4, <1>5, <3>1, AttributesAreRead
  <2>1. /\ DOMAIN A = 1 .. (Len(first) - 1)
        /\ \A k \in 1 .. (Len(first) - 1) :
             /\ A[k].name = first[1 + k].name
             /\ A[k].data = first[1 + k].data
    BY ONLY <2>a DEF ReadsAttributes
  <2>2. /\ Len(first) - 1 = Len(function.attributes)
        /\ \A k \in 1 .. Len(function.attributes) : 1 + k = k + 1
    BY <1>3, <1>4
  <2> HIDE DEF A, function
  <2>3. /\ DOMAIN A = DOMAIN function.attributes
        /\ \A k \in DOMAIN A : /\ A[k].name = function.attributes[k].name
                               /\ A[k].data = function.attributes[k].data
    BY <1>3, <1>4, <2>1, <2>2
  <2> QED
    BY <2>3, SameAttribution DEF A
<1>9. imported.parameters = function.parameters
  <2>1. imported.parameters
          = [k \in 1 .. row.parameterCount |->
               ReadParameter(M, M.parameters[(row.parameterStart - 1) + k])]
    BY DEF ImportedFunction, ReadParameter
  <2>2. ASSUME NEW k \in 1 .. Len(function.parameters)
        PROVE  ReadParameter(M, M.parameters[(row.parameterStart - 1) + k])
                 = function.parameters[k]
    <3> DEFINE j == (row.parameterStart - 1) + k
    <3>1. j \in 1 .. Len(t.parameters)
      <4> HIDE DEF row, function
      <4> QED
        BY <1>2, <1>3, <1>6, SpanRows
    <3>2. SaysParameter(t, t.parameters[j], function.parameters[k])
      <4> HIDE DEF row, function
      <4> QED
        BY <1>2 DEF SaysFunction
    <3>3. function.parameters[k] \in ParameterTexts
      BY <1>3
    <3> HIDE DEF j, row, function
    <3>4. ReadParameter(M, M.parameters[j]) = function.parameters[k]
      BY <3>1, <3>2, <3>3, ParameterReads
    <3> QED
      BY <3>4 DEF j
  <2>3. function.parameters = [k \in 1 .. Len(function.parameters) |-> function.parameters[k]]
    BY <1>3
  <2> HIDE DEF imported, row, M, function
  <2> QED
    BY <1>2, <2>1, <2>2, <2>3
<1>10. /\ imported.qualified = row.qualified
       /\ imported.returns = ReturnType(M, row)
       /\ imported.attributes = ImportAttributes(M, row, 1)
  BY DEF ImportedFunction
<1> HIDE DEF imported, row, M
<1>11. FunctionMeaning(imported) = FunctionMeaning(function)
  BY <1>2, <1>7, <1>8, <1>9, <1>10 DEF FunctionMeaning
<1> QED
  BY <1>2, <1>10, <1>11 DEF imported, row, M

ImportedFunctions(module, n) == [j \in 1 .. n |-> ImportedFunction(module, module.functions[j])]

ImportFunctionStep(c, acc, function) == ImportFunction(c.module, acc, function)
FunctionsImported(c, k, acc) ==
  /\ HasDeclarations(acc) /\ acc.ok = TRUE /\ acc.structs = c.structs
  /\ acc.functions = ImportedFunctions(c.module, k)

(* One function more.                                                      *)
LEMMA ImportFunctionNext ==
  ASSUME NEW semantics, NEW l, NEW m, Written(semantics, l, m), NEW order,
         CanDecompile(Sized(m, order)), NEW k \in 1 .. Len(semantics.functions),
         NEW c, c.module = Sized(m, order),
         NEW acc, FunctionsImported(c, k - 1, acc)
  PROVE  FunctionsImported(c, k, ImportFunctionStep(c, acc, c.module.functions[k]))
<1> DEFINE M == Sized(m, order)
           n == Len(semantics.functions)
           f == [j \in 1 .. n |-> ImportedFunction(M, M.functions[j])]
           name == semantics.functions[k].qualified
           next == ImportFunction(M, acc, M.functions[k])
<1>a. /\ HasDeclarations(acc) /\ acc.ok = TRUE /\ acc.structs = c.structs
      /\ acc.functions = ImportedFunctions(M, k - 1)
  BY DEF FunctionsImported
<1>0. n \in Nat /\ k \in Nat /\ k - 1 \in Nat /\ \A j \in 1 .. (k - 1) : j \in 1 .. n /\ j # k
  BY DeclaredFunctions DEF Written
<1>1. \A j \in 1 .. n : f[j].qualified = semantics.functions[j].qualified
  BY FunctionMeans
<1>2. ImportedFunctions(M, k - 1) = [j \in 1 .. (k - 1) |-> f[j]]
  BY <1>0 DEF ImportedFunctions
<1>3. ImportedFunctions(M, k) = [j \in 1 .. k |-> f[j]]
  BY <1>0 DEF ImportedFunctions
<1>4. f[k] = ImportedFunction(M, M.functions[k])
  OBVIOUS
<1>5. M.functions[k].qualified = name
  BY FunctionMeans
<1>6. PayloadsPresent(M, M.functions[k], 1) /\ ReturnType(M, M.functions[k]) # <<>>
  <2>1. k \in DOMAIN M.functions
    <3>1. M.functions = m.functions
      BY SizedKeeps
    <3>2. DOMAIN m.functions = 1 .. n
      BY FunctionRowSays
    <3> QED
      BY <3>1, <3>2
  <2> QED
    BY <2>1 DEF CanDecompile
<1> HIDE DEF f, M
<1>7. FindExact(acc.functions, name) = 0
  <2>1. \A j \in 1 .. (k - 1) : f[j].qualified # name
    <3>1. \A j \in 1 .. (k - 1) : semantics.functions[j].qualified # name
      BY <1>0, DeclaredFunctions DEF Written
    <3> QED
      BY <1>0, <1>1, <3>1
  <2> HIDE DEF name
  <2>2. FindExact([j \in 1 .. (k - 1) |-> f[j]], name) = 0
    BY <1>0, <2>1, NotFoundYet
  <2> QED
    BY <1>a, <1>2, <2>2
<1>8. next = [acc EXCEPT !.functions = Append(@, ImportedFunction(M, M.functions[k]))]
  <2> DEFINE imported == ImportedFunction(M, M.functions[k])
  <2>1. imported.returns # <<>>
    BY <1>6 DEF ImportedFunction
  <2>2. next = IF ~acc.ok \/ FindExact(acc.functions, M.functions[k].qualified) # 0 THEN acc
               ELSE IF imported.returns = <<>> \/ ~PayloadsPresent(M, M.functions[k], 1)
                    THEN Failed(acc)
                    ELSE [acc EXCEPT !.functions = Append(@, imported)]
    BY Zenon DEF ImportFunction, ImportedFunction
  <2> HIDE DEF name, imported, next
  <2> QED
    BY <1>a, <1>5, <1>6, <1>7, <2>1, <2>2 DEF imported
<1>9. Append(ImportedFunctions(M, k - 1), ImportedFunction(M, M.functions[k]))
        = ImportedFunctions(M, k)
  <2>1. Append([j \in 1 .. (k - 1) |-> f[j]], f[k]) = [j \in 1 .. k |-> f[j]]
    BY <1>0, AppendNext
  <2> QED
    BY <1>2, <1>3, <1>4, <2>1
<1> DEFINE after == ImportedFunctions(M, k)
<1>10. next = [acc EXCEPT !.functions = after]
  BY <1>a, <1>8, <1>9
<1> HIDE DEF after, next
<1>11. /\ HasDeclarations(next) /\ next.ok = TRUE /\ next.structs = c.structs
       /\ next.functions = after
  BY <1>a, <1>10 DEF HasDeclarations
<1>12. FunctionsImported(c, k, next)
  BY <1>11 DEF FunctionsImported, after, M
<1> QED
  BY <1>12 DEF M, next, ImportFunctionStep

ImportFunctionLoop == INSTANCE Loops WITH Step <- ImportFunctionStep, May <- FunctionsImported

(* All functions of the module are imported, in their order.               *)
LEMMA FunctionsAreImported ==
  ASSUME NEW semantics, NEW l, NEW m, Written(semantics, l, m), NEW order,
         CanDecompile(Sized(m, order)),
         NEW base, HasDeclarations(base), base.ok = TRUE, base.functions = <<>>
  PROVE  FunctionsImported([module |-> Sized(m, order), structs |-> base.structs],
                           Len(semantics.functions),
                           Fold(LAMBDA acc, f : ImportFunction(Sized(m, order), acc, f),
                                base, Sized(m, order).functions))
<1> DEFINE M == Sized(m, order)
           n == Len(semantics.functions)
           c == [module |-> M, structs |-> base.structs]
<1>1. Len(M.functions) = n /\ n \in Nat
  <2>1. M.functions = m.functions
    BY SizedKeeps
  <2> QED
    BY <2>1, FunctionRowSays, DeclaredFunctions DEF Written
<1>2. FunctionsImported(c, 0, base)
  <2>1. ImportedFunctions(M, 0) = <<>>
    BY DEF ImportedFunctions
  <2> HIDE DEF M
  <2> QED
    BY <2>1 DEF FunctionsImported
<1>3. c.module = M
  OBVIOUS
<1> HIDE DEF c
<1>4. ASSUME NEW k \in 1 .. n, NEW acc, FunctionsImported(c, k - 1, acc)
      PROVE  FunctionsImported(c, k, ImportFunctionStep(c, acc, M.functions[k]))
  BY <1>3, <1>4, ImportFunctionNext
<1>5. FunctionsImported(c, n, ImportFunctionLoop!Result(c, base, M.functions))
  <2> HIDE DEF M
  <2> QED
    BY <1>1, <1>2, <1>4, ImportFunctionLoop!LoopInvariant
<1>6. ImportFunctionLoop!Result(c, base, M.functions)
        = Fold(LAMBDA acc, f : ImportFunction(M, acc, f), base, M.functions)
  <2> HIDE DEF M
  <2> QED
    BY <1>3 DEF ImportFunctionLoop!Result, Fold, ImportFunctionStep
<1> QED
  BY <1>5, <1>6 DEF c

-----------------------------------------------------------------------------
(* The import of nothing but the module means what the declarations mean.  *)
LEMMA ModuleMeansWhatIsDeclared ==
  ASSUME NEW semantics, NEW l, NEW m, Written(semantics, l, m), NEW order,
         CanDecompile(Sized(m, order))
  PROVE  ModuleMeaning(Sized(m, order)) = Meaning(semantics)
<1> DEFINE M == Sized(m, order)
           n == Len(semantics.structs)
           p == Len(semantics.functions)
           base == ImportConstants(NoSemantics, <<>>)
           structs == Fold(LAMBDA acc, s : ImportStruct(M, acc, s), base, M.structs)
           all == Fold(LAMBDA acc, f : ImportFunction(M, acc, f), structs, M.functions)
<1>1. all = ImportCore(NoSemantics, [constants |-> <<>>, module |-> M])
  <2> HIDE DEF M
  <2> QED
    BY DEF ImportCore
<1>2. HasDeclarations(base) /\ base.ok = TRUE /\ base.functions = <<>> /\ base.structs = <<>>
  <2> DEFINE none == NoSemantics
             added == none.constants
                        \o SelectSeq(<<>>, LAMBDA c : FindExact(none.constants, c.qualified) = 0)
  <2>1. base = [none EXCEPT !.constants = added]
    BY DEF ImportConstants
  <2>2. HasDeclarations(none) /\ none.ok = TRUE /\ none.functions = <<>> /\ none.structs = <<>>
    BY DEF NoSemantics, HasDeclarations
  <2> HIDE DEF none, added, base
  <2> QED
    BY <2>1, <2>2 DEF HasDeclarations
<1> HIDE DEF base
<1>3. StructsImported(M, n, structs)
  BY <1>2, StructsAreImported
<1> HIDE DEF structs
<1>4. /\ HasDeclarations(structs) /\ structs.ok = TRUE /\ structs.functions = <<>>
      /\ structs.structs = ImportedStructs(M, n)
  BY <1>3 DEF StructsImported
<1>5. FunctionsImported([module |-> M, structs |-> structs.structs], p, all)
  BY <1>4, FunctionsAreImported
<1>6. all.structs = ImportedStructs(M, n) /\ all.functions = ImportedFunctions(M, p)
  <2> HIDE DEF M, all
  <2> QED
    BY <1>4, <1>5 DEF FunctionsImported
<1> HIDE DEF all
<1>7. /\ DOMAIN semantics.structs = 1 .. n /\ DOMAIN semantics.functions = 1 .. p
  BY DeclaredStructs, DeclaredFunctions DEF Written
<1>8. {StructMeaning(all.structs[i]) : i \in DOMAIN all.structs}
        = {StructMeaning(semantics.structs[i]) : i \in DOMAIN semantics.structs}
  <2>1. \A i \in 1 .. n : StructMeaning(ImportedStruct(M, M.structs[i]))
                            = StructMeaning(semantics.structs[i])
    BY StructMeans
  <2> HIDE DEF M
  <2>2. DOMAIN all.structs = 1 .. n
    BY <1>6 DEF ImportedStructs
  <2>3. \A i \in 1 .. n : all.structs[i] = ImportedStruct(M, M.structs[i])
    BY <1>6 DEF ImportedStructs
  <2> QED
    BY <1>7, <2>1, <2>2, <2>3
<1>9. {FunctionMeaning(all.functions[i]) : i \in DOMAIN all.functions}
        = {FunctionMeaning(semantics.functions[i]) : i \in DOMAIN semantics.functions}
  <2>1. \A i \in 1 .. p : FunctionMeaning(ImportedFunction(M, M.functions[i]))
                            = FunctionMeaning(semantics.functions[i])
    BY FunctionMeans
  <2> HIDE DEF M
  <2>2. DOMAIN all.functions = 1 .. p
    BY <1>6 DEF ImportedFunctions
  <2>3. \A i \in 1 .. p : all.functions[i] = ImportedFunction(M, M.functions[i])
    BY <1>6 DEF ImportedFunctions
  <2> QED
    BY <1>7, <2>1, <2>2, <2>3
<1>10. Meaning(all) = Meaning(semantics)
  BY <1>8, <1>9 DEF Meaning
<1> QED
  BY <1>1, <1>10 DEF ModuleMeaning

-----------------------------------------------------------------------------
(***************************************************************************)
(* Sizes.                                                                  *)
(***************************************************************************)

LayoutRecords == [size : Nat, alignment : {1, 4, 8}]

(* The next multiple is what the code computes by rounding up.             *)
LEMMA NextMultipleIsAlignUp ==
  ASSUME NEW v \in Nat, NEW a \in {1, 4, 8}
  PROVE  NextMultiple(v, a) = AlignUp(v, a) /\ AlignUp(v, a) \in Nat
<1> DEFINE q == (v + a - 1) \div a
           u == q * a
           P(m) == m % a = 0 /\ \A k \in v .. (m - 1) : k % a # 0
<1>1. q \in Nat /\ u \in Nat /\ u >= v /\ u <= v + a - 1 /\ u % a = 0
  <2>1. CASE a = 1
    BY <2>1
  <2>2. CASE a = 4
    BY <2>2
  <2>3. CASE a = 8
    BY <2>3
  <2> QED
    BY <2>1, <2>2, <2>3
<1>2. AlignUp(v, a) = u
  BY DEF AlignUp
<1>3. ASSUME NEW k \in v .. (u - 1) PROVE k % a # 0
  <2>0. k \in Nat /\ v <= k /\ k < u
    BY <1>1
  <2>1. CASE a = 1
    BY <1>1, <2>0, <2>1
  <2>2. CASE a = 4
    BY <1>1, <2>0, <2>2
  <2>3. CASE a = 8
    BY <1>1, <2>0, <2>3
  <2> QED
    BY <2>1, <2>2, <2>3
<1> HIDE DEF q
<1>4. u \in v .. (v + a)
  <2>1. a \in Nat
    OBVIOUS
  <2> HIDE DEF u
  <2> QED
    BY <1>1, <2>1
<1> HIDE DEF u
<1>5. P(u)
  BY <1>1, <1>3
<1>6. ASSUME NEW m \in v .. (v + a), P(m) PROVE m = u
  <2>1. m \in Nat /\ v <= m
    OBVIOUS
  <2>2. ~(m < u)
    <3> SUFFICES ASSUME m < u PROVE FALSE
      OBVIOUS
    <3>1. m \in v .. (u - 1)
      BY <1>1, <2>1
    <3> QED
      BY <1>3, <1>6, <3>1
  <2>3. ~(u < m)
    <3> SUFFICES ASSUME u < m PROVE FALSE
      OBVIOUS
    <3>1. u \in v .. (m - 1)
      BY <1>1, <2>1
    <3> QED
      BY <1>1, <1>6, <3>1
  <2> QED
    BY <1>1, <2>1, <2>2, <2>3
<1>7. NextMultiple(v, a) = CHOOSE m \in v .. (v + a) : P(m)
  BY DEF NextMultiple
<1> HIDE DEF P
<1>8. NextMultiple(v, a) = u
  BY <1>4, <1>5, <1>6, <1>7
<1> QED
  BY <1>1, <1>2, <1>8

(* The greater of two alignments.                                          *)
LEMMA LargerOfTwo ==
  ASSUME NEW a \in Nat, NEW b \in Nat
  PROVE  Max({a, b}) = IF a < b THEN b ELSE a
<1> DEFINE c == IF a < b THEN b ELSE a
<1>1. c \in {a, b} /\ \A y \in {a, b} : c >= y
  OBVIOUS
<1>2. \A x \in {a, b} : (\A y \in {a, b} : x >= y) => x = c
  OBVIOUS
<1>3. Max({a, b}) = CHOOSE x \in {a, b} : \A y \in {a, b} : x >= y
  BY DEF Max
<1> HIDE DEF c
<1>4. Max({a, b}) = c
  BY <1>1, <1>2, <1>3
<1> QED
  BY <1>4 DEF c

(* A field is put where the C compiler puts it.                            *)
LEMMA SamePlace ==
  ASSUME NEW at \in LayoutRecords, NEW layout \in LayoutRecords
  PROVE  AddMember(at, layout) = Place(at, layout) /\ Place(at, layout) \in LayoutRecords
<1>1. /\ at.size \in Nat /\ at.alignment \in {1, 4, 8}
      /\ layout.size \in Nat /\ layout.alignment \in {1, 4, 8}
  BY DEF LayoutRecords
<1>2. /\ NextMultiple(at.size, layout.alignment) = AlignUp(at.size, layout.alignment)
      /\ AlignUp(at.size, layout.alignment) \in Nat
  BY <1>1, NextMultipleIsAlignUp
<1>3. Max({at.alignment, layout.alignment})
        = IF at.alignment < layout.alignment THEN layout.alignment ELSE at.alignment
  BY <1>1, LargerOfTwo
<1>4. AddMember(at, layout) = Place(at, layout)
  BY <1>2, <1>3 DEF AddMember, Place
<1>5. /\ AlignUp(at.size, layout.alignment) + layout.size \in Nat
      /\ Max({at.alignment, layout.alignment}) \in {1, 4, 8}
  BY <1>1, <1>2, <1>3
<1>6. Place(at, layout) \in LayoutRecords
  BY <1>5 DEF Place, LayoutRecords
<1> QED
  BY <1>4, <1>6

(* Both sides pad the end of a struct alike.                               *)
LEMMA SamePadding ==
  ASSUME NEW at \in LayoutRecords
  PROVE  /\ [at EXCEPT !.size = NextMultiple(@, at.alignment)] = Padded(at)
         /\ Padded(at) \in LayoutRecords
<1>1. at.size \in Nat /\ at.alignment \in {1, 4, 8}
  BY DEF LayoutRecords
<1>2. /\ NextMultiple(at.size, at.alignment) = AlignUp(at.size, at.alignment)
      /\ AlignUp(at.size, at.alignment) \in Nat
  BY <1>1, NextMultipleIsAlignUp
<1>3. Padded(at) = [at EXCEPT !.size = AlignUp(at.size, at.alignment)]
  BY DEF Padded
<1>4. Padded(at) \in LayoutRecords
  BY <1>2, <1>3 DEF LayoutRecords
<1> QED
  BY <1>2, <1>3, <1>4

(* A built-in type has a size and an alignment.                            *)
LEMMA BuiltinIsLayout ==
  ASSUME NEW type, BuiltinSize(type) # 0
  PROVE  BuiltinLayout(type) \in LayoutRecords
<1>1. BuiltinSize(type) \in {1, 4, 8}
  BY DEF BuiltinSize
<1> QED
  BY <1>1 DEF BuiltinLayout, LayoutRecords

(* The same fields, one after the other, on both sides.  c has what each   *)
(* side knows of the types, and where the loader was after each field.     *)
LoaderLayout(module, layouts, type) ==
  IF BuiltinSize(module.types[type].qualified) # 0
  THEN BuiltinLayout(module.types[type].qualified)
  ELSE layouts[StructOfType(module, type)]

PlaceStep(c, at, type) == Place(at, LoaderLayout(c.module, c.layouts, type))
MemberStep(c, at, type) == AddMember(at, CompiledLayout(c.known, type))
MembersPlaced(c, k, at) == at = c.placed[k] /\ at \in LayoutRecords

PlaceLoop == INSTANCE Loops WITH Step <- PlaceStep, May <- MembersPlaced
MemberLoop == INSTANCE Loops WITH Step <- MemberStep, May <- MembersPlaced

PlacedFields(module, layouts, ids) ==
  Fold(LAMBDA at, type : Place(at, LoaderLayout(module, layouts, type)), NothingYet, ids)

(* Fields of the same layouts give structs of the same layout.             *)
LEMMA SameMembers ==
  ASSUME NEW module, NEW layouts, NEW known, NEW ids, NEW types,
         Len(ids) \in Nat, Len(types) = Len(ids),
         \A k \in 1 .. Len(ids) :
           /\ CompiledLayout(known, types[k]) = LoaderLayout(module, layouts, ids[k])
           /\ LoaderLayout(module, layouts, ids[k]) \in LayoutRecords
  PROVE  /\ Compiled(known, types) = Padded(PlacedFields(module, layouts, ids))
         /\ Padded(PlacedFields(module, layouts, ids)) \in LayoutRecords
<1> DEFINE n == Len(ids)
           b == [module |-> module, layouts |-> layouts]
           placed == PlacedFields(module, layouts, ids)
           members == Fold(LAMBDA at, type : AddMember(at, CompiledLayout(known, type)),
                           NothingYet, types)
<1>1. PICK g : /\ g[0] = NothingYet
               /\ \A k \in 1 .. n : g[k] = PlaceStep(b, g[k - 1], ids[k])
               /\ g[n] = PlaceLoop!Result(b, NothingYet, ids)
  <2>1. Len(ids) \in Nat
    OBVIOUS
  <2> HIDE DEF b
  <2>2. PICK g : PlaceLoop!AreValues(g, b, NothingYet, ids)
    BY ONLY <2>1, PlaceLoop!LoopValues
  <2> QED
    BY ONLY <2>2 DEF PlaceLoop!AreValues
<1>2. PlaceLoop!Result(b, NothingYet, ids) = placed
  BY DEF PlaceLoop!Result, Fold, PlaceStep, PlacedFields
<1> DEFINE c == [known |-> known, placed |-> g]
<1>3. MembersPlaced(c, 0, NothingYet)
  BY <1>1 DEF MembersPlaced, NothingYet, LayoutRecords
<1>4. ASSUME NEW k \in 1 .. n, NEW at, MembersPlaced(c, k - 1, at)
      PROVE  MembersPlaced(c, k, MemberStep(c, at, types[k]))
  <2>1. at = g[k - 1] /\ at \in LayoutRecords
    BY <1>4 DEF MembersPlaced
  <2>2. g[k] = Place(at, LoaderLayout(module, layouts, ids[k]))
    BY <1>1, <2>1 DEF PlaceStep
  <2>3. MemberStep(c, at, types[k]) = AddMember(at, LoaderLayout(module, layouts, ids[k]))
    BY DEF MemberStep
  <2>4. LoaderLayout(module, layouts, ids[k]) \in LayoutRecords
    OBVIOUS
  <2>5. MemberStep(c, at, types[k]) = g[k] /\ g[k] \in LayoutRecords
    <3> HIDE DEF c
    <3> QED
      BY <2>1, <2>2, <2>3, <2>4, SamePlace
  <2> QED
    BY <2>5 DEF MembersPlaced
<1>5. MembersPlaced(c, n, MemberLoop!Result(c, NothingYet, types))
  <2> HIDE DEF c
  <2> QED
    BY <1>3, <1>4, MemberLoop!LoopInvariant
<1>6. MemberLoop!Result(c, NothingYet, types) = members
  BY DEF MemberLoop!Result, Fold, MemberStep
<1> HIDE DEF members, placed
<1>7. members = placed /\ placed \in LayoutRecords
  BY <1>1, <1>2, <1>5, <1>6 DEF MembersPlaced
<1>8. Compiled(known, types) = [members EXCEPT !.size = NextMultiple(@, members.alignment)]
  BY DEF Compiled, members
<1>9. Compiled(known, types) = Padded(placed) /\ Padded(placed) \in LayoutRecords
  BY <1>7, <1>8, SamePadding
<1> QED
  BY <1>9 DEF placed

(* The same structs, one after the other, on both sides.                   *)
DeclareStep(c, known, line) ==
  [type \in DOMAIN known \cup {line.type} |->
     IF type = line.type THEN Compiled(known, line.fields) ELSE known[type]]
SizeStep(c, layouts, i) == SizeStruct(c.module, layouts, i)

\* The first k that were walked have the same layout on both sides.
SameLayouts(semantics, order, k, known, layouts) ==
  /\ DOMAIN layouts = 1 .. Len(semantics.structs)
  /\ \A j \in 1 .. k :
       LET name == semantics.structs[order[j]].qualified
       IN  /\ name \in DOMAIN known
           /\ known[name] = layouts[order[j]]
           /\ layouts[order[j]] \in LayoutRecords
StructsCompiled(c, k, known) == SameLayouts(c.semantics, c.order, k, known, c.sized[k])

SizeLoop == INSTANCE Loops WITH Step <- SizeStep, May <- StructsCompiled
DeclareLoop == INSTANCE Loops WITH Step <- DeclareStep, May <- StructsCompiled

(* What sizing a struct sets.                                              *)
LEMMA SizeStructIs ==
  ASSUME NEW module, NEW layouts, NEW i
  PROVE  SizeStruct(module, layouts, i)
           = [layouts EXCEPT ![i] =
                Padded(PlacedFields(module, layouts, FieldTypes(module, module.structs[i])))]
  BY DEF SizeStruct, LoaderLayout, PlacedFields

(* The fields of a struct row, by the types they refer to.                 *)
HasTypes(semantics, m, i) ==
  LET fields == semantics.structs[i].fields
      ids == FieldTypes(m, m.structs[i])
  IN  /\ DOMAIN fields = 1 .. Len(fields) /\ Len(fields) \in Nat
      /\ ids = [p \in 1 .. Len(fields) |-> ids[p]]
      /\ \A p \in 1 .. Len(fields) :
           /\ ids[p] \in 1 .. Len(DeclaredTables(semantics).types)
           /\ m.types[ids[p]].qualified = fields[p].type

LEMMA StructHasTypes ==
  ASSUME NEW semantics, NEW l, NEW m, Written(semantics, l, m),
         NEW i \in 1 .. Len(semantics.structs)
  PROVE  HasTypes(semantics, m, i)
<1> DEFINE fields == semantics.structs[i].fields
           types == FieldTypes(m, m.structs[i])
<1>1. /\ DOMAIN types = 1 .. Len(fields) /\ DOMAIN fields = 1 .. Len(fields)
      /\ m.structs[i].fieldCount = Len(fields)
      /\ \A k \in 1 .. Len(fields) :
           /\ types[k] \in 1 .. Len(DeclaredTables(semantics).types)
           /\ types[k] = m.fields[(m.structs[i].fieldStart - 1) + k].type
           /\ m.types[types[k]].qualified = fields[k].type
           /\ m.fields[(m.structs[i].fieldStart - 1) + k].name = fields[k].name
  <2>1. FieldTypesAre(semantics, m, i)
    BY FieldTypesSay
  <2> QED
    BY ONLY <2>1 DEF FieldTypesAre
<1>2. Len(fields) \in Nat
  BY DeclaredStructs DEF Written
<1>3. types = [p \in DOMAIN types |-> types[p]]
  BY DEF FieldTypes
<1> HIDE DEF types, fields
<1>4. types = [p \in 1 .. Len(fields) |-> types[p]]
  BY <1>1, <1>3
<1> QED
  BY <1>1, <1>2, <1>4 DEF HasTypes, types, fields

Parts(structs) == Map(LAMBDA struct : HeldBy(structs, struct), structs)
OrderOf(semantics) == DepthFirst(Parts(semantics.structs)).order

(* The walk goes over the table of the structs that each holds.            *)
LEMMA HeldStructs ==
  ASSUME NEW semantics, Declares(semantics)
  PROVE  LET s == semantics.structs
             parts == Parts(s)
         IN  /\ parts \in Seq(Seq(0 .. Len(s))) /\ Len(parts) = Len(s)
             /\ \A i \in 1 .. Len(s) :
                  /\ DOMAIN parts[i] = 1 .. Len(s[i].fields)
                  /\ Len(parts[i]) = Len(s[i].fields)
                  /\ \A k \in 1 .. Len(s[i].fields) :
                       parts[i][k] = IF BuiltinSize(s[i].fields[k].type) # 0 THEN 0
                                     ELSE FindExact(s, s[i].fields[k].type)
<1> DEFINE s == semantics.structs
           n == Len(s)
           parts == Parts(s)
           Held(i, k) == IF BuiltinSize(s[i].fields[k].type) # 0 THEN 0
                         ELSE FindExact(s, s[i].fields[k].type)
<1>1. /\ n \in Nat /\ DOMAIN s = 1 .. n
      /\ \A i \in 1 .. n : /\ Len(s[i].fields) \in Nat
                           /\ DOMAIN s[i].fields = 1 .. Len(s[i].fields)
  BY DeclaredStructs
<1>2. parts = [i \in 1 .. n |-> HeldBy(s, s[i])]
  BY <1>1 DEF Parts, Map
<1>3. ASSUME NEW i \in 1 .. n
      PROVE  HeldBy(s, s[i]) = [k \in 1 .. Len(s[i].fields) |-> Held(i, k)]
  BY <1>1 DEF HeldBy, Map
<1>4. \A i \in 1 .. n : \A k \in 1 .. Len(s[i].fields) : Held(i, k) \in 0 .. n
  <2> SUFFICES ASSUME NEW i \in 1 .. n, NEW k \in 1 .. Len(s[i].fields)
               PROVE  Held(i, k) \in 0 .. n
    OBVIOUS
  <2>1. FindExact(s, s[i].fields[k].type) \in 0 .. n
    BY <1>1, FindExactFinds
  <2> QED
    BY <1>1, <2>1
<1> HIDE DEF Held, parts
<1>5. ASSUME NEW i \in 1 .. n
      PROVE  /\ HeldBy(s, s[i]) \in Seq(0 .. n)
             /\ Len(HeldBy(s, s[i])) = Len(s[i].fields)
             /\ DOMAIN HeldBy(s, s[i]) = 1 .. Len(s[i].fields)
  <2> DEFINE p == Len(s[i].fields)
  <2>1. p \in Nat /\ \A k \in 1 .. p : Held(i, k) \in 0 .. n
    BY <1>1, <1>4
  <2>2. HeldBy(s, s[i]) = [k \in 1 .. p |-> Held(i, k)]
    BY <1>3
  <2> HIDE DEF p, s
  <2>3. [k \in 1 .. p |-> Held(i, k)] \in Seq(0 .. n)
    BY <2>1
  <2>4. Len([k \in 1 .. p |-> Held(i, k)]) = p /\ DOMAIN [k \in 1 .. p |-> Held(i, k)] = 1 .. p
    BY <2>1
  <2> QED
    BY <2>2, <2>3, <2>4 DEF p
<1>6. parts \in Seq(Seq(0 .. n)) /\ Len(parts) = n
  <2> DEFINE S == Seq(0 .. n)
             h == [i \in 1 .. n |-> HeldBy(s, s[i])]
  <2>1. \A i \in 1 .. n : h[i] \in S
    BY <1>5
  <2>2. DOMAIN h = 1 .. n /\ h = [i \in 1 .. n |-> h[i]]
    OBVIOUS
  <2> HIDE DEF S, h, s
  <2>3. h \in Seq(S) /\ Len(h) = n
    BY <1>1, <2>1, <2>2
  <2> QED
    BY <1>2, <2>3 DEF h, S
<1>7. \A i \in 1 .. n : parts[i] = HeldBy(s, s[i])
  BY <1>2
<1>8. ASSUME NEW i \in 1 .. n
      PROVE  /\ DOMAIN parts[i] = 1 .. Len(s[i].fields)
             /\ Len(parts[i]) = Len(s[i].fields)
             /\ \A k \in 1 .. Len(s[i].fields) : parts[i][k] = Held(i, k)
  <2>1. parts[i] = HeldBy(s, s[i])
    BY <1>7
  <2>2. \A k \in 1 .. Len(s[i].fields) : HeldBy(s, s[i])[k] = Held(i, k)
    BY <1>3
  <2> HIDE DEF s
  <2> QED
    BY <1>5, <2>1, <2>2
<1> QED
  BY <1>6, <1>8 DEF parts, Held

(* What a struct holds is there.                                           *)
IsDeclared(s, type) == FindExact(s, type) # 0 /\ s[FindExact(s, type)].qualified = type

LEMMA HeldIsDeclared ==
  ASSUME NEW semantics, Declares(semantics), WriteTypes(semantics.structs).ok,
         NEW i \in 1 .. Len(semantics.structs),
         NEW p \in 1 .. Len(semantics.structs[i].fields),
         BuiltinSize(semantics.structs[i].fields[p].type) = 0
  PROVE  IsDeclared(semantics.structs, semantics.structs[i].fields[p].type)
<1> DEFINE s == semantics.structs
           type == s[i].fields[p].type
<1>1. /\ DOMAIN s = 1 .. Len(s) /\ Len(s) \in Nat
      /\ DOMAIN s[i].fields = 1 .. Len(s[i].fields)
  BY DeclaredStructs
<1>2. HoldsKnown(s, s[i])
  BY <1>1 DEF WriteTypes
<1>3. IsKnown(s, type)
  BY <1>1, <1>2 DEF HoldsKnown
<1>4. FindExact(s, type) # 0
  BY <1>3 DEF IsKnown
<1>5. IsDeclared(s, type)
  BY <1>1, <1>4, FindExactFinds DEF IsDeclared
<1> QED
  BY ONLY <1>5

(* Every struct is walked after those it holds.                            *)
WalksInOrder(s, order) ==
  /\ order \in Seq(1 .. Len(s)) /\ Len(order) \in Nat
  /\ \A i \in 1 .. Len(s) : \E k \in 1 .. Len(order) : order[k] = i
  /\ \A j, k \in 1 .. Len(order) : order[j] = order[k] => j = k
  /\ \A k \in 1 .. Len(order) : \A p \in 1 .. Len(s[order[k]].fields) :
       BuiltinSize(s[order[k]].fields[p].type) = 0 =>
         \E j \in 1 .. k - 1 : order[j] = FindExact(s, s[order[k]].fields[p].type)

LEMMA WalkedInOrder ==
  ASSUME NEW semantics, Declares(semantics), WriteTypes(semantics.structs).ok
  PROVE  WalksInOrder(semantics.structs, OrderOf(semantics))
<1> DEFINE s == semantics.structs
           n == Len(s)
           walk == DepthFirst(Parts(s))
           order == walk.order
<1>1. /\ Parts(s) \in Seq(Seq(0 .. n)) /\ Len(Parts(s)) = n
      /\ \A i \in 1 .. n :
           /\ Len(Parts(s)[i]) = Len(s[i].fields)
           /\ \A k \in 1 .. Len(s[i].fields) :
                Parts(s)[i][k] = IF BuiltinSize(s[i].fields[k].type) # 0 THEN 0
                                 ELSE FindExact(s, s[i].fields[k].type)
  BY HeldStructs
<1>2. walk.ok /\ \A i \in DOMAIN s : HoldsKnown(s, s[i])
  BY DEF WriteTypes, Parts
<1>3. /\ walk \in Walks(n) /\ Finished(walk) = 1 .. n /\ IsOrdered(Parts(s), walk)
  BY <1>1, <1>2, DepthFirstOrder
<1> HIDE DEF walk
<1>4. order \in Seq(1 .. n) /\ Len(order) \in Nat /\ \A k \in 1 .. Len(order) : order[k] \in 1 .. n
  <2>1. order \in Seq(1 .. n)
    BY <1>3 DEF Walks
  <2> QED
    BY <2>1
<1>5. \A i \in 1 .. n : \E k \in 1 .. Len(order) : order[k] = i
  BY <1>3 DEF Finished
<1>6. /\ DOMAIN s = 1 .. n /\ n \in Nat
      /\ \A i \in 1 .. n : DOMAIN s[i].fields = 1 .. Len(s[i].fields)
  BY DeclaredStructs
<1>7. ASSUME NEW i \in 1 .. n, NEW p \in 1 .. Len(s[i].fields),
             BuiltinSize(s[i].fields[p].type) = 0
      PROVE  FindExact(s, s[i].fields[p].type) # 0
  BY <1>7, HeldIsDeclared DEF IsDeclared
<1>8. ASSUME NEW k \in 1 .. Len(order), NEW p \in 1 .. Len(s[order[k]].fields),
             BuiltinSize(s[order[k]].fields[p].type) = 0
      PROVE  \E j \in 1 .. k - 1 : order[j] = FindExact(s, s[order[k]].fields[p].type)
  <2> DEFINE i == order[k]
  <2>1. i \in 1 .. n
    BY <1>4
  <2>2. p \in 1 .. Len(Parts(s)[i]) /\ Parts(s)[i][p] = FindExact(s, s[i].fields[p].type)
    BY <1>1, <1>8, <2>1
  <2>3. Parts(s)[i][p] # 0
    BY <1>7, <1>8, <2>1, <2>2
  <2>4. \/ Parts(s)[i][p] = 0
        \/ \E j \in 1 .. k - 1 : order[j] = Parts(s)[i][p]
    BY <1>3, <2>2 DEF IsOrdered
  <2> QED
    BY <2>2, <2>3, <2>4
<1>9. \A j, k \in 1 .. Len(order) : order[j] = order[k] => j = k
  BY <1>3 DEF IsOrdered
<1>10. OrderOf(semantics) = order
  BY DEF OrderOf, walk
<1> HIDE DEF order
<1>11. WalksInOrder(s, order)
  BY <1>4, <1>5, <1>8, <1>9 DEF WalksInOrder
<1> QED
  BY ONLY <1>10, <1>11 DEF s

(* One struct more.                                                        *)
LEMMA CompileNext ==
  ASSUME NEW semantics, NEW l, NEW m, Written(semantics, l, m),
         WriteTypes(semantics.structs).ok,
         NEW k \in 1 .. Len(OrderOf(semantics)), NEW known, NEW layouts, NEW c,
         SameLayouts(semantics, OrderOf(semantics), k - 1, known, layouts)
  PROVE  SameLayouts(semantics, OrderOf(semantics), k,
                     DeclareStep(c, known, Line(semantics.structs[OrderOf(semantics)[k]])),
                     SizeStruct(m, layouts, OrderOf(semantics)[k]))
<1> DEFINE s == semantics.structs
           n == Len(s)
           order == OrderOf(semantics)
           i == order[k]
           types == [p \in DOMAIN s[i].fields |-> s[i].fields[p].type]
           ids == FieldTypes(m, m.structs[i])
           placed == PlacedFields(m, layouts, ids)
           after == DeclareStep(c, known, Line(s[i]))
           sized == SizeStruct(m, layouts, i)
<1>0. /\ order \in Seq(1 .. n) /\ Len(order) \in Nat
      /\ \A a, b \in 1 .. Len(order) : order[a] = order[b] => a = b
      /\ \A p \in 1 .. Len(s[i].fields) :
           BuiltinSize(s[i].fields[p].type) = 0 =>
             \E j \in 1 .. k - 1 : order[j] = FindExact(s, s[i].fields[p].type)
      /\ \A p \in 1 .. Len(s[i].fields) :
           BuiltinSize(s[i].fields[p].type) = 0 =>
             s[FindExact(s, s[i].fields[p].type)].qualified = s[i].fields[p].type
  <2>1. Declares(semantics)
    BY DEF Written
  <2>2. /\ order \in Seq(1 .. n) /\ Len(order) \in Nat
        /\ \A a, b \in 1 .. Len(order) : order[a] = order[b] => a = b
        /\ \A p \in 1 .. Len(s[i].fields) :
             BuiltinSize(s[i].fields[p].type) = 0 =>
               \E j \in 1 .. k - 1 : order[j] = FindExact(s, s[i].fields[p].type)
    <3>1. WalksInOrder(semantics.structs, OrderOf(semantics))
      BY <2>1, WalkedInOrder
    <3> QED
      BY ONLY <3>1 DEF WalksInOrder
  <2>3. i \in 1 .. n
    BY <2>2
  <2>4. ASSUME NEW p \in 1 .. Len(s[i].fields), BuiltinSize(s[i].fields[p].type) = 0
        PROVE  s[FindExact(s, s[i].fields[p].type)].qualified = s[i].fields[p].type
    <3> HIDE DEF i
    <3>1. IsDeclared(s, s[i].fields[p].type)
      BY <2>1, <2>3, <2>4, HeldIsDeclared
    <3> QED
      BY ONLY <3>1 DEF IsDeclared
  <2> QED
    BY <2>2, <2>4
<1>1. i \in 1 .. n /\ k \in Nat /\ \A j \in 1 .. (k - 1) : j \in 1 .. Len(order) /\ j # k
  BY <1>0
<1>2. /\ DOMAIN layouts = 1 .. n
      /\ \A j \in 1 .. (k - 1) : /\ s[order[j]].qualified \in DOMAIN known
                                 /\ known[s[order[j]].qualified] = layouts[order[j]]
                                 /\ layouts[order[j]] \in LayoutRecords
  BY DEF SameLayouts
<1> HIDE DEF order
<1>3. /\ DOMAIN s[i].fields = 1 .. Len(s[i].fields) /\ Len(s[i].fields) \in Nat
      /\ ids = [p \in 1 .. Len(s[i].fields) |-> ids[p]]
      /\ \A p \in 1 .. Len(s[i].fields) :
           /\ ids[p] \in 1 .. Len(DeclaredTables(semantics).types)
           /\ m.types[ids[p]].qualified = s[i].fields[p].type
  <2>1. HasTypes(semantics, m, i)
    BY <1>1, StructHasTypes
  <2> HIDE DEF i
  <2> QED
    BY <2>1 DEF HasTypes
<1>4. types = [p \in 1 .. Len(s[i].fields) |-> types[p]]
  BY <1>3
<1>5. Len(ids) = Len(s[i].fields) /\ Len(types) = Len(s[i].fields)
  <2> HIDE DEF ids, types, i, s
  <2> QED
    BY <1>3, <1>4, LengthOfRows
<1> HIDE DEF ids
<1>6. ASSUME NEW p \in 1 .. Len(s[i].fields)
      PROVE  /\ CompiledLayout(known, types[p]) = LoaderLayout(m, layouts, ids[p])
             /\ LoaderLayout(m, layouts, ids[p]) \in LayoutRecords
  <2> DEFINE type == s[i].fields[p].type
  <2>1. types[p] = type /\ m.types[ids[p]].qualified = type
    BY <1>3
  <2>2. CASE BuiltinSize(type) # 0
    <3>1. CompiledLayout(known, types[p]) = BuiltinLayout(type)
      BY <2>1, <2>2 DEF CompiledLayout
    <3>2. LoaderLayout(m, layouts, ids[p]) = BuiltinLayout(type)
      BY <2>1, <2>2 DEF LoaderLayout
    <3> QED
      BY <2>2, <3>1, <3>2, BuiltinIsLayout
  <2>3. CASE BuiltinSize(type) = 0
    <3>1. PICK j \in 1 .. (k - 1) : order[j] = FindExact(s, type)
      BY <1>0, <2>3
    <3>2. s[order[j]].qualified = type
      BY <1>0, <2>3, <3>1
    <3>3. StructOfType(m, ids[p]) = FindExact(s, type)
      <4> HIDE DEF i
      <4>1. ids[p] \in 1 .. Len(DeclaredTables(semantics).types)
        BY <1>3
      <4>2. StructOfType(m, ids[p]) = FindExact(s, m.types[ids[p]].qualified)
        BY <4>1, SameStructIsFound
      <4> QED
        BY <2>1, <4>2
    <3>4. known[type] = layouts[order[j]] /\ layouts[order[j]] \in LayoutRecords
      BY <1>2, <3>2
    <3>5. LoaderLayout(m, layouts, ids[p]) = layouts[order[j]]
      BY <2>1, <2>3, <3>1, <3>3 DEF LoaderLayout
    <3>6. CompiledLayout(known, types[p]) = known[type]
      BY <2>1, <2>3 DEF CompiledLayout
    <3> QED
      BY <3>4, <3>5, <3>6
  <2> QED
    BY <2>2, <2>3
<1>7. Compiled(known, types) = Padded(placed) /\ Padded(placed) \in LayoutRecords
  <2> HIDE DEF types, i, s
  <2>1. \A p \in 1 .. Len(ids) :
          /\ CompiledLayout(known, types[p]) = LoaderLayout(m, layouts, ids[p])
          /\ LoaderLayout(m, layouts, ids[p]) \in LayoutRecords
    BY <1>5, <1>6
  <2>2. Len(ids) \in Nat /\ Len(types) = Len(ids)
    BY <1>3, <1>5
  <2> QED
    BY ONLY <2>1, <2>2, SameMembers DEF placed
<1>8. sized = [layouts EXCEPT ![i] = Padded(placed)]
  <2> HIDE DEF i
  <2> QED
    BY SizeStructIs DEF ids
<1>9. Line(s[i]) = [type |-> s[i].qualified, fields |-> types]
  BY DEF Line
<1> HIDE DEF placed, types
<1>10. after = [type \in DOMAIN known \cup {s[i].qualified} |->
                  IF type = s[i].qualified THEN Compiled(known, types) ELSE known[type]]
  BY <1>9 DEF DeclareStep
<1> HIDE DEF sized, after
<1>11. DOMAIN sized = 1 .. n /\ sized[i] = Padded(placed)
       /\ \A j \in 1 .. n : j # i => sized[j] = layouts[j]
  BY <1>1, <1>2, <1>8
<1>12. ASSUME NEW j \in 1 .. k
       PROVE  /\ s[order[j]].qualified \in DOMAIN after
              /\ after[s[order[j]].qualified] = sized[order[j]]
              /\ sized[order[j]] \in LayoutRecords
  <2>1. CASE j = k
    BY <1>7, <1>10, <1>11, <2>1
  <2>2. CASE j # k
    <3>1. j \in 1 .. (k - 1)
      BY <1>1, <2>2
    <3>2. order[j] \in 1 .. n /\ order[j] # i
      <4>1. j \in 1 .. Len(order) /\ j # k /\ k \in 1 .. Len(order)
        BY <1>1, <3>1 DEF order
      <4>2. order[j] # order[k]
        BY <1>0, <4>1
      <4> QED
        BY <1>0, <4>1, <4>2
    <3>3. s[order[j]].qualified # s[i].qualified
      BY <1>1, <3>2, DeclaredStructs DEF Written
    <3>4. sized[order[j]] = layouts[order[j]]
      BY <1>11, <3>2
    <3>5. /\ s[order[j]].qualified \in DOMAIN after
          /\ after[s[order[j]].qualified] = known[s[order[j]].qualified]
      BY <1>2, <1>10, <3>1, <3>3
    <3> QED
      BY <1>2, <3>1, <3>4, <3>5
  <2> QED
    BY <2>1, <2>2
<1>13. SameLayouts(semantics, order, k, after, sized)
  BY <1>11, <1>12 DEF SameLayouts
<1> QED
  BY <1>13 DEF after, sized, order

(* The layouts of all structs, as the loader and the C compiler give them. *)
LEMMA SameLayoutsOfAll ==
  ASSUME NEW semantics, NEW l, NEW m, Written(semantics, l, m),
         WriteTypes(semantics.structs).ok
  PROVE  SameLayouts(semantics, OrderOf(semantics), Len(OrderOf(semantics)),
                     CompiledLayouts(WriteTypes(semantics.structs).lines),
                     SizedLayouts(m, OrderOf(semantics)))
<1> DEFINE s == semantics.structs
           order == OrderOf(semantics)
           n == Len(order)
           lines == WriteTypes(s).lines
           nothing == [i \in DOMAIN m.structs |-> NothingYet]
           b == [module |-> m]
<1>1. n \in Nat /\ order \in Seq(1 .. Len(s)) /\ DOMAIN order = 1 .. n
  <2>1. /\ order \in Seq(1 .. Len(s)) /\ Len(order) \in Nat
        /\ \A i \in 1 .. Len(s) : \E k \in 1 .. Len(order) : order[k] = i
        /\ \A j, k \in 1 .. Len(order) : order[j] = order[k] => j = k
        /\ \A k \in 1 .. Len(order) : \A p \in 1 .. Len(s[order[k]].fields) :
             BuiltinSize(s[order[k]].fields[p].type) = 0 =>
               \E j \in 1 .. k - 1 : order[j] = FindExact(s, s[order[k]].fields[p].type)
    <3>1. WalksInOrder(semantics.structs, OrderOf(semantics))
      BY WalkedInOrder DEF Written
    <3> QED
      BY ONLY <3>1 DEF WalksInOrder
  <2> HIDE DEF order
  <2> QED
    BY <2>1
<1>2. DOMAIN m.structs = 1 .. Len(s)
  BY StructRowSays
<1>3. lines = [k \in 1 .. n |-> Line(s[order[k]])]
  <2>1. lines = Map(LAMBDA i : Line(s[i]), order)
    BY DEF WriteTypes, OrderOf, Parts
  <2> HIDE DEF order, lines
  <2> QED
    BY <1>1, <2>1 DEF Map
<1> HIDE DEF order, lines, nothing
<1>4. Len(lines) = n
  <2> DEFINE f == [k \in 1 .. n |-> Line(s[order[k]])]
  <2>1. f = [k \in 1 .. n |-> f[k]]
    OBVIOUS
  <2> HIDE DEF f
  <2>2. Len([k \in 1 .. n |-> f[k]]) = n
    BY <1>1, LengthOfRows
  <2> QED
    BY <1>3, <2>1, <2>2 DEF f
<1>5. PICK g : /\ g[0] = nothing
               /\ \A k \in 1 .. n : g[k] = SizeStep(b, g[k - 1], order[k])
               /\ g[n] = SizeLoop!Result(b, nothing, order)
  <2>1. Len(order) \in Nat
    BY <1>1
  <2> HIDE DEF b
  <2>2. PICK g : SizeLoop!AreValues(g, b, nothing, order)
    BY ONLY <2>1, SizeLoop!LoopValues
  <2> QED
    BY ONLY <2>2 DEF SizeLoop!AreValues
<1>6. SizeLoop!Result(b, nothing, order) = SizedLayouts(m, order)
  BY DEF SizeLoop!Result, SizedLayouts, Fold, SizeStep, nothing
<1> DEFINE c == [semantics |-> semantics, order |-> order, sized |-> g]
<1>7. StructsCompiled(c, 0, <<>>)
  <2>1. DOMAIN g[0] = 1 .. Len(s)
    BY <1>2, <1>5 DEF nothing
  <2> QED
    BY <2>1 DEF StructsCompiled, SameLayouts
<1>8. ASSUME NEW k \in 1 .. n, NEW known, StructsCompiled(c, k - 1, known)
      PROVE  StructsCompiled(c, k, DeclareStep(c, known, lines[k]))
  <2>1. SameLayouts(semantics, order, k - 1, known, g[k - 1])
    BY <1>8 DEF StructsCompiled
  <2>2. g[k] = SizeStruct(m, g[k - 1], order[k])
    BY <1>5 DEF SizeStep
  <2>3. lines[k] = Line(s[order[k]])
    BY <1>3
  <2> HIDE DEF c
  <2>4. SameLayouts(semantics, order, k, DeclareStep(c, known, Line(s[order[k]])),
                    SizeStruct(m, g[k - 1], order[k]))
    BY <2>1, CompileNext DEF order
  <2>5. SameLayouts(semantics, order, k, DeclareStep(c, known, lines[k]), g[k])
    BY <2>2, <2>3, <2>4
  <2> QED
    BY <2>5 DEF StructsCompiled, c
<1>9. StructsCompiled(c, n, DeclareLoop!Result(c, <<>>, lines))
  <2> HIDE DEF c
  <2> QED
    BY <1>1, <1>4, <1>7, <1>8, DeclareLoop!LoopInvariant
<1>10. DeclareLoop!Result(c, <<>>, lines) = CompiledLayouts(lines)
  BY DEF DeclareLoop!Result, CompiledLayouts, Fold, DeclareStep
<1>11. SameLayouts(semantics, order, n, CompiledLayouts(lines), g[n])
  BY <1>9, <1>10 DEF StructsCompiled
<1> QED
  BY <1>5, <1>6, <1>11 DEF order, lines

(* Every struct is declared after those it holds.                          *)
LEMMA DeclaredInOrder ==
  ASSUME NEW semantics, Declares(semantics), WriteTypes(semantics.structs).ok
  PROVE  LET lines == WriteTypes(semantics.structs).lines
         IN  \A i \in DOMAIN lines : \A k \in DOMAIN lines[i].fields :
               BuiltinSize(lines[i].fields[k]) = 0 =>
                 \E j \in 1..(i - 1) : lines[j].type = lines[i].fields[k]
<1> DEFINE s == semantics.structs
           order == OrderOf(semantics)
           n == Len(order)
           lines == WriteTypes(s).lines
<1>1. /\ order \in Seq(1 .. Len(s)) /\ Len(order) \in Nat
      /\ \A i \in 1 .. Len(s) : \E k \in 1 .. Len(order) : order[k] = i
      /\ \A j, k \in 1 .. Len(order) : order[j] = order[k] => j = k
      /\ \A k \in 1 .. Len(order) : \A p \in 1 .. Len(s[order[k]].fields) :
           BuiltinSize(s[order[k]].fields[p].type) = 0 =>
             \E j \in 1 .. k - 1 : order[j] = FindExact(s, s[order[k]].fields[p].type)
  <2>1. WalksInOrder(semantics.structs, OrderOf(semantics))
    BY WalkedInOrder
  <2> QED
    BY ONLY <2>1 DEF WalksInOrder
<1>2. lines = Map(LAMBDA i : Line(s[i]), order)
  BY DEF WriteTypes, OrderOf, Parts
<1> HIDE DEF order, lines
<1>3. lines = [k \in 1 .. n |-> Line(s[order[k]])]
  BY <1>1, <1>2 DEF Map
<1>4. ASSUME NEW i \in DOMAIN lines, NEW k \in DOMAIN lines[i].fields,
             BuiltinSize(lines[i].fields[k]) = 0
      PROVE  \E j \in 1..(i - 1) : lines[j].type = lines[i].fields[k]
  <2> DEFINE d == order[i]
             type == s[d].fields[k].type
  <2>1. i \in 1 .. n /\ d \in 1 .. Len(s)
    BY <1>1, <1>3
  <2>2. lines[i].fields = [p \in DOMAIN s[d].fields |-> s[d].fields[p].type]
    BY <1>3, <2>1 DEF Line
  <2> HIDE DEF d
  <2>3. DOMAIN s[d].fields = 1 .. Len(s[d].fields)
    BY <2>1, DeclaredStructs
  <2>4. k \in 1 .. Len(s[d].fields) /\ lines[i].fields[k] = type
    BY <2>2, <2>3
  <2>5. BuiltinSize(type) = 0
    BY <1>4, <2>4
  <2>6. PICK j \in 1 .. i - 1 : order[j] = FindExact(s, type)
    BY <1>1, <2>1, <2>4, <2>5 DEF d
  <2>7. s[FindExact(s, type)].qualified = type
    <3>1. d \in 1 .. Len(semantics.structs) /\ k \in 1 .. Len(semantics.structs[d].fields)
          /\ BuiltinSize(semantics.structs[d].fields[k].type) = 0
      BY <2>1, <2>4, <2>5
    <3>2. IsDeclared(semantics.structs, semantics.structs[d].fields[k].type)
      BY ONLY Declares(semantics), WriteTypes(semantics.structs).ok, <3>1, HeldIsDeclared
    <3> QED
      BY ONLY <3>2 DEF IsDeclared
  <2>8. j \in 1 .. n /\ lines[j].type = s[order[j]].qualified
    BY <1>1, <1>3, <2>1 DEF Line
  <2> QED
    BY <2>4, <2>6, <2>7, <2>8
<1> QED
  BY <1>4 DEF lines

(* A C compiler gives every struct the size that the loader computed.      *)
LEMMA CompiledAsLoaded ==
  ASSUME NEW semantics, NEW l, NEW m, Written(semantics, l, m),
         WriteTypes(semantics.structs).ok
  PROVE  LET compiled == CompiledLayouts(WriteTypes(semantics.structs).lines)
             module == Sized(m, OrderOf(semantics))
         IN  \A i \in DOMAIN module.structs :
               compiled[module.types[module.structs[i].type].qualified]
                 = [size |-> module.structs[i].size, alignment |-> module.structs[i].alignment]
<1> DEFINE s == semantics.structs
           n == Len(s)
           order == OrderOf(semantics)
           compiled == CompiledLayouts(WriteTypes(s).lines)
           layouts == SizedLayouts(m, order)
           M == Sized(m, order)
<1>1. SameLayouts(semantics, order, Len(order), compiled, layouts)
  BY SameLayoutsOfAll
<1>2. M.types = m.types /\ DOMAIN M.structs = 1 .. n
      /\ \A i \in 1 .. n : /\ M.structs[i].type = m.structs[i].type
                           /\ M.structs[i].size = layouts[i].size
                           /\ M.structs[i].alignment = layouts[i].alignment
  BY SizedKeeps
<1>3. \A i \in 1 .. n : m.types[m.structs[i].type].qualified = s[i].qualified
  BY StructRowSays
<1>4. /\ order \in Seq(1 .. Len(s)) /\ Len(order) \in Nat
      /\ \A i \in 1 .. Len(s) : \E k \in 1 .. Len(order) : order[k] = i
      /\ \A j, k \in 1 .. Len(order) : order[j] = order[k] => j = k
      /\ \A k \in 1 .. Len(order) : \A p \in 1 .. Len(s[order[k]].fields) :
           BuiltinSize(s[order[k]].fields[p].type) = 0 =>
             \E j \in 1 .. k - 1 : order[j] = FindExact(s, s[order[k]].fields[p].type)
  <2>1. WalksInOrder(semantics.structs, OrderOf(semantics))
    BY WalkedInOrder DEF Written
  <2> QED
    BY ONLY <2>1 DEF WalksInOrder
<1> HIDE DEF order, compiled, layouts, M
<1>5. ASSUME NEW i \in DOMAIN M.structs
      PROVE  compiled[M.types[M.structs[i].type].qualified]
               = [size |-> M.structs[i].size, alignment |-> M.structs[i].alignment]
  <2>1. i \in 1 .. n
    BY <1>2
  <2>2. M.types[M.structs[i].type].qualified = s[i].qualified
    BY <1>2, <1>3, <2>1
  <2>3. PICK k \in 1 .. Len(order) : order[k] = i
    BY <1>4, <2>1
  <2>4. compiled[s[i].qualified] = layouts[i] /\ layouts[i] \in LayoutRecords
    BY <1>1, <2>3 DEF SameLayouts
  <2>5. layouts[i] = [size |-> layouts[i].size, alignment |-> layouts[i].alignment]
    BY <2>4 DEF LayoutRecords
  <2> QED
    BY <1>2, <2>1, <2>2, <2>4, <2>5
<1> QED
  BY <1>5 DEF compiled, M, order

-----------------------------------------------------------------------------
(***************************************************************************)
(* The passes over the declarations keep them what they are.               *)
(***************************************************************************)

(* A type is found in the table or not at all.                             *)
LEMMA FindsWithin ==
  ASSUME NEW items, Len(items) \in Nat, DOMAIN items = 1 .. Len(items), NEW namespace, NEW name
  PROVE  Find(items, namespace, name) \in 0 .. Len(items)
<1> DEFINE joined == Join(namespace, name)
           hits == {i \in DOMAIN items : \/ items[i].qualified = name
                                         \/ EndsIn(items[i].qualified, <<".">> \o name)}
<1>1. FindExact(items, name) \in 0 .. Len(items) /\ FindExact(items, joined) \in 0 .. Len(items)
  <2> HIDE DEF joined
  <2> QED
    BY FindExactFinds
<1>2. FindBySuffix(items, name) \in 0 .. Len(items)
  <2>1. FindBySuffix(items, name) = IF Cardinality(hits) = 1 THEN CHOOSE i \in hits : TRUE ELSE 0
    BY DEF FindBySuffix
  <2>2. hits \subseteq 1 .. Len(items)
    OBVIOUS
  <2> HIDE DEF hits
  <2>3. Cardinality(hits) = 1 => hits # {}
    <3>1. hits = {} => Cardinality(hits) = 0
      BY FS_EmptySet
    <3> QED
      BY <3>1
  <2>4. CASE Cardinality(hits) = 1
    <3>1. (CHOOSE i \in hits : TRUE) \in hits
      BY <2>3, <2>4, Zenon
    <3>2. FindBySuffix(items, name) \in 1 .. Len(items)
      BY <2>1, <2>2, <2>4, <3>1, Zenon
    <3> QED
      BY <3>2
  <2>5. CASE Cardinality(hits) # 1
    BY <2>1, <2>5
  <2> QED
    BY <2>4, <2>5
<1> HIDE DEF joined
<1> QED
  BY <1>1, <1>2 DEF Find, OrElse, joined

(* The same for a type, which may have an alias.                           *)
LEMMA FindsTypeWithin ==
  ASSUME NEW structs, Len(structs) \in Nat, DOMAIN structs = 1 .. Len(structs),
         NEW namespace, NEW name
  PROVE  FindType(structs, namespace, name) \in 0 .. Len(structs)
<1> DEFINE dot == SelectLastInSeq(name, LAMBDA t : t = ".")
           Carries(struct) ==
             /\ IsPrefix(SubSeq(name, 1, dot), struct.qualified)
             /\ \E k \in DOMAIN struct.attributes :
                  /\ struct.attributes[k].name \in {Core("Alias"), <<"Alias">>}
                  /\ struct.attributes[k].data # <<>>
                  /\ Text(struct.attributes[k].data) = SubSeq(name, dot + 1, Len(name))
           I == {i \in 1 .. Len(structs) : Carries(structs[i])}
<1>1. FindAlias(structs, name) = IF I # {} THEN Min(I) ELSE 0
  BY DEF FindAlias, SelectInSeq
<1>2. I # {} => Min(I) \in I
  <2>1. I \in SUBSET Nat
    OBVIOUS
  <2> HIDE DEF I
  <2> QED
    BY <2>1, MinOfNat
<1>3. I \subseteq 1 .. Len(structs)
  OBVIOUS
<1> HIDE DEF I
<1>4. FindAlias(structs, name) \in 0 .. Len(structs)
  <2>1. CASE I = {}
    BY <1>1, <2>1
  <2>2. CASE I # {}
    <3>1. FindAlias(structs, name) = Min(I)
      BY <1>1, <2>2, Zenon
    <3>2. Min(I) \in 1 .. Len(structs)
      BY <1>2, <1>3, <2>2, Zenon
    <3> QED
      BY <3>1, <3>2
  <2> QED
    BY <2>1, <2>2
<1>5. Find(structs, namespace, name) \in 0 .. Len(structs)
  BY FindsWithin
<1> QED
  BY <1>4, <1>5 DEF FindType, OrElse

(* The name of a type is the one that is found, or as it was.              *)
LEMMA TypeNameIsName ==
  ASSUME NEW structs, Len(structs) \in Nat, DOMAIN structs = 1 .. Len(structs),
         \A j \in 1 .. Len(structs) : structs[j].qualified \in NameText,
         NEW namespace, NEW name \in NameText
  PROVE  TypeName(structs, namespace, name) \in NameText
<1>1. FindType(structs, namespace, name) \in 0 .. Len(structs)
  BY FindsTypeWithin
<1> QED
  BY <1>1 DEF TypeName, NameAt

(* The names of what is declared.                                          *)
LEMMA DeclaredNames ==
  ASSUME NEW semantics, Declares(semantics)
  PROVE  /\ \A j \in 1 .. Len(semantics.structs) : semantics.structs[j].qualified \in NameText
         /\ \A j \in 1 .. Len(semantics.functions) : semantics.functions[j].qualified \in NameText
<1>1. \A j \in 1 .. Len(semantics.structs) : semantics.structs[j].qualified \in NameText
  <2>1. \A j \in 1 .. Len(semantics.structs) : semantics.structs[j] \in StructText1
    BY DeclaredStructs
  <2> QED
    BY <2>1 DEF StructText1
<1>2. ASSUME NEW j \in 1 .. Len(semantics.functions)
      PROVE  semantics.functions[j].qualified \in NameText
  <2> DEFINE function == semantics.functions[j]
  <2>1. IsFunctionText(function)
    BY DeclaredFunctions
  <2> HIDE DEF function
  <2>2. function.qualified \in NameText
    BY <2>1 DEF IsFunctionText
  <2> QED
    BY <2>2 DEF function
<1> QED
  BY <1>1, <1>2

(* A payload that names a type or a function stays a name.                 *)
LEMMA PayloadIsName ==
  ASSUME NEW semantics, Declares(semantics), NEW namespace, NEW name \in NameText
  PROVE  PayloadName(semantics, namespace, name) \in NameText
<1>1. /\ Len(semantics.structs) \in Nat /\ DOMAIN semantics.structs = 1 .. Len(semantics.structs)
      /\ Len(semantics.functions) \in Nat
      /\ DOMAIN semantics.functions = 1 .. Len(semantics.functions)
  BY DeclaredStructs, DeclaredFunctions
<1>2. /\ FindType(semantics.structs, namespace, name) \in 0 .. Len(semantics.structs)
      /\ Find(semantics.functions, namespace, name) \in 0 .. Len(semantics.functions)
  BY <1>1, FindsTypeWithin, FindsWithin
<1> QED
  BY <1>2, DeclaredNames DEF PayloadName, FindFunction, NameAt

(* Resolved payloads are attributes of the same number.                    *)
LEMMA PayloadsResolved ==
  ASSUME NEW semantics, Declares(semantics), NEW namespace,
         NEW attributes \in Seq(AttributeText1)
  PROVE  ResolvePayloads(semantics, namespace, attributes) \in Seq(AttributeText1)
<1> DEFINE Payload(attribute) ==
             IF attribute.data = <<>> \/ ~UsesTypePayload(semantics.structs, attribute.name)
             THEN attribute
             ELSE [attribute EXCEPT !.data = PayloadName(semantics, namespace, @)]
           n == Len(attributes)
<1>1. n \in Nat /\ DOMAIN attributes = 1 .. n /\ \A k \in 1 .. n : attributes[k] \in AttributeText1
  OBVIOUS
<1>2. ASSUME NEW attribute \in AttributeText1 PROVE Payload(attribute) \in AttributeText1
  <2>1. PayloadName(semantics, namespace, attribute.data) \in NameText
    BY PayloadIsName DEF AttributeText1
  <2> QED
    BY <2>1 DEF AttributeText1
<1>3. ResolvePayloads(semantics, namespace, attributes)
        = [k \in 1 .. n |-> Payload(attributes[k])]
  BY <1>1 DEF ResolvePayloads, Map
<1> HIDE DEF Payload
<1>4. [k \in 1 .. n |-> Payload(attributes[k])] \in Seq(AttributeText1)
  BY <1>1, <1>2
<1> QED
  BY <1>3, <1>4

(* What holds after a struct was changed in place, but not its name.       *)
KeepsDeclaring(before, after) ==
  /\ Declares(after)
  /\ Len(after.structs) = Len(before.structs)

(* Declarations marked as failed are still declared.                       *)
LEMMA FailedKeeps ==
  ASSUME NEW semantics, Declares(semantics)
  PROVE  KeepsDeclaring(semantics, Failed(semantics))
<1> DEFINE after == Failed(semantics)
<1>1. /\ semantics = [ok |-> semantics.ok, structs |-> semantics.structs,
                      functions |-> semantics.functions, constants |-> semantics.constants]
      /\ after = [semantics EXCEPT !.ok = FALSE]
  BY DEF Declares, Failed
<1> HIDE DEF after
<1>2. /\ after.structs = semantics.structs /\ after.functions = semantics.functions
      /\ after = [ok |-> after.ok, structs |-> after.structs, functions |-> after.functions,
                  constants |-> after.constants]
  BY <1>1
<1> QED
  BY <1>2 DEF Declares, KeepsDeclaring, after

(* A struct under the name it had may be replaced.                         *)
LEMMA StructReplaced ==
  ASSUME NEW semantics, Declares(semantics), NEW i \in 1 .. Len(semantics.structs),
         NEW struct \in StructText1, struct.qualified = semantics.structs[i].qualified,
         NEW after,
         after = [semantics EXCEPT !.structs = [semantics.structs EXCEPT ![i] = struct]]
  PROVE  KeepsDeclaring(semantics, after) /\ after.structs[i] = struct
<1> DEFINE s == semantics.structs
           n == Len(s)
           t == [s EXCEPT ![i] = struct]
<1>1. /\ s \in Seq(StructText1) /\ n \in Nat /\ DOMAIN s = 1 .. n
      /\ \A j, k \in 1 .. n : s[j].qualified = s[k].qualified => j = k
  BY DeclaredStructs
<1>2. t \in Seq(StructText1) /\ Len(t) = n /\ DOMAIN t = 1 .. n /\ t[i] = struct
  BY <1>1
<1>3. \A j \in 1 .. n : t[j].qualified = s[j].qualified
  BY <1>1
<1>4. semantics = [ok |-> semantics.ok, structs |-> semantics.structs,
                   functions |-> semantics.functions, constants |-> semantics.constants]
  BY DEF Declares
<1> HIDE DEF t
<1>5. after = [semantics EXCEPT !.structs = t]
  BY DEF t
<1>6. /\ after.structs = t /\ after.functions = semantics.functions
      /\ after = [ok |-> after.ok, structs |-> after.structs, functions |-> after.functions,
                  constants |-> after.constants]
  BY <1>4, <1>5
<1>7. \A j, k \in DOMAIN t : t[j].qualified = t[k].qualified => j = k
  BY <1>1, <1>2, <1>3
<1>8. Declares(after)
  BY <1>2, <1>6, <1>7 DEF Declares
<1> QED
  BY <1>2, <1>6, <1>8 DEF KeepsDeclaring

(* The attributes of a struct, one after the other.                        *)
NamedAttribute(semantics, i, k, namespace) ==
  [semantics EXCEPT !.structs[i].attributes[k].name = TypeName(semantics.structs, namespace, @)]
NameStep(c, acc, k) ==
  NamedAttribute(acc, c.i, k, c.namespace)
AttributesNamed(c, k, acc) ==
  /\ KeepsDeclaring(c.before, acc)
  /\ Len(acc.structs[c.i].attributes) = c.count

NameLoop == INSTANCE Loops WITH Step <- NameStep, May <- AttributesNamed

(* One attribute under its full name.                                      *)
LEMMA AttributeNamed ==
  ASSUME NEW semantics, Declares(semantics), NEW i \in 1 .. Len(semantics.structs),
         NEW k \in 1 .. Len(semantics.structs[i].attributes), NEW namespace
  PROVE  LET after == NamedAttribute(semantics, i, k, namespace)
         IN  /\ KeepsDeclaring(semantics, after)
             /\ Len(after.structs[i].attributes) = Len(semantics.structs[i].attributes)
<1> DEFINE s == semantics.structs
           struct == s[i]
           name == TypeName(s, namespace, struct.attributes[k].name)
           named == [struct.attributes[k] EXCEPT !.name = name]
           attributes == [struct.attributes EXCEPT ![k] = named]
           changed == [struct EXCEPT !.attributes = attributes]
           after == NamedAttribute(semantics, i, k, namespace)
<1>1. /\ s \in Seq(StructText1) /\ Len(s) \in Nat /\ DOMAIN s = 1 .. Len(s)
      /\ struct \in StructText1 /\ struct.attributes \in Seq(AttributeText1)
  BY DeclaredStructs
<1>2. struct.attributes[k] \in AttributeText1
  BY <1>1
<1>3. name \in NameText
  <2>1. struct.attributes[k].name \in NameText
    BY <1>2 DEF AttributeText1
  <2>2. \A j \in 1 .. Len(s) : s[j].qualified \in NameText
    BY DeclaredNames
  <2> HIDE DEF s, struct
  <2> QED
    BY <1>1, <2>1, <2>2, TypeNameIsName
<1>4. after = [semantics EXCEPT !.structs = [s EXCEPT ![i] = changed]]
  BY DEF NamedAttribute
<1> HIDE DEF name, after
<1>5. attributes \in Seq(AttributeText1) /\ Len(attributes) = Len(struct.attributes)
  <2>1. named \in AttributeText1
    BY <1>2, <1>3 DEF AttributeText1
  <2>2. k \in 1 .. Len(struct.attributes)
    OBVIOUS
  <2> HIDE DEF named, struct
  <2> QED
    BY <1>1, <2>1, <2>2
<1> HIDE DEF attributes, named
<1>6. /\ changed \in StructText1 /\ changed.qualified = struct.qualified
      /\ changed.attributes = attributes
  BY <1>1, <1>5 DEF StructText1
<1> HIDE DEF changed
<1>7. KeepsDeclaring(semantics, after) /\ after.structs[i] = changed
  <2>1. after = [semantics EXCEPT !.structs = [semantics.structs EXCEPT ![i] = changed]]
    BY <1>4
  <2>2. changed \in StructText1 /\ changed.qualified = semantics.structs[i].qualified
    BY <1>6
  <2> QED
    BY ONLY Declares(semantics), i \in 1 .. Len(semantics.structs), <2>1, <2>2, StructReplaced
<1> QED
  BY <1>5, <1>6, <1>7 DEF after

(* A struct whose types and attributes are replaced by their full names.   *)
LEMMA ResolveStructKeeps ==
  ASSUME NEW semantics, Declares(semantics), NEW i \in 1 .. Len(semantics.structs)
  PROVE  KeepsDeclaring(semantics, ResolveStruct(semantics, i))
<1> DEFINE s == semantics.structs
           struct == s[i]
           Typed(field) == [field EXCEPT !.type = TypeName(s, struct.namespace, @)]
           fields == Map(Typed, struct.fields)
           ks == [k \in DOMAIN struct.attributes |-> k]
           base == [semantics EXCEPT !.structs[i].fields = fields]
           changed == [struct EXCEPT !.fields = fields]
           c == [i |-> i, namespace |-> struct.namespace, before |-> semantics,
                 count |-> Len(struct.attributes)]
           named == Fold(LAMBDA acc, k :
                           [acc EXCEPT !.structs[i].attributes[k].name =
                              TypeName(acc.structs, struct.namespace, @)],
                         base, ks)
<1>1. /\ s \in Seq(StructText1) /\ Len(s) \in Nat /\ DOMAIN s = 1 .. Len(s)
      /\ struct \in StructText1 /\ struct.fields \in Seq(FieldTexts)
      /\ Len(struct.fields) \in Nat /\ DOMAIN struct.fields = 1 .. Len(struct.fields)
      /\ Len(struct.attributes) \in Nat
      /\ DOMAIN struct.attributes = 1 .. Len(struct.attributes)
  BY DeclaredStructs
<1>2. fields \in Seq(FieldTexts)
  <2> DEFINE p == Len(struct.fields)
  <2>1. ASSUME NEW k \in 1 .. p PROVE Typed(struct.fields[k]) \in FieldTexts
    <3>1. struct.fields[k] \in FieldTexts
      BY <1>1
    <3>2. \A j \in 1 .. Len(s) : s[j].qualified \in NameText
      BY DeclaredNames
    <3>3. TypeName(s, struct.namespace, struct.fields[k].type) \in NameText
      <4>1. struct.fields[k].type \in NameText
        BY <3>1 DEF FieldTexts
      <4> HIDE DEF s, struct
      <4> QED
        BY <1>1, <3>2, <4>1, TypeNameIsName
    <3> QED
      BY <3>1, <3>3 DEF FieldTexts
  <2>2. fields = [k \in 1 .. p |-> Typed(struct.fields[k])]
    BY <1>1 DEF Map
  <2> HIDE DEF Typed
  <2>3. [k \in 1 .. p |-> Typed(struct.fields[k])] \in Seq(FieldTexts)
    BY <1>1, <2>1
  <2> HIDE DEF fields
  <2> QED
    BY <2>2, <2>3
<1>3. ResolveStruct(semantics, i)
        = IF ~semantics.ok THEN semantics
          ELSE IF \E k \in DOMAIN fields : ~IsKnown(s, fields[k].type) THEN Failed(semantics)
          ELSE named
  BY DEF ResolveStruct
<1>4. base = [semantics EXCEPT !.structs = [s EXCEPT ![i] = changed]]
  OBVIOUS
<1> HIDE DEF fields, base
<1>5. /\ changed \in StructText1 /\ changed.qualified = struct.qualified
      /\ changed.attributes = struct.attributes
  BY <1>1, <1>2 DEF StructText1, FieldTexts
<1> HIDE DEF changed
<1>6. KeepsDeclaring(semantics, base) /\ base.structs[i] = changed
  BY <1>4, <1>5, StructReplaced
<1>7. AttributesNamed(c, 0, base)
  BY <1>5, <1>6 DEF AttributesNamed
<1>8. Len(ks) = Len(struct.attributes) /\ \A k \in 1 .. Len(ks) : ks[k] = k
  BY <1>1
<1>9. ASSUME NEW k \in 1 .. Len(ks), NEW acc, AttributesNamed(c, k - 1, acc)
      PROVE  AttributesNamed(c, k, NameStep(c, acc, ks[k]))
  <2> DEFINE after == NameStep(c, acc, k)
  <2>1. /\ Declares(acc) /\ Len(acc.structs) = Len(semantics.structs)
        /\ Len(acc.structs[i].attributes) = Len(struct.attributes)
    BY <1>9 DEF AttributesNamed, KeepsDeclaring
  <2>2. after = NamedAttribute(acc, i, k, struct.namespace)
    BY DEF NameStep
  <2>3. i \in 1 .. Len(acc.structs) /\ k \in 1 .. Len(acc.structs[i].attributes)
    BY <1>8, <2>1
  <2> HIDE DEF after, struct, s, ks
  <2>4. /\ KeepsDeclaring(acc, after)
        /\ Len(after.structs[i].attributes) = Len(acc.structs[i].attributes)
    BY ONLY <2>1, <2>2, <2>3, AttributeNamed
  <2>5. AttributesNamed(c, k, after)
    BY <2>1, <2>4 DEF AttributesNamed, KeepsDeclaring, struct, s
  <2> QED
    BY <1>8, <2>5 DEF after
<1>10. AttributesNamed(c, Len(ks), NameLoop!Result(c, base, ks))
  <2>1. Len(ks) \in Nat
    BY <1>1, <1>8
  <2> HIDE DEF c, ks
  <2> QED
    BY ONLY <1>7, <1>9, <2>1, NameLoop!LoopInvariant
<1>11. NameLoop!Result(c, base, ks) = named
  <2> HIDE DEF ks, c, base
  <2>1. NameLoop!Result(c, base, ks) = Fold(LAMBDA acc, k : NameStep(c, acc, k), base, ks)
    BY DEF NameLoop!Result, Fold
  <2>2. c.i = i /\ c.namespace = struct.namespace
    BY DEF c
  <2>3. \A acc, k : NameStep(c, acc, k) = NamedAttribute(acc, i, k, struct.namespace)
    BY <2>2 DEF NameStep
  <2>4. named = Fold(LAMBDA acc, k : NamedAttribute(acc, i, k, struct.namespace), base, ks)
    BY DEF NamedAttribute
  <2> HIDE DEF named
  <2> DEFINE One(x, k) == CHOOSE next \in {NameStep(c, acc, ks[k]) : acc \in {x}} : TRUE
             Other(x, k) == CHOOSE next \in {NamedAttribute(acc, i, ks[k], struct.namespace) :
                                             acc \in {x}} : TRUE
             First(r) == [k \in 0 .. Len(ks) |-> IF k = 0 THEN base ELSE One(r[k - 1], k)]
             Second(r) == [k \in 0 .. Len(ks) |-> IF k = 0 THEN base ELSE Other(r[k - 1], k)]
  <2>5. /\ NameLoop!Result(c, base, ks) = (CHOOSE r : r = First(r))[Len(ks)]
        /\ named = (CHOOSE r : r = Second(r))[Len(ks)]
    BY <2>1, <2>4 DEF Fold
  <2>6. \A r : First(r) = Second(r)
    <3>1. ASSUME NEW x, NEW k
          PROVE  {NameStep(c, acc, ks[k]) : acc \in {x}}
                   = {NamedAttribute(acc, i, ks[k], struct.namespace) : acc \in {x}}
      <4>1. NameStep(c, x, ks[k]) = NamedAttribute(x, i, ks[k], struct.namespace)
        BY ONLY <2>3, Zenon
      <4>2. {NameStep(c, acc, ks[k]) : acc \in {x}} = {NameStep(c, x, ks[k])}
        BY ONLY TRUE
      <4>3. {NamedAttribute(acc, i, ks[k], struct.namespace) : acc \in {x}}
              = {NamedAttribute(x, i, ks[k], struct.namespace)}
        BY ONLY TRUE
      <4> QED
        BY ONLY <4>1, <4>2, <4>3, Zenon
    <3>2. ASSUME NEW x, NEW k PROVE One(x, k) = Other(x, k)
      <4>1. {NameStep(c, acc, ks[k]) : acc \in {x}}
              = {NamedAttribute(acc, i, ks[k], struct.namespace) : acc \in {x}}
        BY ONLY <3>1, Zenon
      <4> HIDE DEF c, ks, struct
      <4> QED
        BY ONLY <4>1
    <3> HIDE DEF One, Other
    <3> QED
      BY ONLY <3>2
  <2> HIDE DEF First, Second
  <2>7. (CHOOSE r : r = First(r)) = (CHOOSE r : r = Second(r))
    BY ONLY <2>6, Zenon
  <2> QED
    BY ONLY <2>5, <2>7
<1> HIDE DEF named
<1>12. KeepsDeclaring(semantics, named)
  BY <1>10, <1>11 DEF AttributesNamed
<1>13. KeepsDeclaring(semantics, Failed(semantics)) /\ KeepsDeclaring(semantics, semantics)
  BY FailedKeeps DEF KeepsDeclaring
<1> QED
  BY <1>3, <1>12, <1>13

(* All structs, one after the other.                                       *)
ResolveStep(c, acc, i) == ResolveStruct(acc, i)
DeclaringStill(c, k, acc) == KeepsDeclaring(c, acc)

ResolveLoop == INSTANCE Loops WITH Step <- ResolveStep, May <- DeclaringStill

(* All structs are resolved.                                               *)
LEMMA StructsResolved ==
  ASSUME NEW semantics, Declares(semantics)
  PROVE  KeepsDeclaring(semantics, Fold(ResolveStruct, semantics,
                                        [i \in DOMAIN semantics.structs |-> i]))
<1> DEFINE n == Len(semantics.structs)
           is == [i \in DOMAIN semantics.structs |-> i]
<1>1. n \in Nat /\ DOMAIN semantics.structs = 1 .. n
  BY DeclaredStructs
<1>2. Len(is) = n /\ \A k \in 1 .. n : is[k] = k
  BY <1>1
<1>3. DeclaringStill(semantics, 0, semantics)
  BY DEF DeclaringStill, KeepsDeclaring
<1> HIDE DEF is
<1>4. ASSUME NEW k \in 1 .. Len(is), NEW acc, DeclaringStill(semantics, k - 1, acc)
      PROVE  DeclaringStill(semantics, k, ResolveStep(semantics, acc, is[k]))
  <2>1. Declares(acc) /\ Len(acc.structs) = n
    BY <1>4 DEF DeclaringStill, KeepsDeclaring
  <2>2. KeepsDeclaring(acc, ResolveStruct(acc, k))
    BY <1>2, <2>1, ResolveStructKeeps
  <2>3. KeepsDeclaring(semantics, ResolveStruct(acc, k))
    BY <2>1, <2>2 DEF KeepsDeclaring
  <2> QED
    BY <1>2, <2>3 DEF ResolveStep, DeclaringStill
<1>5. DeclaringStill(semantics, Len(is), ResolveLoop!Result(semantics, semantics, is))
  BY <1>1, <1>2, <1>3, <1>4, ResolveLoop!LoopInvariant
<1>6. ResolveLoop!Result(semantics, semantics, is) = Fold(ResolveStruct, semantics, is)
  BY DEF ResolveLoop!Result, Fold, ResolveStep
<1> QED
  BY <1>5, <1>6 DEF DeclaringStill, is

(* The payloads of their attributes.                                       *)
WithPayloads(acc, i) ==
  [acc EXCEPT !.structs[i].attributes = ResolvePayloads(acc, acc.structs[i].namespace, @)]
PayloadStep(c, acc, i) == WithPayloads(acc, i)

PayloadLoop == INSTANCE Loops WITH Step <- PayloadStep, May <- DeclaringStill

(* The payloads of one struct are resolved.                                *)
LEMMA PayloadsKeep ==
  ASSUME NEW semantics, Declares(semantics), NEW i \in 1 .. Len(semantics.structs)
  PROVE  KeepsDeclaring(semantics, WithPayloads(semantics, i))
<1> DEFINE s == semantics.structs
           struct == s[i]
           attributes == ResolvePayloads(semantics, struct.namespace, struct.attributes)
           changed == [struct EXCEPT !.attributes = attributes]
           after == WithPayloads(semantics, i)
<1>1. struct \in StructText1 /\ struct.attributes \in Seq(AttributeText1)
  BY DeclaredStructs
<1>2. attributes \in Seq(AttributeText1)
  <2> HIDE DEF struct
  <2> QED
    BY <1>1, PayloadsResolved
<1>3. after = [semantics EXCEPT !.structs = [semantics.structs EXCEPT ![i] = changed]]
  BY DEF WithPayloads
<1> HIDE DEF attributes, after
<1>4. changed \in StructText1 /\ changed.qualified = semantics.structs[i].qualified
  BY <1>1, <1>2 DEF StructText1
<1> HIDE DEF changed
<1>5. KeepsDeclaring(semantics, after)
  BY ONLY Declares(semantics), i \in 1 .. Len(semantics.structs), <1>3, <1>4, StructReplaced
<1> QED
  BY <1>5 DEF after

(* The payloads of all structs are resolved.                               *)
LEMMA StructPayloadsResolved ==
  ASSUME NEW semantics, Declares(semantics)
  PROVE  KeepsDeclaring(semantics, ResolveStructPayloads(semantics))
<1> DEFINE n == Len(semantics.structs)
           is == [i \in DOMAIN semantics.structs |-> i]
<1>1. n \in Nat /\ DOMAIN semantics.structs = 1 .. n
  BY DeclaredStructs
<1>2. Len(is) = n /\ \A k \in 1 .. n : is[k] = k
  BY <1>1
<1>3. DeclaringStill(semantics, 0, semantics)
  BY DEF DeclaringStill, KeepsDeclaring
<1> HIDE DEF is
<1>4. ASSUME NEW k \in 1 .. Len(is), NEW acc, DeclaringStill(semantics, k - 1, acc)
      PROVE  DeclaringStill(semantics, k, PayloadStep(semantics, acc, is[k]))
  <2>1. Declares(acc) /\ Len(acc.structs) = n
    BY <1>4 DEF DeclaringStill, KeepsDeclaring
  <2>2. KeepsDeclaring(acc, WithPayloads(acc, k))
    BY <1>2, <2>1, PayloadsKeep
  <2>3. KeepsDeclaring(semantics, WithPayloads(acc, k))
    BY <2>1, <2>2 DEF KeepsDeclaring
  <2> QED
    BY <1>2, <2>3 DEF PayloadStep, DeclaringStill
<1>5. DeclaringStill(semantics, Len(is), PayloadLoop!Result(semantics, semantics, is))
  BY <1>1, <1>2, <1>3, <1>4, PayloadLoop!LoopInvariant
<1>6. PayloadLoop!Result(semantics, semantics, is) = ResolveStructPayloads(semantics)
  BY DEF PayloadLoop!Result, Fold, PayloadStep, WithPayloads, ResolveStructPayloads, is
<1> QED
  BY <1>5, <1>6 DEF DeclaringStill

(* Functions under the names they had, in a table as long.                 *)
LEMMA FunctionsReplaced ==
  ASSUME NEW semantics, Declares(semantics), NEW f,
         \A j \in 1 .. Len(semantics.functions) :
           IsFunctionText(f[j]) /\ f[j].qualified = semantics.functions[j].qualified,
         NEW after,
         after = [semantics EXCEPT !.functions = [j \in 1 .. Len(semantics.functions) |-> f[j]]]
  PROVE  KeepsDeclaring(semantics, after)
<1> DEFINE n == Len(semantics.functions)
           t == [j \in 1 .. n |-> f[j]]
<1>1. /\ n \in Nat /\ \A j, k \in 1 .. n :
           semantics.functions[j].qualified = semantics.functions[k].qualified => j = k
  BY DeclaredFunctions
<1>2. DOMAIN t = 1 .. n /\ \A j \in 1 .. n : t[j] = f[j]
  OBVIOUS
<1>3. IsSequence(t)
  <2>1. t = [j \in 1 .. n |-> t[j]]
    OBVIOUS
  <2>2. \A j \in 1 .. n : t[j] \in Range(t)
    BY <1>2 DEF Range
  <2> HIDE DEF t
  <2>3. n \in Nat
    BY <1>1
  <2>4. [j \in 1 .. n |-> t[j]] \in Seq(Range(t))
    BY ONLY <2>2, <2>3
  <2> QED
    BY ONLY <2>1, <2>4 DEF IsSequence
<1>4. semantics = [ok |-> semantics.ok, structs |-> semantics.structs,
                   functions |-> semantics.functions, constants |-> semantics.constants]
  BY DEF Declares
<1>5. after = [semantics EXCEPT !.functions = t]
  OBVIOUS
<1> HIDE DEF t
<1>6. /\ after.functions = t /\ after.structs = semantics.structs
      /\ after = [ok |-> after.ok, structs |-> after.structs, functions |-> after.functions,
                  constants |-> after.constants]
  BY <1>4, <1>5
<1>7. \A j \in DOMAIN t : IsFunctionText(t[j])
  BY <1>2
<1>8. \A j, k \in DOMAIN t : t[j].qualified = t[k].qualified => j = k
  <2> SUFFICES ASSUME NEW j \in 1 .. n, NEW k \in 1 .. n, t[j].qualified = t[k].qualified
               PROVE  j = k
    BY <1>2
  <2>1. semantics.functions[j].qualified = semantics.functions[k].qualified
    BY <1>2
  <2> QED
    BY <1>1, <2>1
<1>9. \A i, j \in DOMAIN semantics.structs :
        semantics.structs[i].qualified = semantics.structs[j].qualified => i = j
  BY DEF Declares
<1>10. Declares(after)
  <2>1. semantics.structs \in Seq(StructText1)
    BY DEF Declares
  <2> DEFINE Own(table) == \A i, j \in DOMAIN table :
                             table[i].qualified = table[j].qualified => i = j
  <2>2. Own(t) /\ Own(semantics.structs)
    BY <1>8, <1>9
  <2>3. Declares(after)
          <=> /\ after = [ok |-> after.ok, structs |-> after.structs,
                          functions |-> after.functions, constants |-> after.constants]
              /\ after.structs \in Seq(StructText1)
              /\ IsSequence(after.functions)
              /\ \A i \in DOMAIN after.functions : IsFunctionText(after.functions[i])
              /\ \A table \in {after.structs, after.functions} : Own(table)
    BY DEF Declares
  <2> HIDE DEF Own
  <2>4. \A table \in {after.structs, after.functions} : Own(table)
    BY <1>6, <2>2
  <2> QED
    BY <1>3, <1>6, <1>7, <2>1, <2>3, <2>4
<1> QED
  BY <1>6, <1>10 DEF KeepsDeclaring

(* A resolved function is one that was declared, under its name.           *)
LEMMA FunctionResolved ==
  ASSUME NEW semantics, Declares(semantics), NEW function, IsFunctionText(function)
  PROVE  /\ IsFunctionText(ResolveFunction(semantics, function))
         /\ ResolveFunction(semantics, function).qualified = function.qualified
<1> DEFINE s == semantics.structs
           Type(name) == TypeName(s, function.namespace, name)
           Parameter1(parameter) == [parameter EXCEPT !.type = Type(@)]
           Attribute1(attribute) == [attribute EXCEPT !.name = Type(@)]
           parameters == Map(Parameter1, function.parameters)
           named == Map(Attribute1, function.attributes)
           attributes == ResolvePayloads(semantics, function.namespace, named)
           returns == Type(function.returns)
           after == [function EXCEPT !.returns = returns, !.parameters = parameters,
                                     !.attributes = attributes]
<1>1. /\ function = [namespace |-> function.namespace, name |-> function.name,
                     qualified |-> function.qualified, returns |-> function.returns,
                     parameters |-> function.parameters, attributes |-> function.attributes,
                     source |-> function.source, body |-> function.body]
      /\ function.returns \in NameText
      /\ function.parameters \in Seq([name : NameText, type : NameText, default : NameText])
      /\ function.attributes \in Seq(AttributeText1)
  BY DEF IsFunctionText
<1>2. ASSUME NEW name \in NameText PROVE Type(name) \in NameText
  <2>1. /\ Len(s) \in Nat /\ DOMAIN s = 1 .. Len(s)
        /\ \A j \in 1 .. Len(s) : s[j].qualified \in NameText
    BY DeclaredStructs, DeclaredNames
  <2> HIDE DEF s
  <2> QED
    BY <2>1, TypeNameIsName
<1> HIDE DEF Type
<1>3. parameters \in Seq([name : NameText, type : NameText, default : NameText])
  <2> DEFINE P == [name : NameText, type : NameText, default : NameText]
             n == Len(function.parameters)
  <2>0. n \in Nat /\ \A k \in 1 .. n : function.parameters[k] \in P
    <3>1. function.parameters \in Seq(P)
      BY <1>1
    <3> HIDE DEF P
    <3> QED
      BY <3>1
  <2>1. ASSUME NEW k \in 1 .. n PROVE Parameter1(function.parameters[k]) \in P
    <3> DEFINE parameter == function.parameters[k]
               type == Type(parameter.type)
    <3>1. parameter \in P
      BY <2>0
    <3> HIDE DEF parameter
    <3>2. parameter.type \in NameText
      BY <3>1
    <3>3. type \in NameText
      BY <1>2, <3>2
    <3> HIDE DEF type
    <3>4. [parameter EXCEPT !.type = type] \in P
      BY <3>1, <3>3
    <3> QED
      BY <3>4 DEF type, parameter
  <2>2. parameters = [k \in 1 .. n |-> Parameter1(function.parameters[k])]
    BY <1>1 DEF Map
  <2> HIDE DEF P, Parameter1, parameters, n
  <2>3. [k \in 1 .. n |-> Parameter1(function.parameters[k])] \in Seq(P)
    BY <2>0, <2>1
  <2>4. parameters \in Seq(P)
    BY <2>2, <2>3
  <2> QED
    BY <2>4 DEF P
<1>4. named \in Seq(AttributeText1)
  <2> DEFINE n == Len(function.attributes)
  <2>0. n \in Nat /\ \A k \in 1 .. n : function.attributes[k] \in AttributeText1
    BY <1>1
  <2>1. ASSUME NEW k \in 1 .. n PROVE Attribute1(function.attributes[k]) \in AttributeText1
    <3> DEFINE attribute == function.attributes[k]
               name == Type(attribute.name)
    <3>1. attribute \in AttributeText1
      BY <2>0
    <3> HIDE DEF attribute
    <3>2. attribute.name \in NameText
      BY <3>1 DEF AttributeText1
    <3>3. name \in NameText
      BY <1>2, <3>2
    <3> HIDE DEF name
    <3>4. [attribute EXCEPT !.name = name] \in AttributeText1
      BY <3>1, <3>3 DEF AttributeText1
    <3> QED
      BY <3>4 DEF name, attribute
  <2>2. named = [k \in 1 .. n |-> Attribute1(function.attributes[k])]
    BY <1>1 DEF Map
  <2> HIDE DEF Attribute1, named, n
  <2>3. [k \in 1 .. n |-> Attribute1(function.attributes[k])] \in Seq(AttributeText1)
    BY <2>0, <2>1
  <2> QED
    BY <2>2, <2>3
<1>5. attributes \in Seq(AttributeText1) /\ returns \in NameText
  <2> HIDE DEF named
  <2> QED
    BY <1>1, <1>2, <1>4, PayloadsResolved
<1>6. ResolveFunction(semantics, function) = after
  BY DEF ResolveFunction, Type
<1> HIDE DEF attributes, parameters, returns, named, Parameter1, Attribute1
<1>7. /\ after = [namespace |-> after.namespace, name |-> after.name,
                  qualified |-> after.qualified, returns |-> after.returns,
                  parameters |-> after.parameters, attributes |-> after.attributes,
                  source |-> after.source, body |-> after.body]
      /\ after.namespace = function.namespace /\ after.name = function.name
      /\ after.qualified = function.qualified /\ after.returns = returns
      /\ after.parameters = parameters /\ after.attributes = attributes
  <2>1. after = [namespace |-> function.namespace, name |-> function.name,
                 qualified |-> function.qualified, returns |-> returns,
                 parameters |-> parameters, attributes |-> attributes,
                 source |-> function.source, body |-> function.body]
    <3> DEFINE F(r, p, a) ==
                 [namespace |-> function.namespace, name |-> function.name,
                  qualified |-> function.qualified, returns |-> r, parameters |-> p,
                  attributes |-> a, source |-> function.source, body |-> function.body]
               first == [function EXCEPT !.returns = returns]
               second == [first EXCEPT !.parameters = parameters]
    <3>1. first = F(returns, function.parameters, function.attributes)
      BY <1>1
    <3> HIDE DEF first
    <3>2. second = F(returns, parameters, function.attributes)
      BY <3>1
    <3> HIDE DEF second
    <3>3. [second EXCEPT !.attributes = attributes] = F(returns, parameters, attributes)
      BY <3>2
    <3>4. after = [second EXCEPT !.attributes = attributes]
      BY DEF first, second
    <3> QED
      BY <3>3, <3>4
  <2> HIDE DEF after
  <2> QED
    BY <2>1
<1> HIDE DEF after
<1>8. IsFunctionText(after)
  BY <1>3, <1>5, <1>7 DEF IsFunctionText
<1> QED
  BY <1>6, <1>7, <1>8

(* The pass that puts full names in the place of those that are written.   *)
LEMMA ResolveTypesKeeps ==
  ASSUME NEW semantics, Declares(semantics)
  PROVE  Declares(ResolveTypes(semantics))
<1> DEFINE a == Fold(ResolveStruct, semantics, [i \in DOMAIN semantics.structs |-> i])
           b == ResolveStructPayloads(a)
           c == ResolveFunctions(b)
<1>1. Declares(a)
  BY StructsResolved DEF KeepsDeclaring
<1> HIDE DEF a
<1>2. Declares(b)
  BY <1>1, StructPayloadsResolved DEF KeepsDeclaring
<1> HIDE DEF b
<1>3. Declares(c)
  <2> DEFINE n == Len(b.functions)
             f == [j \in 1 .. n |-> ResolveFunction(b, b.functions[j])]
  <2>1. DOMAIN b.functions = 1 .. n /\ \A j \in 1 .. n : IsFunctionText(b.functions[j])
    BY <1>2, DeclaredFunctions
  <2>2. c = [b EXCEPT !.functions = [j \in 1 .. n |-> f[j]]]
    BY <2>1 DEF ResolveFunctions, Map
  <2>3. \A j \in 1 .. n : f[j] = ResolveFunction(b, b.functions[j])
    OBVIOUS
  <2> HIDE DEF f, c
  <2>4. \A j \in 1 .. n : IsFunctionText(f[j]) /\ f[j].qualified = b.functions[j].qualified
    BY <1>2, <2>1, <2>3, FunctionResolved
  <2>5. KeepsDeclaring(b, c)
    BY <1>2, <2>2, <2>4, FunctionsReplaced
  <2> QED
    BY <2>5 DEF KeepsDeclaring
<1>4. ResolveTypes(semantics) = IF a.ok THEN CheckFunctions(c) ELSE a
  BY DEF ResolveTypes, ResolveFurther, a, b
<1> HIDE DEF c
<1>5. Declares(CheckFunctions(c))
  BY <1>3, FailedKeeps DEF CheckFunctions, KeepsDeclaring
<1> QED
  BY <1>1, <1>4, <1>5

(* A place is a number of bytes, whatever the alignments are.              *)
Places == [size : Nat, alignment : Nat]

(* Rounding up gives a number.                                             *)
LEMMA AlignedUp ==
  ASSUME NEW value \in Nat, NEW alignment \in Nat
  PROVE  AlignUp(value, alignment) \in Nat
<1>1. CASE alignment = 0
  BY <1>1 DEF AlignUp
<1>2. CASE alignment # 0
  <2> DEFINE q == (value + alignment - 1) \div alignment
  <2>1. q \in Nat
    BY <1>2
  <2>2. AlignUp(value, alignment) = q * alignment
    BY <1>2 DEF AlignUp
  <2> HIDE DEF q
  <2>3. q * alignment \in Nat
    BY <2>1
  <2> QED
    BY <2>2, <2>3
<1> QED
  BY <1>1, <1>2

(* A field that is placed leaves a place to go on from.                    *)
LEMMA PlacesStay ==
  ASSUME NEW at \in Places
  PROVE  /\ Padded(at) \in Places
         /\ \A layout \in Places : Place(at, layout) \in Places
<1>1. at.size \in Nat /\ at.alignment \in Nat
  BY DEF Places
<1>2. Padded(at) \in Places
  <2>1. AlignUp(at.size, at.alignment) \in Nat
    BY <1>1, AlignedUp
  <2> QED
    BY <2>1 DEF Padded, Places
<1>3. ASSUME NEW layout \in Places PROVE Place(at, layout) \in Places
  <2>1. layout.size \in Nat /\ layout.alignment \in Nat
    BY DEF Places
  <2>2. AlignUp(at.size, layout.alignment) \in Nat
    BY <1>1, <2>1, AlignedUp
  <2>3. Max({at.alignment, layout.alignment}) \in Nat
    BY <1>1, <2>1, LargerOfTwo
  <2>4. AlignUp(at.size, layout.alignment) + layout.size \in Nat
    BY <2>1, <2>2
  <2> QED
    BY <2>3, <2>4 DEF Place, Places
<1> QED
  BY <1>2, <1>3

(* The layout of a struct, one field after the other.                      *)
LaidField(structs, type) ==
  IF BuiltinSize(type) # 0 THEN BuiltinLayout(type)
  ELSE [size |-> structs[FindExact(structs, type)].size,
        alignment |-> structs[FindExact(structs, type)].alignment]
LaidStep(structs, at, field) == Place(at, LaidField(structs, field.type))
LaidSoFar(structs, k, at) == at \in Places

LaidLoop == INSTANCE Loops WITH Step <- LaidStep, May <- LaidSoFar

(* All fields of a struct are placed.                                      *)
LEMMA FieldsLaid ==
  ASSUME NEW structs \in Seq(StructText1), NEW struct \in StructText1,
         HoldsKnown(structs, struct)
  PROVE  Fold(LAMBDA at, field : Place(at, LaidField(structs, field.type)),
              NothingYet, struct.fields) \in Places
<1> DEFINE n == Len(struct.fields)
<1>1. n \in Nat /\ DOMAIN struct.fields = 1 .. n
  BY DEF StructText1
<1>2. ASSUME NEW k \in 1 .. n
      PROVE  LaidField(structs, struct.fields[k].type) \in Places
  <2> DEFINE type == struct.fields[k].type
             i == FindExact(structs, type)
  <2>1. CASE BuiltinSize(type) # 0
    <3>1. BuiltinLayout(type) \in LayoutRecords
      BY <2>1, BuiltinIsLayout
    <3> HIDE DEF type
    <3>2. LaidField(structs, type) \in Places
      BY <2>1, <3>1 DEF LaidField, LayoutRecords, Places
    <3> QED
      BY <3>2 DEF type
  <2>2. CASE BuiltinSize(type) = 0
    <3>1. i # 0
      BY <1>1, <2>2 DEF HoldsKnown, IsKnown
    <3>2. Len(structs) \in Nat
      OBVIOUS
    <3>3. i \in 0 .. Len(structs)
      <4> HIDE DEF type
      <4> QED
        BY <3>2, FindExactFinds
    <3> HIDE DEF i
    <3>4. structs[i] \in StructText1
      BY <3>1, <3>2, <3>3
    <3>5. structs[i].size \in Nat /\ structs[i].alignment \in Nat
      BY <3>4 DEF StructText1
    <3>6. LaidField(structs, type) = [size |-> structs[i].size,
                                      alignment |-> structs[i].alignment]
      BY <2>2 DEF LaidField, i
    <3> HIDE DEF type
    <3> QED
      BY <3>5, <3>6 DEF Places, type
  <2> QED
    BY <2>1, <2>2
<1>3. LaidSoFar(structs, 0, NothingYet)
  BY DEF LaidSoFar, NothingYet, Places
<1>4. ASSUME NEW k \in 1 .. n, NEW at, LaidSoFar(structs, k - 1, at)
      PROVE  LaidSoFar(structs, k, LaidStep(structs, at, struct.fields[k]))
  BY <1>2, <1>4, PlacesStay DEF LaidSoFar, LaidStep
<1>5. LaidSoFar(structs, n, LaidLoop!Result(structs, NothingYet, struct.fields))
  BY <1>1, <1>3, <1>4, LaidLoop!LoopInvariant
<1>6. LaidLoop!Result(structs, NothingYet, struct.fields)
        = Fold(LAMBDA at, field : Place(at, LaidField(structs, field.type)),
               NothingYet, struct.fields)
  BY DEF LaidLoop!Result, Fold, LaidStep
<1> QED
  BY <1>5, <1>6 DEF LaidSoFar

(* What stays of the structs while they are laid out.                      *)
SameButLaid(before, after) ==
  /\ after \in Seq(StructText1)
  /\ Len(after) = Len(before)
  /\ \A j \in 1 .. Len(before) :
       /\ after[j].qualified = before[j].qualified
       /\ after[j].fields = before[j].fields
       /\ before[j].layout = "done" => after[j].layout = "done"

(* Laying out one struct changes its layout alone.                         *)
LEMMA LayOutKeeps ==
  ASSUME NEW structs \in Seq(StructText1), NEW i \in 1 .. Len(structs),
         structs[i].layout = "done" \/ HoldsKnown(structs, structs[i])
  PROVE  SameButLaid(structs, LayOut(structs, i))
<1> DEFINE struct == structs[i]
           own == IF struct.fields = <<>> THEN BuiltinSize(struct.qualified) ELSE 0
           placed == Padded(Fold(LAMBDA at, field : Place(at, LaidField(structs, field.type)),
                                 NothingYet, struct.fields))
           layout == IF own # 0 THEN BuiltinLayout(struct.qualified) ELSE placed
           laid == [struct EXCEPT !.layout = "done", !.size = layout.size,
                                  !.alignment = layout.alignment]
<1>1. Len(structs) \in Nat /\ DOMAIN structs = 1 .. Len(structs) /\ struct \in StructText1
  OBVIOUS
<1>2. LayOut(structs, i) = IF struct.layout = "done" THEN structs
                           ELSE [structs EXCEPT ![i] = laid]
  BY DEF LayOut, LaidField
<1>3. CASE struct.layout = "done"
  BY <1>2, <1>3 DEF SameButLaid
<1>4. CASE struct.layout # "done"
  <2>1. layout \in Places
    <3>1. CASE own # 0
      <4>1. BuiltinLayout(struct.qualified) \in LayoutRecords
        BY <3>1, BuiltinIsLayout
      <4> HIDE DEF struct
      <4> QED
        BY <3>1, <4>1 DEF LayoutRecords, Places
    <3>2. CASE own = 0
      <4>1. Fold(LAMBDA at, field : Place(at, LaidField(structs, field.type)),
                 NothingYet, struct.fields) \in Places
        <5> HIDE DEF struct
        <5>1. HoldsKnown(structs, struct)
          BY <1>4 DEF struct
        <5> QED
          BY <1>1, <5>1, FieldsLaid
      <4>2. placed \in Places
        BY <4>1, PlacesStay
      <4> QED
        BY <3>2, <4>2
    <3> QED
      BY <3>1, <3>2
  <2> HIDE DEF layout
  <2>2. layout.size \in Nat /\ layout.alignment \in Nat
    BY <2>1 DEF Places
  <2> HIDE DEF struct
  <2>3. /\ laid \in StructText1 /\ laid.qualified = struct.qualified
        /\ laid.fields = struct.fields /\ laid.layout = "done"
    BY <1>1, <2>2 DEF StructText1
  <2> HIDE DEF laid
  <2>4. LayOut(structs, i) = [structs EXCEPT ![i] = laid]
    BY <1>2, <1>4
  <2>5. /\ [structs EXCEPT ![i] = laid] \in Seq(StructText1)
        /\ Len([structs EXCEPT ![i] = laid]) = Len(structs)
        /\ \A j \in 1 .. Len(structs) :
             [structs EXCEPT ![i] = laid][j] = IF j = i THEN laid ELSE structs[j]
    BY <1>1, <2>3
  <2> QED
    BY <2>3, <2>4, <2>5 DEF SameButLaid, struct
<1> QED
  BY <1>3, <1>4

LaidStruct(c, structs, i) == LayOut(structs, i)
StructsLaid(before, k, structs) == SameButLaid(before, structs)

LaidStructs == INSTANCE Loops WITH Step <- LaidStruct, May <- StructsLaid

(* The pass that lays structs out keeps them declared.                     *)
LEMMA ComputeLayoutsKeeps ==
  ASSUME NEW semantics, Declares(semantics)
  PROVE  KeepsDeclaring(semantics, ComputeLayouts(semantics))
<1> DEFINE s == semantics.structs
           n == Len(s)
           Open(struct) == IF struct.layout = "done" THEN <<>> ELSE HeldBy(s, struct)
           parts == Map(Open, s)
           walk == DepthFirst(parts)
           known == \A i \in DOMAIN s : s[i].layout = "done" \/ HoldsKnown(s, s[i])
           laid == Fold(LayOut, s, walk.order)
           after == [semantics EXCEPT !.structs = laid]
<1>1. s \in Seq(StructText1) /\ n \in Nat /\ DOMAIN s = 1 .. n
  BY DeclaredStructs
<1>2. ComputeLayouts(semantics)
        = IF ~semantics.ok THEN semantics
          ELSE IF walk.ok /\ known THEN after ELSE Failed(semantics)
  BY DEF ComputeLayouts
<1>3. parts \in Seq(Seq(0 .. Len(parts))) /\ Len(parts) = n
  <2>1. ASSUME NEW i \in 1 .. n PROVE Open(s[i]) \in Seq(0 .. n)
    <3>1. CASE s[i].layout = "done"
      BY <3>1
    <3>2. CASE s[i].layout # "done"
      <4> DEFINE row == Parts(s)[i]
      <4>1. row \in Seq(0 .. n)
        BY HeldStructs
      <4>2. row = HeldBy(s, s[i])
        BY <1>1 DEF Parts, Map
      <4> QED
        BY <3>2, <4>1, <4>2
    <3> QED
      BY <3>1, <3>2
  <2>2. parts = [i \in 1 .. n |-> Open(s[i])]
    BY <1>1 DEF Map
  <2> HIDE DEF Open, parts
  <2>3. parts \in Seq(Seq(0 .. n)) /\ Len(parts) = n
    BY <1>1, <2>1, <2>2
  <2> QED
    BY <2>3
<1> HIDE DEF parts
<1>4. walk.order \in Seq(1 .. n)
  <2>1. walk \in Walks(n)
    BY <1>3, DepthFirstOrder
  <2> HIDE DEF walk
  <2> QED
    BY <2>1 DEF Walks
<1> HIDE DEF walk
<1>5. ASSUME known PROVE SameButLaid(s, laid)
  <2> DEFINE count == Len(walk.order)
  <2>1. count \in Nat /\ \A k \in 1 .. count : walk.order[k] \in 1 .. n
    BY <1>4
  <2>2. StructsLaid(s, 0, s)
    BY <1>1 DEF StructsLaid, SameButLaid
  <2>3. ASSUME NEW k \in 1 .. count, NEW structs, StructsLaid(s, k - 1, structs)
        PROVE  StructsLaid(s, k, LaidStruct(s, structs, walk.order[k]))
    <3> DEFINE i == walk.order[k]
    <3>1. i \in 1 .. n
      BY <2>1
    <3> HIDE DEF i, s
    <3>2. SameButLaid(s, structs)
      BY <2>3 DEF StructsLaid
    <3>3. /\ structs \in Seq(StructText1) /\ Len(structs) = n /\ DOMAIN structs = 1 .. n
          /\ \A j \in 1 .. n :
               /\ structs[j].qualified = s[j].qualified
               /\ structs[j].fields = s[j].fields
               /\ s[j].layout = "done" => structs[j].layout = "done"
      BY <3>2 DEF SameButLaid
    <3>4. ASSUME NEW type, IsKnown(s, type) PROVE IsKnown(structs, type)
      <4>1. CASE BuiltinSize(type) # 0
        BY <4>1 DEF IsKnown
      <4>2. CASE BuiltinSize(type) = 0
        <5>1. FindExact(s, type) # 0
          BY <3>4, <4>2 DEF IsKnown
        <5>2. FindExact(s, type) \in 1 .. n /\ s[FindExact(s, type)].qualified = type
          BY <1>1, <5>1, FindExactFinds
        <5>3. structs[FindExact(s, type)].qualified = type
          BY <3>3, <5>2
        <5>4. FindExact(structs, type) # 0
          BY <1>1, <3>3, <5>2, <5>3, FindExactFinds
        <5> QED
          BY <5>4 DEF IsKnown
      <4> QED
        BY <4>1, <4>2
    <3>5. structs[i].layout = "done" \/ HoldsKnown(structs, structs[i])
      <4>1. CASE s[i].layout = "done"
        BY <3>1, <3>3, <4>1
      <4>2. CASE HoldsKnown(s, s[i])
        <5>1. structs[i].fields = s[i].fields
          BY <3>1, <3>3
        <5> QED
          BY <3>4, <4>2, <5>1 DEF HoldsKnown
      <4> QED
        BY <1>1, <1>5, <3>1, <4>1, <4>2
    <3>6. SameButLaid(structs, LayOut(structs, i))
      BY <3>1, <3>3, <3>5, LayOutKeeps
    <3>7. SameButLaid(s, LayOut(structs, i))
      BY <3>3, <3>6 DEF SameButLaid
    <3> QED
      BY <3>7 DEF StructsLaid, LaidStruct, i
  <2>4. StructsLaid(s, count, LaidStructs!Result(s, s, walk.order))
    BY <2>1, <2>2, <2>3, LaidStructs!LoopInvariant
  <2>5. LaidStructs!Result(s, s, walk.order) = laid
    BY DEF LaidStructs!Result, Fold, LaidStruct
  <2> QED
    BY <2>4, <2>5 DEF StructsLaid
<1> HIDE DEF laid, known
<1>6. ASSUME known PROVE KeepsDeclaring(semantics, after)
  <2>1. SameButLaid(s, laid)
    BY <1>5, <1>6
  <2>2. /\ laid \in Seq(StructText1) /\ Len(laid) = n /\ DOMAIN laid = 1 .. n
        /\ \A j \in 1 .. n : laid[j].qualified = s[j].qualified
    BY <2>1 DEF SameButLaid
  <2>3. semantics = [ok |-> semantics.ok, structs |-> semantics.structs,
                     functions |-> semantics.functions, constants |-> semantics.constants]
    BY DEF Declares
  <2>4. /\ after.structs = laid /\ after.functions = semantics.functions
        /\ after = [ok |-> after.ok, structs |-> after.structs, functions |-> after.functions,
                    constants |-> after.constants]
    BY <2>3
  <2> HIDE DEF after
  <2> DEFINE Own(table) == \A i, j \in DOMAIN table :
                             table[i].qualified = table[j].qualified => i = j
  <2>5. Own(laid)
    <3>1. \A i, j \in 1 .. n : s[i].qualified = s[j].qualified => i = j
      BY DeclaredStructs
    <3> QED
      BY <2>2, <3>1
  <2>6. Own(semantics.functions)
    BY DEF Declares
  <2>7. Declares(after)
          <=> /\ after = [ok |-> after.ok, structs |-> after.structs,
                          functions |-> after.functions, constants |-> after.constants]
              /\ after.structs \in Seq(StructText1)
              /\ IsSequence(after.functions)
              /\ \A i \in DOMAIN after.functions : IsFunctionText(after.functions[i])
              /\ \A table \in {after.structs, after.functions} : Own(table)
    BY DEF Declares
  <2> HIDE DEF Own
  <2>8. \A table \in {after.structs, after.functions} : Own(table)
    BY <2>4, <2>5, <2>6
  <2>9. /\ IsSequence(semantics.functions)
        /\ \A i \in DOMAIN semantics.functions : IsFunctionText(semantics.functions[i])
    BY DEF Declares
  <2>10. Declares(after)
    BY <2>2, <2>4, <2>7, <2>8, <2>9
  <2> QED
    BY <2>2, <2>4, <2>10 DEF KeepsDeclaring
<1> HIDE DEF after
<1>7. KeepsDeclaring(semantics, Failed(semantics)) /\ KeepsDeclaring(semantics, semantics)
  BY FailedKeeps DEF KeepsDeclaring
<1> QED
  BY <1>2, <1>6, <1>7

(* What the loader gives is what the declarations of the core library say. *)
IsCore(module) ==
  \E semantics, l :
    /\ Declares(semantics) /\ AddsBodies(DeclaredTables(semantics), l)
    /\ WriteTypes(semantics.structs).ok
    /\ module = Sized(NamedRows(l), OrderOf(semantics))

(* Attributes that mean what declared ones do are attributes.              *)
LEMMA ImportedAttributes ==
  ASSUME NEW module, NEW item, NEW first, item.attributeCount - first \in Nat,
         NEW attributes \in Seq(AttributeText1),
         Attribution(ImportAttributes(module, item, first)) = Attribution(attributes)
  PROVE  ImportAttributes(module, item, first) \in Seq(AttributeText1)
<1> DEFINE n == item.attributeCount - first
           id(k) == item.attributeStart + first + k - 1
           Read(k) == [name |-> AttributeType(module, id(k)),
                       data |-> ImportAttributeData(module, module.attributes[id(k)])]
           A == ImportAttributes(module, item, first)
<1>1. A = [k \in 1 .. n |-> Read(k)]
  BY DEF ImportAttributes, Map, AttributeIds
<1>2. ASSUME NEW k \in 1 .. n PROVE Read(k) \in AttributeText1
  <2>1. Read(k).name = AttributeType(module, id(k))
        /\ Read(k).data = ImportAttributeData(module, module.attributes[id(k)])
        /\ Read(k) = [name |-> Read(k).name, data |-> Read(k).data]
    OBVIOUS
  <2> HIDE DEF Read, A
  <2>2. k \in DOMAIN A /\ A[k] = Read(k)
    BY <1>1
  <2>3. <<Read(k).name, Read(k).data>> \in Attribution(A)
    BY <2>2 DEF Attribution
  <2>4. PICK j \in DOMAIN attributes :
          <<Read(k).name, Read(k).data>> = <<attributes[j].name, attributes[j].data>>
    BY <2>3 DEF Attribution, A
  <2>5. attributes[j] \in AttributeText1
    OBVIOUS
  <2>6. Read(k).name \in NameText /\ Read(k).data \in NameText
    BY <2>4, <2>5 DEF AttributeText1
  <2> QED
    BY <2>1, <2>6 DEF AttributeText1
<1> HIDE DEF Read, A
<1> DEFINE m == n
<1>3. m \in Nat
  OBVIOUS
<1>4. A = [k \in 1 .. m |-> Read(k)] /\ \A k \in 1 .. m : Read(k) \in AttributeText1
  BY <1>1, <1>2
<1> HIDE DEF m
<1>5. A \in Seq(AttributeText1)
  BY <1>3, <1>4
<1> QED
  BY <1>5 DEF A

(* What is imported from core is a struct as the passes expect it.         *)
LEMMA ImportedIsStruct ==
  ASSUME NEW semantics, NEW l, NEW m, Written(semantics, l, m),
         WriteTypes(semantics.structs).ok, NEW i \in 1 .. Len(semantics.structs)
  PROVE  LET M == Sized(m, OrderOf(semantics))
         IN  ImportedStruct(M, M.structs[i]) \in StructText1
<1> DEFINE order == OrderOf(semantics)
           M == Sized(m, order)
           t == DeclaredTables(semantics)
           row == M.structs[i]
           struct == semantics.structs[i]
           imported == ImportedStruct(M, row)
<1>1. /\ M.types = m.types /\ row.type = m.structs[i].type
      /\ row.attributeCount = m.structs[i].attributeCount
      /\ row.size = SizedLayouts(m, order)[i].size
      /\ row.alignment = SizedLayouts(m, order)[i].alignment
  BY SizedKeeps
<1>2. /\ m.structs[i].type \in 1 .. Len(t.types) /\ Sound(t)
      /\ m.types[m.structs[i].type].qualified = struct.qualified
      /\ SaysStruct(semantics.structs, t, m.structs[i], struct)
  BY StructRowSays
<1>3. /\ struct \in StructText1 /\ struct.fields \in Seq(FieldTexts)
      /\ struct.attributes \in Seq(AttributeText1) /\ Len(struct.attributes) \in Nat
  BY DeclaredStructs DEF Written
<1>4. /\ imported.qualified = struct.qualified /\ StructMeaning(imported) = StructMeaning(struct)
  BY StructMeans
<1>5. /\ imported = [namespace |-> imported.namespace, name |-> imported.name,
                     qualified |-> imported.qualified, isComponent |-> imported.isComponent,
                     attributes |-> imported.attributes, fields |-> imported.fields,
                     layout |-> imported.layout, size |-> imported.size,
                     alignment |-> imported.alignment]
      /\ imported.namespace = M.types[row.type].namespace
      /\ imported.name = M.types[row.type].name
      /\ imported.attributes = ImportAttributes(M, row, 0)
      /\ imported.layout = IF row.size = 0 THEN "none" ELSE "done"
      /\ imported.size = row.size /\ imported.alignment = row.alignment
  BY DEF ImportedStruct
<1>6. imported.isComponent \in BOOLEAN
  BY DEF ImportedStruct
<1> HIDE DEF imported
<1>7. imported.namespace \in NameText /\ imported.name \in NameText
  <2>1. struct.qualified \in NameText
    BY <1>3 DEF StructText1
  <2>2. AddsBodies(t, l) /\ m = NamedRows(l)
    BY DEF Written
  <2> DEFINE type == m.structs[i].type
  <2> HIDE DEF t, struct, type
  <2>3. /\ m.types[type].qualified = t.types[type].qualified
        /\ m.types[type].namespace = SplitName(t.types[type].qualified).namespace
        /\ m.types[type].name = SplitName(t.types[type].qualified).name
    <3>1. type \in 1 .. Len(t.types)
      BY <1>2 DEF type
    <3> QED
      BY <1>2, <2>2, <3>1, ModuleRows
  <2>4. t.types[type].qualified = struct.qualified
    BY <1>2, <2>3 DEF type
  <2>5. /\ SplitName(struct.qualified).namespace \in NameText
        /\ SplitName(struct.qualified).name \in NameText
    BY <2>1, JoinOfSplit
  <2> HIDE DEF row, M
  <2> QED
    BY <1>1, <1>5, <2>3, <2>4, <2>5 DEF type
<1>8. imported.fields = struct.fields /\ Attribution(imported.attributes) = Attribution(struct.attributes)
  BY <1>4 DEF StructMeaning
<1>9. imported.attributes \in Seq(AttributeText1)
  <2>1. row.attributeCount = Len(struct.attributes)
    BY <1>1, <1>2 DEF SaysStruct
  <2>2. row.attributeCount - 0 \in Nat
    BY <1>3, <2>1
  <2> HIDE DEF row, struct, M
  <2> QED
    BY <1>3, <1>5, <1>8, <2>2, ImportedAttributes
<1>10. row.size \in Nat /\ row.alignment \in Nat
  <2>1. PICK k \in 1 .. Len(order) : order[k] = i
    <3>1. WalksInOrder(semantics.structs, order)
      BY WalkedInOrder DEF Written
    <3> QED
      BY <3>1 DEF WalksInOrder
  <2>2. SizedLayouts(m, order)[order[k]] \in LayoutRecords
    BY SameLayoutsOfAll DEF SameLayouts
  <2>3. SizedLayouts(m, order)[i] \in LayoutRecords
    BY <2>1, <2>2
  <2> HIDE DEF order
  <2>4. SizedLayouts(m, order)[i].size \in Nat /\ SizedLayouts(m, order)[i].alignment \in Nat
    BY <2>3 DEF LayoutRecords
  <2> QED
    BY <1>1, <2>4
<1> HIDE DEF row, M
<1>11. imported.qualified \in NameText
  BY <1>3, <1>4 DEF StructText1
<1> HIDE DEF struct
<1>12. imported \in StructText1
  <2>1. imported.fields \in Seq(FieldTexts) /\ imported.layout \in {"none", "done"}
    BY <1>3, <1>5, <1>8
  <2> QED
    BY <1>5, <1>6, <1>7, <1>9, <1>10, <1>11, <2>1 DEF StructText1, FieldTexts
<1> QED
  BY <1>12 DEF imported, row, M

(* What is imported from core is a function as the passes expect it.       *)
LEMMA ImportedIsFunction ==
  ASSUME NEW semantics, NEW l, NEW m, Written(semantics, l, m), NEW order,
         NEW i \in 1 .. Len(semantics.functions)
  PROVE  LET M == Sized(m, order)
         IN  IsFunctionText(ImportedFunction(M, M.functions[i]))
<1> DEFINE M == Sized(m, order)
           function == semantics.functions[i]
           row == M.functions[i]
           imported == ImportedFunction(M, row)
<1>1. M.functions = m.functions
  BY SizedKeeps
<1>2. /\ row.namespace = function.namespace /\ row.name = function.name
      /\ row.qualified = function.qualified
      /\ row.attributeCount = Len(function.attributes) + 1
  <2>1. /\ m.functions[i].namespace = function.namespace
        /\ m.functions[i].name = function.name
        /\ m.functions[i].qualified = function.qualified
        /\ m.functions[i].attributeCount = Len(function.attributes) + 1
    <3>1. FunctionRowIs(semantics, m, i)
      BY FunctionRowSays
    <3> QED
      BY ONLY <3>1 DEF FunctionRowIs
  <2>2. row = m.functions[i]
    BY <1>1
  <2> HIDE DEF row, function
  <2> QED
    BY <2>1, <2>2
<1>3. IsFunctionText(function) /\ Len(function.attributes) \in Nat
  BY DeclaredFunctions DEF Written
<1>4. FunctionMeaning(imported) = FunctionMeaning(function)
  BY FunctionMeans
<1>5. /\ imported = [namespace |-> imported.namespace, name |-> imported.name,
                     qualified |-> imported.qualified, returns |-> imported.returns,
                     parameters |-> imported.parameters, attributes |-> imported.attributes,
                     source |-> imported.source, body |-> imported.body]
      /\ imported.namespace = row.namespace /\ imported.name = row.name
      /\ imported.qualified = row.qualified
      /\ imported.attributes = ImportAttributes(M, row, 1)
  BY DEF ImportedFunction
<1> HIDE DEF imported
<1>6. /\ imported.returns = function.returns /\ imported.parameters = function.parameters
      /\ Attribution(imported.attributes) = Attribution(function.attributes)
  BY <1>4 DEF FunctionMeaning
<1> HIDE DEF row, M, function
<1>7. imported.attributes \in Seq(AttributeText1)
  <2>1. row.attributeCount - 1 \in Nat
    BY <1>2, <1>3
  <2>2. function.attributes \in Seq(AttributeText1)
    BY <1>3 DEF IsFunctionText
  <2> QED
    BY <1>5, <1>6, <2>1, <2>2, ImportedAttributes
<1>8. IsFunctionText(imported)
  BY <1>2, <1>3, <1>5, <1>6, <1>7 DEF IsFunctionText
<1> QED
  BY <1>8 DEF imported, row, M

(* One more declaration, under a name that is not taken.                   *)
LEMMA StructAdded ==
  ASSUME NEW semantics, Declares(semantics), NEW struct \in StructText1,
         FindExact(semantics.structs, struct.qualified) = 0, NEW after,
         after = [semantics EXCEPT !.structs = Append(@, struct)]
  PROVE  Declares(after)
<1> DEFINE s == semantics.structs
           n == Len(s)
           t == Append(s, struct)
           Own(table) == \A i, j \in DOMAIN table :
                           table[i].qualified = table[j].qualified => i = j
<1>1. /\ s \in Seq(StructText1) /\ n \in Nat /\ DOMAIN s = 1 .. n
      /\ \A i, j \in 1 .. n : s[i].qualified = s[j].qualified => i = j
  BY DeclaredStructs
<1>2. \A i \in 1 .. n : s[i].qualified # struct.qualified
  BY <1>1, FindExactFinds
<1>3. /\ t \in Seq(StructText1) /\ DOMAIN t = 1 .. n + 1
      /\ \A i \in 1 .. n : t[i] = s[i]
      /\ t[n + 1] = struct
  BY <1>1
<1>4. semantics = [ok |-> semantics.ok, structs |-> semantics.structs,
                   functions |-> semantics.functions, constants |-> semantics.constants]
  BY DEF Declares
<1>5. after = [semantics EXCEPT !.structs = t]
  OBVIOUS
<1> HIDE DEF t
<1>6. /\ after.structs = t /\ after.functions = semantics.functions
      /\ after = [ok |-> after.ok, structs |-> after.structs, functions |-> after.functions,
                  constants |-> after.constants]
  BY <1>4, <1>5
<1>7. Own(t)
  <2> SUFFICES ASSUME NEW i \in 1 .. n + 1, NEW j \in 1 .. n + 1,
                      t[i].qualified = t[j].qualified
               PROVE  i = j
    BY <1>3
  <2>1. i \in 1 .. n \/ i = n + 1
    BY <1>1
  <2>2. j \in 1 .. n \/ j = n + 1
    BY <1>1
  <2> HIDE DEF s, n
  <2> QED
    BY <1>1, <1>2, <1>3, <2>1, <2>2
<1>8. Own(semantics.functions)
  BY DEF Declares
<1>9. Declares(after)
        <=> /\ after = [ok |-> after.ok, structs |-> after.structs,
                        functions |-> after.functions, constants |-> after.constants]
            /\ after.structs \in Seq(StructText1)
            /\ IsSequence(after.functions)
            /\ \A i \in DOMAIN after.functions : IsFunctionText(after.functions[i])
            /\ \A table \in {after.structs, after.functions} : Own(table)
  BY DEF Declares
<1> HIDE DEF Own
<1>10. \A table \in {after.structs, after.functions} : Own(table)
  BY <1>6, <1>7, <1>8
<1>11. /\ IsSequence(semantics.functions)
       /\ \A i \in DOMAIN semantics.functions : IsFunctionText(semantics.functions[i])
  BY DEF Declares
<1> QED
  BY <1>3, <1>6, <1>9, <1>10, <1>11

(* A function under a new name may be added.                               *)
LEMMA FunctionAdded ==
  ASSUME NEW semantics, Declares(semantics), NEW function, IsFunctionText(function),
         FindExact(semantics.functions, function.qualified) = 0, NEW after,
         after = [semantics EXCEPT !.functions = Append(@, function)]
  PROVE  Declares(after)
<1> DEFINE s == semantics.functions
           n == Len(s)
           t == Append(s, function)
           Own(table) == \A i, j \in DOMAIN table :
                           table[i].qualified = table[j].qualified => i = j
<1>1. /\ n \in Nat /\ DOMAIN s = 1 .. n
      /\ \A i \in 1 .. n : IsFunctionText(s[i])
      /\ \A i, j \in 1 .. n : s[i].qualified = s[j].qualified => i = j
  BY DeclaredFunctions
<1>2. \A i \in 1 .. n : s[i].qualified # function.qualified
  BY <1>1, FindExactFinds
<1>3. s \in Seq(Range(s))
  BY DEF Declares, IsSequence
<1>4. /\ DOMAIN t = 1 .. n + 1 /\ Len(t) = n + 1
      /\ \A i \in 1 .. n : t[i] = s[i]
      /\ t[n + 1] = function
      /\ t = [i \in 1 .. n + 1 |-> t[i]]
  BY <1>1, <1>3
<1>5. semantics = [ok |-> semantics.ok, structs |-> semantics.structs,
                   functions |-> semantics.functions, constants |-> semantics.constants]
  BY DEF Declares
<1>6. after = [semantics EXCEPT !.functions = t]
  OBVIOUS
<1> HIDE DEF t
<1>7. /\ after.functions = t /\ after.structs = semantics.structs
      /\ after = [ok |-> after.ok, structs |-> after.structs, functions |-> after.functions,
                  constants |-> after.constants]
  BY <1>5, <1>6
<1>8. IsSequence(t)
  <2>1. \A i \in 1 .. n + 1 : t[i] \in Range(t)
    BY <1>4 DEF Range
  <2>2. n + 1 \in Nat
    BY <1>1
  <2> HIDE DEF n
  <2>3. t \in Seq(Range(t))
    BY <1>4, <2>1, <2>2
  <2> QED
    BY <2>3 DEF IsSequence
<1>9. \A i \in DOMAIN t : IsFunctionText(t[i])
  <2> SUFFICES ASSUME NEW i \in 1 .. n + 1 PROVE IsFunctionText(t[i])
    BY <1>4
  <2>1. i \in 1 .. n \/ i = n + 1
    BY <1>1
  <2> HIDE DEF s, n
  <2> QED
    BY <1>1, <1>4, <2>1
<1>10. Own(t)
  <2> SUFFICES ASSUME NEW i \in 1 .. n + 1, NEW j \in 1 .. n + 1,
                      t[i].qualified = t[j].qualified
               PROVE  i = j
    BY <1>4
  <2>1. i \in 1 .. n \/ i = n + 1
    BY <1>1
  <2>2. j \in 1 .. n \/ j = n + 1
    BY <1>1
  <2> HIDE DEF s, n
  <2> QED
    BY <1>1, <1>2, <1>4, <2>1, <2>2
<1>11. Own(semantics.structs) /\ semantics.structs \in Seq(StructText1)
  BY DEF Declares
<1>12. Declares(after)
         <=> /\ after = [ok |-> after.ok, structs |-> after.structs,
                         functions |-> after.functions, constants |-> after.constants]
             /\ after.structs \in Seq(StructText1)
             /\ IsSequence(after.functions)
             /\ \A i \in DOMAIN after.functions : IsFunctionText(after.functions[i])
             /\ \A table \in {after.structs, after.functions} : Own(table)
  BY DEF Declares
<1> HIDE DEF Own
<1>13. \A table \in {after.structs, after.functions} : Own(table)
  BY <1>7, <1>10, <1>11
<1> QED
  BY <1>7, <1>8, <1>9, <1>11, <1>12, <1>13

(* The rows of the core library, one after the other.                      *)
DeclaresStill(c, k, acc) == Declares(acc)
StructsFromCore == INSTANCE Loops WITH Step <- ImportStructStep, May <- DeclaresStill
FunctionFromCore(module, acc, function) == ImportFunction(module, acc, function)
FunctionsFromCore == INSTANCE Loops WITH Step <- FunctionFromCore, May <- DeclaresStill

(* All structs of core are imported.                                       *)
LEMMA ImportStructsKeeps ==
  ASSUME NEW semantics, NEW l, NEW m, Written(semantics, l, m),
         WriteTypes(semantics.structs).ok, NEW base, Declares(base)
  PROVE  LET M == Sized(m, OrderOf(semantics))
         IN  Declares(Fold(LAMBDA acc, s : ImportStruct(M, acc, s), base, M.structs))
<1> DEFINE M == Sized(m, OrderOf(semantics))
           n == Len(semantics.structs)
<1>1. n \in Nat /\ Len(M.structs) = n /\ DOMAIN M.structs = 1 .. n
  BY DeclaredStructs, SizedKeeps DEF Written
<1>2. \A i \in 1 .. n : ImportedStruct(M, M.structs[i]) \in StructText1
  BY ImportedIsStruct
<1> HIDE DEF M
<1>3. ASSUME NEW i \in 1 .. n, NEW acc, Declares(acc)
      PROVE  Declares(ImportStruct(M, acc, M.structs[i]))
  <2> DEFINE row == M.structs[i]
             struct == ImportedStruct(M, row)
             after == [acc EXCEPT !.structs = Append(@, struct)]
  <2>1. ImportStruct(M, acc, row)
          = IF ~acc.ok \/ FindExact(acc.structs, struct.qualified) # 0 THEN acc
            ELSE IF ~PayloadsPresent(M, row, 0) THEN Failed(acc)
            ELSE after
    BY DEF ImportStruct, ImportedStruct
  <2>2. struct \in StructText1
    BY <1>2
  <2> HIDE DEF struct
  <2>3. FindExact(acc.structs, struct.qualified) = 0 => Declares(after)
    BY <1>3, <2>2, StructAdded
  <2>4. Declares(Failed(acc))
    BY <1>3, FailedKeeps DEF KeepsDeclaring
  <2> HIDE DEF after, row
  <2>5. Declares(ImportStruct(M, acc, row))
    BY <1>3, <2>1, <2>3, <2>4
  <2> QED
    BY <2>5 DEF row
<1>4. DeclaresStill(M, 0, base)
  BY DEF DeclaresStill
<1>5. ASSUME NEW k \in 1 .. n, NEW acc, DeclaresStill(M, k - 1, acc)
      PROVE  DeclaresStill(M, k, ImportStructStep(M, acc, M.structs[k]))
  BY <1>3, <1>5 DEF DeclaresStill, ImportStructStep
<1>6. DeclaresStill(M, Len(M.structs), StructsFromCore!Result(M, base, M.structs))
  BY <1>1, <1>4, <1>5, StructsFromCore!LoopInvariant
<1>7. StructsFromCore!Result(M, base, M.structs)
        = Fold(LAMBDA acc, s : ImportStruct(M, acc, s), base, M.structs)
  BY DEF StructsFromCore!Result, Fold, ImportStructStep
<1> QED
  BY <1>6, <1>7 DEF DeclaresStill, M

(* All functions of core are imported.                                     *)
LEMMA ImportFunctionsKeeps ==
  ASSUME NEW semantics, NEW l, NEW m, Written(semantics, l, m), NEW order,
         NEW base, Declares(base)
  PROVE  LET M == Sized(m, order)
         IN  Declares(Fold(LAMBDA acc, f : ImportFunction(M, acc, f), base, M.functions))
<1> DEFINE M == Sized(m, order)
           n == Len(semantics.functions)
<1>1. n \in Nat /\ Len(M.functions) = n /\ DOMAIN M.functions = 1 .. n
  <2>1. M.functions = m.functions
    BY SizedKeeps
  <2>2. n \in Nat /\ Len(m.functions) = n /\ DOMAIN m.functions = 1 .. n
    BY DeclaredFunctions, FunctionRowSays DEF Written
  <2> HIDE DEF M
  <2> QED
    BY <2>1, <2>2
<1>2. \A i \in 1 .. n : IsFunctionText(ImportedFunction(M, M.functions[i]))
  BY ImportedIsFunction
<1> HIDE DEF M
<1>3. ASSUME NEW i \in 1 .. n, NEW acc, Declares(acc)
      PROVE  Declares(ImportFunction(M, acc, M.functions[i]))
  <2> DEFINE row == M.functions[i]
             function == ImportedFunction(M, row)
             after == [acc EXCEPT !.functions = Append(@, function)]
  <2>1. ImportFunction(M, acc, row)
          = IF ~acc.ok \/ FindExact(acc.functions, function.qualified) # 0 THEN acc
            ELSE IF function.returns = <<>> \/ ~PayloadsPresent(M, row, 1) THEN Failed(acc)
            ELSE after
    BY DEF ImportFunction, ImportedFunction
  <2>2. IsFunctionText(function)
    BY <1>2
  <2> HIDE DEF function
  <2>3. FindExact(acc.functions, function.qualified) = 0 => Declares(after)
    BY <1>3, <2>2, FunctionAdded
  <2>4. Declares(Failed(acc))
    BY <1>3, FailedKeeps DEF KeepsDeclaring
  <2> HIDE DEF after, row
  <2>5. Declares(ImportFunction(M, acc, row))
    BY <1>3, <2>1, <2>3, <2>4
  <2> QED
    BY <2>5 DEF row
<1>4. DeclaresStill(M, 0, base)
  BY DEF DeclaresStill
<1>5. ASSUME NEW k \in 1 .. n, NEW acc, DeclaresStill(M, k - 1, acc)
      PROVE  DeclaresStill(M, k, FunctionFromCore(M, acc, M.functions[k]))
  BY <1>3, <1>5 DEF DeclaresStill, FunctionFromCore
<1>6. DeclaresStill(M, Len(M.functions), FunctionsFromCore!Result(M, base, M.functions))
  BY <1>1, <1>4, <1>5, FunctionsFromCore!LoopInvariant
<1>7. FunctionsFromCore!Result(M, base, M.functions)
        = Fold(LAMBDA acc, f : ImportFunction(M, acc, f), base, M.functions)
  BY DEF FunctionsFromCore!Result, Fold, FunctionFromCore
<1> QED
  BY <1>6, <1>7 DEF DeclaresStill, M

(* What is imported from the core library has names of its own.            *)
LEMMA ImportCoreKeeps ==
  ASSUME NEW semantics, Declares(semantics), NEW library, IsCore(library.module)
  PROVE  Declares(ImportCore(semantics, library))
<1>1. PICK origin, l :
        /\ Declares(origin) /\ AddsBodies(DeclaredTables(origin), l)
        /\ WriteTypes(origin.structs).ok
        /\ library.module = Sized(NamedRows(l), OrderOf(origin))
  BY DEF IsCore
<1> DEFINE m == NamedRows(l)
           M == Sized(m, OrderOf(origin))
           base == ImportConstants(semantics, library.constants)
           structs == Fold(LAMBDA acc, s : ImportStruct(M, acc, s), base, M.structs)
<1>2. Written(origin, l, m)
  BY <1>1 DEF Written
<1>3. Declares(base)
  <2> DEFINE constants ==
               semantics.constants
                 \o SelectSeq(library.constants,
                              LAMBDA c : FindExact(semantics.constants, c.qualified) = 0)
  <2>1. base = [semantics EXCEPT !.constants = constants]
    BY DEF ImportConstants
  <2>2. semantics = [ok |-> semantics.ok, structs |-> semantics.structs,
                     functions |-> semantics.functions, constants |-> semantics.constants]
    BY DEF Declares
  <2> HIDE DEF constants, base
  <2>3. /\ base.structs = semantics.structs /\ base.functions = semantics.functions
        /\ base = [ok |-> base.ok, structs |-> base.structs, functions |-> base.functions,
                   constants |-> base.constants]
    BY <2>1, <2>2
  <2> QED
    BY <2>3 DEF Declares
<1> HIDE DEF base, m
<1>4. Declares(structs)
  BY <1>1, <1>2, <1>3, ImportStructsKeeps
<1> HIDE DEF structs
<1>5. Declares(Fold(LAMBDA acc, f : ImportFunction(M, acc, f), structs, M.functions))
  BY <1>2, <1>4, ImportFunctionsKeeps
<1>6. library.module = M
  BY <1>1 DEF m
<1> HIDE DEF M
<1>7. ImportCore(semantics, library)
        = Fold(LAMBDA acc, f : ImportFunction(M, acc, f), structs, M.functions)
  BY <1>6 DEF ImportCore, structs, base
<1> QED
  BY <1>5, <1>7

-----------------------------------------------------------------------------
(***************************************************************************)
(* The components that the engine registers.                               *)
(***************************************************************************)

(* One place more, behind the others.                                      *)
LEMMA ListGrows ==
  ASSUME NEW S, NEW names \in Seq(S), NEW name \in S, NEW structs,
         NEW k \in Nat \ {0}, NEW places \in SUBSET (1 .. (k - 1)),
         ListsInOrder(names, structs, places), structs[k].qualified = name
  PROVE  ListsInOrder(Append(names, name), structs, places \cup {k})
<1> DEFINE more == places \cup {k}
           longer == Append(names, name)
           Upto(T, i) == {j \in T : j <= i}
<1>1. IsFiniteSet(places)
  <2>1. IsFiniteSet(1 .. (k - 1))
    BY FS_Interval
  <2> QED
    BY <2>1, FS_Subset
<1>2. /\ IsFiniteSet(more) /\ Cardinality(more) = Cardinality(places) + 1
      /\ Cardinality(places) \in Nat
  BY <1>1, FS_AddElement, FS_CardinalityType
<1>3. /\ Len(names) = Cardinality(places)
      /\ \A i \in places : names[Cardinality(Upto(places, i))] = structs[i].qualified
  BY DEF ListsInOrder
<1>4. /\ Len(longer) = Cardinality(more) /\ longer[Cardinality(more)] = name
      /\ \A i \in 1 .. Len(names) : longer[i] = names[i]
  <2>1. /\ Len(longer) = Len(names) + 1 /\ longer[Len(names) + 1] = name
        /\ \A i \in 1 .. Len(names) : longer[i] = names[i]
    BY AppendRows
  <2> QED
    BY <1>2, <1>3, <2>1
<1> HIDE DEF longer
<1>5. ASSUME NEW i \in places
      PROVE  longer[Cardinality(Upto(more, i))] = structs[i].qualified
  <2>1. Upto(more, i) = Upto(places, i)
    OBVIOUS
  <2>2. i \in Upto(places, i) /\ Upto(places, i) \in SUBSET places
    OBVIOUS
  <2> HIDE DEF Upto
  <2>3. IsFiniteSet(Upto(places, i)) /\ Cardinality(Upto(places, i)) <= Cardinality(places)
    BY <1>1, <2>2, FS_Subset
  <2>4. Cardinality(Upto(places, i)) \in Nat /\ Cardinality(Upto(places, i)) # 0
    BY <2>2, <2>3, FS_CardinalityType, FS_EmptySet
  <2>5. Cardinality(Upto(places, i)) \in 1 .. Len(names)
    BY <1>2, <1>3, <2>3, <2>4
  <2> QED
    BY <1>3, <1>4, <2>1, <2>5
<1>6. Upto(more, k) = more
  <2>1. \A i \in more : i <= k
    OBVIOUS
  <2> QED
    BY ONLY <2>1
<1> HIDE DEF Upto, more
<1>7. longer[Cardinality(Upto(more, k))] = structs[k].qualified
  BY <1>4, <1>6
<1>8. ASSUME NEW i \in more
      PROVE  longer[Cardinality(Upto(more, i))] = structs[i].qualified
  <2>1. i \in places \/ i = k
    BY DEF more
  <2> QED
    BY <1>5, <1>7, <2>1
<1>9. ListsInOrder(longer, structs, more)
  <2>1. \A i \in more : longer[Cardinality({j \in more : j <= i})] = structs[i].qualified
    BY <1>8 DEF Upto
  <2>2. Len(longer) = Cardinality(more)
    BY <1>4
  <2> QED
    BY ONLY <2>1, <2>2 DEF ListsInOrder
<1> QED
  BY <1>9 DEF longer, more

(* What the engine makes of the next row of a module.                      *)
FitsEngine(module, definition, hierarchy) ==
  /\ definition.size # 0
  /\ module.types[definition.type].qualified = Core("Hierarchy") => definition.size = hierarchy

RegisterStep(c, acc, definition) ==
  IF ~acc.ok \/ ~IsComponent(c.module, definition) THEN acc
  ELSE IF ~FitsEngine(c.module, definition, c.hierarchy) THEN [acc EXCEPT !.ok = FALSE]
  ELSE [acc EXCEPT !.names = Append(@, c.module.types[definition.type].qualified)]

(* Those of the first k components that come before any that does not fit. *)
Taken(components, unfit, k) ==
  {i \in components : i <= k /\ \A j \in unfit : j <= k => i < j}

RegisteredSoFar(c, k, acc) ==
  /\ acc = [ok |-> acc.ok, names |-> acc.names] /\ acc.ok \in BOOLEAN
  /\ acc.names \in Seq({c.structs[i].qualified : i \in 1 .. Len(c.structs)})
  /\ acc.ok <=> \A j \in c.unfit : ~(j <= k)
  /\ ListsInOrder(acc.names, c.structs, Taken(c.components, c.unfit, k))

RegisterLoop == INSTANCE Loops WITH Step <- RegisterStep, May <- RegisteredSoFar

(* The rows of the module are those of the structs; components has the     *)
(* places of the components, unfit of those the engine does not take.      *)
Registrable(module, hierarchy, structs, components, unfit) ==
  /\ Len(structs) \in Nat /\ Len(module.structs) = Len(structs)
  /\ components \in SUBSET (1 .. Len(structs)) /\ unfit \in SUBSET components
  /\ \A i \in 1 .. Len(structs) :
       /\ module.types[module.structs[i].type].qualified = structs[i].qualified
       /\ IsComponent(module, module.structs[i]) <=> i \in components
       /\ i \in components =>
            (FitsEngine(module, module.structs[i], hierarchy) <=> i \notin unfit)

(* One row more.                                                           *)
LEMMA RegisterNext ==
  ASSUME NEW module, NEW hierarchy, NEW structs, NEW components, NEW unfit,
         Registrable(module, hierarchy, structs, components, unfit),
         NEW k \in 1 .. Len(structs), NEW acc, NEW c,
         c = [module |-> module, hierarchy |-> hierarchy, structs |-> structs,
              components |-> components, unfit |-> unfit],
         RegisteredSoFar(c, k - 1, acc)
  PROVE  RegisteredSoFar(c, k, RegisterStep(c, acc, module.structs[k]))
<1> DEFINE n == Len(structs)
           S == {structs[i].qualified : i \in 1 .. n}
           name == structs[k].qualified
           next == RegisterStep(c, acc, module.structs[k])
           Before(m) == Taken(components, unfit, m)
<1>1. /\ n \in Nat /\ components \in SUBSET (1 .. n) /\ unfit \in SUBSET components
      /\ module.types[module.structs[k].type].qualified = name
      /\ IsComponent(module, module.structs[k]) <=> k \in components
      /\ k \in components =>
           (FitsEngine(module, module.structs[k], hierarchy) <=> k \notin unfit)
  BY DEF Registrable
<1>2. /\ c.module = module /\ c.hierarchy = hierarchy /\ c.structs = structs
      /\ c.components = components /\ c.unfit = unfit
  OBVIOUS
<1>3. /\ acc = [ok |-> acc.ok, names |-> acc.names] /\ acc.ok \in BOOLEAN
      /\ acc.names \in Seq(S)
      /\ acc.ok <=> \A j \in unfit : ~(j <= k - 1)
      /\ ListsInOrder(acc.names, structs, Before(k - 1))
  BY <1>2 DEF RegisteredSoFar
<1>4. /\ k \in Nat \ {0} /\ k - 1 \in Nat /\ name \in S
      /\ \A i \in 1 .. n : i <= k <=> (i <= k - 1 \/ i = k)
      /\ \A i \in 1 .. n : i <= k - 1 <=> i < k
  BY <1>1
<1>5. next = IF ~acc.ok \/ k \notin components THEN acc
             ELSE IF k \in unfit THEN [acc EXCEPT !.ok = FALSE]
             ELSE [acc EXCEPT !.names = Append(@, name)]
  BY <1>1, <1>2 DEF RegisterStep
<1> HIDE DEF next, S, name
<1>6. SUFFICES /\ next = [ok |-> next.ok, names |-> next.names] /\ next.ok \in BOOLEAN
               /\ next.names \in Seq(S)
               /\ next.ok <=> \A j \in unfit : ~(j <= k)
               /\ ListsInOrder(next.names, structs, Before(k))
  BY <1>2 DEF RegisteredSoFar, next, S
<1>7. CASE ~acc.ok \/ k \notin components
  <2>1. next = acc
    BY <1>5, <1>7
  <2>2. next.ok <=> \A j \in unfit : ~(j <= k)
    BY <1>1, <1>3, <1>4, <1>7, <2>1
  <2>3. Before(k) = Before(k - 1)
    <3>1. CASE acc.ok
      <4>1. k \notin components /\ k \notin unfit
        BY <1>1, <1>7, <3>1
      <4>2. \A i \in components : i <= k <=> i <= k - 1
        BY <1>1, <1>4, <4>1
      <4>3. \A j \in unfit : j <= k <=> j <= k - 1
        BY <1>1, <4>2
      <4> QED
        BY ONLY <4>2, <4>3 DEF Taken
    <3>2. CASE ~acc.ok
      <4>1. PICK j \in unfit : j <= k - 1
        BY <1>3, <3>2
      <4>2. ASSUME NEW i \in components PROVE i \in Before(k) <=> i \in Before(k - 1)
        <5>1. /\ i \in 1 .. n /\ j \in 1 .. n /\ j <= k
              /\ \A h \in unfit : h \in 1 .. n
          BY <1>1, <1>4, <4>1
        <5>2. i \in Before(k) => i < j /\ i <= k - 1
          BY <1>4, <4>1, <5>1 DEF Taken
        <5>3. i <= k - 1 => i < k
          BY <1>4, <5>1
        <5> QED
          BY <1>4, <5>1, <5>2, <5>3 DEF Taken
      <4> QED
        BY <4>2 DEF Taken
    <3> QED
      BY <3>1, <3>2
  <2> QED
    BY <1>3, <2>1, <2>2, <2>3
<1>8. CASE acc.ok /\ k \in unfit
  <2>1. next = [ok |-> FALSE, names |-> acc.names]
    BY <1>1, <1>3, <1>5, <1>8
  <2>2. k <= k
    BY <1>4
  <2>3. ASSUME NEW i \in components PROVE i \in Before(k) <=> i \in Before(k - 1)
    <3>1. i \in 1 .. n /\ \A h \in unfit : h \in 1 .. n
      BY <1>1
    <3>2. i \in Before(k) => i < k
      BY <1>8, <2>2 DEF Taken
    <3> QED
      BY <1>4, <3>1, <3>2 DEF Taken
  <2>4. Before(k) = Before(k - 1)
    BY <2>3 DEF Taken
  <2> QED
    BY <1>3, <1>8, <2>1, <2>2, <2>4
<1>9. CASE acc.ok /\ k \in components /\ k \notin unfit
  <2>1. next = [ok |-> TRUE, names |-> Append(acc.names, name)]
    BY <1>3, <1>5, <1>9
  <2>2. \A j \in unfit : ~(j <= k)
    BY <1>1, <1>3, <1>4, <1>9
  <2>3. Before(k) = Before(k - 1) \cup {k}
    <3>1. Before(k) = {i \in components : i <= k}
      BY ONLY <2>2 DEF Taken
    <3>2. Before(k - 1) = {i \in components : i <= k - 1}
      BY ONLY <1>3, <1>9 DEF Taken
    <3> QED
      BY <1>1, <1>4, <1>9, <3>1, <3>2
  <2>4. Before(k - 1) \in SUBSET (1 .. (k - 1))
    BY <1>1, <1>4 DEF Taken
  <2>5. Append(acc.names, name) \in Seq(S)
    BY <1>3, <1>4
  <2>6. ListsInOrder(Append(acc.names, name), structs, Before(k - 1) \cup {k})
    <3> HIDE DEF Before
    <3> QED
      BY <1>3, <1>4, <2>4, ListGrows DEF name
  <2> QED
    BY <2>1, <2>2, <2>3, <2>5, <2>6
<1> QED
  BY <1>3, <1>7, <1>8, <1>9

(* All rows.                                                               *)
LEMMA RegistersInOrder ==
  ASSUME NEW module, NEW hierarchy, NEW structs, NEW components, NEW unfit,
         Registrable(module, hierarchy, structs, components, unfit)
  PROVE  LET r == RegisterComponents(module, hierarchy)
         IN  /\ r.ok <=> unfit = {}
             /\ ListsInOrder(r.names, structs, {i \in components : \A j \in unfit : i < j})
<1> DEFINE n == Len(structs)
           c == [module |-> module, hierarchy |-> hierarchy, structs |-> structs,
                 components |-> components, unfit |-> unfit]
           base == [ok |-> TRUE, names |-> <<>>]
           r == RegisterComponents(module, hierarchy)
<1>1. /\ n \in Nat /\ Len(module.structs) = n
      /\ components \in SUBSET (1 .. n) /\ unfit \in SUBSET components
  BY DEF Registrable
<1>2. /\ c.module = module /\ c.hierarchy = hierarchy /\ c.structs = structs
      /\ c.components = components /\ c.unfit = unfit
  OBVIOUS
<1>3. RegisteredSoFar(c, 0, base)
  <2>1. \A i \in components : ~(i <= 0)
    BY <1>1
  <2>2. Taken(components, unfit, 0) = {}
    BY <2>1 DEF Taken
  <2>3. \A j \in unfit : ~(j <= 0)
    BY <1>1, <2>1
  <2>4. ListsInOrder(<<>>, structs, {})
    <3>1. Len(<<>>) = Cardinality({})
      BY FS_EmptySet
    <3> QED
      BY ONLY <3>1 DEF ListsInOrder
  <2>5. base.ok = TRUE /\ base.names = <<>> /\ <<>> \in Seq({structs[i].qualified : i \in 1 .. n})
    OBVIOUS
  <2>6. base = [ok |-> base.ok, names |-> base.names]
    OBVIOUS
  <2> HIDE DEF c, base
  <2> QED
    BY <1>2, <2>2, <2>3, <2>4, <2>5, <2>6 DEF RegisteredSoFar
<1>4. ASSUME NEW k \in 1 .. n, NEW acc, RegisteredSoFar(c, k - 1, acc)
      PROVE  RegisteredSoFar(c, k, RegisterStep(c, acc, module.structs[k]))
  BY <1>4, RegisterNext
<1>5. RegisteredSoFar(c, n, RegisterLoop!Result(c, base, module.structs))
  <2> HIDE DEF c, base
  <2> QED
    BY <1>1, <1>3, <1>4, RegisterLoop!LoopInvariant
<1>6. RegisterLoop!Result(c, base, module.structs) = r
  <2> HIDE DEF c
  <2>1. RegisterLoop!Result(c, base, c.module.structs) = RegisterComponents(c.module, c.hierarchy)
    BY ONLY TRUE DEF RegisterLoop!Result, RegisterComponents, Fold, RegisterStep, FitsEngine
  <2> HIDE DEF base
  <2> QED
    BY <1>2, <2>1
<1> HIDE DEF c, base, r
<1>7. /\ r.ok \in BOOLEAN
      /\ r.ok <=> \A j \in unfit : ~(j <= n)
      /\ ListsInOrder(r.names, structs, Taken(components, unfit, n))
  BY <1>2, <1>5, <1>6 DEF RegisteredSoFar
<1>8. Taken(components, unfit, n) = {i \in components : \A j \in unfit : i < j}
  <2>1. \A i \in components : i <= n
    BY <1>1
  <2>2. \A j \in unfit : j <= n
    BY <1>1, <2>1
  <2> QED
    BY ONLY <2>1, <2>2 DEF Taken
<1>9. r.ok <=> unfit = {}
  <2>1. \A j \in unfit : j <= n
    BY <1>1
  <2> QED
    BY ONLY <1>7, <2>1
<1> QED
  BY <1>7, <1>8, <1>9 DEF r

(* A row of a loaded module is a component if its declaration is one.      *)
LEMMA SameComponents ==
  ASSUME NEW semantics, NEW l, NEW m, Written(semantics, l, m), NEW order,
         NEW i \in 1 .. Len(semantics.structs)
  PROVE  LET M == Sized(m, order)
         IN  IsComponent(M, M.structs[i]) <=> IsComponentText(semantics.structs[i])
<1> DEFINE M == Sized(m, order)
           s == semantics.structs
           t == DeclaredTables(semantics)
           row == M.structs[i]
           struct == s[i]
           ids == AttributeIds(row, 0)
<1>1. /\ row.isComponent = m.structs[i].isComponent
      /\ row.attributeStart = m.structs[i].attributeStart
      /\ row.attributeCount = m.structs[i].attributeCount
  BY SizedKeeps
<1>2. /\ m.structs[i] \in StructRows(Len(t.types)) /\ SaysStruct(s, t, m.structs[i], struct)
      /\ m.structs[i] = t.structs[i] /\ Sound(t) /\ i \in 1 .. Len(t.structs)
  BY StructRowSays
<1>3. Len(struct.attributes) \in Nat /\ DOMAIN struct.attributes = 1 .. Len(struct.attributes)
  BY DeclaredStructs DEF Written
<1>4. /\ row.isComponent = struct.isComponent
      /\ row.attributeStart \in Nat /\ row.attributeCount = Len(struct.attributes)
      /\ SaysAttributes(s, t, row, struct.attributes)
      /\ Spans(Len(t.attributes), row.attributeStart, row.attributeCount)
  <2>1. /\ m.structs[i].attributeStart \in Nat
        /\ m.structs[i].isComponent = struct.isComponent
        /\ m.structs[i].attributeCount = Len(struct.attributes)
        /\ SaysAttributes(s, t, m.structs[i], struct.attributes)
    BY <1>2 DEF StructRows, SaysStruct
  <2>2. Spans(Len(t.attributes), m.structs[i].attributeStart, m.structs[i].attributeCount)
    BY <1>2, SoundStructRow
  <2> HIDE DEF row, t, s, struct
  <2> QED
    BY <1>1, <2>1, <2>2 DEF SaysAttributes
<1>5. ReadsAttributes(M, row, 0, struct.attributes)
  <2>1. 0 \in Nat /\ 0 <= Len(struct.attributes)
    BY <1>3
  <2> HIDE DEF row, struct
  <2> QED
    BY <1>3, <1>4, <2>1, AttributesAreRead
<1>6. /\ Len(struct.attributes) - 0 = Len(struct.attributes)
      /\ \A k \in 1 .. Len(struct.attributes) : 0 + k = k
  BY <1>3
<1>7. DOMAIN ids = 1 .. Len(struct.attributes)
  BY <1>4, <1>6 DEF AttributeIds
<1>8. ASSUME NEW k \in DOMAIN ids
      PROVE  AttributeType(M, ids[k]) = struct.attributes[k].name
  <2> DEFINE A == ImportAttributes(M, row, 0)
  <2>1. k \in 1 .. Len(struct.attributes)
    BY <1>7
  <2>2. A[k].name = struct.attributes[k].name
    <3> HIDE DEF A, struct
    <3>1. A[k].name = struct.attributes[0 + k].name
      BY <1>5, <1>6, <2>1 DEF ReadsAttributes, A
    <3> QED
      BY <1>6, <2>1, <3>1
  <2>3. A[k] = [name |-> AttributeType(M, ids[k]),
                data |-> ImportAttributeData(M, M.attributes[ids[k]])]
    BY <1>8 DEF ImportAttributes, Map
  <2> HIDE DEF A
  <2> QED
    BY <2>2, <2>3
<1> HIDE DEF M, row, struct, ids
<1>9. (\E k \in DOMAIN ids : AttributeType(M, ids[k]) = Core("Component"))
        <=> \E k \in DOMAIN struct.attributes : struct.attributes[k].name = Core("Component")
  BY <1>3, <1>7, <1>8
<1>10. IsComponent(M, row) <=> IsComponentText(struct)
  BY <1>4, <1>9 DEF IsComponent, IsComponentText, ids
<1> QED
  BY <1>10 DEF M, row, struct

-----------------------------------------------------------------------------
(***************************************************************************)
(* Builds.                                                                 *)
(***************************************************************************)

IsBuilt == Declares(sem) /\ AddsBodies(DeclaredTables(sem), out.out)

Lost == {CutFile(FileOf(out.out), size) : size \in 0 .. (FileOf(out.out).size - 1)}

BuildInv ==
  /\ phase \in {"read", "collect", "import", "resolve", "layout", "tables", "write"} =>
       disk = NoFile
  /\ phase \in {"resolve", "layout", "tables", "write"} => Declares(sem)
  /\ job # "core" => IsCore(core.module)
  /\ disk # NoFile => IsBuilt /\ disk \in {FileOf(out.out)} \cup Lost
  /\ phase \in {"built", "failed", "loaded", "refused", "registered"} /\ disk # NoFile
       /\ disk = FileOf(out.out) => header = WriteTypes(sem.structs)
  /\ phase \in {"loaded", "refused", "registered"} =>
       disk # NoFile /\ loaded = LoadFile(disk) /\ (phase = "refused" <=> ~loaded.ok)
  /\ phase = "registered" => registered = RegisterComponents(loaded.module, HierarchySize)

(* What a build wrote is the file of a module that says what was declared. *)
LEMMA BuiltFile ==
  ASSUME NEW semantics, NEW l, Declares(semantics), AddsBodies(DeclaredTables(semantics), l)
  PROVE  /\ FileOf(l) # NoFile
         /\ \A size \in 0 .. (FileOf(l).size - 1) :
              /\ LoadFile(CutFile(FileOf(l), size)) = Refused
              /\ CutFile(FileOf(l), size) # FileOf(l)
<1>1. Sound(DeclaredTables(semantics))
  BY TablesSayWhatIsDeclared
<1>2. /\ FileOf(l).size \in Nat /\ FileOf(l).size >= 1
      /\ \A size \in 0 .. (FileOf(l).size - 1) : LoadFile(CutFile(FileOf(l), size)) = Refused
  BY <1>1, LinkedIsReadable
<1>3. FileOf(l) # NoFile
  BY <1>2 DEF NoFile
<1>4. ASSUME NEW size \in 0 .. (FileOf(l).size - 1)
      PROVE  CutFile(FileOf(l), size) # FileOf(l)
  <2>1. CutFile(FileOf(l), size).size = size
    BY DEF CutFile, FileOf
  <2>2. size # FileOf(l).size
    BY <1>2
  <2> QED
    BY <2>1, <2>2
<1> QED
  BY <1>2, <1>3, <1>4

(* What was loaded is a whole file.                                        *)
LEMMA LoadedFileIsWhole ==
  ASSUME IsBuilt, disk \in {FileOf(out.out)} \cup Lost, loaded = LoadFile(disk), loaded.ok
  PROVE  disk = FileOf(out.out)
<1>1. disk \notin Lost
  <2> SUFFICES ASSUME NEW size \in 0 .. (FileOf(out.out).size - 1),
                      disk = CutFile(FileOf(out.out), size)
               PROVE  FALSE
    BY DEF Lost
  <2>1. LoadFile(disk) = Refused
    BY BuiltFile DEF IsBuilt
  <2> QED
    BY <2>1 DEF Refused
<1> QED
  BY <1>1

(* What was loaded is what the declarations say, with a size for each.     *)
LEMMA LoadedIsCore ==
  ASSUME IsBuilt, disk \in {FileOf(out.out)} \cup Lost, loaded = LoadFile(disk), loaded.ok
  PROVE  IsCore(loaded.module)
<1>1. disk = FileOf(out.out)
  BY LoadedFileIsWhole
<1>2. Written(sem, out.out, NamedRows(out.out))
  BY DEF IsBuilt, Written
<1>3. LoadFile(FileOf(out.out)).ok
  BY <1>1
<1>4. /\ WriteTypes(sem.structs).ok
      /\ LoadFile(FileOf(out.out)).module = Sized(NamedRows(out.out), OrderOf(sem))
  BY <1>2, <1>3, LoadsWhenHeaderIsWritten DEF OrderOf, Parts
<1>5. loaded.module = Sized(NamedRows(out.out), OrderOf(sem))
  BY <1>1, <1>4
<1> QED
  BY <1>4, <1>5 DEF IsBuilt, IsCore

(* Before the first build.                                                 *)
LEMMA BuildInit == Init => BuildInv
  BY DEF Init, BuildInv

(* Every step of a build keeps the invariant.                              *)
LEMMA BuildStep ==
  ASSUME PassesDeliver, BuildInv, [Next]_vars
  PROVE  BuildInv'
<1> USE DEF IsBuilt
<1>1. CASE UNCHANGED vars
  BY <1>1 DEF BuildInv, vars, Lost
<1>2. CASE StartProject
  <2>1. /\ phase = "loaded" /\ phase' = "read" /\ disk' = NoFile
        /\ core' = [constants |-> sem.constants, module |-> loaded.module]
    BY <1>2 DEF StartProject, Start
  <2>2. /\ IsBuilt /\ disk \in {FileOf(out.out)} \cup Lost
        /\ loaded = LoadFile(disk) /\ loaded.ok
    BY <2>1 DEF BuildInv
  <2>3. IsCore(loaded.module)
    BY <2>2, LoadedIsCore
  <2>4. core'.module = loaded.module
    BY <2>1
  <2>5. IsCore(core.module)'
    BY <2>3, <2>4
  <2> QED
    BY <2>1, <2>5 DEF BuildInv
<1>3. CASE DecompileModule
  <2>1. /\ job = "project" /\ phase' = "read" /\ disk' = NoFile /\ UNCHANGED core
    BY <1>3 DEF DecompileModule, Start
  <2>2. IsCore(core.module)'
    BY <2>1 DEF BuildInv
  <2> QED
    BY <2>1, <2>2 DEF BuildInv
<1>4. CASE ReadSources
  <2>1. /\ phase = "read" /\ phase' \in {"collect", "failed"}
        /\ UNCHANGED <<job, core, disk, sem, out, loaded, header>>
    BY <1>4 DEF ReadSources
  <2> QED
    BY <2>1 DEF BuildInv
<1>5. ASSUME NEW from \in {"collect", "import", "resolve", "layout"},
             NEW to \in {"import", "resolve", "layout", "tables"}, NEW result,
             Pass(from, to, result), to # "import" => Declares(result)
      PROVE  BuildInv'
  <2>1. /\ phase = from /\ phase' \in {to, "failed"} /\ sem' = result
        /\ UNCHANGED <<job, core, disk, out, loaded, header>>
    BY <1>5 DEF Pass
  <2>2. phase' \in {"resolve", "layout", "tables"} => Declares(sem)'
    BY <1>5, <2>1
  <2> QED
    BY <2>1, <2>2 DEF BuildInv
<1>6. CASE CollectSemantics
  BY <1>5, <1>6 DEF CollectSemantics
<1>7. CASE ImportCoreLibrary
  <2> DEFINE result == IF job = "project" THEN ImportCore(sem, core) ELSE sem
  <2>1. Pass("import", "resolve", result)
    BY <1>7 DEF ImportCoreLibrary
  <2>2. phase = "import"
    BY <2>1 DEF Pass
  <2>3. Declares(sem) /\ (job = "project" => IsCore(core.module))
    BY <2>2 DEF PassesDeliver, BuildInv
  <2>4. Declares(result)
    BY <2>3, ImportCoreKeeps
  <2> HIDE DEF result
  <2> QED
    BY <1>5, <2>1, <2>4
<1>8. CASE ResolveSemanticTypes
  <2>1. Pass("resolve", "layout", ResolveTypes(sem))
    BY <1>8 DEF ResolveSemanticTypes
  <2>2. phase = "resolve"
    BY <2>1 DEF Pass
  <2>3. Declares(ResolveTypes(sem))
    BY <2>2, ResolveTypesKeeps DEF BuildInv
  <2> QED
    BY <1>5, <2>1, <2>3
<1>9. CASE LayOutStructs
  <2>1. Pass("layout", "tables", ComputeLayouts(sem))
    BY <1>9 DEF LayOutStructs
  <2>2. phase = "layout"
    BY <2>1 DEF Pass
  <2>3. Declares(ComputeLayouts(sem))
    BY <2>2, ComputeLayoutsKeeps DEF BuildInv, KeepsDeclaring
  <2> QED
    BY <1>5, <2>1, <2>3
<1>10. CASE BuildModule
  <2>1. /\ phase = "tables" /\ phase' \in {"write", "failed"}
        /\ UNCHANGED <<job, core, disk, sem, loaded, header>>
    BY <1>10 DEF BuildModule
  <2>2. Declares(sem)
    BY <2>1 DEF BuildInv
  <2>3. Declares(sem)'
    BY <2>1, <2>2
  <2> QED
    BY <2>1, <2>3 DEF BuildInv
<1>11. CASE WriteModule
  <2>1. /\ phase = "write" /\ disk' = FileOf(out.out) /\ phase' = "header"
        /\ UNCHANGED <<job, core, sem, out>>
    BY <1>11 DEF WriteModule
  <2>2. IsBuilt
    BY <2>1 DEF BuildInv, PassesDeliver
  <2>3. IsBuilt'
    BY <2>1, <2>2
  <2>4. disk' = FileOf(out.out)' /\ disk' # NoFile'
    BY <2>1, <2>2, BuiltFile DEF NoFile
  <2> QED
    BY <2>1, <2>3, <2>4 DEF BuildInv
<1>12. CASE WriteModuleFails
  <2>1. PICK size \in 0 .. (FileOf(out.out).size - 1) :
          disk' = CutFile(FileOf(out.out), size)
    BY <1>12 DEF WriteModuleFails
  <2>2. /\ phase = "write" /\ phase' \in {"failed", "header"}
        /\ UNCHANGED <<job, core, sem, out>>
    BY <1>12 DEF WriteModuleFails
  <2>3. IsBuilt
    BY <2>2 DEF BuildInv, PassesDeliver
  <2>4. IsBuilt'
    BY <2>2, <2>3
  <2>5. disk' # FileOf(out.out)'
    BY <2>1, <2>2, <2>3, BuiltFile
  <2>6. disk' \in Lost'
    BY <2>1, <2>2 DEF Lost
  <2> QED
    BY <2>2, <2>4, <2>5, <2>6 DEF BuildInv
<1>13. CASE WriteHeader
  <2>1. /\ phase = "header" /\ phase' \in {"built", "failed"}
        /\ header' = WriteTypes(sem.structs) /\ UNCHANGED <<job, core, sem, out, disk, loaded>>
    BY <1>13 DEF WriteHeader
  <2>2. disk # NoFile => IsBuilt /\ disk \in {FileOf(out.out)} \cup Lost
    BY <2>1 DEF BuildInv
  <2>3. /\ disk' # NoFile' => IsBuilt' /\ disk' \in ({FileOf(out.out)} \cup Lost)'
        /\ header' = WriteTypes(sem.structs)'
    BY <2>1, <2>2 DEF Lost
  <2> QED
    BY <2>1, <2>3 DEF BuildInv
<1>14. CASE LoadModule
  <2>1. /\ phase \in {"built", "failed"} /\ disk # NoFile /\ loaded' = LoadFile(disk)
        /\ phase' = IF loaded'.ok THEN "loaded" ELSE "refused"
        /\ UNCHANGED <<job, core, sem, out, disk, header>>
    BY <1>14 DEF LoadModule
  <2>2. IsBuilt /\ disk \in {FileOf(out.out)} \cup Lost
        /\ (disk = FileOf(out.out) => header = WriteTypes(sem.structs))
    BY <2>1 DEF BuildInv
  <2>3. /\ IsBuilt' /\ disk' \in ({FileOf(out.out)} \cup Lost)'
        /\ (disk' = FileOf(out.out)' => header' = WriteTypes(sem.structs)')
        /\ disk' # NoFile' /\ loaded' = LoadFile(disk)'
    BY <2>1, <2>2 DEF Lost
  <2>4. phase' \in {"loaded", "refused"} /\ (phase' = "refused" <=> ~loaded'.ok)
    BY <2>1
  <2>5. (job # "core" => IsCore(core.module))'
    BY <2>1 DEF BuildInv
  <2> QED
    BY <2>3, <2>4, <2>5 DEF BuildInv
<1>15. CASE RegisterModule
  <2>1. /\ phase = "loaded" /\ phase' = "registered"
        /\ registered' = RegisterComponents(loaded.module, HierarchySize)
        /\ UNCHANGED <<job, core, sem, out, disk, header, loaded>>
    BY <1>15 DEF RegisterModule
  <2>2. /\ IsBuilt /\ disk \in {FileOf(out.out)} \cup Lost
        /\ (disk = FileOf(out.out) => header = WriteTypes(sem.structs))
        /\ disk # NoFile /\ loaded = LoadFile(disk) /\ loaded.ok
    BY <2>1 DEF BuildInv
  <2>3. /\ IsBuilt' /\ disk' \in ({FileOf(out.out)} \cup Lost)'
        /\ (disk' = FileOf(out.out)' => header' = WriteTypes(sem.structs)')
        /\ disk' # NoFile' /\ loaded' = LoadFile(disk)' /\ loaded'.ok
    BY <2>1, <2>2 DEF Lost
  <2>4. registered' = RegisterComponents(loaded.module, HierarchySize)'
    BY <2>1
  <2>5. (job # "core" => IsCore(core.module))'
    BY <2>1 DEF BuildInv
  <2> QED
    BY <2>1, <2>3, <2>4, <2>5 DEF BuildInv
<1> QED
  BY <1>1, <1>2, <1>3, <1>4, <1>6, <1>7, <1>8, <1>9, <1>10, <1>11, <1>12, <1>13, <1>14, <1>15
     DEF Next

(* So it holds always.                                                     *)
LEMMA BuildInvariant == Spec /\ []PassesDeliver => []BuildInv
<1>1. Init => BuildInv
  BY BuildInit
<1>2. PassesDeliver /\ BuildInv /\ [Next]_vars => BuildInv'
  BY BuildStep
<1> QED
  BY <1>1, <1>2, PTL DEF Spec

(* A module file that lost its end is never accepted.                      *)
THEOREM PartialFilesAreRefused == Spec /\ []PassesDeliver => []PartialFileIsRefused
<1>1. BuildInv => PartialFileIsRefused
  <2> SUFFICES ASSUME BuildInv, phase = "loaded"
               PROVE  disk = FileOf(out.out)
    BY DEF PartialFileIsRefused
  <2>1. /\ IsBuilt /\ disk \in {FileOf(out.out)} \cup Lost
        /\ loaded = LoadFile(disk) /\ loaded.ok
    BY DEF BuildInv
  <2> QED
    BY <2>1, LoadedFileIsWhole
<1> QED
  BY <1>1, BuildInvariant, PTL

(* The loader accepts a module exactly when types.h could be written.      *)
THEOREM BuiltModulesLoad == Spec /\ []PassesDeliver => []BuiltModuleLoads
<1>1. BuildInv => BuiltModuleLoads
  <2> SUFFICES ASSUME BuildInv, phase \in {"loaded", "refused"}, disk = FileOf(out.out)
               PROVE  loaded.ok <=> header.ok
    BY DEF BuiltModuleLoads
  <2>1. IsBuilt /\ loaded = LoadFile(disk) /\ header = WriteTypes(sem.structs)
    BY DEF BuildInv
  <2>2. Written(sem, out.out, NamedRows(out.out))
    BY <2>1 DEF IsBuilt, Written
  <2> QED
    BY <2>1, <2>2, LoadsWhenHeaderIsWritten
<1> QED
  BY <1>1, BuildInvariant, PTL

(* What the loader reads back is what the declarations mean.               *)
THEOREM MeaningIsRead == Spec /\ []PassesDeliver => []ReadsWhatWasMeant
<1>1. BuildInv => ReadsWhatWasMeant
  <2> SUFFICES ASSUME BuildInv, phase = "loaded", CanDecompile(loaded.module)
               PROVE  ModuleMeaning(loaded.module) = Meaning(sem)
    BY DEF ReadsWhatWasMeant
  <2>1. /\ IsBuilt /\ disk \in {FileOf(out.out)} \cup Lost
        /\ loaded = LoadFile(disk) /\ loaded.ok
    BY DEF BuildInv
  <2>2. disk = FileOf(out.out)
    BY <2>1, LoadedFileIsWhole
  <2>3. Written(sem, out.out, NamedRows(out.out))
    BY <2>1 DEF IsBuilt, Written
  <2>4. \E order : loaded.module = Sized(NamedRows(out.out), order)
    BY <2>1, <2>2, <2>3, LoadsWhenHeaderIsWritten
  <2> QED
    BY <2>3, <2>4, ModuleMeansWhatIsDeclared
<1> QED
  BY <1>1, BuildInvariant, PTL

(* types.h declares every struct after those it holds, and a C compiler    *)
(* gives each the size that the loader will register it with.              *)
THEOREM HeaderIsTrue == Spec /\ []PassesDeliver => []HeaderMatchesModule
<1>1. BuildInv => HeaderMatchesModule
  <2> SUFFICES ASSUME BuildInv, phase = "loaded", header.ok
               PROVE  LET compiled == CompiledLayouts(header.lines)
                          Nested(i) == {k \in DOMAIN header.lines[i].fields :
                                          BuiltinSize(header.lines[i].fields[k]) = 0}
                      IN  /\ \A i \in DOMAIN header.lines : \A k \in Nested(i) :
                               \E j \in 1..(i - 1) :
                                 header.lines[j].type = header.lines[i].fields[k]
                          /\ \A i \in DOMAIN loaded.module.structs :
                               LET struct == loaded.module.structs[i]
                               IN  compiled[loaded.module.types[struct.type].qualified]
                                     = [size |-> struct.size, alignment |-> struct.alignment]
    BY DEF HeaderMatchesModule
  <2>1. /\ IsBuilt /\ disk \in {FileOf(out.out)} \cup Lost
        /\ loaded = LoadFile(disk) /\ loaded.ok
        /\ disk = FileOf(out.out) => header = WriteTypes(sem.structs)
    BY DEF BuildInv
  <2>2. disk = FileOf(out.out)
    BY <2>1, LoadedFileIsWhole
  <2>3. Written(sem, out.out, NamedRows(out.out)) /\ Declares(sem)
    BY <2>1 DEF IsBuilt, Written
  <2>4. header = WriteTypes(sem.structs) /\ WriteTypes(sem.structs).ok
    BY <2>1, <2>2
  <2>5. loaded.module = Sized(NamedRows(out.out), OrderOf(sem))
    BY <2>1, <2>2, <2>3, LoadsWhenHeaderIsWritten DEF OrderOf, Parts
  <2>6. \A i \in DOMAIN header.lines : \A k \in DOMAIN header.lines[i].fields :
          BuiltinSize(header.lines[i].fields[k]) = 0 =>
            \E j \in 1..(i - 1) : header.lines[j].type = header.lines[i].fields[k]
    BY <2>3, <2>4, DeclaredInOrder
  <2>7. \A i \in DOMAIN loaded.module.structs :
          CompiledLayouts(header.lines)
              [loaded.module.types[loaded.module.structs[i].type].qualified]
            = [size |-> loaded.module.structs[i].size,
               alignment |-> loaded.module.structs[i].alignment]
    BY <2>3, <2>4, <2>5, CompiledAsLoaded
  <2> QED
    BY <2>6, <2>7
<1> QED
  BY <1>1, BuildInvariant, PTL

(* The engine registers what the sources declare as components, with the   *)
(* sizes of types.h.                                                       *)
THEOREM ComponentsRegistered == Spec /\ []PassesDeliver => []ComponentsAreRegistered
<1>1. BuildInv => ComponentsAreRegistered
  <2> DEFINE compiled == CompiledLayouts(header.lines)
             s == sem.structs
             M == loaded.module
             components == {i \in DOMAIN s : IsComponentText(s[i])}
             Fits(name) == /\ compiled[name].size # 0
                           /\ name = Core("Hierarchy") => compiled[name].size = HierarchySize
             unfit == {i \in components : ~Fits(s[i].qualified)}
  <2> SUFFICES ASSUME BuildInv, phase = "registered"
               PROVE  /\ registered.ok <=> unfit = {}
                      /\ ListsInOrder(registered.names, s,
                                      {i \in components : \A j \in unfit : i < j})
    BY DEF ComponentsAreRegistered
  <2>1. /\ IsBuilt /\ disk \in {FileOf(out.out)} \cup Lost
        /\ loaded = LoadFile(disk) /\ loaded.ok
        /\ disk = FileOf(out.out) => header = WriteTypes(sem.structs)
        /\ registered = RegisterComponents(M, HierarchySize)
    BY DEF BuildInv
  <2>2. disk = FileOf(out.out)
    BY <2>1, LoadedFileIsWhole
  <2>3. Written(sem, out.out, NamedRows(out.out)) /\ Declares(sem)
    BY <2>1 DEF IsBuilt, Written
  <2>4. header = WriteTypes(sem.structs) /\ WriteTypes(sem.structs).ok
    BY <2>1, <2>2, <2>3, LoadsWhenHeaderIsWritten
  <2>5. M = Sized(NamedRows(out.out), OrderOf(sem))
    BY <2>1, <2>2, <2>3, LoadsWhenHeaderIsWritten DEF OrderOf, Parts
  <2>6. /\ Len(s) \in Nat /\ DOMAIN s = 1 .. Len(s)
        /\ DOMAIN M.structs = 1 .. Len(s) /\ Len(M.structs) = Len(s)
    BY <2>3, <2>5, DeclaredStructs, SizedKeeps
  <2>7. \A i \in DOMAIN loaded.module.structs :
           CompiledLayouts(header.lines)
               [loaded.module.types[loaded.module.structs[i].type].qualified]
             = [size |-> loaded.module.structs[i].size,
                alignment |-> loaded.module.structs[i].alignment]
    BY <2>3, <2>4, <2>5, CompiledAsLoaded
  <2>8. ASSUME NEW i \in 1 .. Len(s)
        PROVE  /\ M.types[M.structs[i].type].qualified = s[i].qualified
               /\ IsComponent(M, M.structs[i]) <=> IsComponentText(s[i])
               /\ compiled[s[i].qualified].size = M.structs[i].size
    <3>1. M.types[M.structs[i].type].qualified = s[i].qualified
      BY <2>3, <2>5, StructMeans
    <3>2. compiled[M.types[M.structs[i].type].qualified]
            = [size |-> M.structs[i].size, alignment |-> M.structs[i].alignment]
      BY <2>6, <2>7
    <3>3. IsComponent(M, M.structs[i]) <=> IsComponentText(s[i])
      <4> HIDE DEF M
      <4>1. LET N == Sized(NamedRows(out.out), OrderOf(sem))
            IN  IsComponent(N, N.structs[i]) <=> IsComponentText(s[i])
        BY <2>3, SameComponents
      <4> QED
        BY <2>5, <4>1
    <3> HIDE DEF M, compiled, s
    <3> QED
      BY <3>1, <3>2, <3>3
  <2> HIDE DEF M, compiled, s
  <2>9. \A i \in 1 .. Len(s) :
          FitsEngine(M, M.structs[i], HierarchySize) <=> Fits(s[i].qualified)
    BY <2>8 DEF FitsEngine
  <2> HIDE DEF Fits
  <2>10. Registrable(M, HierarchySize, s, components, unfit)
    BY <2>6, <2>8, <2>9 DEF Registrable
  <2> HIDE DEF components, unfit
  <2> QED
    BY <2>1, <2>10, RegistersInOrder
<1> QED
  BY <1>1, BuildInvariant, PTL
=============================================================================
