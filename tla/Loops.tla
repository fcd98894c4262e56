-------------------------------- MODULE Loops --------------------------------
(***************************************************************************)
(* What the proofs about loops share: a set of numbers has a least         *)
(* element, what holds from one number to the next holds of all, and what  *)
(* holds of the result of a loop, for any step and any invariant.          *)
(* Step(c, acc, x) is what an iteration makes of acc with the item x, and  *)
(* May(c, k, acc) says what the result is after k of them; c is whatever   *)
(* else they depend on.                                                    *)
(***************************************************************************)
EXTENDS Naturals, Sequences, WellFoundedInduction, TLAPS

CONSTANTS Step(_, _, _), May(_, _, _)

(* Every set of naturals that is not empty has a least element: what the   *)
(* code's loops that stop at the first match, or the lowest index, find.   *)
LEMMA LeastOfNat ==
  ASSUME NEW T \in SUBSET Nat, T # {}
  PROVE  \E m \in T : \A k \in T : m <= k
<1> DEFINE R == {ss \in Nat \X Nat : ss[1] < ss[2]}
<1>1. IsWellFoundedOn(R, Nat)
  BY NatLessThanWellFounded DEF OpToRel
<1> HIDE DEF R
<1>2. PICK x \in T : \A y \in T : ~ (<<y, x>> \in R)
  BY <1>1, WFMin
<1>3. ASSUME NEW k \in T PROVE x <= k
  <2>1. ~ (<<k, x>> \in R)
    BY <1>2
  <2>2. k \in Nat /\ x \in Nat
    OBVIOUS
  <2>3. ~ (k < x)
    BY <2>1, <2>2 DEF R
  <2> QED
    BY <2>2, <2>3
<1> QED
  BY <1>3

(* Induction from one number to the next, as a set closed under successor. *)
LEMMA InductionSet ==
  ASSUME NEW n \in Nat, NEW S,
         0 \in S,
         \A k \in 0 .. n - 1 : k \in S => k + 1 \in S
  PROVE  \A k \in 0 .. n : k \in S
<1> DEFINE Bad == {k \in 0 .. n : k \notin S}
<1>1. SUFFICES ASSUME Bad # {} PROVE FALSE
  OBVIOUS
<1>2. Bad \in SUBSET Nat
  OBVIOUS
<1>3. PICK m \in Bad : \A k \in Bad : m <= k
  BY <1>1, <1>2, LeastOfNat
<1>4. m # 0 /\ m - 1 \in 0 .. n - 1 /\ m - 1 \notin Bad
  BY <1>3
<1>5. m - 1 \in S
  BY <1>4
<1>6. m - 1 + 1 \in S
  BY <1>4, <1>5
<1> QED
  BY <1>4, <1>6

-----------------------------------------------------------------------------
Result(c, base, seq) ==
  LET results[k \in 0 .. Len(seq)] ==
        IF k = 0 THEN base
        ELSE CHOOSE next \in {Step(c, acc, seq[k]) : acc \in {results[k - 1]}} : TRUE
  IN  results[Len(seq)]

(* What it was after every iteration.                                      *)
AreValues(g, c, base, seq) ==
  /\ g[0] = base
  /\ \A k \in 1 .. Len(seq) : g[k] = Step(c, g[k - 1], seq[k])
  /\ g[Len(seq)] = Result(c, base, seq)

LEMMA LoopValues ==
  ASSUME NEW c, NEW base, NEW seq, Len(seq) \in Nat
  PROVE  \E g : AreValues(g, c, base, seq)
<1> DEFINE n == Len(seq)
           At(f, k) == IF k = 0 THEN base
                       ELSE CHOOSE next \in {Step(c, acc, seq[k]) : acc \in {f[k - 1]}} : TRUE
           Equation(f) == f = [k \in 0 .. n |-> At(f, k)]
           F == CHOOSE f : Equation(f)
           R == {m \in 0 .. n : \E f : f = [k \in 0 .. m |-> At(f, k)]}
<1>0. n \in Nat
  OBVIOUS
<1>a. \A f, k : k # 0 => At(f, k) = Step(c, f[k - 1], seq[k])
  OBVIOUS
<1>b. \A f : At(f, 0) = base
  OBVIOUS
<1> HIDE DEF At
<1>1. 0 \in R
  <2> DEFINE f == [k \in 0 .. 0 |-> base]
  <2>1. f = [k \in 0 .. 0 |-> At(f, k)]
    BY <1>b
  <2> HIDE DEF f
  <2> QED
    BY <1>0, <2>1
<1>2. ASSUME NEW m \in 0 .. n - 1, m \in R PROVE m + 1 \in R
  <2>1. PICK f : f = [k \in 0 .. m |-> At(f, k)]
    BY <1>2
  <2> DEFINE g == [k \in 0 .. m + 1 |-> IF k = m + 1 THEN Step(c, f[m], seq[m + 1]) ELSE f[k]]
  <2>2. m \in Nat /\ (m + 1) - 1 = m /\ m + 1 # 0
    BY <1>0
  <2>3. g[m + 1] = Step(c, f[m], seq[m + 1]) /\ \A k \in 0 .. m : g[k] = f[k]
    BY <2>2
  <2>4. ASSUME NEW k \in 0 .. m PROVE f[k] = At(f, k)
    BY <2>1
  <2>5. ASSUME NEW k \in 0 .. m + 1 PROVE g[k] = At(g, k)
    <3> HIDE DEF g
    <3>1. CASE k = 0
      <4>1. g[0] = f[0] /\ f[0] = At(f, 0)
        BY <2>2, <2>3, <2>4
      <4> QED
        BY <1>b, <3>1, <4>1
    <3>2. CASE k = m + 1
      <4>1. g[k - 1] = f[m]
        BY <2>2, <2>3, <3>2
      <4>2. At(g, k) = Step(c, g[k - 1], seq[k])
        BY <1>a, <2>2, <3>2
      <4> QED
        BY <2>3, <3>2, <4>1, <4>2
    <3>3. CASE k # 0 /\ k # m + 1
      <4>1. k \in 0 .. m /\ k - 1 \in 0 .. m
        BY <2>2, <3>3
      <4>2. g[k] = f[k] /\ g[k - 1] = f[k - 1]
        BY <2>3, <4>1
      <4>3. At(g, k) = Step(c, g[k - 1], seq[k]) /\ At(f, k) = Step(c, f[k - 1], seq[k])
        BY <1>a, <3>3
      <4> QED
        BY <2>4, <4>1, <4>2, <4>3
    <3> QED
      BY <3>1, <3>2, <3>3
  <2>6. g = [k \in 0 .. m + 1 |-> At(g, k)]
    BY <2>5
  <2> HIDE DEF g
  <2> QED
    BY <1>0, <2>2, <2>6
<1>3. n \in R
  <2> HIDE DEF R, n
  <2>1. \A k \in 0 .. n : k \in R
    BY <1>0, <1>1, <1>2, InductionSet
  <2> QED
    BY <1>0, <2>1
<1>4. \E f : Equation(f)
  BY <1>3
<1>5. Equation(F)
  <2> HIDE DEF Equation
  <2> QED
    BY <1>4
<1>6. ASSUME NEW k \in 0 .. n PROVE F[k] = At(F, k)
  <2>1. F = [j \in 0 .. n |-> At(F, j)]
    BY <1>5
  <2> HIDE DEF F
  <2> QED
    BY <2>1
<1>7. F[0] = base /\ \A k \in 1 .. n : F[k] = Step(c, F[k - 1], seq[k])
  <2>1. 0 \in 0 .. n /\ \A k \in 1 .. n : k \in 0 .. n /\ k # 0
    BY <1>0
  <2> HIDE DEF F, n
  <2> QED
    BY <1>a, <1>b, <1>6, <2>1
<1>8. F[n] = Result(c, base, seq)
  BY DEF At, Result
<1> HIDE DEF F
<1>9. AreValues(F, c, base, seq)
  BY <1>7, <1>8 DEF AreValues
<1> QED
  BY <1>9

(* If it may be so before, and each step keeps it, it is so at the end.    *)
LEMMA LoopInvariant ==
  ASSUME NEW c, NEW base, NEW seq, Len(seq) \in Nat,
         May(c, 0, base),
         \A k \in 1 .. Len(seq) : \A acc : May(c, k - 1, acc) => May(c, k, Step(c, acc, seq[k]))
  PROVE  May(c, Len(seq), Result(c, base, seq))
<1>0. Len(seq) \in Nat
  OBVIOUS
<1>1. PICK F : /\ F[0] = base
               /\ \A k \in 1 .. Len(seq) : F[k] = Step(c, F[k - 1], seq[k])
               /\ F[Len(seq)] = Result(c, base, seq)
  BY LoopValues DEF AreValues
<1> DEFINE n == Len(seq)
           M == {k \in 0 .. n : May(c, k, F[k])}
<1>2. 0 \in M
  BY <1>0, <1>1
<1>3. ASSUME NEW k \in 0 .. n - 1, k \in M PROVE k + 1 \in M
  <2>1. k + 1 \in 1 .. n /\ (k + 1) - 1 = k /\ k + 1 \in 0 .. n
    BY <1>0
  <2>2. May(c, (k + 1) - 1, F[k])
    BY <1>3, <2>1
  <2>3. May(c, k + 1, Step(c, F[k], seq[k + 1]))
    BY <2>1, <2>2
  <2>4. F[k + 1] = Step(c, F[k], seq[k + 1])
    <3>1. F[k + 1] = Step(c, F[(k + 1) - 1], seq[k + 1])
      BY <1>1, <2>1
    <3> QED
      BY <2>1, <3>1
  <2> QED
    BY <2>1, <2>3, <2>4
<1>4. n \in M
  <2>0. n \in Nat
    BY <1>0
  <2> HIDE DEF M, n
  <2>1. \A k \in 0 .. n : k \in M
    BY <2>0, <1>2, <1>3, InductionSet
  <2> QED
    BY <2>0, <2>1
<1> QED
  BY <1>1, <1>4
=============================================================================
