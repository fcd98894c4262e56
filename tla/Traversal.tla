------------------------------ MODULE Traversal ------------------------------
(***************************************************************************)
(* What the passes of the toolchain share: a loop over a list that carries *)
(* a result along, the running totals of a list of lengths, and the walk   *)
(* over the structs of a table in which each comes after those it holds.   *)
(* Recursion is by functions over numbers.                                 *)
(***************************************************************************)
EXTENDS Naturals, Sequences

\* FoldLeft of SequencesExt.  The set of one makes TLC evaluate each result
\* before the next step.
Fold(Op(_, _), base, seq) ==
  LET results[k \in 0 .. Len(seq)] ==
        IF k = 0 THEN base
        ELSE CHOOSE next \in {Op(acc, seq[k]) : acc \in {results[k - 1]}} : TRUE
  IN  results[Len(seq)]

\* The sum of the first k, for every k.
PrefixSums(lengths) ==
  LET sums[k \in 0 .. Len(lengths)] == IF k = 0 THEN 0 ELSE sums[k - 1] + lengths[k]
  IN  sums

(***************************************************************************)
(* The walk of ecsvm_compute_struct_layout, ecsvm_write_types_for_struct   *)
(* and ecsvm_ecsbin_compute_struct_layout.  parts[i] lists the structs in  *)
(* the fields of struct i, 0 for a field that holds none.  order has the   *)
(* structs that are finished, open those that were begun; ok is FALSE from *)
(* the first one on that is met again before it is finished.               *)
(***************************************************************************)
Walks(n) == [ok : BOOLEAN, order : Seq(1 .. n), open : SUBSET (1 .. n)]
NoWalk == [ok |-> TRUE, order |-> <<>>, open |-> {}]

Finished(walk) == {walk.order[k] : k \in 1 .. Len(walk.order)}
Enter(walk, i) == [walk EXCEPT !.open = @ \cup {i}]
Break(walk) == [walk EXCEPT !.ok = FALSE]
Complete(walk, i) == IF walk.ok THEN [walk EXCEPT !.order = Append(@, i)] ELSE walk

\* Visits by how deep they may still go.  0 is not reached: whatever is entered
\* is opened, and there are only n structs to open.
Visits(parts) ==
  LET n == Len(parts)
      visit[depth \in 0 .. n + 1] ==
        [v \in Walks(n) \X (0 .. n) |->
           LET walk == v[1]
               i == v[2]
           IN  IF depth = 0 THEN Break(walk)
               ELSE IF ~walk.ok \/ i = 0 \/ i \in Finished(walk) THEN walk
               ELSE IF i \in walk.open THEN Break(walk)
               ELSE Complete(Fold(LAMBDA sub, part : visit[depth - 1][<<sub, part>>],
                                  Enter(walk, i), parts[i]), i)]
  IN  visit

DepthFirst(parts) ==
  LET visit == Visits(parts)[Len(parts) + 1]
  IN  Fold(LAMBDA walk, i : visit[<<walk, i>>], NoWalk, [i \in 1 .. Len(parts) |-> i])
=============================================================================
