--------------------------- MODULE MCPipelineBuild ---------------------------
(***************************************************************************)
(* All registries of up to three systems, registered as a, b, c, with at   *)
(* most two attributes each, of names that may be x, which no system has.  *)
(***************************************************************************)
EXTENDS PipelineBuild

CONSTANTS a, b, c, x

MCNames == {a, b, c, x}

Lists == {l \in (SUBSET MCNames) \X (SUBSET MCNames) :
            Cardinality(l[1]) + Cardinality(l[2]) <= 2}

Named(n, l) == [name |-> n, before |-> l[1], after |-> l[2]]

MCRegistries ==
  {<<>>} \cup {<<Named(a, k)>> : k \in Lists}
  \cup {<<Named(a, k), Named(b, l)>> : k, l \in Lists}
  \cup {<<Named(a, k), Named(b, l), Named(c, m)>> : k, l, m \in Lists}
=============================================================================
