---------------------------- MODULE MCDockerShim ----------------------------
(* A small instance of DockerShim for TLC. *)
EXTENDS DockerShim, TLC

CONSTANTS a, b, pa, pb, c1, c2, c3

\* Three handlers for one container; two names with a pod name each, or with
\* the same one.
Scenarios ==
  {[names |-> {a}, calls |-> {c1, c2, c3}, sanitize |-> a :> pa @@ b :> pb],
   [names |-> {a, b}, calls |-> {c1, c2}, sanitize |-> a :> pa @@ b :> pb],
   [names |-> {a, b}, calls |-> {c1, c2}, sanitize |-> a :> pa @@ b :> pa]}

\* The two handlers every scenario has are interchangeable.
Symmetry == Permutations({c1, c2})
=============================================================================
