----------------------------- MODULE MCJobRuntime -----------------------------
(* Instances of JobRuntime for TLC: one submitted job, its retry successors,  *)
(* a few callers and supervisors.                                             *)
EXTENDS JobRuntime, TLC

CONSTANTS j0, s1, s2, r1, r2, c1, c2, p1, p2

\* j0 can be retried under r1; its successor s1 cannot be retried further.
OneRetry == (<<j0, r1>> :> s1) @@ (<<s1, r1>> :> None)

\* Two requests compete for the retry of j0.
TwoRetries == (<<j0, r1>> :> s1) @@ (<<j0, r2>> :> s2)
              @@ [x \in {s1, s2} \X {r1, r2} |-> None]

\* Callers and pids are interchangeable.
Symmetry == Permutations(Callers) \cup Permutations(Pids)

\* So are, under TwoRetries, the two requests with their successors.
RetrySymmetry == Symmetry \cup {(r1 :> r2) @@ (r2 :> r1) @@ (s1 :> s2) @@ (s2 :> s1)}
=============================================================================
