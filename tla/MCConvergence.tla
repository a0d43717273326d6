----------------------------- MODULE MCConvergence -----------------------------
(* Instances of Convergence for TLC.                                            *)
EXTENDS Convergence, TLC

CONSTANTS e1, e2

\* One attempt of each sort.
OneEach == [resource |-> 1, strategy |-> 1, escalation |-> 1, total |-> 2]
\* A new goal with a successor, and one whose problem has used up its budget.
Tried(n) == [t \in Strategies |-> IF t \in {"strategy_change", "capability_escalation"} THEN n ELSE 0]
NewAndExhausted ==
    {[rev |-> 1, problem |-> None, tried |-> Tried(0), successor |-> "PENDING"],
     [rev |-> 2, problem |-> "IMPLEMENTATION_DEFECT", tried |-> Tried(1), successor |-> "none"]}

Both == Permutations(Evaluators)
=============================================================================
