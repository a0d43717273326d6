---------------------------- MODULE MCExecutionLoss ----------------------------
(* Two commands of the owner; the first one's run may be lost and has a recovery.                       *)
EXTENDS ExecutionLoss

CONSTANTS c1, c2, x1

Order == <<c1, c2>>
Chain == [x \in Runs |-> IF x = c1 THEN x1 ELSE None]
=============================================================================
