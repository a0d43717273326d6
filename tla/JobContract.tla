------------------------------ MODULE JobContract ------------------------------
(***************************************************************************)
(* What the job runtime promises its clients (docs of the P14 durable job  *)
(* contract, sections 2 and 3, as the code keeps them): a record moves     *)
(* along the transition table and never leaves a terminal state, one       *)
(* supervisor at most is launched for a record, a terminal record takes    *)
(* one retry intent and keeps it, and only terminal records are forgotten. *)
(***************************************************************************)
CONSTANTS Jobs, Requests, None

Terminal == {"completed", "failed", "cancelled"}

Next_States ==
    [queued |-> {"running", "cancelled", "failed", "unknown_recovery"},
     running |-> {"completed", "failed", "cancelled", "unknown_recovery"},
     unknown_recovery |-> {"running", "completed", "failed", "cancelled"}]

VARIABLES status,   \* state of each job's record, "absent" when there is none
          intent,   \* its retry request, None until one is claimed
          launched  \* whether a supervisor was ever launched for it

vars == <<status, intent, launched>>

Init == /\ status = [j \in Jobs |-> "absent"]
        /\ intent = [j \in Jobs |-> None]
        /\ launched = [j \in Jobs |-> FALSE]

Create(j) == /\ status[j] = "absent"
             /\ status' = [status EXCEPT ![j] = "queued"]
             /\ UNCHANGED <<intent, launched>>

Launch(j) == /\ status[j] # "absent" /\ ~launched[j]
             /\ launched' = [launched EXCEPT ![j] = TRUE]
             /\ UNCHANGED <<status, intent>>

Move(j) == /\ status[j] \in DOMAIN Next_States
           /\ \E s \in Next_States[status[j]] : status' = [status EXCEPT ![j] = s]
           /\ UNCHANGED <<intent, launched>>

Intend(j, r) == /\ status[j] \in Terminal /\ intent[j] = None
                /\ intent' = [intent EXCEPT ![j] = r]
                /\ UNCHANGED <<status, launched>>

Forget(P) == /\ \A j \in P : status[j] \in Terminal
             /\ status' = [j \in Jobs |-> IF j \in P THEN "absent" ELSE status[j]]
             /\ intent' = [j \in Jobs |-> IF j \in P THEN None ELSE intent[j]]
             /\ launched' = [j \in Jobs |-> j \notin P /\ launched[j]]

Next == \/ \E j \in Jobs : Create(j) \/ Launch(j) \/ Move(j) \/ \E r \in Requests : Intend(j, r)
        \/ \E P \in SUBSET Jobs : Forget(P)

Spec == Init /\ [][Next]_vars
=============================================================================
