--------------------------- MODULE IncidentContract ---------------------------
(* What the incident store promises its callers as long as its index is not   *)
(* taken for damaged and removed: one line of revisions.  A transaction takes *)
(* effect as a whole and at most once, always on top of the revision before   *)
(* it, and a caller that was told so finds it there.                          *)
EXTENDS Naturals

CONSTANTS Txns,     \* transactions
          Files,    \* side files a transaction may write
          None

VARIABLES head,     \* the index: revision, last transaction, row of each file
          done,     \* transactions that took effect
          acked,    \* transactions whose caller was told so
          hurt      \* the index has been removed

cvars == <<head, done, acked, hurt>>

Init == /\ head = [rev |-> 0, last |-> None, refs |-> [f \in Files |-> None]]
        /\ done = {} /\ acked = {} /\ hurt = FALSE

Commit(t) ==
    /\ t \notin done
    /\ \E F \in SUBSET Files :
         head' = [rev  |-> head.rev + 1, last |-> t,
                  refs |-> [f \in Files |-> IF f \in F THEN t ELSE head.refs[f]]]
    /\ done' = done \cup {t}
    /\ UNCHANGED <<acked, hurt>>

Acknowledge(t) ==
    /\ t \in done
    /\ acked' = acked \cup {t}
    /\ UNCHANGED <<head, done, hurt>>

Hurt == hurt'

Next == (\E t \in Txns : Commit(t) \/ Acknowledge(t)) \/ Hurt

Spec == Init /\ [][Next]_cvars
===============================================================================
