-------------------------- MODULE ExecutionLossProofs --------------------------
(* For any commands, runs, tasks and bounds: a recovery reaches the Broker only after the run it         *)
(* replaces is over there and reconciled in the ledger; it works on the task of that run; and a          *)
(* reconciled run keeps the finding of its loss until its task is handed on or its replacement closed.   *)
EXTENDS ExecutionLoss, TLAPS

States == {"none", "active", "blocked", "recovery_required", "reconciled", "completed", "failed"}

RowsOf == [st : States, task : Nat, head : Nat]
Commands == [st : {"none", "queued", "accepted", "blocked"}, exp : Nat \X Nat]

\* What the argument needs of the types.
Types ==
    /\ rows \in [Runs -> RowsOf]
    /\ broker \in [Runs -> {"none", "running", "succeeded", "failed", "gone"}]
    /\ slot \in [Runs -> {"none", "reserved", "pending", "requested", "ended"}]
    /\ cmds \in [Runs -> Commands]
    /\ repo \in [task : Nat, ready : BOOLEAN, head : Nat]
    /\ raw \in [task : Nat, ready : BOOLEAN, head : Nat]
    /\ cur \in Goals \cup {NoOne} /\ todo \subseteq Goals

\* The Broker and the tick have only runs whose command was submitted.
Known(x) == cmds[x].st # "none"
Submitted ==
    /\ \A x \in Runs : broker[x] # "none" => Known(x)
    /\ pc \in {"controls", "oblige", "settle"} => \A f \in todo : Known(f.run)
    /\ pc \in {"oblige", "settle"} => Known(cur.run)

\* A run the tick has taken up, and one it has reconciled: neither runs nor will.
Starting(x) == pc = "oblige" /\ cur.run = x
Over(x)     == rows[x].st = "reconciled" /\ broker[x] # "running" /\ ~Starting(x)
TickWell ==
    /\ pc \in {"oblige", "settle", "note", "reconcile", "close", "pend", "tell", "submit", "mark", "record"}
         => cur.run \in Runs
    /\ pc \in {"note", "reconcile"} => broker[cur.run] # "running"
    /\ pc \in {"close", "pend", "tell", "submit"} => Over(cur.run)

\* A slot is pending, and a recovery submitted, only for a run that is over.
Apart ==
    \A x \in Runs :
        /\ slot[x] = "pending" => Over(x)
        /\ Recovery[x] # None /\ Known(Recovery[x]) => Over(x)

IInv == Types /\ Submitted /\ TickWell /\ Apart

--------------------------------------------------------------------------------
(* Types. *)

LEMMA FieldChanges ==
    /\ \A r \in RowsOf, v \in States : [r EXCEPT !.st = v] \in RowsOf
    /\ \A c \in Commands, v \in {"none", "queued", "accepted", "blocked"} : [c EXCEPT !.st = v] \in Commands
    /\ 0 \in 0..MaxRecoveries
    BY BoundsAssumption DEF RowsOf, Commands, States

LEMMA InitTypes == Init => Types
    BY BoundsAssumption DEF Init, Types, RowsOf, Commands, NoRow, NoCmd, NoRaw, NoOne, States

\* Every step keeps the types.
LEMMA TypesKept ==
    ASSUME IInv, [Next]_vars
    PROVE  Types'
<1>1. CASE Monitor
    <2>1. todo' \subseteq Goals
        BY <1>1, FieldChanges DEF Monitor, Goals
    <2>2. QED BY <1>1, <2>1 DEF Monitor, Left, watch, IInv, Types
<1>2. CASE Oblige
    BY <1>2 DEF Oblige, watch, daemon, IInv, Types
<1>3. CASE Settle
    <2>1. cur.run \in Runs
        BY <1>3 DEF IInv, TickWell, Settle
    <2>2. PICK v \in {"blocked", "accepted"} : cmds' = [cmds EXCEPT ![cur.run] = [cmds[cur.run] EXCEPT !.st = v]]
        BY <1>3 DEF Settle
    <2>3. cmds' \in [Runs -> Commands]
        BY <2>1, <2>2, FieldChanges DEF IInv, Types
    <2>4. QED BY <1>3, <2>3 DEF Settle, Left, watch, IInv, Types, Goals, NoOne
<1>4. CASE Observe
    BY <1>4 DEF Observe, Left, Synced, watch, daemon, IInv, Types, RowsOf, Commands, States, Goals,
       NoOne, NoRaw, NoCmd
<1>5. CASE NoteAttempt
    BY <1>5 DEF NoteAttempt, Onward, watch, daemon, IInv, Types
<1>6. CASE Reconcile
    <2>1. cur.run \in Runs
        BY <1>6 DEF IInv, TickWell, Reconcile, Onward
    <2>2. rows' = rows \/ rows' = [rows EXCEPT ![cur.run] = [rows[cur.run] EXCEPT !.st = "reconciled"]]
        BY <1>6 DEF Reconcile
    <2>3. [rows[cur.run] EXCEPT !.st = "reconciled"] \in RowsOf
        BY <2>1, FieldChanges DEF IInv, Types, States
    <2>4. rows' \in [Runs -> RowsOf]
        BY <2>2, <2>3 DEF IInv, Types
    <2>5. UNCHANGED <<repo, broker, slot, cmds, raw, cur, todo>>
        BY <1>6 DEF Reconcile, Onward, watch
    <2>6. QED BY <2>4, <2>5 DEF IInv, Types
<1>7. CASE CloseLost
    BY <1>7 DEF CloseLost, Onward, watch, daemon, IInv, Types
<1>8. CASE Pend
    BY <1>8 DEF Pend, Onward, watch, daemon, IInv, Types
<1>9. CASE TellPending
    BY <1>9 DEF TellPending, Onward, Tell, watch, daemon, IInv, Types
<1>10. CASE Submit
    <2>1. Identity \in Nat \X Nat
        BY DEF IInv, Types, Identity
    <2>2. cmds' = cmds \/ cmds' = [cmds EXCEPT ![Recovery[cur.run]] = [st |-> "queued", exp |-> Identity]]
        BY <1>10 DEF Submit
    <2>3. [st |-> "queued", exp |-> Identity] \in Commands
        BY <2>1 DEF Commands
    <2>4. cmds' \in [Runs -> Commands]
        BY <2>2, <2>3 DEF IInv, Types
    <2>5. slot' \in {slot, [slot EXCEPT ![cur.run] = "ended"]}
        BY <1>10 DEF Submit
    <2>6. NoRaw \in [task : Nat, ready : BOOLEAN, head : Nat]
        BY DEF NoRaw
    <2>7. UNCHANGED <<repo, rows, broker>> /\ raw' \in {raw, NoRaw} /\ cur' \in {cur, NoOne} /\ todo' \subseteq todo
        BY <1>10 DEF Submit, Onward, Drop, Left
    <2>8. QED BY <2>4, <2>5, <2>6, <2>7 DEF IInv, Types
<1>11. CASE Mark
    BY <1>11 DEF Mark, Onward, watch, daemon, IInv, Types
<1>12. CASE Record
    BY <1>12 DEF Record, Drop, Left, Tell, watch, daemon, IInv, Types, RowsOf, Commands, States, Goals,
       NoOne, NoRaw, NoCmd
<1>13. ASSUME NEW f \in todo, Launch(f)
      PROVE  Types'
    BY <1>13 DEF Launch, Valid, CanStart, watch, daemon, IInv, Types, RowsOf, Commands, States, Goals,
       NoOne, NoRaw, NoCmd
<1>14. ASSUME NEW f \in todo, Refuse(f)
      PROVE  Types'
    <2>1. f.run \in Runs
        BY DEF IInv, Types, Goals
    <2>2. rows' = rows \/ rows' = [rows EXCEPT ![f.run] = [rows[f.run] EXCEPT !.st = "blocked"]]
        BY <1>14 DEF Refuse
    <2>3. [rows[f.run] EXCEPT !.st = "blocked"] \in RowsOf
        BY <2>1, FieldChanges DEF IInv, Types, States
    <2>4. rows' \in [Runs -> RowsOf]
        BY <2>2, <2>3 DEF IInv, Types
    <2>5. cmds' = [cmds EXCEPT ![f.run] = [cmds[f.run] EXCEPT !.st = "blocked"]]
        BY <1>14 DEF Refuse
    <2>6. cmds' \in [Runs -> Commands]
        BY <2>1, <2>5, FieldChanges DEF IInv, Types
    <2>7. QED BY <1>14, <2>4, <2>6 DEF Refuse, watch, IInv, Types
<1>15. ASSUME NEW f \in todo, Supersede(f)
      PROVE  Types'
    BY <1>15 DEF Supersede, Drop, Left, AtFinding, Tell, watch, daemon, IInv, Types, RowsOf, Commands,
       States, Goals, NoOne, NoRaw, NoCmd
<1>16. ASSUME NEW f \in todo, GiveUp(f)
      PROVE  Types'
    BY <1>16 DEF GiveUp, Drop, Left, AtFinding, Tell, watch, daemon, IInv, Types, RowsOf, Commands,
       States, Goals, NoOne, NoRaw, NoCmd
<1>17. ASSUME NEW f \in todo, Wait(f)
      PROVE  Types'
    BY <1>17 DEF Wait, Drop, Left, Open, AtFinding, watch, daemon, IInv, Types, RowsOf, Commands, States,
       Goals, NoOne, NoRaw, NoCmd
<1>18. ASSUME NEW f \in todo, Doubt(f)
      PROVE  Types'
    BY <1>18 DEF Doubt, Drop, Left, Open, AtFinding, Tell, watch, daemon, IInv, Types, RowsOf, Commands,
       States, Goals, NoOne, NoRaw, NoCmd
<1>19. ASSUME NEW f \in todo, Resume(f)
      PROVE  Types'
    BY <1>19 DEF Resume, Due, Open, AtFinding, watch, daemon, IInv, Types
<1>20. ASSUME NEW f \in todo, Reserve(f)
      PROVE  Types'
    BY <1>20 DEF Reserve, Due, Open, AtFinding, Verdict, watch, daemon, IInv, Types
<1>21. CASE ObligeFails
    <2>1. cur.run \in Runs /\ rows' = [rows EXCEPT ![cur.run] = [rows[cur.run] EXCEPT !.st = "blocked"]]
        BY <1>21 DEF IInv, TickWell, ObligeFails
    <2>2. rows' \in [Runs -> RowsOf]
        BY <2>1, FieldChanges DEF IInv, Types, States
    <2>3. QED BY <1>21, <2>2 DEF ObligeFails, watch, IInv, Types
<1>22. CASE HandOff
    <2>1. repo' = [task |-> repo.task + 1, ready |-> TRUE, head |-> repo.head]
        BY <1>22 DEF IInv, Types, HandOff
    <2>2. repo' \in [task : Nat, ready : BOOLEAN, head : Nat]
        BY <2>1 DEF IInv, Types
    <2>3. QED BY <1>22, <2>2 DEF HandOff, watch, daemon, IInv, Types
<1>23. CASE Crash
    BY <1>23 DEF Crash, watch, daemon, IInv, Types, RowsOf, Commands, States, Goals, NoOne, NoRaw, NoCmd
<1>24. CASE Restart
    <2>1. \A x \in Runs : rows'[x] \in RowsOf
        BY <1>24, FieldChanges DEF Restart, Recovered, States, IInv, Types
    <2>2. rows' \in [Runs -> RowsOf]
        BY <1>24, <2>1 DEF Restart
    <2>3. QED BY <1>24, <2>2 DEF Restart, watch, IInv, Types
<1>25. CASE GoBlind
    BY <1>25 DEF GoBlind, watch, daemon, IInv, Types
<1>26. CASE Sighted
    BY <1>26 DEF Sighted, watch, daemon, IInv, Types
<1>27. ASSUME NEW x \in Runs, BrokerCommits(x)
      PROVE  Types'
    BY <1>27 DEF BrokerCommits, watch, daemon, IInv, Types
<1>28. ASSUME NEW x \in Runs, BrokerEnds(x)
      PROVE  Types'
    <2>1. PICK v \in {"succeeded", "failed", "gone"} : broker' = [broker EXCEPT ![x] = v]
        BY <1>28 DEF BrokerEnds
    <2>2. \/ repo' = repo
          \/ repo' = [task |-> repo.task, ready |-> repo.ready /\ rows[x].task # repo.task, head |-> repo.head + 1]
        BY <1>28 DEF IInv, Types, BrokerEnds
    <2>3. (repo.ready /\ rows[x].task # repo.task) \in BOOLEAN
        BY Zenon
    <2>4. PICK b \in BOOLEAN : repo' = repo \/ repo' = [task |-> repo.task, ready |-> b, head |-> repo.head + 1]
        BY <2>2, <2>3, Zenon
    <2>5. repo' \in [task : Nat, ready : BOOLEAN, head : Nat]
        BY <2>4 DEF IInv, Types
    <2>6. QED BY <1>28, <2>1, <2>5 DEF BrokerEnds, watch, daemon, IInv, Types
<1>29. ASSUME NEW x \in Runs, WorkerRecords(x)
      PROVE  Types'
    <2>1. PICK v \in {"completed", "failed"} : rows' = [rows EXCEPT ![x] = [rows[x] EXCEPT !.st = v]]
        BY <1>29 DEF WorkerRecords
    <2>2. rows' \in [Runs -> RowsOf]
        BY <2>1, FieldChanges DEF IInv, Types, States
    <2>3. QED BY <1>29, <2>2 DEF WorkerRecords, watch, daemon, IInv, Types
<1>30. ASSUME NEW x \in Runs, CloseObligation(x)
      PROVE  Types'
    BY <1>30 DEF CloseObligation, watch, daemon, IInv, Types
<1>31. ASSUME NEW x \in Runs, OwnerContinue(x)
      PROVE  Types'
    BY <1>31 DEF OwnerContinue, Active, watch, daemon, IInv, Types, RowsOf, Commands, States, Goals,
       NoOne, NoRaw, NoCmd
<1>32. ASSUME NEW x \in Runs, Cool(x)
      PROVE  Types'
    BY <1>32 DEF Cool, watch, daemon, IInv, Types
<1>33. CASE UNCHANGED vars
    BY <1>33 DEF vars, watch, daemon, IInv, Types
<1>34. QED BY <1>1, <1>2, <1>3, <1>4, <1>5, <1>6, <1>7, <1>8, <1>9, <1>10, <1>11, <1>12, <1>13, <1>14,
   <1>15, <1>16, <1>17, <1>18, <1>19, <1>20, <1>21, <1>22, <1>23, <1>24, <1>25, <1>26, <1>27, <1>28,
   <1>29, <1>30, <1>31, <1>32, <1>33 DEF Next, Tick, Thread

--------------------------------------------------------------------------------
(* The Broker, the tick and the ledger. *)

\* Every step keeps the Broker and the tick to submitted commands.
LEMMA SubmittedKept ==
    ASSUME IInv, [Next]_vars, Types'
    PROVE  Submitted'
<1>1. CASE Monitor
    BY <1>1 DEF Monitor, Left, watch, daemon, IInv, Submitted, Known
<1>2. CASE Oblige
    BY <1>2 DEF Oblige, watch, daemon, IInv, Submitted, Known
<1>3. CASE Settle
    <2>1. PICK v \in {"blocked", "accepted"} : cmds' = [cmds EXCEPT ![cur.run] = [cmds[cur.run] EXCEPT !.st = v]]
        BY <1>3 DEF Settle
    <2>2. \A x \in Runs : Known(x) => Known(x)'
        BY <2>1 DEF Known, IInv, Types, Commands
    <2>3. QED BY <1>3, <2>2 DEF Settle, Left, IInv, Types, Submitted, TickWell, Known, Goals
<1>4. CASE Observe
    BY <1>4 DEF Observe, Left, Synced, watch, daemon, IInv, Submitted, Known
<1>5. CASE NoteAttempt
    BY <1>5 DEF NoteAttempt, Onward, watch, daemon, IInv, Submitted, Known
<1>6. CASE Reconcile
    BY <1>6 DEF Reconcile, Onward, watch, daemon, IInv, Submitted, Known
<1>7. CASE CloseLost
    BY <1>7 DEF CloseLost, Onward, watch, daemon, IInv, Submitted, Known
<1>8. CASE Pend
    BY <1>8 DEF Pend, Onward, watch, daemon, IInv, Submitted, Known
<1>9. CASE TellPending
    BY <1>9 DEF TellPending, Onward, Tell, watch, daemon, IInv, Submitted, Known
<1>10. CASE Submit
    BY <1>10 DEF Submit, Onward, Drop, Left, Identity, watch, daemon, IInv, Types, RowsOf, Commands,
       Submitted, TickWell, Known, Goals, NoOne
<1>11. CASE Mark
    BY <1>11 DEF Mark, Onward, watch, daemon, IInv, Submitted, Known
<1>12. CASE Record
    BY <1>12 DEF Record, Drop, Left, Tell, watch, daemon, IInv, Submitted, Known
<1>13. ASSUME NEW f \in todo, Launch(f)
      PROVE  Submitted'
    BY <1>13 DEF Launch, Valid, CanStart, watch, daemon, IInv, Submitted, Known
<1>14. ASSUME NEW f \in todo, Refuse(f)
      PROVE  Submitted'
    BY <1>14 DEF Refuse, Left, Valid, watch, daemon, IInv, Submitted, Known
<1>15. ASSUME NEW f \in todo, Supersede(f)
      PROVE  Submitted'
    BY <1>15 DEF Supersede, Drop, Left, AtFinding, Tell, watch, daemon, IInv, Submitted, Known
<1>16. ASSUME NEW f \in todo, GiveUp(f)
      PROVE  Submitted'
    BY <1>16 DEF GiveUp, Drop, Left, AtFinding, Tell, watch, daemon, IInv, Submitted, Known
<1>17. ASSUME NEW f \in todo, Wait(f)
      PROVE  Submitted'
    BY <1>17 DEF Wait, Drop, Left, Open, AtFinding, watch, daemon, IInv, Submitted, Known
<1>18. ASSUME NEW f \in todo, Doubt(f)
      PROVE  Submitted'
    BY <1>18 DEF Doubt, Drop, Left, Open, AtFinding, Tell, watch, daemon, IInv, Submitted, Known
<1>19. ASSUME NEW f \in todo, Resume(f)
      PROVE  Submitted'
    BY <1>19 DEF Resume, Due, Open, AtFinding, watch, daemon, IInv, Submitted, Known
<1>20. ASSUME NEW f \in todo, Reserve(f)
      PROVE  Submitted'
    BY <1>20 DEF Reserve, Due, Open, AtFinding, Verdict, watch, daemon, IInv, Submitted, Known
<1>21. CASE ObligeFails
    BY <1>21 DEF ObligeFails, watch, daemon, IInv, Submitted, Known
<1>22. CASE HandOff
    BY <1>22 DEF HandOff, watch, daemon, IInv, Submitted, Known
<1>23. CASE Crash
    BY <1>23 DEF Crash, watch, daemon, IInv, Submitted, Known
<1>24. CASE Restart
    BY <1>24 DEF Restart, Recovered, Active, watch, daemon, IInv, Submitted, Known
<1>25. CASE GoBlind
    BY <1>25 DEF GoBlind, watch, daemon, IInv, Submitted, Known
<1>26. CASE Sighted
    BY <1>26 DEF Sighted, watch, daemon, IInv, Submitted, Known
<1>27. ASSUME NEW x \in Runs, BrokerCommits(x)
      PROVE  Submitted'
    BY <1>27 DEF BrokerCommits, watch, daemon, IInv, Submitted, Known
<1>28. ASSUME NEW x \in Runs, BrokerEnds(x)
      PROVE  Submitted'
    BY <1>28 DEF BrokerEnds, watch, daemon, IInv, Types, RowsOf, Commands, Submitted, TickWell, Known,
       Goals, NoOne
<1>29. ASSUME NEW x \in Runs, WorkerRecords(x)
      PROVE  Submitted'
    BY <1>29 DEF WorkerRecords, Active, watch, daemon, IInv, Submitted, Known
<1>30. ASSUME NEW x \in Runs, CloseObligation(x)
      PROVE  Submitted'
    BY <1>30 DEF CloseObligation, watch, daemon, IInv, Submitted, Known
<1>31. ASSUME NEW x \in Runs, OwnerContinue(x)
      PROVE  Submitted'
    BY <1>31 DEF OwnerContinue, Active, watch, daemon, IInv, Submitted, Known
<1>32. ASSUME NEW x \in Runs, Cool(x)
      PROVE  Submitted'
    BY <1>32 DEF Cool, watch, daemon, IInv, Submitted, Known
<1>33. CASE UNCHANGED vars
    BY <1>33 DEF vars, watch, daemon, IInv, Submitted, Known
<1>34. QED BY <1>1, <1>2, <1>3, <1>4, <1>5, <1>6, <1>7, <1>8, <1>9, <1>10, <1>11, <1>12, <1>13, <1>14,
   <1>15, <1>16, <1>17, <1>18, <1>19, <1>20, <1>21, <1>22, <1>23, <1>24, <1>25, <1>26, <1>27, <1>28,
   <1>29, <1>30, <1>31, <1>32, <1>33 DEF Next, Tick, Thread

\* Every step keeps what the tick has taken up from running.
LEMMA TickKept ==
    ASSUME IInv, [Next]_vars, Types'
    PROVE  TickWell'
<1>1. CASE Monitor
    BY <1>1 DEF Monitor, Left, watch, daemon, IInv, TickWell, Over, Starting
<1>2. CASE Oblige
    BY <1>2 DEF Oblige, watch, daemon, IInv, TickWell, Over, Starting
<1>3. CASE Settle
    BY <1>3 DEF Settle, Left, watch, daemon, IInv, TickWell, Over, Starting
<1>4. CASE Observe
    BY <1>4 DEF Observe, Left, Synced, watch, daemon, IInv, TickWell, Over, Starting
<1>5. CASE NoteAttempt
    BY <1>5 DEF NoteAttempt, Onward, watch, daemon, IInv, TickWell, Over, Starting
<1>6. CASE Reconcile
    BY <1>6 DEF Reconcile, Onward, watch, daemon, IInv, Types, RowsOf, Commands, TickWell, Apart, Over,
       Starting, Goals, NoOne, Ended
<1>7. CASE CloseLost
    BY <1>7 DEF CloseLost, Onward, watch, daemon, IInv, TickWell, Over, Starting
<1>8. CASE Pend
    BY <1>8 DEF Pend, Onward, watch, daemon, IInv, TickWell, Over, Starting
<1>9. CASE TellPending
    BY <1>9 DEF TellPending, Onward, Tell, watch, daemon, IInv, TickWell, Over, Starting
<1>10. CASE Submit
    BY <1>10 DEF Submit, Onward, Drop, Left, Identity, watch, daemon, IInv, TickWell, Over, Starting
<1>11. CASE Mark
    BY <1>11 DEF Mark, Onward, watch, daemon, IInv, TickWell, Over, Starting
<1>12. CASE Record
    BY <1>12 DEF Record, Drop, Left, Tell, watch, daemon, IInv, TickWell, Over, Starting
<1>13. ASSUME NEW f \in todo, Launch(f)
      PROVE  TickWell'
    BY <1>13 DEF Launch, Valid, CanStart, watch, daemon, IInv, Types, RowsOf, Commands, TickWell, Apart,
       Over, Starting, Goals, NoOne, Ended
<1>14. ASSUME NEW f \in todo, Refuse(f)
      PROVE  TickWell'
    BY <1>14 DEF Refuse, Left, Valid, watch, daemon, IInv, TickWell, Over, Starting
<1>15. ASSUME NEW f \in todo, Supersede(f)
      PROVE  TickWell'
    BY <1>15 DEF Supersede, Drop, Left, AtFinding, Tell, watch, daemon, IInv, TickWell, Over, Starting
<1>16. ASSUME NEW f \in todo, GiveUp(f)
      PROVE  TickWell'
    BY <1>16 DEF GiveUp, Drop, Left, AtFinding, Tell, watch, daemon, IInv, TickWell, Over, Starting
<1>17. ASSUME NEW f \in todo, Wait(f)
      PROVE  TickWell'
    BY <1>17 DEF Wait, Drop, Left, Open, AtFinding, watch, daemon, IInv, TickWell, Over, Starting
<1>18. ASSUME NEW f \in todo, Doubt(f)
      PROVE  TickWell'
    BY <1>18 DEF Doubt, Drop, Left, Open, AtFinding, Tell, watch, daemon, IInv, TickWell, Over, Starting
<1>19. ASSUME NEW f \in todo, Resume(f)
      PROVE  TickWell'
    BY <1>19 DEF Resume, Due, Open, AtFinding, watch, daemon, IInv, Types, RowsOf, Commands, TickWell,
       Apart, Over, Starting, Goals, NoOne, Ended
<1>20. ASSUME NEW f \in todo, Reserve(f)
      PROVE  TickWell'
    BY <1>20 DEF Reserve, Due, Open, AtFinding, Verdict, watch, daemon, IInv, Types, RowsOf, Commands,
       TickWell, Apart, Over, Starting, Goals, NoOne, Ended
<1>21. CASE ObligeFails
    BY <1>21 DEF ObligeFails, watch, daemon, IInv, TickWell, Over, Starting
<1>22. CASE HandOff
    BY <1>22 DEF HandOff, watch, daemon, IInv, TickWell, Over, Starting
<1>23. CASE Crash
    BY <1>23 DEF Crash, watch, daemon, IInv, TickWell, Over, Starting
<1>24. CASE Restart
    BY <1>24 DEF Restart, Recovered, Active, watch, daemon, IInv, TickWell, Over, Starting
<1>25. CASE GoBlind
    BY <1>25 DEF GoBlind, watch, daemon, IInv, TickWell, Over, Starting
<1>26. CASE Sighted
    BY <1>26 DEF Sighted, watch, daemon, IInv, TickWell, Over, Starting
<1>27. ASSUME NEW x \in Runs, BrokerCommits(x)
      PROVE  TickWell'
    BY <1>27 DEF BrokerCommits, watch, daemon, IInv, TickWell, Over, Starting
<1>28. ASSUME NEW x \in Runs, BrokerEnds(x)
      PROVE  TickWell'
    BY <1>28 DEF BrokerEnds, watch, daemon, IInv, Types, RowsOf, Commands, TickWell, Apart, Over,
       Starting, Goals, NoOne, Ended
<1>29. ASSUME NEW x \in Runs, WorkerRecords(x)
      PROVE  TickWell'
    BY <1>29 DEF WorkerRecords, Active, watch, daemon, IInv, TickWell, Over, Starting
<1>30. ASSUME NEW x \in Runs, CloseObligation(x)
      PROVE  TickWell'
    BY <1>30 DEF CloseObligation, watch, daemon, IInv, TickWell, Over, Starting
<1>31. ASSUME NEW x \in Runs, OwnerContinue(x)
      PROVE  TickWell'
    BY <1>31 DEF OwnerContinue, Active, watch, daemon, IInv, TickWell, Over, Starting
<1>32. ASSUME NEW x \in Runs, Cool(x)
      PROVE  TickWell'
    BY <1>32 DEF Cool, watch, daemon, IInv, TickWell, Over, Starting
<1>33. CASE UNCHANGED vars
    BY <1>33 DEF vars, watch, daemon, IInv, TickWell, Over, Starting
<1>34. QED BY <1>1, <1>2, <1>3, <1>4, <1>5, <1>6, <1>7, <1>8, <1>9, <1>10, <1>11, <1>12, <1>13, <1>14,
   <1>15, <1>16, <1>17, <1>18, <1>19, <1>20, <1>21, <1>22, <1>23, <1>24, <1>25, <1>26, <1>27, <1>28,
   <1>29, <1>30, <1>31, <1>32, <1>33 DEF Next, Tick, Thread

\* Every step keeps a run that is over from running again.
LEMMA ApartKept ==
    ASSUME IInv, [Next]_vars, Types'
    PROVE  Apart'
<1>1. CASE Monitor
    BY <1>1 DEF Monitor, Left, watch, daemon, IInv, Apart, Known, Over, Starting
<1>2. CASE Oblige
    BY <1>2 DEF Oblige, watch, daemon, IInv, Apart, Known, Over, Starting
<1>3. CASE Settle
    BY <1>3 DEF Settle, Left, watch, daemon, IInv, Types, RowsOf, Commands, TickWell, Apart, Submitted,
       Known, Over, Starting, Goals, Ended
<1>4. CASE Observe
    BY <1>4 DEF Observe, Left, Synced, watch, daemon, IInv, Apart, Known, Over, Starting
<1>5. CASE NoteAttempt
    BY <1>5 DEF NoteAttempt, Onward, watch, daemon, IInv, Apart, Known, Over, Starting
<1>6. CASE Reconcile
    BY <1>6 DEF Reconcile, Onward, watch, daemon, IInv, Types, RowsOf, Commands, TickWell, Apart,
       Submitted, Known, Over, Starting, Goals, Ended
<1>7. CASE CloseLost
    BY <1>7 DEF CloseLost, Onward, watch, daemon, IInv, Apart, Known, Over, Starting
<1>8. CASE Pend
    BY <1>8 DEF Pend, Onward, watch, daemon, IInv, Types, RowsOf, Commands, TickWell, Apart, Submitted,
       Known, Over, Starting, Goals, Ended
<1>9. CASE TellPending
    BY <1>9 DEF TellPending, Onward, Tell, watch, daemon, IInv, Apart, Known, Over, Starting
<1>10. CASE Submit
    <2>1. Over(cur.run) /\ cur.run \in Runs /\ UNCHANGED <<rows, broker>> /\ pc' \in {"mark", "trigger", "idle"}
        BY <1>10 DEF Submit, Onward, Drop, Left, IInv, TickWell
    <2>2. \A x \in Runs : Over(x) => Over(x)'
        BY <2>1 DEF Over, Starting
    <2>3. \A x \in Runs : slot'[x] = "pending" => slot[x] = "pending"
        BY <1>10, <2>1 DEF Submit, IInv, Types
    <2>4. cmds' = cmds \/ cmds' = [cmds EXCEPT ![Recovery[cur.run]] = [st |-> "queued", exp |-> Identity]]
        BY <1>10 DEF Submit
    <2>5. \A y \in Runs : Known(y)' => Known(y) \/ y = Recovery[cur.run]
        BY <2>4 DEF Known, IInv, Types
    <2>6. \A x \in Runs : Recovery[x] # None /\ Known(Recovery[x])' => Over(x)
        BY <2>1, <2>5, RecoveryAssumption DEF IInv, Apart
    <2>7. QED BY <2>2, <2>3, <2>6 DEF IInv, Apart
<1>11. CASE Mark
    BY <1>11 DEF Mark, Onward, watch, daemon, IInv, Apart, Known, Over, Starting
<1>12. CASE Record
    BY <1>12 DEF Record, Drop, Left, Tell, watch, daemon, IInv, Apart, Known, Over, Starting
<1>13. ASSUME NEW f \in todo, Launch(f)
      PROVE  Apart'
    BY <1>13 DEF Launch, Valid, CanStart, watch, daemon, IInv, Apart, Known, Over, Starting
<1>14. ASSUME NEW f \in todo, Refuse(f)
      PROVE  Apart'
    BY <1>14 DEF Refuse, Left, Valid, watch, daemon, IInv, Types, RowsOf, Commands, TickWell, Apart,
       Submitted, Known, Over, Starting, Goals, Ended
<1>15. ASSUME NEW f \in todo, Supersede(f)
      PROVE  Apart'
    BY <1>15 DEF Supersede, Drop, Left, AtFinding, Tell, watch, daemon, IInv, Apart, Known, Over,
       Starting
<1>16. ASSUME NEW f \in todo, GiveUp(f)
      PROVE  Apart'
    BY <1>16 DEF GiveUp, Drop, Left, AtFinding, Tell, watch, daemon, IInv, Apart, Known, Over, Starting
<1>17. ASSUME NEW f \in todo, Wait(f)
      PROVE  Apart'
    BY <1>17 DEF Wait, Drop, Left, Open, AtFinding, watch, daemon, IInv, Apart, Known, Over, Starting
<1>18. ASSUME NEW f \in todo, Doubt(f)
      PROVE  Apart'
    BY <1>18 DEF Doubt, Drop, Left, Open, AtFinding, Tell, watch, daemon, IInv, Apart, Known, Over,
       Starting
<1>19. ASSUME NEW f \in todo, Resume(f)
      PROVE  Apart'
    BY <1>19 DEF Resume, Due, Open, AtFinding, watch, daemon, IInv, Apart, Known, Over, Starting
<1>20. ASSUME NEW f \in todo, Reserve(f)
      PROVE  Apart'
    BY <1>20 DEF Reserve, Due, Open, AtFinding, Verdict, watch, daemon, IInv, Apart, Known, Over,
       Starting
<1>21. CASE ObligeFails
    BY <1>21 DEF ObligeFails, watch, daemon, IInv, Apart, Known, Over, Starting
<1>22. CASE HandOff
    BY <1>22 DEF HandOff, watch, daemon, IInv, Apart, Known, Over, Starting
<1>23. CASE Crash
    BY <1>23 DEF Crash, watch, daemon, IInv, Apart, Known, Over, Starting
<1>24. CASE Restart
    BY <1>24 DEF Restart, Recovered, Active, watch, daemon, IInv, Apart, Known, Over, Starting
<1>25. CASE GoBlind
    BY <1>25 DEF GoBlind, watch, daemon, IInv, Apart, Known, Over, Starting
<1>26. CASE Sighted
    BY <1>26 DEF Sighted, watch, daemon, IInv, Apart, Known, Over, Starting
<1>27. ASSUME NEW x \in Runs, BrokerCommits(x)
      PROVE  Apart'
    BY <1>27 DEF BrokerCommits, watch, daemon, IInv, Apart, Known, Over, Starting
<1>28. ASSUME NEW x \in Runs, BrokerEnds(x)
      PROVE  Apart'
    BY <1>28 DEF BrokerEnds, watch, daemon, IInv, Types, RowsOf, Commands, TickWell, Apart, Submitted,
       Known, Over, Starting, Goals, Ended
<1>29. ASSUME NEW x \in Runs, WorkerRecords(x)
      PROVE  Apart'
    BY <1>29 DEF WorkerRecords, Active, watch, daemon, IInv, Apart, Known, Over, Starting
<1>30. ASSUME NEW x \in Runs, CloseObligation(x)
      PROVE  Apart'
    BY <1>30 DEF CloseObligation, watch, daemon, IInv, Apart, Known, Over, Starting
<1>31. ASSUME NEW x \in Runs, OwnerContinue(x)
      PROVE  Apart'
    <2>1. x \in Range(Owners)
        BY <1>31 DEF OwnerContinue, Range
    <2>2. \A y \in Runs : Recovery[y] # x
        BY <2>1, RecoveryAssumption, OwnersAssumption
    <2>3. \A y \in Runs : y # x /\ Known(y)' => Known(y)
        BY <1>31 DEF OwnerContinue, Known, IInv, Types
    <2>4. UNCHANGED <<rows, broker, slot, pc, cur>>
        BY <1>31 DEF OwnerContinue, watch, daemon
    <2>5. \A y \in Runs : Over(y)' <=> Over(y)
        BY <2>4 DEF Over, Starting
    <2>6. QED BY <2>2, <2>3, <2>4, <2>5, RecoveryAssumption DEF IInv, Apart
<1>32. ASSUME NEW x \in Runs, Cool(x)
      PROVE  Apart'
    BY <1>32 DEF Cool, watch, daemon, IInv, Apart, Known, Over, Starting
<1>33. CASE UNCHANGED vars
    BY <1>33 DEF vars, watch, daemon, IInv, Apart, Known, Over, Starting
<1>34. QED BY <1>1, <1>2, <1>3, <1>4, <1>5, <1>6, <1>7, <1>8, <1>9, <1>10, <1>11, <1>12, <1>13, <1>14,
   <1>15, <1>16, <1>17, <1>18, <1>19, <1>20, <1>21, <1>22, <1>23, <1>24, <1>25, <1>26, <1>27, <1>28,
   <1>29, <1>30, <1>31, <1>32, <1>33 DEF Next, Tick, Thread

LEMMA InitInvariant == Init => IInv
    BY InitTypes, RecoveryAssumption DEF Init, IInv, Submitted, TickWell, Apart, Known, NoCmd

\* The Broker knows only submitted commands, and a recovery is submitted only for a run that is over and
\* reconciled, wherever the daemon dies between the four files.
THEOREM Invariance == Spec => []IInv
<1>1. IInv /\ [Next]_vars => IInv'
    BY TypesKept, SubmittedKept, TickKept, ApartKept DEF IInv
<1>2. QED BY InitInvariant, <1>1, PTL DEF Spec

\* A run is replaced only when it is over (_trigger_execution_loss_recovery, reconcile_execution_loss).
THEOREM NeverTwice == Spec => []ReplacedIsDead
<1>1. IInv => ReplacedIsDead
    BY RecoveryAssumption DEF IInv, Submitted, Apart, Over, Known, ReplacedIsDead
<1>2. QED BY Invariance, <1>1, PTL

--------------------------------------------------------------------------------
(* What becomes of a lost run: its findings are kept, and its recovery works on its task. *)

\* A run that was launched: a row that only refuses its command has no task.
Launched(x) == rows[x].task # 0
Lost(x)     == rows[x].st \in {"recovery_required", "reconciled"}

FindingsOf == [code : {"vanished", "silent"},
               st   : {"candidate", "open", "suppressed", "actionable", "unknown", "reserved", "recovering",
                       "pending", "resolved", "escalated"},
               conf : Nat, tries : Nat]
RecordsOf  == [phase : {"none", "open", "terminal"}, out : States, finds : Seq(FindingsOf)]

\* A row has the task its command expected.  As long as HEAD is where it was launched, so is the task.
RowWell(x) ==
    /\ Launched(x) =>
        /\ rows[x].st # "none" /\ Known(x) /\ cmds[x].exp[1] = rows[x].task
        /\ rows[x].task <= repo.task /\ rows[x].head <= repo.head
        /\ rows[x].head = repo.head => rows[x].task = repo.task
    /\ ~Launched(x) =>
        /\ rows[x].st \in {"none", "blocked"} /\ broker[x] = "none"
        /\ lineage[x] = NoRecord /\ x \notin owed

\* The task is handed on only after a commit that no launch has seen.
Finishing(x) == rows[x].st = "completed" \/ (Active(x) /\ broker[x] = "succeeded")
HandedOn ==
    \A x, y \in Runs : Launched(x) /\ rows[x].task = repo.task /\ Finishing(x) /\ Launched(y)
        => rows[y].head < repo.head

\* A recovery is submitted for the task of the run it replaces.
Expecting ==
    \A x \in Runs : Recovery[x] # None /\ Known(Recovery[x]) => cmds[Recovery[x]].exp[1] = rows[x].task

\* Lineage and ledger agree on how a run ended, and findings are only of runs that are lost or ended.
RecordWell(x) ==
    /\ lineage[x].phase = "none" => lineage[x] = NoRecord
    /\ lineage[x].phase = "terminal" => lineage[x].out = rows[x].st /\ rows[x].st \in Ended \cup {"reconciled"}
    /\ rows[x].st = "blocked" => lineage[x] = NoRecord
    /\ x \in owed => rows[x].st \in Ended
    /\ Recovery[x] = None => DOMAIN lineage[x].finds = {}
    /\ Vanished(x) # {} => Lost(x) \/ rows[x].st \in Ended

StartWell ==
    \A x \in Runs : Starting(x) => rows[x].st = "active" /\ broker[x] = "none" /\ lineage[x] = NoRecord

LineageTypes == lineage \in [Runs -> RecordsOf] /\ owed \subseteq Runs
RowsWell     == \A x \in Runs : RowWell(x)
LineageWell  == \A x \in Runs : RecordWell(x)
Ledger == repo.task # 0 /\ LineageTypes /\ RowsWell /\ HandedOn /\ Expecting /\ LineageWell /\ StartWell

\* What LossKept says of a reconciled run, and the tick keeps of each run it has in its hands.
Kept(x) ==
    /\ Vanished(x) # {}
    /\ Unsettled(x) = {} => repo.task # rows[x].task \/ (Recovery[x] # None /\ Terminal(Recovery[x]))

Acting   == {"note", "reconcile", "close", "pend", "tell", "submit", "mark", "record"}
Handling == {"trigger"} \cup Acting
InHand(f) == Lost(f.run) /\ Kept(f.run)
Holding ==
    /\ pc \in Handling => raw.task = repo.task /\ \A f \in todo : InHand(f)
    /\ pc \in Acting => InHand(cur) /\ rows[cur.run].task = raw.task

\* The inductive invariant, with IInv.
LossInv == Ledger /\ LossKept /\ Holding

\* What a step leaves of the findings of a run, and what it comes to.
Grown(x) ==
    /\ DOMAIN lineage[x].finds \subseteq DOMAIN lineage'[x].finds
    /\ \A i \in DOMAIN lineage[x].finds :
        /\ lineage'[x].finds[i].code = lineage[x].finds[i].code
        /\ lineage'[x].finds[i].st = "resolved" =>
            \/ lineage[x].finds[i].st = "resolved" \/ repo.task # rows[x].task
            \/ Recovery[x] # None /\ lineage'[Recovery[x]].phase = "terminal"
Steady ==
    /\ repo'.task >= repo.task
    /\ \A x \in Runs : Terminal(x) => lineage'[x].phase = "terminal"
    /\ \A x \in Runs : Lost(x) =>
        /\ rows'[x].st \in {"recovery_required", "reconciled"} /\ rows'[x].task = rows[x].task
        /\ Grown(x)
    /\ \A x \in Runs : rows'[x].st = "reconciled" => rows[x].st = "reconciled" \/ (pc \in Acting /\ x = cur.run)
Good == Ledger' /\ Steady

--------------------------------------------------------------------------------
(* The kinds of steps. *)

LEMMA OpenedWell ==
    LET r == [NoRecord EXCEPT !.phase = "open"] IN r \in RecordsOf /\ r.phase = "open" /\ r.finds = <<>>
<1>1. [NoRecord EXCEPT !.phase = "open"] = [phase |-> "open", out |-> "none", finds |-> <<>>]
    BY DEF NoRecord
<1>2. <<>> \in Seq(FindingsOf)
    OBVIOUS
<1>3. QED BY <1>1, <1>2 DEF RecordsOf, States

LEMMA Recoveries == \A x \in Runs : Recovery[x] # None => Recovery[x] \in Runs
    BY RecoveryAssumption

\* Only a launch begins to oblige.
NoStart == \A x \in Runs : Starting(x)' => Starting(x)

\* A step that leaves ledger, lineage, Broker, repository and inbox alone.
Still == UNCHANGED <<repo, rows, broker, lineage, cmds>> /\ owed' \subseteq owed /\ NoStart

LEMMA StillGood ==
    ASSUME IInv, Ledger, Still
    PROVE  Good
<1>1. RowsWell'
    BY DEF Ledger, Still, RowsWell, RowWell, Launched, Known
<1>2. HandedOn' /\ Expecting'
    BY DEF Ledger, Still, HandedOn, Finishing, Active, Launched, Expecting, Known
<1>3. LineageWell'
    BY DEF Ledger, Still, LineageWell, RecordWell, Vanished, Lost
<1>4. StartWell' /\ LineageTypes' /\ repo'.task # 0
    BY DEF Ledger, Still, NoStart, StartWell, LineageTypes
<1>5. Steady
    BY DEF Still, Steady, Grown, Terminal, Lost, IInv, Types
<1>6. QED BY <1>1, <1>2, <1>3, <1>4, <1>5 DEF Good, Ledger

\* A step that writes what is known of one run to its lineage record.
Noted(x, r) ==
    /\ DOMAIN r.finds = DOMAIN lineage[x].finds
    /\ \A i \in DOMAIN r.finds :
        /\ r.finds[i].code = lineage[x].finds[i].code
        /\ r.finds[i].st = "resolved" => lineage[x].finds[i].st = "resolved" \/ repo.task # rows[x].task
    /\ \/ lineage[x].phase # "none" /\ r.phase = lineage[x].phase /\ r.out = lineage[x].out
       \/ r.phase = "terminal" /\ r.out = rows[x].st /\ r.out \in Ended \cup {"reconciled"}
Notes ==
    /\ UNCHANGED <<repo, rows, broker, cmds>> /\ owed' \subseteq owed /\ NoStart
    /\ \E x \in Runs, r \in RecordsOf :
        (Lost(x) \/ rows[x].st \in Ended) /\ Noted(x, r) /\ lineage' = [lineage EXCEPT ![x] = r]

LEMMA NotesGood ==
    ASSUME IInv, Ledger, Notes
    PROVE  Good
<1>1. PICK x \in Runs, r \in RecordsOf :
        (Lost(x) \/ rows[x].st \in Ended) /\ Noted(x, r) /\ lineage' = [lineage EXCEPT ![x] = r]
    BY DEF Notes
<1>2. lineage'[x] = r /\ \A y \in Runs : y # x => lineage'[y] = lineage[y]
    BY <1>1 DEF Ledger, LineageTypes
<1>3. Launched(x) /\ rows[x].st \notin {"none", "blocked", "active"}
    BY <1>1 DEF Ledger, RowsWell, RowWell, Lost, Ended
<1>4. RowsWell'
    BY <1>2, <1>3 DEF Notes, Ledger, RowsWell, RowWell, Launched, Known
<1>5. HandedOn' /\ Expecting'
    BY DEF Ledger, Notes, HandedOn, Finishing, Active, Launched, Expecting, Known
<1>6. LineageWell'
    <2>1. RecordWell(x)'
        BY <1>1, <1>2, <1>3 DEF Notes, Ledger, LineageWell, RecordWell, Vanished, Lost, Noted
    <2>2. ASSUME NEW y \in Runs, y # x
          PROVE  RecordWell(y)'
        BY <1>2, <2>2 DEF Notes, Ledger, LineageWell, RecordWell, Vanished, Lost
    <2>3. QED BY <2>1, <2>2 DEF LineageWell
<1>7. StartWell'
    BY <1>2, <1>3 DEF Notes, NoStart, Ledger, StartWell
<1>8. LineageTypes' /\ repo'.task # 0
    BY <1>1 DEF Notes, Ledger, LineageTypes
<1>9. Steady
    <2>1. \A y \in Runs : Terminal(y) => lineage'[y].phase = "terminal"
        BY <1>1, <1>2 DEF Terminal, Noted
    <2>2. Grown(x)
        BY <1>1, <1>2 DEF Noted, Grown
    <2>3. \A y \in Runs : y # x => Grown(y)
        BY <1>2 DEF Grown
    <2>4. QED BY <2>1, <2>2, <2>3 DEF Notes, Steady, Lost, IInv, Types
<1>10. QED BY <1>4, <1>5, <1>6, <1>7, <1>8, <1>9 DEF Good, Ledger

\* A step that moves commands on, and refuses some in the ledger.
Refused == \A x \in Runs : rows'[x] = rows[x] \/ (rows[x].st = "none" /\ rows'[x] = [rows[x] EXCEPT !.st = "blocked"])
CmdsMove ==
    /\ UNCHANGED <<repo, broker, lineage, owed>> /\ NoStart /\ Refused
    /\ \A x \in Runs : (Known(x) => Known(x)' /\ cmds'[x].exp = cmds[x].exp)
    /\ \A x \in Runs : Recovery[x] # None /\ ~Known(Recovery[x]) /\ Known(Recovery[x])'
         => cmds'[Recovery[x]].exp[1] = rows[x].task

LEMMA CmdsGood ==
    ASSUME IInv, IInv', Ledger, CmdsMove
    PROVE  Good
<1>1. \A x \in Runs : rows[x].st = "none" => ~Launched(x) /\ lineage[x] = NoRecord
    BY DEF Ledger, RowsWell, RowWell
<1>2. \A x \in Runs : rows'[x].task = rows[x].task /\ rows'[x].head = rows[x].head
    BY DEF CmdsMove, Refused, IInv, Types, RowsOf
<1>3. \A x \in Runs : rows'[x] = rows[x] \/ (rows[x].st = "none" /\ rows'[x].st = "blocked")
    BY DEF CmdsMove, Refused, IInv, Types, RowsOf
<1>4. RowsWell'
    BY <1>1, <1>2, <1>3 DEF CmdsMove, Ledger, RowsWell, RowWell, Launched, Known
<1>5. HandedOn'
    BY <1>1, <1>2, <1>3 DEF CmdsMove, Ledger, HandedOn, Finishing, Active, Launched
<1>6. Expecting'
    BY <1>2, Recoveries DEF CmdsMove, Ledger, Expecting, Known
<1>7. LineageWell'
    BY <1>1, <1>3 DEF CmdsMove, Ledger, LineageWell, RecordWell, Vanished, Lost, Ended, NoRecord
<1>8. StartWell' /\ LineageTypes' /\ repo'.task # 0
    BY <1>3 DEF CmdsMove, NoStart, Ledger, StartWell, LineageTypes
<1>9. Steady
    <2>1. \A x \in Runs : rows'[x].st = "reconciled" => rows[x].st = "reconciled"
        BY <1>3
    <2>2. \A x \in Runs : Lost(x) => rows'[x] = rows[x]
        BY <1>3 DEF Lost
    <2>3. \A x \in Runs : Grown(x)
        BY DEF CmdsMove, Grown
    <2>4. QED BY <2>1, <2>2, <2>3 DEF CmdsMove, Steady, Terminal, Lost, IInv, Types
<1>10. QED BY <1>4, <1>5, <1>6, <1>7, <1>8, <1>9 DEF Good, Ledger

--------------------------------------------------------------------------------
(* The steps that move the ledger, the Broker or the repository. *)

LEMMA LaunchGood ==
    ASSUME IInv, IInv', Ledger, NEW f \in todo, Launch(f)
    PROVE  Good
<1> DEFINE c == f.run
           row == [st |-> "active", task |-> repo.task, head |-> repo.head]
<1>1. c \in Runs /\ Known(c) /\ rows[c].st = "none" /\ cmds[c].exp[1] = repo.task
    BY DEF Launch, Valid, CanStart, Identity, IInv, Types, Submitted, Goals
<1>2. ~Launched(c) /\ broker[c] = "none" /\ lineage[c] = NoRecord /\ c \notin owed
    BY <1>1 DEF Ledger, RowsWell, RowWell
<1>3. rows'[c] = row /\ \A y \in Runs : y # c => rows'[y] = rows[y]
    BY <1>1 DEF Launch, IInv, Types
<1>4. UNCHANGED <<repo, broker, lineage, owed, cmds>> /\ pc' = "oblige" /\ cur' = f
    BY DEF Launch
<1>5. \A x \in Runs : ~Active(x) /\ ~(rows[x].st = "completed" /\ rows[x].task = repo.task)
    BY DEF Launch, CanStart, Quiet
<1> HIDE DEF c
<1>6. RowsWell'
    BY <1>1, <1>2, <1>3, <1>4 DEF Ledger, RowsWell, RowWell, Launched, Known, IInv, Types
<1>7. HandedOn'
    BY <1>2, <1>3, <1>4, <1>5 DEF Ledger, HandedOn, Finishing, Active, Launched
<1>8. Expecting'
    <2>1. Recovery[c] = None \/ ~Known(Recovery[c])
        BY <1>1 DEF IInv, Apart, Over
    <2>2. QED BY <2>1, <1>3, <1>4 DEF Ledger, Expecting, Known
<1>9. LineageWell'
    BY <1>2, <1>3, <1>4 DEF Ledger, LineageWell, RecordWell, Vanished, Lost, NoRecord, Ended
<1>10. StartWell' /\ LineageTypes' /\ repo'.task # 0
    BY <1>2, <1>3, <1>4 DEF Ledger, StartWell, Starting, LineageTypes, c
<1>11. Steady
    BY <1>1, <1>3, <1>4 DEF Steady, Grown, Terminal, Lost, IInv, Types
<1>12. QED BY <1>6, <1>7, <1>8, <1>9, <1>10, <1>11 DEF Good, Ledger

LEMMA ObligeGood ==
    ASSUME IInv, IInv', Ledger, Oblige
    PROVE  Good
<1> DEFINE c == cur.run
           r == [NoRecord EXCEPT !.phase = "open"]
<1>1. c \in Runs /\ Starting(c)
    BY DEF Oblige, Starting, IInv, TickWell
<1>2. rows[c].st = "active" /\ broker[c] = "none" /\ lineage[c] = NoRecord
    BY <1>1 DEF Ledger, StartWell
<1>3. Launched(c) /\ c \notin owed
    BY <1>1, <1>2 DEF Ledger, RowsWell, RowWell, LineageWell, RecordWell, Ended
<1>4. r \in RecordsOf /\ r.phase = "open" /\ r.finds = <<>>
    BY OpenedWell
<1> HIDE DEF r
<1>5. lineage' = [lineage EXCEPT ![c] = r] /\ broker' = [broker EXCEPT ![c] = "running"]
    BY DEF Oblige, r
<1>6. UNCHANGED <<repo, rows, cmds, owed>> /\ pc' = "settle"
    BY DEF Oblige
<1> HIDE DEF c
<1>7. /\ lineage'[c] = r /\ \A y \in Runs : y # c => lineage'[y] = lineage[y]
      /\ broker'[c] = "running" /\ \A y \in Runs : y # c => broker'[y] = broker[y]
    BY <1>1, <1>5 DEF Ledger, LineageTypes, IInv, Types
<1>8. RowsWell'
    BY <1>3, <1>6, <1>7 DEF Ledger, RowsWell, RowWell, Launched, Known
<1>9. HandedOn' /\ Expecting'
    BY <1>6, <1>7 DEF Ledger, HandedOn, Finishing, Active, Launched, Expecting, Known
<1>10. LineageWell'
    BY <1>2, <1>3, <1>4, <1>6, <1>7 DEF Ledger, LineageWell, RecordWell, Vanished, Lost
<1>11. StartWell' /\ LineageTypes' /\ repo'.task # 0
    BY <1>4, <1>5, <1>6 DEF Ledger, StartWell, Starting, LineageTypes
<1>12. Steady
    BY <1>2, <1>6, <1>7 DEF Steady, Grown, Terminal, Lost, NoRecord, IInv, Types
<1>13. QED BY <1>8, <1>9, <1>10, <1>11, <1>12 DEF Good, Ledger

LEMMA ObligeFailsGood ==
    ASSUME IInv, IInv', Ledger, ObligeFails
    PROVE  Good
<1> DEFINE c == cur.run
<1>1. c \in Runs /\ Starting(c)
    BY DEF ObligeFails, Starting, IInv, TickWell
<1>2. rows[c].st = "active" /\ broker[c] = "none" /\ lineage[c] = NoRecord
    BY <1>1 DEF Ledger, StartWell
<1>3. Launched(c) /\ c \notin owed
    BY <1>1, <1>2 DEF Ledger, RowsWell, RowWell, LineageWell, RecordWell, Ended
<1>4. UNCHANGED <<repo, broker, lineage, cmds, owed>> /\ pc' = "settle"
    BY DEF ObligeFails
<1>5. rows' = [rows EXCEPT ![c] = [rows[c] EXCEPT !.st = "blocked"]]
    BY DEF ObligeFails
<1> HIDE DEF c
<1>6. /\ rows'[c].st = "blocked" /\ rows'[c].task = rows[c].task /\ rows'[c].head = rows[c].head
      /\ \A y \in Runs : y # c => rows'[y] = rows[y]
    BY <1>1, <1>5 DEF IInv, Types, RowsOf
<1>7. RowsWell'
    BY <1>3, <1>4, <1>6 DEF Ledger, RowsWell, RowWell, Launched, Known
<1>8. HandedOn' /\ Expecting'
    BY <1>4, <1>6 DEF Ledger, HandedOn, Finishing, Active, Launched, Expecting, Known
<1>9. LineageWell'
    BY <1>2, <1>3, <1>4, <1>6 DEF Ledger, LineageWell, RecordWell, Vanished, Lost, NoRecord
<1>10. StartWell' /\ LineageTypes' /\ repo'.task # 0
    BY <1>4 DEF Ledger, StartWell, Starting, LineageTypes
<1>11. Steady
    BY <1>2, <1>4, <1>6 DEF Steady, Grown, Terminal, Lost, IInv, Types
<1>12. QED BY <1>7, <1>8, <1>9, <1>10, <1>11 DEF Good, Ledger

LEMMA WorkerRecordsGood ==
    ASSUME IInv, IInv', Ledger, NEW x \in Runs, WorkerRecords(x)
    PROVE  Good
<1>1. PICK end \in Ended : /\ rows' = [rows EXCEPT ![x] = [rows[x] EXCEPT !.st = end]]
                           /\ end = "completed" => broker[x] = "succeeded"
    BY DEF WorkerRecords, Ended
<1>2. rows[x].st = "active" /\ broker[x] # "none" /\ Launched(x)
    BY DEF WorkerRecords, Active, Ledger, RowsWell, RowWell
<1>3. lineage[x].phase # "terminal" /\ ~Starting(x)
    BY <1>2 DEF Ledger, LineageWell, RecordWell, StartWell, Ended
<1>4. UNCHANGED <<repo, broker, lineage, cmds, pc, cur>> /\ owed' = owed \cup {x}
    BY DEF WorkerRecords, daemon
<1>5. /\ rows'[x].st = end /\ rows'[x].task = rows[x].task /\ rows'[x].head = rows[x].head
      /\ \A y \in Runs : y # x => rows'[y] = rows[y]
    BY <1>1 DEF IInv, Types, RowsOf
<1>6. RowsWell'
    BY <1>2, <1>4, <1>5 DEF Ledger, RowsWell, RowWell, Launched, Known, Ended
<1>7. HandedOn' /\ Expecting'
    BY <1>1, <1>2, <1>4, <1>5 DEF Ledger, HandedOn, Finishing, Active, Launched, Expecting, Known, Ended
<1>8. LineageWell'
    BY <1>2, <1>3, <1>4, <1>5 DEF Ledger, LineageWell, RecordWell, Vanished, Lost, Ended
<1>9. StartWell' /\ LineageTypes' /\ repo'.task # 0
    BY <1>3, <1>4, <1>5 DEF Ledger, StartWell, Starting, LineageTypes
<1>10. Steady
    BY <1>2, <1>4, <1>5 DEF Steady, Grown, Terminal, Lost, Ended, IInv, Types
<1>11. QED BY <1>6, <1>7, <1>8, <1>9, <1>10 DEF Good, Ledger

LEMMA ReconcileGood ==
    ASSUME IInv, IInv', Ledger, Holding, Reconcile
    PROVE  Good
<1> DEFINE c == cur.run
<1>1. c \in Runs /\ Lost(c)
    BY DEF Reconcile, Onward, IInv, TickWell, Holding, Acting, InHand
<1>2. UNCHANGED <<repo, broker, lineage, cmds, owed>> /\ pc' \in {"close", "pend"}
    BY DEF Reconcile, Onward
<1>3. rows' = rows \/ (rows[c].st = "recovery_required" /\ rows' = [rows EXCEPT ![c] = [rows[c] EXCEPT !.st = "reconciled"]])
    BY <1>1 DEF Reconcile, Lost
<1> HIDE DEF c
<1>4. \A y \in Runs : /\ rows'[y].task = rows[y].task /\ rows'[y].head = rows[y].head
                      /\ \/ rows'[y].st = rows[y].st
                         \/ rows[y].st = "recovery_required" /\ rows'[y].st = "reconciled" /\ y = c
    BY <1>1, <1>3 DEF IInv, Types, RowsOf
<1>5. pc \in Acting
    BY DEF Reconcile, Onward, Acting
<1>6. RowsWell'
    BY <1>2, <1>4 DEF Ledger, RowsWell, RowWell, Launched, Known
<1>7. HandedOn' /\ Expecting'
    BY <1>2, <1>4 DEF Ledger, HandedOn, Finishing, Active, Launched, Expecting, Known
<1>8. LineageWell'
    BY <1>2, <1>4 DEF Ledger, LineageWell, RecordWell, Vanished, Lost, Ended
<1>9. StartWell' /\ LineageTypes' /\ repo'.task # 0
    BY <1>2 DEF Ledger, StartWell, Starting, LineageTypes
<1>10. Steady
    BY <1>2, <1>4, <1>5 DEF c, Steady, Grown, Terminal, Lost, IInv, Types
<1>11. QED BY <1>6, <1>7, <1>8, <1>9, <1>10 DEF Good, Ledger

LEMMA HandOffGood ==
    ASSUME IInv, IInv', Ledger, HandOff
    PROVE  Good
<1>1. PICK z \in Runs : rows[z].st = "completed" /\ rows[z].task = repo.task
    BY DEF HandOff
<1>2. \A y \in Runs : Launched(y) => rows[y].head < repo.head
    BY <1>1 DEF Ledger, RowsWell, RowWell, HandedOn, Finishing
<1>3. repo'.task = repo.task + 1 /\ repo'.head = repo.head /\ repo.task \in Nat
    BY DEF HandOff, IInv, Types
<1>4. UNCHANGED <<rows, broker, lineage, owed, cmds, pc, cur>>
    BY DEF HandOff, daemon
<1>5. RowsWell'
    BY <1>2, <1>3, <1>4 DEF Ledger, RowsWell, RowWell, Launched, Known, IInv, Types, RowsOf
<1>6. HandedOn' /\ Expecting'
    BY <1>3, <1>4 DEF Ledger, RowsWell, RowWell, HandedOn, Launched, Expecting, Known, IInv, Types, RowsOf
<1>7. LineageWell'
    BY <1>4 DEF Ledger, LineageWell, RecordWell, Vanished, Lost
<1>8. StartWell' /\ LineageTypes' /\ repo'.task # 0
    BY <1>3, <1>4 DEF Ledger, StartWell, Starting, LineageTypes
<1>9. Steady
    BY <1>3, <1>4 DEF Steady, Grown, Terminal, Lost
<1>10. QED BY <1>5, <1>6, <1>7, <1>8, <1>9 DEF Good, Ledger

\* What an execution does: HEAD moves, or it ends, and moves HEAD when it succeeds.
LEMMA BrokerGood ==
    ASSUME IInv, IInv', Ledger, NEW x \in Runs, BrokerCommits(x) \/ BrokerEnds(x)
    PROVE  Good
<1>1. broker[x] = "running" /\ Launched(x) /\ ~Starting(x)
    BY DEF BrokerCommits, BrokerEnds, Ledger, RowsWell, RowWell, StartWell
<1>2. UNCHANGED <<rows, lineage, owed, cmds, pc, cur>>
    BY DEF BrokerCommits, BrokerEnds, daemon
<1>3. /\ repo'.task = repo.task
      /\ \A y \in Runs : broker'[y] = broker[y] \/ y = x
      /\ \/ repo'.head = repo.head + 1
         \/ repo'.head = repo.head /\ broker'[x] # "succeeded"
    <2>1. CASE BrokerCommits(x)
        BY <2>1 DEF BrokerCommits, IInv, Types
    <2>2. CASE broker' = [broker EXCEPT ![x] = "succeeded"] /\ BrokerEnds(x)
        <3>1. repo' = [repo EXCEPT !.head = @ + 1, !.ready = @ /\ rows[x].task # repo.task]
            BY <2>2 DEF BrokerEnds, IInv, Types
        <3>2. repo'.task = repo.task /\ repo'.head = repo.head + 1
            BY <3>1 DEF IInv, Types
        <3>3. QED BY <2>2, <3>2 DEF IInv, Types
    <2>3. CASE (\E end \in {"failed", "gone"} : broker' = [broker EXCEPT ![x] = end] /\ UNCHANGED repo)
        BY <2>3 DEF IInv, Types
    <2>4. QED BY <2>1, <2>2, <2>3 DEF BrokerEnds
<1>4. RowsWell'
    BY <1>1, <1>2, <1>3 DEF Ledger, RowsWell, RowWell, Launched, Known, IInv, Types, RowsOf
<1>5. HandedOn'
    <2>1. CASE repo'.head = repo.head + 1
        BY <2>1, <1>2 DEF Ledger, RowsWell, RowWell, HandedOn, Launched, IInv, Types, RowsOf
    <2>2. CASE repo'.head = repo.head /\ broker'[x] # "succeeded"
        BY <2>2, <1>2, <1>3 DEF Ledger, HandedOn, Launched, Finishing, Active
    <2>3. QED BY <2>1, <2>2, <1>3
<1>6. Expecting' /\ LineageWell'
    BY <1>2 DEF Ledger, Expecting, Known, LineageWell, RecordWell, Vanished, Lost
<1>7. StartWell' /\ LineageTypes' /\ repo'.task # 0
    BY <1>1, <1>2, <1>3 DEF Ledger, StartWell, Starting, LineageTypes
<1>8. Steady
    BY <1>2, <1>3 DEF Steady, Grown, Terminal, Lost, IInv, Types
<1>9. QED BY <1>4, <1>5, <1>6, <1>7, <1>8 DEF Good, Ledger

LEMMA RestartGood ==
    ASSUME IInv, IInv', Ledger, Restart
    PROVE  Good
<1> DEFINE R(y) == [rows[y] EXCEPT !.st = Recovered(y)]
           L(y) == [lineage[y] EXCEPT !.phase = "terminal", !.out = Recovered(y)]
           Ends(y) == Active(y) /\ Recovered(y) \in Ended /\ lineage[y].phase # "none"
<1>1. UNCHANGED <<repo, broker, owed, cmds>> /\ pc' = "idle"
    BY Zenon DEF Restart
<1>2. /\ rows' = [y \in Runs |-> IF Active(y) THEN R(y) ELSE rows[y]]
      /\ lineage' = [y \in Runs |-> IF Ends(y) THEN L(y) ELSE lineage[y]]
    BY Zenon DEF Restart
<1>3. \A y \in Runs : Active(y) =>
        /\ R(y).st \in {"recovery_required", "completed", "failed"}
        /\ R(y).st = "completed" => broker[y] = "succeeded"
        /\ R(y).task = rows[y].task /\ R(y).head = rows[y].head /\ R(y).st = Recovered(y)
        /\ Launched(y) /\ lineage[y].phase # "terminal" /\ y \notin owed
    <2>1. \A y \in Runs : Recovered(y) \in {"recovery_required", "completed", "failed"}
                          /\ (Recovered(y) = "completed" => broker[y] = "succeeded")
        BY DEF Recovered
    <2>2. \A y \in Runs : Active(y) => Launched(y) /\ lineage[y].phase # "terminal" /\ y \notin owed
        BY DEF Active, Ledger, RowsWell, RowWell, LineageWell, RecordWell, Ended
    <2>3. \A y \in Runs : R(y).st = Recovered(y) /\ R(y).task = rows[y].task /\ R(y).head = rows[y].head
        <3>1. TAKE y \in Runs
        <3>2. rows[y] \in [st : States, task : Nat, head : Nat]
            BY DEF IInv, Types, RowsOf
        <3>3. PICK v : v = Recovered(y)
            OBVIOUS
        <3>4. R(y) = [rows[y] EXCEPT !.st = v]
            BY <3>3, Zenon
        <3>5. QED BY <3>2, <3>3, <3>4
    <2>4. QED BY <2>1, <2>2, <2>3, Zenon
<1>4. \A y \in Runs : Ends(y) =>
        /\ L(y) \in RecordsOf /\ L(y).finds = lineage[y].finds
        /\ L(y).phase = "terminal" /\ L(y).out = Recovered(y) /\ Recovered(y) \in Ended
    <2>1. TAKE y \in Runs
    <2>2. HAVE Ends(y)
    <2>3. lineage[y] \in RecordsOf
        BY DEF Ledger, LineageTypes
    <2>4. PICK v \in Ended : v = Recovered(y)
        BY <2>2
    <2>5. L(y) = [lineage[y] EXCEPT !.phase = "terminal", !.out = v]
        BY <2>4, Zenon
    <2>6. QED BY <2>3, <2>4, <2>5 DEF RecordsOf, Ended, States
<1>5. \A y \in Runs : Ends(y) => Active(y)
    OBVIOUS
<1> HIDE DEF R, L, Ends
<1>6. \A y \in Runs :
        /\ ~Active(y) => rows'[y] = rows[y]
        /\ Active(y) =>
            /\ rows'[y].st \in {"recovery_required", "completed", "failed"}
            /\ rows'[y].st = "completed" => broker[y] = "succeeded"
            /\ rows'[y].task = rows[y].task /\ rows'[y].head = rows[y].head
            /\ Launched(y) /\ lineage[y].phase # "terminal" /\ y \notin owed
    BY <1>2, <1>3
<1>7. \A y \in Runs : /\ lineage'[y] \in RecordsOf /\ lineage'[y].finds = lineage[y].finds
                      /\ \/ lineage'[y] = lineage[y]
                         \/ /\ Active(y) /\ lineage'[y].phase = "terminal" /\ lineage'[y].out = rows'[y].st
                            /\ rows'[y].st \in Ended
    BY <1>2, <1>3, <1>4, <1>5 DEF Ledger, LineageTypes
<1>8. RowsWell'
    BY <1>1, <1>6, <1>7 DEF Ledger, RowsWell, RowWell, Launched, Known, Active
<1>9. HandedOn'
    BY <1>1, <1>6 DEF Ledger, HandedOn, Launched, Finishing, Active
<1>10. Expecting'
    BY <1>1, <1>6 DEF Ledger, Expecting, Known
<1>11. LineageWell'
    BY <1>1, <1>6, <1>7 DEF Ledger, LineageWell, RecordWell, Vanished, Lost, Ended, Active
<1>12. StartWell' /\ LineageTypes' /\ repo'.task # 0
    BY <1>1, <1>2, <1>7 DEF Ledger, StartWell, Starting, LineageTypes
<1>13. Steady
    BY <1>1, <1>6, <1>7 DEF Steady, Grown, Terminal, Lost, Active, Ended, IInv, Types
<1>14. QED BY <1>8, <1>9, <1>10, <1>11, <1>12, <1>13 DEF Good, Ledger

--------------------------------------------------------------------------------
(* What the watchdog makes of a record. *)

LEMMA AdoptedWell ==
    ASSUME IInv, Ledger, NEW x \in Runs
    PROVE  /\ Adopted(x) \in RecordsOf /\ Adopted(x).finds = lineage[x].finds
           /\ ~Active(x) /\ lineage[x] = NoRecord => Adopted(x) = NoRecord
           /\ Adopted(x).phase = "none" => Adopted(x) = NoRecord
           /\ Adopted(x).phase = "terminal" => Adopted(x).out = rows[x].st /\ rows[x].st \in Ended \cup {"reconciled"}
           /\ rows[x].st \in Ended => Adopted(x).phase # "open"
           /\ Terminal(x) => Adopted(x).phase = "terminal"
<1> DEFINE opened == [NoRecord EXCEPT !.phase = "open"]
           closed == [lineage[x] EXCEPT !.phase = "terminal", !.out = rows[x].st]
<1>1. lineage[x] \in RecordsOf /\ rows[x].st \in States
    BY DEF Ledger, LineageTypes, IInv, Types, RowsOf
<1>2. opened \in RecordsOf /\ opened.phase = "open" /\ opened.finds = <<>>
    BY OpenedWell
<1>3. /\ closed \in RecordsOf /\ closed.phase = "terminal" /\ closed.out = rows[x].st
      /\ closed.finds = lineage[x].finds
    BY <1>1 DEF RecordsOf
<1>4. Adopted(x) = IF lineage[x].phase = "none" /\ Active(x) THEN opened
                   ELSE IF lineage[x].phase = "open" /\ rows[x].st \in Ended \cup {"reconciled"} THEN closed
                   ELSE lineage[x]
    BY Zenon DEF Adopted
<1> HIDE DEF opened, closed
<1>5. lineage[x].phase = "none" => lineage[x] = NoRecord
    BY DEF Ledger, LineageWell, RecordWell
<1>6. Terminal(x) => lineage[x].out = rows[x].st /\ rows[x].st \in Ended \cup {"reconciled"}
    BY DEF Ledger, LineageWell, RecordWell, Terminal
<1>7. lineage[x].phase \in {"none", "open", "terminal"}
    BY <1>1 DEF RecordsOf
<1>8. QED BY <1>1, <1>2, <1>3, <1>4, <1>5, <1>6, <1>7 DEF Terminal, NoRecord, Active, Ended

LEMMA JudgeWell ==
    ASSUME NEW x \in Runs, NEW f \in FindingsOf, NEW late
    PROVE  /\ Judge(x, f, late) \in FindingsOf /\ Judge(x, f, late).code = f.code
           /\ Judge(x, f, late).st = "resolved" => f.st = "resolved"
<1> DEFINE Sound(g) == g \in FindingsOf /\ g.code = f.code /\ (g.st = "resolved" => f.st = "resolved")
<1>1. Sound(f)
    OBVIOUS
<1>2. \A v \in {"suppressed", "open", "actionable", "escalated", "unknown"}, n \in Nat :
        Sound([f EXCEPT !.conf = n, !.st = v]) /\ Sound([f EXCEPT !.st = v]) /\ Sound([f EXCEPT !.st = v, !.conf = n])
    BY DEF FindingsOf
<1>3. Sound(Confirmed(f))
    <2>1. PICK n \in Nat : n = IF f.conf < Confirmations THEN f.conf + 1 ELSE f.conf
        BY BoundsAssumption DEF FindingsOf
    <2>2. PICK v \in {"actionable", "open"} : v = IF n >= Confirmations THEN "actionable" ELSE "open"
        OBVIOUS
    <2>3. Confirmed(f) = [f EXCEPT !.conf = n, !.st = v]
        BY <2>1, <2>2, Zenon DEF Confirmed
    <2>4. Sound([f EXCEPT !.conf = n, !.st = v])
        BY <1>2
    <2>5. QED BY <2>3, <2>4
<1>4. PICK d \in {"suppressed", "open"} : d = IF Verdict(x) = "alive" THEN "suppressed" ELSE "open"
    OBVIOUS
<1>5. PICK e \in {"escalated", "unknown"} : e = IF late THEN "escalated" ELSE "unknown"
    OBVIOUS
<1>6. Judge(x, f, late) \in {f, [f EXCEPT !.st = d, !.conf = 0], [f EXCEPT !.st = "suppressed", !.conf = 0],
                             Confirmed(f), [f EXCEPT !.st = e]}
    BY <1>4, <1>5, Zenon DEF Judge
<1>7. Sound([f EXCEPT !.st = d, !.conf = 0]) /\ Sound([f EXCEPT !.st = "suppressed", !.conf = 0]) /\ Sound([f EXCEPT !.st = e])
    BY <1>2
<1> HIDE DEF Sound
<1>8. Sound(Judge(x, f, late))
    BY <1>1, <1>3, <1>6, <1>7, Zenon
<1>9. QED BY <1>8 DEF Sound

\* A record's findings in this tick: whether they are settled, what they are then, whether the record is over.
SettledNow(x) == Recovery[x] # None /\ Settled(x, Adopted(x))
FindsNow(x)   == IF SettledNow(x) THEN [i \in DOMAIN Adopted(x).finds |-> [Adopted(x).finds[i] EXCEPT !.st = "resolved"]]
                 ELSE Adopted(x).finds
OverNow(x)    == Adopted(x).phase = "terminal"
                 /\ (Adopted(x).out \in Ended \/ \A i \in DOMAIN FindsNow(x) : FindsNow(x)[i].st = "resolved")

\* Findings are kept and may be added; one is settled only when `ok`.
Longer(old, new, ok) ==
    /\ DOMAIN old \subseteq DOMAIN new
    /\ \A i \in DOMAIN old : /\ new[i].code = old[i].code
                             /\ new[i].st = "resolved" => old[i].st = "resolved" \/ ok

LEMMA EditWell ==
    ASSUME NEW x \in Runs, NEW fs \in Seq(FindingsOf), NEW i, NEW late
    PROVE  LET g == [fs EXCEPT ![i] = Judge(x, fs[i], late)]
           IN  g \in Seq(FindingsOf) /\ DOMAIN g = DOMAIN fs /\ Longer(fs, g, FALSE)
<1>1. CASE i \in DOMAIN fs
    <2>1. fs[i] \in FindingsOf
        BY <1>1
    <2>2. PICK f \in FindingsOf : f = Judge(x, fs[i], late)
        BY <2>1, JudgeWell
    <2>3. f.code = fs[i].code /\ (f.st = "resolved" => fs[i].st = "resolved")
        BY <2>1, <2>2, JudgeWell
    <2>4. [fs EXCEPT ![i] = Judge(x, fs[i], late)] = [fs EXCEPT ![i] = f]
        BY <2>2, Zenon
    <2>5. [fs EXCEPT ![i] = f] \in Seq(FindingsOf) /\ DOMAIN [fs EXCEPT ![i] = f] = DOMAIN fs
        BY <1>1
    <2>6. Longer(fs, [fs EXCEPT ![i] = f], FALSE)
        BY <1>1, <2>3 DEF Longer
    <2>7. QED BY <2>4, <2>5, <2>6, Zenon
<1>2. CASE i \notin DOMAIN fs
    <2>1. PICK v : v = Judge(x, fs[i], late)
        OBVIOUS
    <2>2. [fs EXCEPT ![i] = v] = fs
        BY <1>2
    <2>3. Longer(fs, fs, FALSE)
        BY DEF Longer
    <2>4. QED BY <2>1, <2>2, <2>3, Zenon
<1>3. QED BY <1>1, <1>2

LEMMA AppendWell ==
    ASSUME NEW fs \in Seq(FindingsOf), NEW code \in {"vanished", "silent"}
    PROVE  LET g == Append(fs, Finding(code))
           IN  /\ g \in Seq(FindingsOf) /\ Longer(fs, g, FALSE)
               /\ \A i \in DOMAIN g : i \notin DOMAIN fs => g[i].code = code
<1>1. Finding(code) \in FindingsOf /\ Finding(code).code = code
    BY DEF Finding, FindingsOf
<1>2. QED BY <1>1 DEF Longer

LEMMA ResolvedWell ==
    ASSUME NEW fs \in Seq(FindingsOf)
    PROVE  LET g == [i \in DOMAIN fs |-> [fs[i] EXCEPT !.st = "resolved"]]
           IN  /\ g \in Seq(FindingsOf) /\ DOMAIN g = DOMAIN fs
               /\ \A i \in DOMAIN g : g[i].code = fs[i].code /\ g[i].st = "resolved"
<1> DEFINE S(f) == [f EXCEPT !.st = "resolved"]
<1>1. \A f \in FindingsOf : S(f) \in FindingsOf /\ S(f).code = f.code /\ S(f).st = "resolved"
    BY DEF FindingsOf
<1> HIDE DEF S
<1>2. PICK n \in Nat : DOMAIN fs = 1..n
    OBVIOUS
<1>3. \A i \in 1..n : fs[i] \in FindingsOf
    BY <1>2
<1>4. [i \in 1..n |-> S(fs[i])] \in Seq(FindingsOf)
    BY <1>1, <1>3
<1>5. \A i \in 1..n : S(fs[i]).code = fs[i].code /\ S(fs[i]).st = "resolved"
    BY <1>1, <1>3
<1>6. QED BY <1>2, <1>4, <1>5 DEF S

\* What is kept, added and settled when a record becomes o.
Watched(x, o) ==
    /\ o \in RecordsOf /\ o.phase = Adopted(x).phase /\ o.out = Adopted(x).out
    /\ Longer(lineage[x].finds, o.finds, SettledNow(x))
    /\ Adopted(x).phase = "none" => o = NoRecord
    /\ Recovery[x] = None => DOMAIN o.finds = DOMAIN lineage[x].finds
    /\ \A i \in DOMAIN o.finds : i \notin DOMAIN lineage[x].finds /\ o.finds[i].code = "vanished" => Quiet(raw.ready)
    /\ Recovery[x] # None /\ Adopted(x).phase = "terminal" /\ Adopted(x).out \in Ended
         => \A i \in DOMAIN o.finds : o.finds[i].st = "resolved"

\* Nothing is judged, or one finding of what is on record, which may be noted just now.
LEMMA ObservedWell ==
    ASSUME IInv, Ledger, NEW x \in Runs, NEW mute, NEW late
    PROVE  Watched(x, Observed(x, mute, late))
<1> DEFINE rec == Adopted(x)
           finds == FindsNow(x)
           code == Detected(x, mute)
           o == Observed(x, mute, late)
<1>1. \/ o = [rec EXCEPT !.finds = finds]
      \/ /\ Recovery[x] # None /\ rec.phase # "none" /\ code # "none" /\ ~OverNow(x)
         /\ \E known \in {finds, Append(finds, Finding(code))} : \E i :
               o = [rec EXCEPT !.finds = [known EXCEPT ![i] = Judge(x, known[i], late)]]
    BY Zenon DEF Observed, SettledNow, FindsNow, OverNow
<1>2. rec \in RecordsOf /\ rec.finds = lineage[x].finds /\ (rec.phase = "none" => rec = NoRecord)
    BY AdoptedWell
<1>3. Recovery[x] # None /\ rec.phase = "terminal" /\ rec.out \in Ended => SettledNow(x) /\ OverNow(x)
    BY DEF SettledNow, OverNow, Settled
<1> HIDE DEF rec
<1>4. rec.finds \in Seq(FindingsOf)
    BY <1>2 DEF RecordsOf
<1>5. /\ finds \in Seq(FindingsOf) /\ DOMAIN finds = DOMAIN rec.finds
      /\ \A i \in DOMAIN finds : finds[i].code = rec.finds[i].code
      /\ IF SettledNow(x) THEN \A i \in DOMAIN finds : finds[i].st = "resolved" ELSE finds = rec.finds
    <2>1. CASE SettledNow(x)
        <3>1. finds = [i \in DOMAIN rec.finds |-> [rec.finds[i] EXCEPT !.st = "resolved"]]
            BY <2>1, Zenon DEF FindsNow, rec
        <3>2. QED BY <2>1, <1>4, <3>1, ResolvedWell
    <2>2. CASE ~SettledNow(x)
        BY <2>2, <1>4 DEF FindsNow, rec
    <2>3. QED BY <2>1, <2>2
<1>6. /\ finds \in Seq(FindingsOf) /\ DOMAIN finds = DOMAIN lineage[x].finds
      /\ Longer(lineage[x].finds, finds, SettledNow(x))
      /\ SettledNow(x) => \A i \in DOMAIN finds : finds[i].st = "resolved"
    BY <1>2, <1>4, <1>5 DEF Longer
<1>8. code \in {"vanished", "silent", "none"} /\ (code = "vanished" => Quiet(raw.ready))
    BY DEF Detected
<1> HIDE DEF finds, code, o
<1>9. CASE o = [rec EXCEPT !.finds = finds]
    <2>1. o \in RecordsOf /\ o.phase = rec.phase /\ o.out = rec.out /\ o.finds = finds
        BY <1>2, <1>6, <1>9 DEF RecordsOf
    <2>2. rec.phase = "none" => o = NoRecord
        <3>1. HAVE rec.phase = "none"
        <3>2. DOMAIN finds = {}
            BY <1>2, <1>6, <3>1 DEF NoRecord
        <3>3. finds = <<>>
            BY <1>6, <3>2
        <3>4. QED BY <1>2, <1>9, <3>1, <3>3 DEF NoRecord
    <2>3. QED BY <1>3, <1>6, <2>1, <2>2 DEF o, rec, Watched
<1>10. ASSUME /\ Recovery[x] # None /\ rec.phase # "none" /\ code # "none" /\ ~OverNow(x)
              /\ \E known \in {finds, Append(finds, Finding(code))} : \E i :
                    o = [rec EXCEPT !.finds = [known EXCEPT ![i] = Judge(x, known[i], late)]]
       PROVE  /\ o \in RecordsOf /\ o.phase = rec.phase /\ o.out = rec.out
              /\ Longer(lineage[x].finds, o.finds, SettledNow(x))
              /\ \A i \in DOMAIN o.finds : i \notin DOMAIN lineage[x].finds /\ o.finds[i].code = "vanished" => Quiet(raw.ready)
    <2>1. /\ Append(finds, Finding(code)) \in Seq(FindingsOf) /\ Longer(finds, Append(finds, Finding(code)), FALSE)
          /\ \A i \in DOMAIN Append(finds, Finding(code)) :
                i \notin DOMAIN finds => Append(finds, Finding(code))[i].code = code
        <3>1. code \in {"vanished", "silent"}
            BY <1>8, <1>10
        <3>2. QED BY <1>6, <3>1, AppendWell
    <2>2. PICK known \in Seq(FindingsOf) :
            /\ Longer(finds, known, FALSE) /\ \A i \in DOMAIN known : i \notin DOMAIN finds => known[i].code = code
            /\ \E i : o = [rec EXCEPT !.finds = [known EXCEPT ![i] = Judge(x, known[i], late)]]
        <3>1. Longer(finds, finds, FALSE)
            BY DEF Longer
        <3>2. QED BY <1>6, <1>10, <2>1, <3>1, Zenon
    <2>3. PICK i : o = [rec EXCEPT !.finds = [known EXCEPT ![i] = Judge(x, known[i], late)]]
        BY <2>2
    <2>4. PICK g \in Seq(FindingsOf) : /\ g = [known EXCEPT ![i] = Judge(x, known[i], late)]
                                       /\ DOMAIN g = DOMAIN known /\ Longer(known, g, FALSE)
        BY EditWell
    <2>5. o \in RecordsOf /\ o.phase = rec.phase /\ o.out = rec.out /\ o.finds = g
        BY <1>2, <2>3, <2>4 DEF RecordsOf
    <2>6. Longer(lineage[x].finds, g, SettledNow(x))
        BY <1>6, <2>2, <2>4 DEF Longer
    <2>7. \A j \in DOMAIN g : j \notin DOMAIN lineage[x].finds /\ g[j].code = "vanished" => Quiet(raw.ready)
        BY <1>6, <1>8, <2>2, <2>4 DEF Longer
    <2>8. QED BY <2>5, <2>6, <2>7
<1>11. CASE o # [rec EXCEPT !.finds = finds]
    BY <1>1, <1>3, <1>10, <1>11 DEF o, rec, Watched
<1>12. QED BY <1>9, <1>11

\* What a tick's observation makes of every record.
SeenNow(x) ==
    /\ lineage'[x] \in RecordsOf
    /\ Longer(lineage[x].finds, lineage'[x].finds, SettledNow(x))
    /\ ~Active(x) /\ lineage[x] = NoRecord => lineage'[x] = NoRecord
    /\ lineage'[x].phase = "none" => lineage'[x] = NoRecord
    /\ lineage'[x].phase = "terminal" => lineage'[x].out = rows[x].st /\ rows[x].st \in Ended \cup {"reconciled"}
    /\ rows[x].st \in Ended => lineage'[x].phase # "open"
    /\ Terminal(x) => lineage'[x].phase = "terminal"
    /\ Recovery[x] = None => DOMAIN lineage'[x].finds = {}
    /\ (\E i \in DOMAIN lineage'[x].finds : lineage'[x].finds[i].code = "vanished")
         => Lost(x) \/ rows[x].st \in Ended
    /\ Recovery[x] # None /\ rows[x].st \in Ended => \A i \in DOMAIN lineage'[x].finds : lineage'[x].finds[i].st = "resolved"
    /\ SettledNow(x) => rows[x].st \in Ended \/ lineage'[Recovery[x]].phase = "terminal"

LEMMA ObserveSees ==
    ASSUME IInv, Ledger, Observe
    PROVE  \A x \in Runs : SeenNow(x)
<1>1. PICK mute, late : lineage' = [x \in Runs |-> Observed(x, mute, late)]
    BY DEF Observe
<1>2. \A x \in Runs : Watched(x, lineage'[x])
    <2>1. TAKE x \in Runs
    <2>2. lineage'[x] = Observed(x, mute, late)
        BY <1>1, Zenon
    <2>3. QED BY <2>2, ObservedWell, Zenon
<1>3. TAKE x \in Runs
<1>4. /\ ~Active(x) /\ lineage[x] = NoRecord => Adopted(x) = NoRecord
      /\ Adopted(x).phase = "none" => Adopted(x) = NoRecord
      /\ Adopted(x).phase = "terminal" => Adopted(x).out = rows[x].st /\ rows[x].st \in Ended \cup {"reconciled"}
      /\ rows[x].st \in Ended => Adopted(x).phase # "open"
      /\ Terminal(x) => Adopted(x).phase = "terminal"
    BY AdoptedWell
<1>5. rows[x].st \in States /\ (rows[x].st = "none" => lineage[x] = NoRecord) /\ (rows[x].st = "blocked" => lineage[x] = NoRecord)
      /\ (Recovery[x] = None => DOMAIN lineage[x].finds = {})
    BY DEF IInv, Types, RowsOf, Ledger, RowsWell, RowWell, LineageWell, RecordWell
<1>6. ~Active(x) /\ lineage[x] = NoRecord => lineage'[x] = NoRecord
    BY <1>2, <1>4 DEF Watched, NoRecord
<1>7. ASSUME NEW i \in DOMAIN lineage'[x].finds, lineage'[x].finds[i].code = "vanished"
      PROVE  Lost(x) \/ rows[x].st \in Ended
    <2>1. CASE i \in DOMAIN lineage[x].finds
        <3>1. lineage[x].finds[i].code = "vanished"
            BY <1>2, <1>7, <2>1 DEF Watched, Longer
        <3>2. Vanished(x) # {}
            BY <2>1, <3>1 DEF Vanished
        <3>3. QED BY <3>2 DEF Ledger, LineageWell, RecordWell
    <2>2. CASE i \notin DOMAIN lineage[x].finds
        <3>1. ~Active(x)
            BY <1>2, <1>7, <2>2 DEF Watched, Quiet
        <3>2. lineage'[x] # NoRecord
            BY <1>7 DEF NoRecord
        <3>3. QED BY <1>5, <1>6, <3>1, <3>2 DEF States, Active, Lost, Ended
    <2>3. QED BY <2>1, <2>2
<1>8. Recovery[x] # None /\ rows[x].st \in Ended => \A i \in DOMAIN lineage'[x].finds : lineage'[x].finds[i].st = "resolved"
    <2>1. HAVE Recovery[x] # None /\ rows[x].st \in Ended
    <2>2. CASE Adopted(x).phase = "none"
        <3>1. lineage'[x].finds = <<>>
            BY <1>2, <2>2 DEF Watched, NoRecord
        <3>2. QED BY <3>1
    <2>3. CASE Adopted(x).phase = "terminal"
        BY <1>2, <1>4, <2>1, <2>3 DEF Watched
    <2>4. Adopted(x).phase \in {"none", "open", "terminal"}
        BY AdoptedWell DEF RecordsOf
    <2>5. QED BY <1>4, <2>1, <2>2, <2>3, <2>4
<1>9. SettledNow(x) => rows[x].st \in Ended \/ lineage'[Recovery[x]].phase = "terminal"
    <2>1. HAVE SettledNow(x)
    <2>2. CASE Adopted(x).phase = "terminal" /\ Adopted(x).out \in Ended
        BY <1>4, <2>2
    <2>3. CASE Adopted(Recovery[x]).phase = "terminal"
        <3>1. Recovery[x] \in Runs
            BY <2>1, Recoveries DEF SettledNow
        <3>2. QED BY <1>2, <2>3, <3>1 DEF Watched
    <2>4. QED BY <2>1, <2>2, <2>3 DEF SettledNow, Settled
<1>10. /\ lineage'[x] \in RecordsOf /\ Longer(lineage[x].finds, lineage'[x].finds, SettledNow(x))
       /\ lineage'[x].phase = Adopted(x).phase /\ lineage'[x].out = Adopted(x).out
       /\ lineage'[x].phase = "none" => lineage'[x] = NoRecord
       /\ Recovery[x] = None => DOMAIN lineage'[x].finds = {}
    BY <1>2, <1>5 DEF Watched
<1>11. (\E i \in DOMAIN lineage'[x].finds : lineage'[x].finds[i].code = "vanished") => Lost(x) \/ rows[x].st \in Ended
    BY <1>7
<1>12. QED BY <1>4, <1>6, <1>8, <1>9, <1>10, <1>11 DEF SeenNow

LEMMA ObserveGood ==
    ASSUME IInv, IInv', Ledger, Observe
    PROVE  Good
<1>1. \A x \in Runs : SeenNow(x)
    BY ObserveSees
<1>2. UNCHANGED <<repo, rows, broker, owed, cmds>> /\ pc' \in {"trigger", "idle"}
    BY DEF Observe, Left
<1>3. RowsWell'
    BY <1>1, <1>2 DEF Ledger, RowsWell, RowWell, Launched, Known, SeenNow, Active
<1>4. HandedOn' /\ Expecting'
    BY <1>2 DEF Ledger, HandedOn, Finishing, Active, Launched, Expecting, Known
<1>5. LineageWell'
    <2>1. SUFFICES ASSUME NEW x \in Runs
                   PROVE  RecordWell(x)'
        BY DEF LineageWell
    <2>2. SeenNow(x) /\ RecordWell(x)
        BY <1>1 DEF Ledger, LineageWell
    <2>3. Vanished(x)' # {} => \E i \in DOMAIN lineage'[x].finds : lineage'[x].finds[i].code = "vanished"
        BY DEF Vanished
    <2>4. QED BY <1>2, <2>2, <2>3 DEF RecordWell, SeenNow, Lost, Active
<1>6. StartWell' /\ LineageTypes' /\ repo'.task # 0
    <2>1. PICK mute, late : lineage' = [x \in Runs |-> Observed(x, mute, late)]
        BY DEF Observe
    <2>2. lineage' = [x \in Runs |-> lineage'[x]]
        BY <2>1
    <2>3. lineage' \in [Runs -> RecordsOf]
        BY <1>1, <2>2 DEF SeenNow
    <2>4. QED BY <1>2, <2>3 DEF Ledger, StartWell, Starting, LineageTypes
<1>7. Steady
    <2>1. \A x \in Runs : Lost(x) => rows[x].st \notin Ended
        BY DEF Lost, Ended
    <2>2. \A x \in Runs : Lost(x) => Grown(x)
        BY <1>1, <2>1 DEF SeenNow, Longer, Grown, SettledNow
    <2>3. \A x \in Runs : Terminal(x) => lineage'[x].phase = "terminal"
        BY <1>1 DEF SeenNow
    <2>4. QED BY <1>2, <2>2, <2>3 DEF Steady, Lost, IInv, Types
<1>8. QED BY <1>3, <1>4, <1>5, <1>6, <1>7 DEF Good, Ledger

--------------------------------------------------------------------------------
(* What the watchdog and a Worker's thread write to lineage. *)

\* Findings of which the first may have been told v.
Retold(fs, g, v) ==
    /\ g \in Seq(FindingsOf) /\ DOMAIN g = DOMAIN fs
    /\ \A i \in DOMAIN fs : /\ g[i].code = fs[i].code
                            /\ g[i].st = "resolved" => fs[i].st = "resolved" \/ v = "resolved"

LEMMA Retelling ==
    ASSUME NEW fs \in Seq(FindingsOf), NEW n \in Nat,
           NEW v \in {"reserved", "pending", "recovering", "resolved", "escalated", "suppressed", "unknown"}
    PROVE  /\ Retold(fs, [fs EXCEPT ![1].st = v], v)
           /\ Retold(fs, [[fs EXCEPT ![1].st = v] EXCEPT ![1].tries = n], v)
<1> DEFINE g1 == [fs EXCEPT ![1].st = v]
           g2 == [g1 EXCEPT ![1].tries = n]
<1>1. CASE 1 \in DOMAIN fs
    <2>1. fs[1] \in FindingsOf
        BY <1>1
    <2> DEFINE f1 == [fs[1] EXCEPT !.st = v]
               f2 == [f1 EXCEPT !.tries = n]
    <2>2. f1 \in FindingsOf /\ f1.st = v /\ f1.code = fs[1].code
        BY <2>1 DEF FindingsOf
    <2>3. f2 \in FindingsOf /\ f2.st = v /\ f2.code = fs[1].code
        BY <2>1 DEF FindingsOf
    <2>4. g1 = [fs EXCEPT ![1] = f1] /\ g1[1] = f1
        BY <1>1
    <2>5. g2 = [g1 EXCEPT ![1] = f2]
        BY <1>1
    <2> HIDE DEF g1, g2, f1, f2
    <2>6. /\ g1 \in Seq(FindingsOf) /\ DOMAIN g1 = DOMAIN fs
          /\ \A i \in DOMAIN fs : g1[i] = IF i = 1 THEN f1 ELSE fs[i]
        BY <1>1, <2>2, <2>4
    <2>7. /\ g2 \in Seq(FindingsOf) /\ DOMAIN g2 = DOMAIN fs
          /\ \A i \in DOMAIN fs : g2[i] = IF i = 1 THEN f2 ELSE fs[i]
        BY <1>1, <2>3, <2>5, <2>6
    <2>8. Retold(fs, g1, v) /\ Retold(fs, g2, v)
        BY <2>2, <2>3, <2>6, <2>7 DEF Retold
    <2>9. QED BY <2>8 DEF g1, g2
<1>2. CASE 1 \notin DOMAIN fs
    <2>1. g1 = fs /\ g2 = fs
        BY <1>2
    <2>2. Retold(fs, fs, v)
        BY DEF Retold
    <2>3. QED BY <2>1, <2>2, Zenon
<1>3. QED BY <1>1, <1>2

LEMMA RetoldNoted ==
    ASSUME Ledger, NEW x \in Runs, Lost(x), Vanished(x) # {}, NEW v, NEW g, Retold(lineage[x].finds, g, v),
           v = "resolved" => repo.task # rows[x].task
    PROVE  LET r == [lineage[x] EXCEPT !.finds = g] IN r \in RecordsOf /\ Noted(x, r)
<1>1. lineage[x] \in RecordsOf /\ lineage[x].phase # "none"
    BY DEF Ledger, LineageTypes, LineageWell, RecordWell, NoRecord, Vanished
<1>2. QED BY <1>1 DEF RecordsOf, Noted, Retold

LEMMA CurNotes ==
    ASSUME IInv, Ledger, Holding, NoteAttempt \/ CloseLost \/ TellPending \/ Record
    PROVE  Notes
<1>1. PICK c \in Runs : c = cur.run
    BY DEF NoteAttempt, CloseLost, TellPending, Record, Onward, IInv, TickWell
<1>2. Lost(c) /\ Vanished(c) # {}
    BY <1>1 DEF NoteAttempt, CloseLost, TellPending, Record, Onward, Holding, Acting, InHand, Kept
<1>3. PICK fs \in Seq(FindingsOf) : fs = lineage[c].finds
    BY DEF Ledger, LineageTypes, RecordsOf
<1>4. UNCHANGED <<repo, rows, broker, cmds, owed>> /\ NoStart
    BY DEF NoteAttempt, CloseLost, TellPending, Record, Onward, Drop, Left, NoStart, Starting
<1>5. SUFFICES \E r \in RecordsOf : Noted(c, r) /\ lineage' = [lineage EXCEPT ![c] = r]
    BY <1>2, <1>4 DEF Notes
<1>6. CASE NoteAttempt
    <2>1. PICK n \in Nat : n = cur.tries + 1
        BY <1>1, <1>6, BoundsAssumption DEF NoteAttempt, Onward, Holding, Acting, InHand, IInv, Types, Goals, NoOne
    <2>2. PICK v : v = "reserved"
        OBVIOUS
    <2>3. PICK h : h = [fs EXCEPT ![1].st = v]
        OBVIOUS
    <2>4. PICK g : g = [h EXCEPT ![1].tries = n] /\ Retold(fs, g, v)
        BY <2>2, <2>3, Retelling
    <2>5. PICK told : told = [lineage EXCEPT ![c].finds[1].st = v]
        OBVIOUS
    <2>6. told = [lineage EXCEPT ![c] = [lineage[c] EXCEPT !.finds = h]]
        BY <1>3, <2>3, <2>5 DEF Ledger, LineageTypes, RecordsOf
    <2>7. told[c] = [lineage[c] EXCEPT !.finds = h] /\ told[c].finds = h
        BY <2>6 DEF Ledger, LineageTypes, RecordsOf
    <2>8. lineage' = [told EXCEPT ![c].finds[1].tries = n]
        BY <1>1, <1>6, <2>1, <2>2, <2>5, Zenon DEF NoteAttempt
    <2>9. lineage' = [lineage EXCEPT ![c] = [lineage[c] EXCEPT !.finds = g]]
        <3>1. PICK r : r = [lineage[c] EXCEPT !.finds = g]
            OBVIOUS
        <3>2. lineage[c] \in RecordsOf /\ lineage \in [Runs -> RecordsOf]
            BY DEF Ledger, LineageTypes
        <3>3. [told[c] EXCEPT !.finds = g] = r
            BY <2>7, <3>1, <3>2 DEF RecordsOf
        <3>4. lineage' = [told EXCEPT ![c] = r]
            BY <2>4, <2>7, <2>8, <3>3
        <3>5. QED BY <2>6, <3>1, <3>2, <3>4
    <2>10. v # "resolved" /\ Retold(lineage[c].finds, g, v)
        BY <1>3, <2>2, <2>4
    <2>11. QED BY <1>2, <2>9, <2>10, RetoldNoted
<1>7. CASE TellPending \/ Record
    <2>1. PICK v \in {"pending", "recovering"} : Tell(c, v)
        BY <1>1, <1>7 DEF TellPending, Record
    <2>2. PICK g : g = [fs EXCEPT ![1].st = v] /\ Retold(fs, g, v)
        BY Retelling
    <2>3. lineage' = [lineage EXCEPT ![c] = [lineage[c] EXCEPT !.finds = g]]
        BY <1>3, <2>1, <2>2 DEF Tell, Ledger, LineageTypes, RecordsOf
    <2>4. QED BY <1>2, <1>3, <2>2, <2>3, RetoldNoted
<1>8. CASE CloseLost
    <2>1. rows[c].st = "reconciled" /\ lineage[c] \in RecordsOf
        BY <1>1, <1>8 DEF CloseLost, Onward, IInv, TickWell, Over, Ledger, LineageTypes
    <2>2. PICK r : r = [lineage[c] EXCEPT !.phase = "terminal", !.out = "reconciled"]
        OBVIOUS
    <2>3. r \in RecordsOf /\ Noted(c, r)
        BY <2>1, <2>2 DEF RecordsOf, States, Noted
    <2>4. lineage' = [lineage EXCEPT ![c] = r]
        BY <1>1, <1>8, <2>2 DEF CloseLost, Ledger, LineageTypes
    <2>5. QED BY <2>3, <2>4
<1>9. QED BY <1>6, <1>7, <1>8

LEMMA FindingNotes ==
    ASSUME IInv, Ledger, Holding, NEW f \in todo, Supersede(f) \/ GiveUp(f) \/ Doubt(f)
    PROVE  Notes
<1>1. PICK c \in Runs : c = f.run
    BY DEF IInv, Types, Goals
<1>2. Lost(c) /\ Vanished(c) # {} /\ raw.task = repo.task
    BY <1>1 DEF Supersede, GiveUp, Doubt, Open, AtFinding, Holding, Handling, InHand, Kept
<1>3. PICK fs \in Seq(FindingsOf) : fs = lineage[c].finds
    BY DEF Ledger, LineageTypes, RecordsOf
<1>4. UNCHANGED <<repo, rows, broker, cmds, owed>> /\ NoStart
    BY DEF Supersede, GiveUp, Doubt, Drop, Left, NoStart, Starting
<1>5. PICK v \in {"resolved", "escalated", "suppressed", "unknown"} :
        Tell(c, v) /\ (v = "resolved" => repo.task # rows[c].task)
    BY <1>1, <1>2 DEF Supersede, GiveUp, Doubt, Overtaken
<1>6. PICK g : g = [fs EXCEPT ![1].st = v] /\ Retold(fs, g, v)
    BY Retelling
<1>7. lineage' = [lineage EXCEPT ![c] = [lineage[c] EXCEPT !.finds = g]]
    BY <1>3, <1>5, <1>6 DEF Tell, Ledger, LineageTypes, RecordsOf
<1>8. \E r \in RecordsOf : Noted(c, r) /\ lineage' = [lineage EXCEPT ![c] = r]
    BY <1>2, <1>3, <1>5, <1>6, <1>7, RetoldNoted
<1>9. QED BY <1>2, <1>4, <1>8 DEF Notes

LEMMA ObligationNotes ==
    ASSUME IInv, Ledger, NEW x \in Runs, CloseObligation(x)
    PROVE  Notes
<1>1. rows[x].st \in Ended /\ lineage[x] \in RecordsOf
    BY DEF CloseObligation, Ledger, LineageTypes, LineageWell, RecordWell
<1>2. PICK r : r = [lineage[x] EXCEPT !.phase = "terminal", !.out = rows[x].st]
    OBVIOUS
<1>3. r \in RecordsOf /\ Noted(x, r)
    BY <1>1, <1>2 DEF RecordsOf, States, Ended, Noted
<1>4. lineage' = [lineage EXCEPT ![x] = r]
    BY <1>2 DEF CloseObligation, Ledger, LineageTypes
<1>5. UNCHANGED <<repo, rows, broker, cmds>> /\ owed' \subseteq owed /\ NoStart
    BY DEF CloseObligation, daemon, NoStart, Starting
<1>6. QED BY <1>1, <1>3, <1>4, <1>5 DEF Notes

--------------------------------------------------------------------------------
(* All steps. *)

\* Every step keeps the ledger, what is known of lost runs, and their findings.
LEMMA EveryStepGood ==
    ASSUME IInv, IInv', Ledger, Holding, [Next]_vars
    PROVE  Good
<1>1. CASE Monitor \/ Pend \/ Mark \/ Crash \/ GoBlind \/ Sighted \/ UNCHANGED vars
    <2>1. Still
        BY <1>1 DEF Still, NoStart, Starting, Monitor, Left, Pend, Mark, Onward, Crash, GoBlind, Sighted, vars, watch, daemon
    <2>2. QED BY <2>1, StillGood
<1>2. ASSUME NEW f \in todo, Wait(f) \/ Resume(f) \/ Reserve(f)
      PROVE  Good
    <2>1. Still
        BY <1>2 DEF Still, NoStart, Starting, Wait, Resume, Reserve, Due, Open, AtFinding, Drop, Left, watch
    <2>2. QED BY <2>1, StillGood
<1>3. ASSUME NEW x \in Runs, Cool(x)
      PROVE  Good
    <2>1. Still
        BY <1>3 DEF Still, NoStart, Starting, Cool, daemon
    <2>2. QED BY <2>1, StillGood
<1>4. CASE Settle
    <2>1. Known(cur.run) /\ cur.run \in Runs
        BY <1>4 DEF Settle, IInv, Submitted, TickWell
    <2>2. PICK v \in {"blocked", "accepted"} : cmds' = [cmds EXCEPT ![cur.run] = [cmds[cur.run] EXCEPT !.st = v]]
        BY <1>4 DEF Settle
    <2>3. \A x \in Runs : (Known(x)' <=> Known(x)) /\ cmds'[x].exp = cmds[x].exp
        BY <2>1, <2>2 DEF Known, IInv, Types, Commands
    <2>4. CmdsMove
        BY <1>4, <2>3, Recoveries DEF Settle, Left, CmdsMove, NoStart, Starting, Refused, Known, watch
    <2>5. QED BY <2>4, CmdsGood
<1>5. ASSUME NEW f \in todo, Refuse(f)
      PROVE  Good
    <2>1. Known(f.run) /\ f.run \in Runs
        BY <1>5 DEF Refuse, IInv, Submitted, Types, Goals
    <2>2. \A x \in Runs : (Known(x)' <=> Known(x)) /\ cmds'[x].exp = cmds[x].exp
        BY <1>5, <2>1 DEF Refuse, Known, IInv, Types, Commands
    <2>3. Refused
        BY <1>5, <2>1 DEF Refuse, Refused, IInv, Types
    <2>4. NoStart /\ UNCHANGED <<repo, broker, lineage, owed>>
        BY <1>5 DEF Refuse, Left, NoStart, Starting
    <2>5. CmdsMove
        BY <2>2, <2>3, <2>4, Recoveries DEF CmdsMove, Known
    <2>6. QED BY <2>5, CmdsGood
<1>6. CASE Submit
    <2>1. cur.run \in Runs /\ rows[cur.run].task = raw.task
        BY <1>6 DEF Submit, IInv, TickWell, Holding, Acting
    <2>2. cmds' = cmds \/ (cmds[Recovery[cur.run]].st = "none"
                           /\ cmds' = [cmds EXCEPT ![Recovery[cur.run]] = [st |-> "queued", exp |-> Identity]])
        BY <1>6 DEF Submit
    <2>3. \A x \in Runs : (Known(x) => Known(x)' /\ cmds'[x].exp = cmds[x].exp)
        BY <2>2 DEF Known, IInv, Types, Commands
    <2>4. \A x \in Runs : ~Known(x) /\ Known(x)' => x = Recovery[cur.run] /\ cmds'[x].exp[1] = raw.task
        BY <2>2 DEF Known, Identity, IInv, Types, Commands
    <2>5. \A x \in Runs : Recovery[x] # None /\ ~Known(Recovery[x]) /\ Known(Recovery[x])'
                => cmds'[Recovery[x]].exp[1] = rows[x].task
        <3>1. SUFFICES ASSUME NEW x \in Runs, Recovery[x] # None, ~Known(Recovery[x]), Known(Recovery[x])'
                       PROVE  cmds'[Recovery[x]].exp[1] = rows[x].task
            OBVIOUS
        <3>2. Recovery[x] = Recovery[cur.run] /\ cmds'[Recovery[x]].exp[1] = raw.task
            BY <2>4, <3>1, Recoveries
        <3>3. x = cur.run
            BY <2>1, <3>1, <3>2, RecoveryAssumption
        <3>4. QED BY <2>1, <3>2, <3>3
    <2>6. CmdsMove
        BY <1>6, <2>3, <2>5 DEF Submit, Onward, Drop, Left, CmdsMove, NoStart, Starting, Refused
    <2>7. QED BY <2>6, CmdsGood
<1>7. ASSUME NEW c \in Runs, OwnerContinue(c)
      PROVE  Good
    <2>1. \A y \in Runs : Recovery[y] # c
        BY <1>7, RecoveryAssumption, OwnersAssumption DEF OwnerContinue, Range
    <2>2. \A x \in Runs : /\ Known(x) => Known(x)' /\ cmds'[x].exp = cmds[x].exp
                          /\ ~Known(x) /\ Known(x)' => x = c
        BY <1>7 DEF OwnerContinue, Known, IInv, Types, Commands
    <2>3. CmdsMove
        BY <1>7, <2>1, <2>2, Recoveries DEF OwnerContinue, CmdsMove, NoStart, Starting, Refused, watch, daemon
    <2>4. QED BY <2>3, CmdsGood
<1>8. CASE NoteAttempt \/ CloseLost \/ TellPending \/ Record
    BY <1>8, CurNotes, NotesGood
<1>9. ASSUME NEW f \in todo, Supersede(f) \/ GiveUp(f) \/ Doubt(f)
      PROVE  Good
    BY <1>9, FindingNotes, NotesGood
<1>10. ASSUME NEW x \in Runs, CloseObligation(x)
      PROVE  Good
    BY <1>10, ObligationNotes, NotesGood
<1>11. CASE Oblige \/ Observe \/ Reconcile \/ ObligeFails \/ HandOff \/ Restart
    BY <1>11, ObligeGood, ObserveGood, ReconcileGood, ObligeFailsGood, HandOffGood, RestartGood
<1>12. ASSUME NEW f \in todo, Launch(f)
      PROVE  Good
    BY <1>12, LaunchGood
<1>13. ASSUME NEW x \in Runs, BrokerCommits(x) \/ BrokerEnds(x) \/ WorkerRecords(x)
      PROVE  Good
    BY <1>13, BrokerGood, WorkerRecordsGood
<1>14. QED BY <1>1, <1>2, <1>3, <1>4, <1>5, <1>6, <1>7, <1>8, <1>9, <1>10, <1>11, <1>12, <1>13 DEF Next, Tick, Thread

\* What is kept of a lost run stays.
LEMMA LostStays ==
    ASSUME IInv, Ledger, Steady, NEW x \in Runs, Lost(x)
    PROVE  Lost(x)' /\ rows'[x].task = rows[x].task /\ (Kept(x) => Kept(x)')
<1>1. Grown(x) /\ Lost(x)' /\ rows'[x].task = rows[x].task
    BY DEF Steady, Lost
<1>2. repo.task # rows[x].task => repo'.task # rows'[x].task
    <2>1. Launched(x)
        BY DEF Lost, Ledger, RowsWell, RowWell
    <2>2. rows[x].task <= repo.task /\ repo.task <= repo'.task
        BY <2>1 DEF Ledger, RowsWell, RowWell, Steady
    <2>3. rows[x].task \in Nat /\ repo.task \in Nat
        BY DEF IInv, Types, RowsOf
    <2>4. PICK a, b, c : a = rows[x].task /\ b = repo.task /\ c = repo'.task
        OBVIOUS
    <2>5. CASE c \in Nat
        BY <1>1, <2>2, <2>3, <2>4, <2>5
    <2>6. CASE c \notin Nat
        BY <1>1, <2>3, <2>4, <2>6
    <2>7. QED BY <2>5, <2>6
<1>3. Recovery[x] # None /\ Terminal(Recovery[x]) => lineage'[Recovery[x]].phase = "terminal"
    BY Recoveries DEF Steady
<1>4. ASSUME Kept(x)
      PROVE  Kept(x)'
    <2>1. Vanished(x)' # {}
        BY <1>1, <1>4 DEF Kept, Grown, Vanished
    <2>2. ASSUME Unsettled(x)' = {}
          PROVE  repo'.task # rows'[x].task \/ (Recovery[x] # None /\ lineage'[Recovery[x]].phase = "terminal")
        <3>1. CASE Unsettled(x) = {}
            BY <1>2, <1>3, <1>4, <3>1 DEF Kept
        <3>2. CASE Unsettled(x) # {}
            <4>1. PICK i \in DOMAIN lineage[x].finds :
                        lineage[x].finds[i].code = "vanished" /\ lineage[x].finds[i].st # "resolved"
                BY <3>2 DEF Unsettled, Vanished
            <4>2. lineage'[x].finds[i].st = "resolved"
                BY <1>1, <2>2, <4>1 DEF Grown, Unsettled, Vanished
            <4>3. QED BY <1>1, <1>2, <4>1, <4>2 DEF Grown
        <3>3. QED BY <3>1, <3>2
    <2>3. QED BY <2>1, <2>2 DEF Kept, Terminal
<1>5. QED BY <1>1, <1>4

LEMMA LossKeptStays ==
    ASSUME IInv, LossInv, Good
    PROVE  LossKept'
<1>1. \A x \in Runs : rows[x].st = "reconciled" => Kept(x)
    BY DEF LossInv, LossKept, Kept
<1>2. SUFFICES ASSUME NEW x \in Runs, rows'[x].st = "reconciled"
               PROVE  Kept(x)'
    BY DEF LossKept, Kept
<1>3. rows[x].st = "reconciled" \/ (pc \in Acting /\ x = cur.run)
    BY <1>2 DEF Good, Steady
<1>4. Lost(x) /\ Kept(x)
    BY <1>1, <1>3 DEF LossInv, Holding, InHand, Lost
<1>5. QED BY <1>4, LostStays DEF LossInv, Good

\* What the tick goes on with, it had in its hands.
GoesOn ==
    /\ pc \in Handling /\ raw' = raw /\ repo'.task = repo.task /\ todo' \subseteq todo
    /\ pc' \in Acting => pc \in Acting /\ cur' = cur

LEMMA GoesOnHolding ==
    ASSUME IInv, LossInv, Good, GoesOn
    PROVE  Holding'
<1>1. ASSUME NEW f \in Goals, InHand(f)
      PROVE  InHand(f)' /\ rows'[f.run].task = rows[f.run].task
    <2>1. PICK x \in Runs : x = f.run
        BY DEF Goals
    <2>2. Lost(x)' /\ Kept(x)' /\ rows'[x].task = rows[x].task
        BY <1>1, <2>1, LostStays DEF LossInv, Good, InHand
    <2>3. QED BY <2>1, <2>2 DEF InHand
<1>2. ASSUME NEW f \in todo'
      PROVE  InHand(f)'
    BY <1>1 DEF GoesOn, LossInv, Holding, IInv, Types
<1>3. ASSUME pc' \in Acting
      PROVE  InHand(cur)' /\ rows'[cur'.run].task = raw'.task
    <2>1. PICK f : f = cur
        OBVIOUS
    <2>2. f \in Goals /\ InHand(f) /\ rows[f.run].task = raw.task /\ cur' = f
        <3>1. pc \in Acting /\ cur' = cur
            BY <1>3 DEF GoesOn
        <3>2. cur \in Goals
            BY <3>1, OwnersAssumption DEF IInv, TickWell, Acting, Types, NoOne
        <3>3. InHand(cur) /\ rows[cur.run].task = raw.task
            BY <3>1 DEF LossInv, Holding
        <3>4. QED BY <2>1, <3>1, <3>2, <3>3 DEF InHand, Lost, Kept, Vanished, Unsettled, Terminal
    <2>3. PICK x \in Runs : x = f.run
        BY <2>2 DEF Goals
    <2>4. Lost(x)' /\ Kept(x)' /\ rows'[x].task = rows[x].task
        BY <2>2, <2>3, LostStays DEF LossInv, Good, InHand
    <2>5. InHand(cur)'
        BY <2>2, <2>3, <2>4 DEF InHand, Lost, Kept, Vanished, Unsettled, Terminal
    <2>6. rows'[cur'.run].task = raw'.task
        BY <2>2, <2>3, <2>4 DEF GoesOn
    <2>7. QED BY <2>5, <2>6
<1>4. QED BY <1>2, <1>3 DEF Holding, GoesOn, LossInv

LEMMA ObserveHolding ==
    ASSUME IInv, LossInv, Observe
    PROVE  Holding'
<1>1. \A x \in Runs : SeenNow(x)
    BY ObserveSees DEF LossInv
<1>2. /\ pc' = Left(todo', "trigger", "idle") /\ raw' = Left(todo', [raw EXCEPT !.task = repo.task], NoRaw)
      /\ UNCHANGED <<repo, rows>>
    BY DEF Observe
<1>3. ASSUME NEW g \in todo'
      PROVE  InHand(g)'
    <2>1. g \in Goals /\ \E f \in Range(lineage'[g.run].finds) : f.code = "vanished" /\ f.st \in {"actionable", "pending"}
        BY <1>3 DEF Observe
    <2>2. PICK x \in Runs : x = g.run
        BY <2>1 DEF Goals
    <2>3. PICK i \in DOMAIN lineage'[x].finds :
            lineage'[x].finds[i].code = "vanished" /\ lineage'[x].finds[i].st # "resolved"
        BY <2>1, <2>2 DEF Range
    <2>4. Lost(x) \/ rows[x].st \in Ended
        BY <1>1, <2>3 DEF SeenNow
    <2>5. rows[x].st \notin Ended
        <3>1. Recovery[x] # None
            BY <1>1, <2>3 DEF SeenNow
        <3>2. QED BY <1>1, <2>3, <3>1 DEF SeenNow
    <2>6. Lost(x)' /\ Kept(x)'
        BY <1>2, <2>3, <2>4, <2>5 DEF Lost, Kept, Vanished, Unsettled
    <2>7. QED BY <2>2, <2>6 DEF InHand
<1>4. CASE todo' = {}
    BY <1>2, <1>4 DEF Left, Holding, Handling, Acting
<1>5. CASE todo' # {}
    <2>1. pc' = "trigger" /\ raw' = [raw EXCEPT !.task = repo.task]
        BY <1>2, <1>5 DEF Left
    <2>2. raw'.task = repo'.task
        BY <1>2, <2>1 DEF IInv, Types
    <2>3. QED BY <1>3, <2>1, <2>2 DEF Holding, Acting
<1>6. QED BY <1>4, <1>5

\* The run the tick decides to recover has the task the tick will ask for.
LEMMA DueHolding ==
    ASSUME IInv, LossInv, Good, NEW f \in todo, Resume(f) \/ Reserve(f)
    PROVE  Holding'
<1>1. PICK x \in Runs : x = f.run
    BY DEF IInv, Types, Goals
<1>2. pc = "trigger" /\ ~Overtaken(x) /\ pc' \in Acting /\ cur' = f
      /\ UNCHANGED <<repo, rows, lineage, raw, todo>>
    BY <1>1 DEF Resume, Reserve, Due, Open, AtFinding, Acting
<1>3. raw.task = repo.task /\ \A g \in todo : InHand(g)
    BY <1>2 DEF LossInv, Holding, Handling
<1>4. Launched(x)
    BY <1>1, <1>3 DEF InHand, Lost, LossInv, Ledger, RowsWell, RowWell
<1>5. rows[x].task = raw.task
    BY <1>2, <1>3, <1>4 DEF Overtaken, Shifted, LossInv, Ledger, RowsWell, RowWell
<1>6. \A g \in todo : InHand(g)'
    BY <1>2, <1>3 DEF InHand, Lost, Kept, Vanished, Unsettled, Terminal
<1>7. InHand(cur)'
    BY <1>2, <1>6 DEF InHand, Lost, Kept, Vanished, Unsettled, Terminal
<1>8. QED BY <1>1, <1>2, <1>3, <1>5, <1>6, <1>7 DEF Holding, Handling

LEMMA HoldingStays ==
    ASSUME IInv, LossInv, Good, [Next]_vars
    PROVE  Holding'
<1> USE DEF Handling, Acting
<1>1. ASSUME pc' \notin Handling
      PROVE  Holding'
    BY <1>1 DEF Holding
<1>2. CASE Monitor \/ Oblige \/ Settle \/ ObligeFails \/ HandOff \/ Crash \/ Restart
    BY <1>1, <1>2 DEF Monitor, Oblige, Settle, ObligeFails, HandOff, Crash, Restart, Left, daemon
<1>3. ASSUME NEW f \in todo, Launch(f) \/ Refuse(f)
      PROVE  Holding'
    BY <1>1, <1>3 DEF Launch, Refuse, Left
<1>4. ASSUME NEW f \in todo, Resume(f) \/ Reserve(f)
      PROVE  Holding'
    BY <1>4, DueHolding
<1>5. ASSUME NEW f \in todo, Supersede(f) \/ GiveUp(f) \/ Wait(f) \/ Doubt(f)
      PROVE  Holding'
    <2>1. pc' = "idle" \/ GoesOn
        BY <1>5 DEF Supersede, GiveUp, Wait, Doubt, Open, AtFinding, Drop, Left, GoesOn
    <2>2. QED BY <1>1, <2>1, GoesOnHolding
<1>6. CASE NoteAttempt \/ Reconcile \/ CloseLost \/ Pend \/ TellPending \/ Mark
    <2>1. GoesOn
        BY <1>6 DEF NoteAttempt, Reconcile, CloseLost, Pend, TellPending, Mark, Onward, GoesOn
    <2>2. QED BY <2>1, GoesOnHolding
<1>7. CASE Submit \/ Record
    <2>1. pc' = "idle" \/ GoesOn
        BY <1>7 DEF Submit, Record, Onward, Drop, Left, GoesOn
    <2>2. QED BY <1>1, <2>1, GoesOnHolding
<1>8. CASE GoBlind \/ Sighted \/ UNCHANGED vars
    <2>1. (pc \notin Handling /\ pc' = pc) \/ GoesOn
        BY <1>8 DEF GoBlind, Sighted, vars, daemon, GoesOn
    <2>2. QED BY <1>1, <2>1, GoesOnHolding
<1>9. ASSUME NEW x \in Runs, BrokerCommits(x) \/ BrokerEnds(x) \/ WorkerRecords(x) \/ CloseObligation(x) \/ OwnerContinue(x) \/ Cool(x)
      PROVE  Holding'
    <2>1. repo'.task = repo.task
        BY <1>9 DEF BrokerCommits, BrokerEnds, WorkerRecords, CloseObligation, OwnerContinue, Cool, IInv, Types
    <2>2. UNCHANGED daemon
        BY <1>9 DEF BrokerCommits, BrokerEnds, WorkerRecords, CloseObligation, OwnerContinue, Cool
    <2>3. (pc \notin Handling /\ pc' = pc) \/ GoesOn
        BY <2>1, <2>2 DEF daemon, GoesOn
    <2>4. QED BY <1>1, <2>3, GoesOnHolding
<1>10. CASE Observe
    BY <1>10, ObserveHolding
<1>11. QED BY <1>2, <1>3, <1>4, <1>5, <1>6, <1>7, <1>8, <1>9, <1>10 DEF Next, Tick, Thread

LEMMA InitLossInv == Init => LossInv
<1> SUFFICES ASSUME Init
             PROVE  LossInv
    OBVIOUS
<1>1. NoRecord \in RecordsOf /\ NoRecord.phase = "none" /\ NoRecord.finds = <<>>
    <2>1. <<>> \in Seq(FindingsOf)
        OBVIOUS
    <2>2. QED BY <2>1 DEF NoRecord, RecordsOf, States
<1>2. RowsWell /\ HandedOn
    BY DEF Init, RowsWell, RowWell, HandedOn, Launched, NoRow
<1>3. Expecting
    BY Recoveries DEF Init, Expecting, Known, NoCmd
<1>4. LineageWell
    BY <1>1 DEF Init, LineageWell, RecordWell, Vanished, NoRow
<1>5. StartWell /\ LineageTypes /\ repo.task # 0
    BY <1>1 DEF Init, StartWell, Starting, LineageTypes
<1>6. LossKept /\ Holding
    BY DEF Init, LossKept, Holding, Handling, Acting, NoRow
<1>7. QED BY <1>2, <1>3, <1>4, <1>5, <1>6 DEF LossInv, Ledger

\* Beside IInv, LossInv is inductive: ledger, lineage and inbox agree on what a lost run was about, and no
\* write by tick, thread or restart drops its finding.
THEOREM LossInvariance == Spec => []LossInv
<1>1. IInv /\ IInv' /\ LossInv /\ [Next]_vars => LossInv'
    <2>1. SUFFICES ASSUME IInv, IInv', LossInv, [Next]_vars
                   PROVE  LossInv'
        OBVIOUS
    <2>2. Ledger /\ Holding
        BY <2>1 DEF LossInv
    <2>3. Good
        BY <2>1, <2>2, EveryStepGood
    <2>4. LossKept' /\ Holding'
        BY <2>1, <2>3, LossKeptStays, HoldingStays
    <2>5. QED BY <2>3, <2>4 DEF LossInv, Good
<1>2. QED BY InitLossInv, <1>1, Invariance, PTL DEF Spec

\* A recovery works on the task of the run it replaces (continue's expected identity, _fresh_guard): the
\* watchdog asks for its own snapshot's task, which is the lost run's, or HEAD would have moved.
THEOREM SameTask == Spec => []RecoveryRunsItsTask
<1>1. IInv /\ LossInv => RecoveryRunsItsTask
    <2>1. SUFFICES ASSUME IInv, LossInv, NEW x \in Runs, Recovery[x] # None, broker[Recovery[x]] # "none"
                   PROVE  rows[Recovery[x]].task = rows[x].task
        BY DEF RecoveryRunsItsTask
    <2>2. Recovery[x] \in Runs /\ Known(Recovery[x])
        BY <2>1, Recoveries DEF IInv, Submitted
    <2>3. Launched(Recovery[x])
        BY <2>1, <2>2 DEF LossInv, Ledger, RowsWell, RowWell
    <2>4. QED BY <2>1, <2>2, <2>3 DEF LossInv, Ledger, RowsWell, RowWell, Expecting
<1>2. QED BY Invariance, LossInvariance, <1>1, PTL

\* A reconciled run keeps a finding (observe_executions, _trigger_execution_loss_recovery), which is resolved
\* only once the task was handed on or the replacement's record has been closed.
THEOREM FindingsStay == Spec => []LossKept
<1>1. LossInv => LossKept
    BY DEF LossInv
<1>2. QED BY LossInvariance, <1>1, PTL

\* What a loss left behind stands through every step, crash and restart: a lost run stays lost, with its
\* task (recovery_required, reconciled); only the tick that holds its finding reconciles a run; its
\* list of findings only grows, and a finding is resolved only when the task was handed on or the
\* replacement closed; a closed lineage record stays closed, and the project's task never goes back.
THEOREM LossesStand == Spec => [][Steady]_vars
<1>1. IInv /\ IInv' /\ LossInv /\ [Next]_vars => [Steady]_vars
    BY EveryStepGood DEF LossInv, Good
<1>2. QED BY Invariance, LossInvariance, <1>1, PTL DEF Spec

\* The project's task is one of the roadmap, and only slots of runs cool down.
Roadmap == repo.task <= NTasks /\ cooling \subseteq Runs

\* Only the hand-off of a completed task moves the task on (HandOff), and only as far as the roadmap goes.
LEMMA RoadmapKept ==
    ASSUME IInv, Roadmap, [Next]_vars
    PROVE  Roadmap'
<1>1. repo'.task <= NTasks
    <2>1. CASE repo'.task = repo.task
        BY <2>1 DEF Roadmap
    <2>2. CASE HandOff
        <3>1. repo'.task = repo.task + 1 /\ repo.task < NTasks /\ repo.task \in Nat
            BY <2>2 DEF HandOff, IInv, Types
        <3>2. NTasks \in Nat
            BY BoundsAssumption
        <3>3. QED BY <3>1, <3>2
    <2>3. ASSUME NEW x \in Runs, BrokerCommits(x) \/ Thread(x)
          PROVE  repo'.task = repo.task
        BY <2>3 DEF BrokerCommits, Thread, BrokerEnds, WorkerRecords, CloseObligation, IInv, Types
    <2>4. ASSUME NEW x \in Runs, OwnerContinue(x) \/ Cool(x)
          PROVE  repo' = repo
        BY <2>4 DEF OwnerContinue, Cool
    <2>5. CASE ObligeFails \/ Crash \/ Restart \/ GoBlind \/ Sighted \/ UNCHANGED vars
        BY <2>1, <2>5 DEF ObligeFails, Crash, Restart, GoBlind, Sighted, vars
    <2>6. CASE Tick
        <3>1. repo' = repo
            BY <2>6 DEF Tick, Monitor, Oblige, Settle, Observe, NoteAttempt, Reconcile, CloseLost, Pend, TellPending, Submit,
               Mark, Record, Launch, Refuse, Supersede, GiveUp, Wait, Doubt, Resume, Reserve, Onward, Drop
        <3>2. QED BY <2>1, <3>1
    <2>7. QED BY <2>1, <2>2, <2>3, <2>4, <2>5, <2>6 DEF Next
<1>2. cooling' \subseteq Runs
    <2>1. CASE cooling' \subseteq cooling
        BY <2>1 DEF Roadmap
    <2>2. CASE Observe
        BY <2>2 DEF Observe, Roadmap
    <2>3. CASE Mark
        BY <2>3 DEF Mark, Onward, Roadmap, IInv, TickWell
    <2>4. ASSUME NEW f \in todo, Reserve(f) PROVE cooling' \subseteq Runs
        BY <2>4 DEF Reserve, Roadmap, IInv, Types, Goals
    <2>5. ASSUME NEW x \in Runs, BrokerCommits(x) \/ Thread(x) \/ OwnerContinue(x) \/ Cool(x)
          PROVE  cooling' \subseteq cooling
        BY <2>5 DEF BrokerCommits, Thread, BrokerEnds, WorkerRecords, CloseObligation, OwnerContinue, Cool, watch
    <2>6. CASE HandOff \/ ObligeFails \/ Crash \/ Restart \/ GoBlind \/ Sighted \/ UNCHANGED vars
        BY <2>1, <2>6 DEF HandOff, ObligeFails, Crash, Restart, GoBlind, Sighted, vars, watch
    <2>7. CASE Tick
        <3>1. Observe \/ Mark \/ (\E f \in todo : Reserve(f)) \/ cooling' = cooling
            BY <2>7 DEF Tick, Monitor, Oblige, Settle, NoteAttempt, Reconcile, CloseLost, Pend, TellPending, Submit,
               Record, Launch, Refuse, Supersede, GiveUp, Wait, Doubt, Resume, Onward, Drop, watch
        <3>2. QED BY <2>1, <2>2, <2>3, <2>4, <3>1
    <2>8. QED BY <2>1, <2>5, <2>6, <2>7 DEF Next
<1>3. QED BY <1>1, <1>2 DEF Roadmap

\* Ledger, lineage, slots, commands and the tick keep to their types, whatever crashes between the files
\* they are kept in; the project never leaves its roadmap.
THEOREM TypeCorrect == Spec => []TypeOK
<1>1. Init => Roadmap
    BY BoundsAssumption DEF Init, Roadmap
<1>2. IInv /\ Roadmap /\ [Next]_vars => Roadmap'
    BY RoadmapKept
<1>3. IInv /\ LossInv /\ Roadmap => TypeOK
    <2>1. SUFFICES ASSUME IInv, LossInv, Roadmap PROVE TypeOK
        OBVIOUS
    <2>2. repo \in [task : 1..NTasks, ready : BOOLEAN, head : Nat]
        <3>1. repo \in [task : Nat, ready : BOOLEAN, head : Nat] /\ repo.task # 0 /\ repo.task <= NTasks /\ NTasks \in Nat
            BY <2>1, BoundsAssumption DEF IInv, Types, LossInv, Ledger, Roadmap
        <3>2. QED BY <3>1
    <2>3. ASSUME NEW x \in Runs PROVE lineage[x].phase \in {"none", "open", "terminal"}
        BY <2>1 DEF LossInv, Ledger, LineageTypes, RecordsOf
    <2>4. ASSUME NEW x \in Runs
          PROVE  /\ rows[x].st \in {"none", "active", "blocked", "recovery_required", "reconciled"} \cup Ended
                 /\ cmds[x].st \in {"none", "queued", "accepted", "blocked"}
        BY <2>1 DEF IInv, Types, RowsOf, Commands, States, Ended
    <2>5. QED BY <2>1, <2>2, <2>3, <2>4 DEF IInv, Types, LossInv, Ledger, LineageTypes, Roadmap, TypeOK
<1>4. QED BY Invariance, LossInvariance, <1>1, <1>2, <1>3, PTL DEF Spec
=============================================================================
