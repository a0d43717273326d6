------------------------- MODULE ControlCommandsProofs -------------------------
(***************************************************************************)
(* Theorems about ControlCommands, for every value of its constants.       *)
(*                                                                         *)
(* Inv is the inductive invariant: types, who holds the lock, what the     *)
(* daemon knows of the command in its hands, and how inbox, history, plan  *)
(* and audit of a command go together.  Each action has a lemma with one   *)
(* step for each part it can disturb.                                      *)
(***************************************************************************)
EXTENDS ControlCommands, TLAPS

-----------------------------------------------------------------------------
\* The inductive invariant

\* The lock is with a client while its request waits for the audit row.
ClientsInv == \A p \in Clients :
    client[p] # None => lock = p /\ inbox[client[p].id] = client[p]

InHand == {"settle", "audit", "unlink"}

\* A tick lists ended plans, then pending commands; the command in hand is
\* pending, and what is or will be its outcome names it.
DaemonInv ==
    /\ daemon.pc \in {"audit", "unlink"} => lock = "daemon" /\ history[daemon.id] # None
    /\ daemon.pc \in InHand =>
          /\ daemon.id \in Ids /\ inbox[daemon.id] # None
          /\ daemon.outcome \in Outcome /\ daemon.outcome.req = inbox[daemon.id]
          /\ history[daemon.id] # None => history[daemon.id].req = inbox[daemon.id]
    /\ daemon.pc \in InHand \cup {"next"} => \A c \in daemon.todo : inbox[c] # None
    /\ daemon.pc \in {"sync", "sync_audit", "sync_mark"} => \A c \in daemon.todo : plan[c] = "ended"
    /\ daemon.pc \in {"sync_audit", "sync_mark"} => daemon.id \in daemon.todo

\* A plan belongs to a command that is known.
PlansInv == \A c \in Ids : plan[c] # "none" => inbox[c] # None \/ history[c] # None

\* The history names the request of the inbox, or none.
MatchInv == \A c \in Ids :
    inbox[c] # None /\ history[c] # None => history[c].req \in {inbox[c], None}

\* Before the inbox record is removed, the outcome is audited.
AuditInv == \A c \in Ids : daemon.pc = "unlink" /\ daemon.id = c => Audited(c)

TrailOK == audit \in Seq(Row) /\ cut \in 0 .. Len(audit) /\ torn \in BOOLEAN

\* What was audited remains so.
TrailKept == TrailOK' /\ \A c \in Ids : Audited(c) => Audited(c)'

Inv == /\ TypeOK /\ ClientsInv /\ DaemonInv /\ PlansInv /\ MatchInv /\ AuditInv
       /\ AcceptedStands /\ SettledAudited

-----------------------------------------------------------------------------
\* The audit

\* Rows are only added, and moved aside.
LEMMA AuditGrows ==
    ASSUME TrailOK, NEW e \in {"request_accepted", "command_settled", "command_updated"},
           NEW d \in Ids \cup {None}, Audit(e, d)
    PROVE  TrailKept /\ (e = "command_settled" => Audited(d)')
<1> DEFINE row == [event |-> e, id |-> d]
<1>1. row \in Row /\ audit' = Append(audit, row) BY DEF Audit, Row
<1>2. /\ audit' \in Seq(Row) /\ Len(audit') = Len(audit) + 1
      /\ audit'[Len(audit) + 1] = row
      /\ \A i \in 1 .. Len(audit) : audit'[i] = audit[i]
  BY <1>1 DEF TrailOK
<1>3. Len(audit) \in Nat BY DEF TrailOK
<1>4. \A c \in Ids : Audited(c) => Audited(c)'
  BY <1>2, <1>3 DEF Audited
<1>5. e = "command_settled" => Audited(d)'
  BY <1>2, <1>3 DEF Audited
<1>6. cut' \in Int /\ 0 <= cut' /\ cut' <= Len(audit) /\ torn' \in BOOLEAN
  <2>1. cut \in Int /\ 0 <= cut /\ cut <= Len(audit) BY <1>3 DEF TrailOK
  <2>2. cut' = cut \/ cut' = Len(audit) BY DEF Audit, Repaired
  <2>3. torn' \in BOOLEAN BY DEF Audit, Repaired
  <2> QED BY <1>3, <2>1, <2>2, <2>3
<1>7. cut' \in 0 .. Len(audit')
  BY <1>2, <1>3, <1>6
<1> QED BY <1>2, <1>4, <1>5, <1>6, <1>7 DEF TrailOK, TrailKept

LEMMA AuditStays ==
    ASSUME TrailOK, UNCHANGED audit, Repaired \/ (UNCHANGED cut /\ torn' \in BOOLEAN)
    PROVE  TrailKept
<1>1. Len(audit) \in Nat BY DEF TrailOK
<1>2. cut \in Int /\ 0 <= cut /\ cut <= Len(audit) BY <1>1 DEF TrailOK
<1>3. cut' = cut \/ cut' = Len(audit) BY DEF Repaired
<1>4. torn' \in BOOLEAN BY DEF Repaired
<1>5. TrailOK' BY <1>1, <1>2, <1>3, <1>4 DEF TrailOK
<1>6. \A c \in Ids : Audited(c) => Audited(c)' BY DEF Audited
<1> QED BY <1>5, <1>6 DEF TrailKept

-----------------------------------------------------------------------------
\* Every action keeps the invariant

LEMMA StartTickKeeps ==
    ASSUME Inv, StartTick
    PROVE  Inv'
<1> USE CommandsAssumption DEF Inv, StartTick, At, store, world, bounds
<1>1. TrailKept BY AuditStays DEF TypeOK, TrailOK
<1>2. TypeOK' BY <1>1 DEF TrailKept, TrailOK, TypeOK, Pcs, Outcome
<1>3. ClientsInv' BY DEF ClientsInv, TypeOK
<1>4. DaemonInv' BY DEF DaemonInv, InHand, TypeOK
<1>5. PlansInv' BY DEF PlansInv, TypeOK
<1>6. MatchInv' BY DEF MatchInv, TypeOK
<1>7. AuditInv' BY <1>1 DEF TrailKept, AuditInv, TypeOK
<1>8. AcceptedStands' BY DEF AcceptedStands, TypeOK
<1>9. SettledAudited' BY <1>1 DEF TrailKept, SettledAudited, TypeOK
<1> QED BY <1>2, <1>3, <1>4, <1>5, <1>6, <1>7, <1>8, <1>9

LEMMA SyncHistoryKeeps ==
    ASSUME Inv, NEW c \in Ids, SyncHistory(c)
    PROVE  Inv'
<1>a. PICK s \in {"blocked", "owner_gate"} :
        history' = [history EXCEPT ![c] =
            [req |-> IF history[c] = None THEN None ELSE history[c].req, state |-> s]]
  BY DEF SyncHistory
<1>b. /\ history' \in [Ids -> Outcome \cup {None}] /\ history'[c] # None
      /\ history[c] # None => history'[c].req = history[c].req
      /\ \A d \in Ids \ {c} : history'[d] = history[d]
  BY <1>a, CommandsAssumption DEF Inv, TypeOK, Outcome
<1>c. inbox[c] # None \/ history[c] # None BY DEF SyncHistory, At, Inv, DaemonInv, PlansInv
<1> USE CommandsAssumption DEF Inv, SyncHistory, At, trail, world, bounds
<1>1. TrailKept BY AuditStays DEF TypeOK, TrailOK
<1>2. TypeOK' BY <1>1, <1>b DEF TrailKept, TrailOK, TypeOK, Pcs
<1>3. ClientsInv' BY DEF ClientsInv, TypeOK
<1>4. DaemonInv' BY DEF DaemonInv, InHand, TypeOK
<1>5. PlansInv' BY <1>b DEF PlansInv, TypeOK
<1>6. MatchInv' BY <1>a DEF MatchInv, TypeOK
<1>7. AuditInv' BY <1>1 DEF TrailKept, AuditInv, TypeOK
<1>8. AcceptedStands' BY <1>b DEF AcceptedStands, TypeOK
<1>9. SettledAudited' BY <1>1, <1>b, <1>c DEF TrailKept, SettledAudited, TypeOK
<1> QED BY <1>2, <1>3, <1>4, <1>5, <1>6, <1>7, <1>8, <1>9

LEMMA SyncAuditKeeps ==
    ASSUME Inv, SyncAudit
    PROVE  Inv'
<1> USE CommandsAssumption DEF Inv, SyncAudit, At, Goto, store, world, bounds
<1>1. TrailKept BY AuditGrows DEF TypeOK, TrailOK, DaemonInv
<1>2. TypeOK' BY <1>1 DEF TrailKept, TrailOK, TypeOK, Pcs, Outcome
<1>3. ClientsInv' BY DEF ClientsInv, TypeOK
<1>4. DaemonInv' BY DEF DaemonInv, InHand, TypeOK
<1>5. PlansInv' BY DEF PlansInv, TypeOK
<1>6. MatchInv' BY DEF MatchInv, TypeOK
<1>7. AuditInv' BY <1>1 DEF TrailKept, AuditInv, TypeOK
<1>8. AcceptedStands' BY DEF AcceptedStands, TypeOK
<1>9. SettledAudited' BY <1>1 DEF TrailKept, SettledAudited, TypeOK
<1> QED BY <1>2, <1>3, <1>4, <1>5, <1>6, <1>7, <1>8, <1>9

LEMMA SyncMarkKeeps ==
    ASSUME Inv, SyncMark
    PROVE  Inv'
<1> USE CommandsAssumption DEF Inv, SyncMark, At, store, trail, bounds
<1>1. TrailKept BY AuditStays DEF TypeOK, TrailOK
<1>2. TypeOK' BY <1>1 DEF TrailKept, TrailOK, TypeOK, Pcs, Outcome
<1>3. ClientsInv' BY DEF ClientsInv, TypeOK
<1>4. DaemonInv' BY DEF DaemonInv, InHand, TypeOK
<1>5. PlansInv' BY DEF PlansInv, DaemonInv, TypeOK
<1>6. MatchInv' BY DEF MatchInv, TypeOK
<1>7. AuditInv' BY <1>1 DEF TrailKept, AuditInv, TypeOK
<1>8. AcceptedStands' BY DEF AcceptedStands, TypeOK
<1>9. SettledAudited' BY <1>1 DEF TrailKept, SettledAudited, TypeOK
<1> QED BY <1>2, <1>3, <1>4, <1>5, <1>6, <1>7, <1>8, <1>9

LEMMA ListPendingKeeps ==
    ASSUME Inv, ListPending
    PROVE  Inv'
<1> USE CommandsAssumption DEF Inv, ListPending, At, store, trail, world, bounds
<1>1. TrailKept BY AuditStays DEF TypeOK, TrailOK
<1>2. TypeOK' BY <1>1 DEF TrailKept, TrailOK, TypeOK, Pcs, Outcome
<1>3. ClientsInv' BY DEF ClientsInv, TypeOK
<1>4. DaemonInv' BY DEF DaemonInv, InHand, TypeOK
<1>5. PlansInv' BY DEF PlansInv, TypeOK
<1>6. MatchInv' BY DEF MatchInv, TypeOK
<1>7. AuditInv' BY <1>1 DEF TrailKept, AuditInv, TypeOK
<1>8. AcceptedStands' BY DEF AcceptedStands, TypeOK
<1>9. SettledAudited' BY <1>1 DEF TrailKept, SettledAudited, TypeOK
<1> QED BY <1>2, <1>3, <1>4, <1>5, <1>6, <1>7, <1>8, <1>9

LEMMA TakeKeeps ==
    ASSUME Inv, Take
    PROVE  Inv'
<1>a. PICK c \in Ids :
        /\ First(c)
        /\ \/ history[c] = None /\ Consume(c)
           \/ history[c] # None /\ history[c].req # None /\ Settling(c, history[c]) /\ UNCHANGED world
           \/ history[c] # None /\ history[c].req = None /\ GiveUp /\ UNCHANGED world
  BY DEF Take
<1>b. inbox[c] \in Requests /\ inbox[c] # None
  BY <1>a, CommandsAssumption DEF Take, At, First, Inv, DaemonInv, TypeOK
<1>c. \A s \in {"accepted", "blocked"} :
        Result(c, s) \in Outcome /\ Result(c, s).req = inbox[c]
  BY <1>b DEF Outcome, Result
<1>d. history[c] # None /\ history[c].req # None
      => history[c] \in Outcome /\ history[c].req = inbox[c]
  BY <1>b DEF Inv, MatchInv, TypeOK
<1>e. \/ \E outcome \in Outcome :
            /\ Settling(c, outcome) /\ outcome.req = inbox[c]
            /\ history[c] # None => outcome = history[c]
      \/ GiveUp
  BY <1>a, <1>c, <1>d DEF Consume
<1>f. /\ daemon' \in [pc : Pcs, todo : SUBSET Ids, id : Ids \cup {None}, outcome : Outcome \cup {None}]
      /\ \/ /\ daemon'.pc = "settle" /\ daemon'.id = c /\ daemon'.todo = daemon.todo
            /\ daemon'.outcome \in Outcome /\ daemon'.outcome.req = inbox[c]
            /\ history[c] # None => history[c].req = inbox[c]
         \/ daemon'.pc = "idle"
  <2>1. daemon \in [pc : Pcs, todo : SUBSET Ids, id : Ids \cup {None}, outcome : Outcome \cup {None}]
    BY DEF Inv, TypeOK
  <2>2. CASE GiveUp BY <2>2 DEF GiveUp, Pcs
  <2>3. ASSUME NEW outcome \in Outcome, Settling(c, outcome), outcome.req = inbox[c],
               history[c] # None => outcome = history[c]
        PROVE  /\ daemon' \in [pc : Pcs, todo : SUBSET Ids, id : Ids \cup {None},
                               outcome : Outcome \cup {None}]
               /\ daemon'.pc = "settle" /\ daemon'.id = c /\ daemon'.todo = daemon.todo
               /\ daemon'.outcome \in Outcome /\ daemon'.outcome.req = inbox[c]
               /\ history[c] # None => history[c].req = inbox[c]
    BY <2>1, <2>3 DEF Settling, Pcs
  <2> QED BY <1>e, <2>2, <2>3
<1>g. /\ paused' \in BOOLEAN /\ effects' \in [Ids -> Nat]
      /\ plan' \in [Ids -> {"none", "planning", "ended", "synced"}]
      /\ \A d \in Ids \ {c} : plan'[d] = plan[d]
  <2>1. paused \in BOOLEAN /\ plan \in [Ids -> {"none", "planning", "ended", "synced"}]
        /\ effects \in [Ids -> Nat]
    BY DEF Inv, TypeOK
  <2>2. CASE UNCHANGED world BY <2>1, <2>2 DEF world
  <2>3. CASE Perform(c, inbox[c].action)
    <3>1. paused' \in BOOLEAN BY <2>1, <2>3 DEF Perform
    <3>2. plan' = plan \/ plan' = [plan EXCEPT ![c] = "planning"] BY <2>3 DEF Perform
    <3>3. effects' = [effects EXCEPT ![c] = @ + 1] BY <2>3 DEF Perform
    <3> QED BY <2>1, <3>1, <3>2, <3>3
  <2>4. Perform(c, inbox[c].action) \/ UNCHANGED world BY <1>a DEF Consume, PlanExists
  <2> QED BY <2>2, <2>3, <2>4
<1> USE CommandsAssumption DEF Inv, Take, At, store, trail, bounds
<1>1. TrailKept BY AuditStays DEF TypeOK, TrailOK
<1>2. TypeOK' BY <1>1, <1>f, <1>g DEF TrailKept, TrailOK, TypeOK
<1>3. ClientsInv' BY DEF ClientsInv, TypeOK
<1>4. DaemonInv' BY <1>b, <1>f DEF DaemonInv, InHand
<1>5. PlansInv' BY <1>b, <1>g DEF PlansInv
<1>6. MatchInv' BY DEF MatchInv, TypeOK
<1>7. AuditInv' BY <1>f DEF AuditInv
<1>8. AcceptedStands' BY DEF AcceptedStands, TypeOK
<1>9. SettledAudited' BY <1>1 DEF TrailKept, SettledAudited, TypeOK
<1> QED BY <1>2, <1>3, <1>4, <1>5, <1>6, <1>7, <1>8, <1>9

LEMMA EndTickKeeps ==
    ASSUME Inv, EndTick
    PROVE  Inv'
<1> USE CommandsAssumption DEF Inv, EndTick, At, Goto, store, trail, world, bounds
<1>1. TrailKept BY AuditStays DEF TypeOK, TrailOK
<1>2. TypeOK' BY <1>1 DEF TrailKept, TrailOK, TypeOK, Pcs, Outcome
<1>3. ClientsInv' BY DEF ClientsInv, TypeOK
<1>4. DaemonInv' BY DEF DaemonInv, InHand, TypeOK
<1>5. PlansInv' BY DEF PlansInv, TypeOK
<1>6. MatchInv' BY DEF MatchInv, TypeOK
<1>7. AuditInv' BY <1>1 DEF TrailKept, AuditInv, TypeOK
<1>8. AcceptedStands' BY DEF AcceptedStands, TypeOK
<1>9. SettledAudited' BY <1>1 DEF TrailKept, SettledAudited, TypeOK
<1> QED BY <1>2, <1>3, <1>4, <1>5, <1>6, <1>7, <1>8, <1>9

LEMMA SettleHistoryKeeps ==
    ASSUME Inv, SettleHistory
    PROVE  Inv'
<1>a. history' = [history EXCEPT ![daemon.id] = IF @ = None THEN daemon.outcome ELSE @]
  BY DEF SettleHistory
<1>b. history \in [Ids -> Outcome \cup {None}] BY DEF Inv, TypeOK
<1>c. \A d \in Ids : history'[d] = history[d] \/ (d = daemon.id /\ history'[d] = daemon.outcome)
  <2>1. CASE history[daemon.id] = None
    <3>1. history' = [history EXCEPT ![daemon.id] = daemon.outcome] BY <1>a, <2>1
    <3> QED BY <1>b, <3>1
  <2>2. CASE history[daemon.id] # None
    <3>1. history' = [history EXCEPT ![daemon.id] = history[daemon.id]] BY <1>a, <2>2
    <3> QED BY <1>b, <3>1
  <2> QED BY <2>1, <2>2
<1> USE CommandsAssumption DEF Inv, SettleHistory, At, Goto, world, bounds
<1>1. TrailKept BY AuditStays DEF TypeOK, TrailOK
<1>2. TypeOK' BY <1>1 DEF TrailKept, TrailOK, TypeOK, Pcs, Outcome
<1>3. ClientsInv' BY DEF ClientsInv, TypeOK
<1>4. DaemonInv' BY DEF DaemonInv, InHand, TypeOK
<1>5. PlansInv' BY DEF PlansInv, TypeOK
<1>6. MatchInv' BY <1>c DEF MatchInv, DaemonInv, InHand, TypeOK
<1>7. AuditInv' BY <1>1 DEF TrailKept, AuditInv, TypeOK
<1>8. AcceptedStands' BY DEF AcceptedStands, TypeOK
<1>9. SettledAudited' BY <1>1, <1>c DEF TrailKept, SettledAudited, DaemonInv, InHand
<1> QED BY <1>2, <1>3, <1>4, <1>5, <1>6, <1>7, <1>8, <1>9

LEMMA SettleAuditKeeps ==
    ASSUME Inv, SettleAudit
    PROVE  Inv'
<1>a. daemon.id \in Ids BY DEF SettleAudit, At, Inv, DaemonInv, InHand
<1>b. TrailKept /\ Audited(daemon.id)'
  <2>1. CASE AuditHas("command_settled", daemon.id) /\ UNCHANGED trail
    <3>1. TrailKept BY <2>1, AuditStays DEF Inv, TypeOK, TrailOK, trail
    <3>2. Audited(daemon.id) BY <2>1 DEF AuditHas, Audited
    <3> QED BY <1>a, <2>1, <3>1, <3>2 DEF TrailKept, Audited, SettleAudit, Goto, trail, Inv, TypeOK
  <2>2. CASE Audit("command_settled", daemon.id)
    <3>1. daemon'.id = daemon.id BY DEF SettleAudit, Goto, Inv, TypeOK
    <3> QED BY <1>a, <2>2, <3>1, AuditGrows DEF Inv, TypeOK, TrailOK, Audited
  <2> QED BY <2>1, <2>2 DEF SettleAudit
<1> USE CommandsAssumption DEF Inv, SettleAudit, At, Goto, store, world, bounds
<1>1. TrailKept BY <1>b
<1>2. TypeOK' BY <1>1 DEF TrailKept, TrailOK, TypeOK, Pcs, Outcome
<1>3. ClientsInv' BY DEF ClientsInv, TypeOK
<1>4. DaemonInv' BY DEF DaemonInv, InHand, TypeOK
<1>5. PlansInv' BY DEF PlansInv, TypeOK
<1>6. MatchInv' BY DEF MatchInv, TypeOK
<1>7. AuditInv' BY <1>b DEF AuditInv, TypeOK, Audited
<1>8. AcceptedStands' BY DEF AcceptedStands, TypeOK
<1>9. SettledAudited' BY <1>1 DEF TrailKept, SettledAudited, TypeOK
<1> QED BY <1>2, <1>3, <1>4, <1>5, <1>6, <1>7, <1>8, <1>9

LEMMA SettleUnlinkKeeps ==
    ASSUME Inv, SettleUnlink
    PROVE  Inv'
<1>a. /\ daemon.id \in Ids /\ history[daemon.id] # None
      /\ history[daemon.id].req = inbox[daemon.id] /\ Audited(daemon.id)
  BY DEF SettleUnlink, At, Inv, DaemonInv, AuditInv, InHand
<1>b. \A p \in Clients : client[p] = None
  BY CommandsAssumption DEF SettleUnlink, At, Inv, ClientsInv, DaemonInv
<1>c. \A d \in Ids : inbox'[d] = IF d = daemon.id THEN None ELSE inbox[d]
  BY DEF SettleUnlink, Inv, TypeOK
<1>d. AcceptedStands'
  <2>1. UNCHANGED <<acked, history>> /\ AcceptedStands BY DEF SettleUnlink, Inv
  <2> QED BY <1>a, <1>c, <2>1 DEF AcceptedStands
<1> USE CommandsAssumption DEF Inv, SettleUnlink, At, trail, world, bounds
<1>1. TrailKept BY AuditStays DEF TypeOK, TrailOK
<1>2. TypeOK' BY <1>1 DEF TrailKept, TrailOK, TypeOK, Pcs, Outcome
<1>3. ClientsInv' BY <1>b DEF ClientsInv
<1>4. DaemonInv' BY DEF DaemonInv, InHand, TypeOK
<1>5. PlansInv' BY <1>a, <1>c DEF PlansInv
<1>6. MatchInv' BY DEF MatchInv, TypeOK
<1>7. AuditInv' BY <1>1 DEF TrailKept, AuditInv, TypeOK
<1>8. AcceptedStands' BY <1>d
<1>9. SettledAudited' BY <1>1, <1>a, <1>c DEF TrailKept, SettledAudited
<1> QED BY <1>2, <1>3, <1>4, <1>5, <1>6, <1>7, <1>8, <1>9

LEMMA LockTimesOutKeeps ==
    ASSUME Inv, LockTimesOut
    PROVE  Inv'
<1>a. \/ daemon' = [daemon EXCEPT !.pc = "sync", !.todo = {}, !.id = None]
      \/ GiveUp
  BY DEF LockTimesOut
<1>b. daemon \in [pc : Pcs, todo : SUBSET Ids, id : Ids \cup {None}, outcome : Outcome \cup {None}]
  BY DEF Inv, TypeOK
<1>c. /\ daemon' \in [pc : Pcs, todo : SUBSET Ids, id : Ids \cup {None}, outcome : Outcome \cup {None}]
      /\ daemon'.pc \in {"sync", "idle"} /\ daemon'.todo = {}
  <2>1. CASE GiveUp BY <2>1 DEF GiveUp, Pcs
  <2>2. CASE daemon' = [daemon EXCEPT !.pc = "sync", !.todo = {}, !.id = None]
    BY <1>b, <2>2 DEF Pcs
  <2> QED BY <1>a, <2>1, <2>2
<1> USE CommandsAssumption DEF Inv, LockTimesOut, At, GiveUp, store, trail, world, bounds
<1>1. TrailKept BY AuditStays DEF TypeOK, TrailOK
<1>2. TypeOK' BY <1>1, <1>c DEF TrailKept, TrailOK, TypeOK
<1>3. ClientsInv' BY DEF ClientsInv, TypeOK
<1>4. DaemonInv' BY <1>c DEF DaemonInv, InHand
<1>5. PlansInv' BY DEF PlansInv, TypeOK
<1>6. MatchInv' BY DEF MatchInv, TypeOK
<1>7. AuditInv' BY <1>c DEF AuditInv
<1>8. AcceptedStands' BY DEF AcceptedStands, TypeOK
<1>9. SettledAudited' BY <1>1 DEF TrailKept, SettledAudited, TypeOK
<1> QED BY <1>2, <1>3, <1>4, <1>5, <1>6, <1>7, <1>8, <1>9

LEMMA PlanEndsKeeps ==
    ASSUME Inv, NEW c \in Ids, PlanEnds(c)
    PROVE  Inv'
<1> USE CommandsAssumption DEF Inv, PlanEnds, At, store, trail, bounds
<1>1. TrailKept BY AuditStays DEF TypeOK, TrailOK
<1>2. TypeOK' BY <1>1 DEF TrailKept, TrailOK, TypeOK, Pcs, Outcome
<1>3. ClientsInv' BY DEF ClientsInv, TypeOK
<1>4. DaemonInv' BY DEF DaemonInv, InHand, TypeOK
<1>5. PlansInv' BY DEF PlansInv, TypeOK
<1>6. MatchInv' BY DEF MatchInv, TypeOK
<1>7. AuditInv' BY <1>1 DEF TrailKept, AuditInv, TypeOK
<1>8. AcceptedStands' BY DEF AcceptedStands, TypeOK
<1>9. SettledAudited' BY <1>1 DEF TrailKept, SettledAudited, TypeOK
<1> QED BY <1>2, <1>3, <1>4, <1>5, <1>6, <1>7, <1>8, <1>9

LEMMA DaemonDiesKeeps ==
    ASSUME Inv, DaemonDies
    PROVE  Inv'
<1> USE CommandsAssumption DEF Inv, DaemonDies, At, store, world
<1>1. TrailKept BY AuditStays DEF TypeOK, TrailOK, TearsIf
<1>2. TypeOK' BY <1>1 DEF TrailKept, TrailOK, TypeOK, Pcs, Outcome
<1>3. ClientsInv' BY DEF ClientsInv, TypeOK
<1>4. DaemonInv' BY DEF DaemonInv, InHand, TypeOK
<1>5. PlansInv' BY DEF PlansInv, TypeOK
<1>6. MatchInv' BY DEF MatchInv, TypeOK
<1>7. AuditInv' BY <1>1 DEF TrailKept, AuditInv, TypeOK
<1>8. AcceptedStands' BY DEF AcceptedStands, TypeOK
<1>9. SettledAudited' BY <1>1 DEF TrailKept, SettledAudited, TypeOK
<1> QED BY <1>2, <1>3, <1>4, <1>5, <1>6, <1>7, <1>8, <1>9

LEMMA RestartKeeps ==
    ASSUME Inv, Restart
    PROVE  Inv'
<1> USE CommandsAssumption DEF Inv, Restart, At, Goto, store, trail, bounds
<1>1. TrailKept BY AuditStays DEF TypeOK, TrailOK
<1>2. TypeOK' BY <1>1 DEF TrailKept, TrailOK, TypeOK, Pcs, Outcome
<1>3. ClientsInv' BY DEF ClientsInv, TypeOK
<1>4. DaemonInv' BY DEF DaemonInv, InHand, TypeOK
<1>5. PlansInv' BY DEF PlansInv, TypeOK
<1>6. MatchInv' BY DEF MatchInv, TypeOK
<1>7. AuditInv' BY <1>1 DEF TrailKept, AuditInv, TypeOK
<1>8. AcceptedStands' BY DEF AcceptedStands, TypeOK
<1>9. SettledAudited' BY <1>1 DEF TrailKept, SettledAudited, TypeOK
<1> QED BY <1>2, <1>3, <1>4, <1>5, <1>6, <1>7, <1>8, <1>9

LEMMA SubmitAuditKeeps ==
    ASSUME Inv, NEW p \in Clients, SubmitAudit(p)
    PROVE  Inv'
<1>a. client[p] \in Requests /\ client[p].id \in Ids
  BY CommandsAssumption DEF SubmitAudit, Inv, TypeOK, Request
<1>b. lock = p /\ inbox[client[p].id] = client[p] BY DEF SubmitAudit, Inv, ClientsInv
<1>c. daemon.pc \notin {"audit", "unlink"} BY <1>b, CommandsAssumption DEF Inv, DaemonInv
<1>d. acked' = [acked EXCEPT ![client[p].id] = @ \cup {client[p]}] /\ UNCHANGED store
  BY DEF SubmitAudit, Acknowledge
<1>e. \A r \in acked[client[p].id] : r = client[p]
  <2>1. /\ AcceptedStands /\ MatchInv
        /\ acked \in [Ids -> SUBSET Requests] /\ None \notin Requests
    BY CommandsAssumption DEF Inv, TypeOK
  <2> QED BY <1>a, <1>b, <2>1 DEF AcceptedStands, MatchInv
<1>f. AcceptedStands'
  <2>1. AcceptedStands /\ acked \in [Ids -> SUBSET Requests] BY DEF Inv, TypeOK
  <2>2. \A d \in Ids : acked'[d] = IF d = client[p].id THEN acked[d] \cup {client[p]} ELSE acked[d]
    BY <1>d, <2>1
  <2> QED BY <1>a, <1>b, <1>d, <1>e, <2>1, <2>2 DEF AcceptedStands, store
<1> USE CommandsAssumption DEF Inv, SubmitAudit, Acknowledge, store, world, bounds
<1>1. TrailKept BY <1>a, AuditGrows DEF TypeOK, TrailOK
<1>2. TypeOK' BY <1>1, <1>a DEF TrailKept, TrailOK, TypeOK
<1>3. ClientsInv' BY DEF ClientsInv, TypeOK
<1>4. DaemonInv' BY <1>c DEF DaemonInv, InHand
<1>5. PlansInv' BY DEF PlansInv, TypeOK
<1>6. MatchInv' BY DEF MatchInv, TypeOK
<1>7. AuditInv' BY <1>1 DEF TrailKept, AuditInv, TypeOK
<1>8. AcceptedStands' BY <1>f
<1>9. SettledAudited' BY <1>1 DEF TrailKept, SettledAudited, TypeOK
<1> QED BY <1>2, <1>3, <1>4, <1>5, <1>6, <1>7, <1>8, <1>9

LEMMA ClientDiesKeeps ==
    ASSUME Inv, NEW p \in Clients, ClientDies(p)
    PROVE  Inv'
<1> USE CommandsAssumption DEF Inv, ClientDies, store, world
<1>1. TrailKept BY AuditStays DEF TypeOK, TrailOK, TearsIf
<1>2. TypeOK' BY <1>1 DEF TrailKept, TrailOK, TypeOK, Pcs, Outcome
<1>3. ClientsInv' BY DEF ClientsInv, TypeOK
<1>4. DaemonInv'
  <2>1. daemon.pc \notin {"audit", "unlink"} BY DEF DaemonInv, ClientsInv
  <2> QED BY <2>1 DEF DaemonInv, InHand
<1>5. PlansInv' BY DEF PlansInv, TypeOK
<1>6. MatchInv' BY DEF MatchInv, TypeOK
<1>7. AuditInv' BY <1>1 DEF TrailKept, AuditInv, TypeOK
<1>8. AcceptedStands' BY DEF AcceptedStands, TypeOK
<1>9. SettledAudited' BY <1>1 DEF TrailKept, SettledAudited, TypeOK
<1> QED BY <1>2, <1>3, <1>4, <1>5, <1>6, <1>7, <1>8, <1>9

LEMMA SubmitKeeps ==
    ASSUME Inv, NEW p \in Clients, NEW r \in Requests, Submit(p, r)
    PROVE  Inv'
<1>a. r.id \in Ids /\ r # None /\ None \notin Requests
  BY CommandsAssumption DEF Request
<1>b. \/ /\ Existing(r.id).known /\ Existing(r.id).req = r
         /\ Acknowledge(r) /\ UNCHANGED inbox
      \/ UNCHANGED <<inbox, acked>>
      \/ ~Existing(r.id).known /\ inbox' = [inbox EXCEPT ![r.id] = r] /\ UNCHANGED acked
  BY DEF Submit
<1>c. \A q \in Clients : client[q] = None BY CommandsAssumption DEF Submit, Inv, ClientsInv
<1>d. /\ AcceptedStands /\ MatchInv /\ UNCHANGED history
      /\ acked \in [Ids -> SUBSET Requests] /\ inbox \in [Ids -> Requests \cup {None}]
  BY DEF Submit, Inv, TypeOK
<1>e. AcceptedStands'
  <2>1. CASE /\ Existing(r.id).known /\ Existing(r.id).req = r
             /\ Acknowledge(r) /\ UNCHANGED inbox
    <3>1. inbox[r.id] = r \/ (history[r.id] # None /\ history[r.id].req = r)
      <4>1. CASE history[r.id] = None BY <2>1, <4>1 DEF Existing
      <4>2. CASE history[r.id] # None BY <2>1, <4>2 DEF Existing
      <4> QED BY <4>1, <4>2
    <3>2. history[r.id] # None => history[r.id].req = r
      BY <2>1 DEF Existing
    <3>3. \A q \in acked[r.id] : q = r
      BY <1>a, <1>d, <3>1, <3>2 DEF AcceptedStands, MatchInv
    <3>4. \A d \in Ids : acked'[d] = IF d = r.id THEN acked[d] \cup {r} ELSE acked[d]
      BY <1>a, <1>d, <2>1 DEF Acknowledge
    <3>5. acked'[r.id] = {r} BY <1>a, <3>3, <3>4
    <3>6. \A d \in Ids \ {r.id} : acked'[d] = acked[d] BY <3>4
    <3> QED BY <1>d, <2>1, <3>1, <3>5, <3>6 DEF AcceptedStands
  <2>2. CASE UNCHANGED <<inbox, acked>>
    BY <1>d, <2>2 DEF AcceptedStands
  <2>3. CASE ~Existing(r.id).known /\ inbox' = [inbox EXCEPT ![r.id] = r] /\ UNCHANGED acked
    <3>1. history[r.id] = None
      BY <2>3 DEF Existing
    <3>2. inbox[r.id] = None
      BY <2>3, <3>1 DEF Existing
    <3>3. acked[r.id] = {} BY <1>a, <1>d, <3>1, <3>2 DEF AcceptedStands
    <3> QED BY <1>a, <1>d, <2>3, <3>3 DEF AcceptedStands
  <2> QED BY <1>b, <2>1, <2>2, <2>3
<1> USE CommandsAssumption DEF Inv, Submit, Existing, Acknowledge, trail, world
<1>1. TrailKept BY AuditStays DEF TypeOK, TrailOK
<1>2. TypeOK' BY <1>1 DEF TrailKept, TrailOK, TypeOK, Pcs, Outcome
<1>3. ClientsInv' BY <1>a, <1>c DEF ClientsInv, TypeOK
<1>4. DaemonInv' BY DEF DaemonInv, InHand, TypeOK
<1>5. PlansInv' BY DEF PlansInv, TypeOK
<1>6. MatchInv' BY DEF MatchInv, TypeOK
<1>7. AuditInv' BY <1>1 DEF TrailKept, AuditInv, TypeOK
<1>8. AcceptedStands' BY <1>e
<1>9. SettledAudited' BY <1>1 DEF TrailKept, SettledAudited, TypeOK
<1> QED BY <1>2, <1>3, <1>4, <1>5, <1>6, <1>7, <1>8, <1>9

-----------------------------------------------------------------------------
\* The theorems

LEMMA Initially == Init => Inv
<1> SUFFICES ASSUME Init PROVE Inv OBVIOUS
<1> USE CommandsAssumption DEF Init
<1>1. TypeOK
  <2>1. audit \in Seq(Row) /\ Len(audit) = 0 OBVIOUS
  <2>2. cut \in 0 .. Len(audit) BY <2>1
  <2>3. torn \in BOOLEAN OBVIOUS
  <2>4. daemon \in [pc : Pcs, todo : SUBSET Ids, id : Ids \cup {None}, outcome : Outcome \cup {None}]
    BY DEF Pcs
  <2> QED BY <2>1, <2>2, <2>3, <2>4 DEF TypeOK
<1>2. ClientsInv /\ PlansInv /\ MatchInv BY DEF ClientsInv, PlansInv, MatchInv
<1>3. DaemonInv /\ AuditInv BY DEF DaemonInv, AuditInv, InHand
<1>4. AcceptedStands /\ SettledAudited BY DEF AcceptedStands, SettledAudited
<1> QED BY <1>1, <1>2, <1>3, <1>4 DEF Inv

LEMMA StutterKeeps ==
    ASSUME Inv, UNCHANGED vars
    PROVE  Inv'
BY DEF vars, Inv, TypeOK, ClientsInv, DaemonInv, PlansInv, MatchInv, AuditInv,
       AcceptedStands, SettledAudited, Audited

LEMMA StepKeeps ==
    ASSUME Inv, [Next]_vars
    PROVE  Inv'
<1>1. CASE Tick
  BY <1>1, StartTickKeeps, SyncAuditKeeps, SyncMarkKeeps, ListPendingKeeps, TakeKeeps, EndTickKeeps,
     SettleHistoryKeeps, SettleAuditKeeps, SettleUnlinkKeeps, SyncHistoryKeeps DEF Tick
<1>2. CASE \E p \in Clients : SubmitAudit(p) \/ ClientDies(p) \/ \E r \in Requests : Submit(p, r)
  BY <1>2, SubmitAuditKeeps, ClientDiesKeeps, SubmitKeeps
<1>3. CASE LockTimesOut \/ DaemonDies \/ Restart
  BY <1>3, LockTimesOutKeeps, DaemonDiesKeeps, RestartKeeps
<1>4. CASE \E c \in Ids : PlanEnds(c) BY <1>4, PlanEndsKeeps
<1>5. CASE UNCHANGED vars BY <1>5, StutterKeeps
<1> QED BY <1>1, <1>2, <1>3, <1>4, <1>5 DEF Next

THEOREM Invariance == Spec => []Inv
<1>1. Inv /\ [Next]_vars => Inv' BY StepKeeps
<1> QED BY Initially, <1>1, PTL DEF Spec

\* Variables keep their types through every interleaving of clients, the daemon
\* and their deaths (command_store.py, control_commands.py).
THEOREM TypeCorrect == Spec => []TypeOK
<1>1. Inv => TypeOK BY DEF Inv
<1> QED BY Invariance, <1>1, PTL

\* An acknowledged request (submit) is never lost nor replaced by another one under
\* its id.
THEOREM AcceptanceStands == Spec => []AcceptedStands
<1>1. Inv => AcceptedStands BY DEF Inv
<1> QED BY Invariance, <1>1, PTL

\* A command leaves the inbox (settle) only with its outcome recorded and audited,
\* for any number of commands, clients and deaths.
THEOREM SettlementAudited == Spec => []SettledAudited
<1>1. Inv => SettledAudited BY DEF Inv
<1> QED BY Invariance, <1>1, PTL

\* No effect is carried out for a command whose outcome is recorded (_consume_one
\* is reached only without one).
THEOREM EffectsBeforeOutcome == Spec => NoEffectAfterOutcome
<1>1. ASSUME Inv, [Next]_vars
      PROVE  \A c \in Ids : effects'[c] # effects[c] => history[c] = None
  <2>1. CASE Take
    <3>1. PICK c \in Ids :
             (history[c] = None /\ Consume(c)) \/ UNCHANGED effects
      BY <2>1 DEF Take, world
    <3>2. \A d \in Ids \ {c} : effects'[d] = effects[d]
      BY <1>1, <3>1 DEF Consume, Perform, PlanExists, world, Inv, TypeOK
    <3> QED BY <3>1, <3>2
  <2>2. CASE UNCHANGED effects BY <2>2
  <2>3. Take \/ UNCHANGED effects
    BY <1>1 DEF Next, Tick, vars, world, StartTick, SyncHistory, SyncAudit, SyncMark, ListPending, EndTick,
       SettleHistory, SettleAudit, SettleUnlink, LockTimesOut, PlanEnds, DaemonDies, Restart,
       SubmitAudit, ClientDies, Submit
  <2> QED BY <2>1, <2>2, <2>3
<1> QED BY Invariance, <1>1, PTL DEF Spec, NoEffectAfterOutcome

\* A recorded outcome keeps its request and is only ever replaced by the end of the
\* plan its command started (_sync_planner_terminals).
THEOREM OutcomesStay == Spec => OutcomeStays
<1>1. ASSUME Inv, [Next]_vars, NEW c \in Ids, history[c] # None, history'[c] # history[c]
      PROVE  history'[c].req = history[c].req /\ plan[c] = "ended"
  <2>0. history \in [Ids -> Outcome \cup {None}] BY <1>1 DEF Inv, TypeOK
  <2>1. CASE SettleHistory
    <3>1. history' = [history EXCEPT ![daemon.id] = IF @ = None THEN daemon.outcome ELSE @]
      BY <2>1 DEF SettleHistory
    <3>2. history'[c] = history[c]
      <4>1. CASE c = daemon.id BY <1>1, <2>0, <3>1, <4>1
      <4>2. CASE c # daemon.id BY <2>0, <3>1, <4>2
      <4> QED BY <4>1, <4>2
    <3> QED BY <1>1, <3>2
  <2>2. ASSUME NEW d \in Ids, SyncHistory(d)
        PROVE  history'[c].req = history[c].req /\ plan[c] = "ended"
    <3>1. PICK s \in {"blocked", "owner_gate"} :
             history' = [history EXCEPT ![d] =
                 [req |-> IF history[d] = None THEN None ELSE history[d].req, state |-> s]]
      BY <2>2 DEF SyncHistory
    <3>2. c = d BY <1>1, <2>0, <3>1
    <3>3. plan[c] = "ended" BY <1>1, <2>2, <3>2 DEF SyncHistory, At, Inv, DaemonInv
    <3> QED BY <1>1, <2>0, <3>1, <3>2, <3>3
  <2>3. SettleHistory \/ (\E d \in Ids : SyncHistory(d)) \/ UNCHANGED history
    BY <1>1 DEF Next, Tick, vars, store, StartTick, SyncAudit, SyncMark, ListPending, Take, EndTick,
       SettleAudit, SettleUnlink, LockTimesOut, PlanEnds, DaemonDies, Restart,
       SubmitAudit, ClientDies, Submit
  <2> QED BY <1>1, <2>1, <2>2, <2>3
<1>2. ASSUME Inv, [Next]_vars
      PROVE  \A c \in Ids : history[c] # None /\ history'[c] # history[c] =>
                history'[c].req = history[c].req /\ plan[c] = "ended"
  BY <1>1, <1>2
<1> QED BY Invariance, <1>2, PTL DEF Spec, OutcomeStays
=============================================================================
