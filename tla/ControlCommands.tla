---------------------------- MODULE ControlCommands ----------------------------
(***************************************************************************)
(* Owner commands: clients submit them to an inbox, the daemon's tick      *)
(* consumes and settles them                                               *)
(* (src/dev_orchestrator/control/command_store.py and                      *)
(* src/dev_orchestrator/core/control_commands.py).  Under one lock lie the *)
(* inbox, the history of outcomes and the audit; a process may die between *)
(* any two of their writes, and in the middle of an audit row.             *)
(*                                                                         *)
(* Of the actions, pause and resume stand for those whose effect is one    *)
(* durable write, and continue for those that start a plan, which lives on *)
(* in the daemon and ends later.                                           *)
(***************************************************************************)
EXTENDS Integers, Sequences

CONSTANTS
    Clients,  \* threads and processes that submit commands
    Ids,      \* command ids; their order is that of the inbox file names
    Requests, \* the requests the clients make
    None,     \* Python's None, and an absent file
    MaxCalls, \* bound: submissions
    MaxDeaths \* bound: deaths of the daemon and of clients

\* A canonical request with its source; two that differ have different hashes.
Request == [id : Ids, action : {"pause", "resume", "continue"}, source : STRING]

\* history/<command_id>.json; a record made up from a plan carries no request.
Outcome == [req : Requests \cup {None}, state : {"accepted", "blocked", "owner_gate"}]

\* An audit row; one about a record that does not name its command names none.
Row == [event : {"request_accepted", "command_settled", "command_updated"}, id : Ids \cup {None}]

ASSUME CommandsAssumption ==
    /\ Ids \subseteq Nat
    /\ Requests \subseteq Request
    /\ None \notin Requests /\ None \notin Outcome /\ None \notin Clients /\ None # "daemon"
    /\ "daemon" \notin Clients
    /\ MaxCalls \in Nat /\ MaxDeaths \in Nat

VARIABLES
    inbox,   \* the pending request of each id
    history, \* the outcome of each id
    audit,   \* audit rows ever written, oldest first
    cut,     \* how many of them are in quarantined files
    torn,    \* the audit ends in the middle of a row
    lock,    \* holder of commands.lock
    paused,  \* owner-control.json
    plan,    \* the plan each id started: none, planning, ended or synced
    client,  \* the request a client has put in the inbox and not yet audited
    daemon,  \* the daemon's tick
    acked,   \* requests that were answered, by id
    effects, \* how often each id's effect was carried out
    calls, deaths

store == <<inbox, history>>
trail == <<audit, cut, torn>>
world == <<paused, plan, effects>>
bounds == <<calls, deaths>>
vars == <<inbox, history, audit, cut, torn, lock, paused, plan, client, daemon, acked, effects,
          calls, deaths>>

Pcs == {"down", "idle", "sync", "sync_audit", "sync_mark", "next", "settle", "audit", "unlink"}

TypeOK ==
    /\ inbox \in [Ids -> Requests \cup {None}]
    /\ history \in [Ids -> Outcome \cup {None}]
    /\ audit \in Seq(Row) /\ cut \in 0 .. Len(audit) /\ torn \in BOOLEAN
    /\ lock \in Clients \cup {"daemon", None}
    /\ paused \in BOOLEAN
    /\ plan \in [Ids -> {"none", "planning", "ended", "synced"}]
    /\ client \in [Clients -> Requests \cup {None}]
    /\ daemon \in [pc : Pcs, todo : SUBSET Ids, id : Ids \cup {None}, outcome : Outcome \cup {None}]
    /\ acked \in [Ids -> SUBSET Requests]
    /\ effects \in [Ids -> Nat]
    /\ calls \in Nat /\ deaths \in Nat

Init ==
    /\ inbox = [c \in Ids |-> None] /\ history = [c \in Ids |-> None]
    /\ audit = <<>> /\ cut = 0 /\ torn = FALSE
    /\ lock = None
    /\ paused \in BOOLEAN
    /\ plan = [c \in Ids |-> "none"]
    /\ client = [p \in Clients |-> None]
    /\ daemon = [pc |-> "idle", todo |-> {}, id |-> None, outcome |-> None]
    /\ acked = [c \in Ids |-> {}] /\ effects = [c \in Ids |-> 0]
    /\ calls = 0 /\ deaths = 0

-----------------------------------------------------------------------------
\* The audit

\* A torn audit is moved aside before anything is read from it or added to it.
Repaired == cut' = (IF torn THEN Len(audit) ELSE cut) /\ torn' = FALSE

Audit(event, c) == Repaired /\ audit' = Append(audit, [event |-> event, id |-> c])

\* Settling looks only at the file that is in place.
AuditHas(event, c) ==
    \E i \in 1 .. Len(audit) : cut < i /\ audit[i] = [event |-> event, id |-> c]

\* A death within an append leaves the row out, or a part of it.
TearsIf(appending) == torn' \in IF appending THEN {torn, TRUE} ELSE {torn}

-----------------------------------------------------------------------------
\* Submission

\* Mutant: an outcome is not looked for.
OnlyInbox(c) == [known |-> inbox[c] # None, req |-> inbox[c]]

\* The history is read before the inbox.
Existing(c) ==
    IF history[c] # None THEN [known |-> TRUE, req |-> history[c].req]
    ELSE [known |-> inbox[c] # None, req |-> inbox[c]]

Acknowledge(r) == acked' = [acked EXCEPT ![r.id] = @ \cup {r}]

\* A replay is answered with what is there, another request under the id is a
\* conflict; a new one goes to the inbox, and the lock is kept for its audit row.
Submit(p, r) ==
    LET e == Existing(r.id) IN
    /\ lock = None /\ client[p] = None
    /\ calls < MaxCalls /\ calls' = calls + 1
    /\ \/ /\ e.known /\ e.req = r
          /\ Acknowledge(r) /\ UNCHANGED <<inbox, lock, client>>
       \/ /\ e.known /\ e.req # r
          /\ UNCHANGED <<inbox, lock, client, acked>>
       \/ /\ ~e.known
          /\ inbox' = [inbox EXCEPT ![r.id] = r]
          /\ client' = [client EXCEPT ![p] = r]
          /\ lock' = p
          /\ UNCHANGED acked
    /\ UNCHANGED <<history, trail, world, daemon, deaths>>

SubmitAudit(p) ==
    LET r == client[p] IN
    /\ r # None
    /\ Audit("request_accepted", r.id)
    /\ Acknowledge(r)
    /\ client' = [client EXCEPT ![p] = None]
    /\ lock' = None
    /\ UNCHANGED <<store, world, daemon, bounds>>

ClientDies(p) ==
    /\ client[p] # None
    /\ deaths < MaxDeaths /\ deaths' = deaths + 1
    /\ TearsIf(TRUE)
    /\ client' = [client EXCEPT ![p] = None]
    /\ lock' = None
    /\ UNCHANGED <<store, audit, cut, world, daemon, acked, calls>>

-----------------------------------------------------------------------------
\* The daemon's tick

At(pc) == daemon.pc = pc
Goto(pc) == daemon' = [daemon EXCEPT !.pc = pc]

\* advance: repair_corruption, then the plans that ended and were not yet told of.
StartTick ==
    /\ At("idle") /\ lock = None
    /\ Repaired
    /\ daemon' = [daemon EXCEPT !.pc = "sync", !.todo = {c \in Ids : plan[c] = "ended"}]
    /\ UNCHANGED <<store, audit, lock, world, client, acked, bounds>>

\* Mutant: the record is written anew from the plan, not updated.
ReplacesRecord(c) ==
    /\ At("sync") /\ c \in daemon.todo
    /\ \E s \in {"blocked", "owner_gate"} : history' = [history EXCEPT ![c] = [req |-> None, state |-> s]]
    /\ daemon' = [daemon EXCEPT !.pc = "sync_audit", !.id = c]
    /\ UNCHANGED <<inbox, trail, lock, world, client, acked, bounds>>

\* _sync_planner_terminals: an absent history record is made up from the plan.
SyncHistory(c) ==
    /\ At("sync") /\ c \in daemon.todo
    /\ \E s \in {"blocked", "owner_gate"} :
          history' = [history EXCEPT ![c] =
              [req |-> IF history[c] = None THEN None ELSE history[c].req, state |-> s]]
    /\ daemon' = [daemon EXCEPT !.pc = "sync_audit", !.id = c]
    /\ UNCHANGED <<inbox, trail, lock, world, client, acked, bounds>>

SyncAudit ==
    /\ At("sync_audit") /\ lock = None
    /\ Audit("command_updated", IF history[daemon.id].req = None THEN None ELSE daemon.id)
    /\ Goto("sync_mark")
    /\ UNCHANGED <<store, lock, world, client, acked, bounds>>

SyncMark ==
    /\ At("sync_mark")
    /\ plan' = [plan EXCEPT ![daemon.id] = "synced"]
    /\ daemon' = [daemon EXCEPT !.pc = "sync", !.todo = @ \ {daemon.id}, !.id = None]
    /\ UNCHANGED <<store, trail, lock, paused, effects, client, acked, bounds>>

\* pending_paths reads the inbox without the lock.
ListPending ==
    /\ At("sync") /\ daemon.todo = {}
    /\ daemon' = [daemon EXCEPT !.pc = "next", !.todo = {c \in Ids : inbox[c] # None}]
    /\ UNCHANGED <<store, trail, lock, world, client, acked, bounds>>

First(c) == c \in daemon.todo /\ \A d \in daemon.todo : c <= d

Result(c, s) == [req |-> inbox[c], state |-> s]

GiveUp == daemon' = [pc |-> "idle", todo |-> {}, id |-> None, outcome |-> None]

Settling(c, outcome) == daemon' = [daemon EXCEPT !.pc = "settle", !.id = c, !.outcome = outcome]

\* _consume_one: the project must be as the request expects it, of which paused is
\* modelled and the rest may have changed at any time; then the effect.
Perform(c, action) ==
    /\ \/ /\ action = "pause" /\ ~paused
          /\ paused' = TRUE /\ UNCHANGED plan
       \/ /\ action = "resume" /\ paused
          /\ paused' = FALSE /\ UNCHANGED plan
       \/ /\ action = "continue" /\ ~paused
          /\ plan[c] = "none" /\ \A d \in Ids : plan[d] # "planning"
          /\ plan' = [plan EXCEPT ![c] = "planning"] /\ UNCHANGED paused
    /\ effects' = [effects EXCEPT ![c] = @ + 1]

\* A command's plan is there already: the tick that started it did not settle it.
PlanExists(c, action) ==
    action = "continue" /\ ~paused /\ plan[c] # "none" /\ UNCHANGED world

Consume(c) ==
    \/ /\ Perform(c, inbox[c].action) \/ PlanExists(c, inbox[c].action)
       /\ Settling(c, Result(c, "accepted"))
    \/ Settling(c, Result(c, "blocked")) /\ UNCHANGED world

\* Mutants: a recorded outcome is not looked at; a recorded command is passed over.
ConsumesAgain ==
    /\ At("next") /\ \E c \in Ids : First(c) /\ Consume(c)
    /\ UNCHANGED <<store, trail, lock, client, acked, bounds>>
PassesOver ==
    /\ At("next")
    /\ \E c \in Ids :
          /\ First(c)
          /\ IF history[c] # None THEN daemon' = [daemon EXCEPT !.todo = @ \ {c}] /\ UNCHANGED world
             ELSE Consume(c)
    /\ UNCHANGED <<store, trail, lock, client, acked, bounds>>

\* A recorded outcome is settled again.  settle raises on a record that does not
\* name its command, which ends the whole tick.
Take ==
    /\ At("next")
    /\ \E c \in Ids : LET known == history[c] IN
          /\ First(c)
          /\ \/ known = None /\ Consume(c)
             \/ known # None /\ known.req # None /\ Settling(c, known) /\ UNCHANGED world
             \/ known # None /\ known.req = None /\ GiveUp /\ UNCHANGED world
    /\ UNCHANGED <<store, trail, lock, client, acked, bounds>>

EndTick ==
    /\ At("next") /\ daemon.todo = {}
    /\ Goto("idle")
    /\ UNCHANGED <<store, trail, lock, world, client, acked, bounds>>

\* Mutant: the inbox record is removed as soon as there is a history record.
RemovesEarly ==
    LET c == daemon.id IN
    /\ At("settle") /\ lock = None
    /\ lock' = "daemon"
    /\ Repaired
    /\ history' = [history EXCEPT ![c] = IF @ = None THEN daemon.outcome ELSE @]
    /\ inbox' = [inbox EXCEPT ![c] = None]
    /\ Goto("audit")
    /\ UNCHANGED <<audit, world, client, acked, bounds>>

\* settle, under the lock: the outcome, unless there is one, then the audit row,
\* unless there is one, then the inbox record is removed.
SettleHistory ==
    LET c == daemon.id IN
    /\ At("settle") /\ lock = None
    /\ lock' = "daemon"
    /\ Repaired
    /\ history' = [history EXCEPT ![c] = IF @ = None THEN daemon.outcome ELSE @]
    /\ Goto("audit")
    /\ UNCHANGED <<inbox, audit, world, client, acked, bounds>>

SettleAudit ==
    /\ At("audit")
    /\ IF AuditHas("command_settled", daemon.id) THEN UNCHANGED trail
       ELSE Audit("command_settled", daemon.id)
    /\ Goto("unlink")
    /\ UNCHANGED <<store, lock, world, client, acked, bounds>>

SettleUnlink ==
    LET c == daemon.id IN
    /\ At("unlink")
    /\ inbox' = [inbox EXCEPT ![c] = None]
    /\ lock' = None
    /\ daemon' = [pc |-> "next", todo |-> daemon.todo \ {c}, id |-> None, outcome |-> None]
    /\ UNCHANGED <<history, trail, world, client, acked, bounds>>

\* InterProcessFileLock raises when another process holds the lock for too long:
\* the telling of ended plans is given up, or the whole tick, after the effect.
LockTimesOut ==
    /\ lock # None
    /\ \/ At("sync_audit") /\ daemon' = [daemon EXCEPT !.pc = "sync", !.todo = {}, !.id = None]
       \/ At("settle") /\ GiveUp
    /\ UNCHANGED <<store, trail, lock, world, client, acked, bounds>>

\* A plan fails or stops at an owner gate, in a thread of the daemon.
PlanEnds(c) ==
    /\ ~At("down") /\ plan[c] = "planning"
    /\ plan' = [plan EXCEPT ![c] = "ended"]
    /\ UNCHANGED <<store, trail, lock, paused, effects, client, daemon, acked, bounds>>

DaemonDies ==
    /\ ~At("down")
    /\ deaths < MaxDeaths /\ deaths' = deaths + 1
    /\ TearsIf(\/ At("audit") /\ ~AuditHas("command_settled", daemon.id)
               \/ At("sync_audit") /\ lock = None)
    /\ daemon' = [pc |-> "down", todo |-> {}, id |-> None, outcome |-> None]
    /\ lock' = IF lock = "daemon" THEN None ELSE lock
    /\ UNCHANGED <<store, audit, cut, world, client, acked, calls>>

\* _recover_interrupted: the plans of the dead daemon have ended.
Restart ==
    /\ At("down")
    /\ Goto("idle")
    /\ plan' = [c \in Ids |-> IF plan[c] = "planning" THEN "ended" ELSE plan[c]]
    /\ UNCHANGED <<store, trail, lock, paused, effects, client, acked, bounds>>

Tick == \/ StartTick \/ SyncAudit \/ SyncMark \/ ListPending \/ Take \/ EndTick
        \/ SettleHistory \/ SettleAudit \/ SettleUnlink
        \/ \E c \in Ids : SyncHistory(c)

Next == \/ \E p \in Clients : SubmitAudit(p) \/ ClientDies(p) \/ \E r \in Requests : Submit(p, r)
        \/ Tick \/ LockTimesOut \/ DaemonDies \/ Restart
        \/ \E c \in Ids : PlanEnds(c)

Spec == Init /\ [][Next]_vars

\* The daemon is started again, its loop ticks, and a client that has the lock
\* comes to its end.
FairSpec == /\ Spec /\ WF_vars(Tick) /\ WF_vars(Restart)
            /\ \A p \in Clients : WF_vars(SubmitAudit(p))

-----------------------------------------------------------------------------
\* Safety

\* One request is acknowledged under an id (submit), and it is kept in the inbox
\* or with its outcome for good.
AcceptedStands ==
    \A c \in Ids : \A r \in acked[c] :
        /\ acked[c] = {r}
        /\ inbox[c] = r \/ (history[c] # None /\ history[c].req = r)

Audited(c) ==
    \E i \in 1 .. Len(audit) : audit[i] = [event |-> "command_settled", id |-> c]

\* A command leaves the inbox (settle) only with its outcome recorded and audited,
\* wherever the daemon died before, torn rows included.
SettledAudited ==
    \A c \in Ids : inbox[c] = None /\ history[c] # None => Audited(c)

\* The effect of a command is not carried out again once its outcome is recorded,
\* even when the daemon dies before the command left the inbox.
NoEffectAfterOutcome ==
    [][\A c \in Ids : effects'[c] # effects[c] => history[c] = None]_vars

\* An outcome stays; only the end of its plan replaces it.
OutcomeStays ==
    [][\A c \in Ids : history[c] # None /\ history'[c] # history[c] =>
          history'[c].req = history[c].req /\ plan[c] = "ended"]_vars

-----------------------------------------------------------------------------
\* Liveness

Nameless == \E c \in Ids : history[c] # None /\ history[c].req = None

\* Every command is settled (advance), deaths of the daemon notwithstanding, unless
\* there is an outcome that does not name its command.
InboxDrains == \A c \in Ids : inbox[c] # None ~> inbox[c] = None \/ Nameless

\* UNIFIED_AI_CONTROL_SURFACE_DESIGN: "If restart observes history with a missing
\* terminal audit, it repairs that audit before removing inbox."
RestartSettles == \A c \in Ids : (inbox[c] # None /\ history[c] # None) ~> inbox[c] = None
=============================================================================
