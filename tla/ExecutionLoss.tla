----------------------------- MODULE ExecutionLoss -----------------------------
(* A Worker execution that is lost, and its recovery.  A launch writes a row into the executor's ledger  *)
(* and an obligation into execution-lineage.json before the Broker is asked (core/transition_executor.py, *)
(* core/execution_lifecycle.py).  A restart of the daemon leaves the row of an execution that has not    *)
(* ended as recovery_required; once the project is ready again with nothing under way, the watchdog      *)
(* (core/watchdog.py) notes a finding, waits until the Broker says dead often enough, reconciles the row *)
(* and submits the `continue` wd-xl-<key> in its place.  Ledger, lineage, watchdog.json and inbox are    *)
(* four files: a crash may fall between any two.                                                         *)
(* One project on the aibroker engine, clean, not paused, auto_recovery on.  Rows do not disappear from  *)
(* the ledger, the lineage store is not degraded, and a launch comes from a `continue`.                  *)
EXTENDS Naturals, Sequences, FiniteSets, SequencesExt

CONSTANTS
    Owners,         \* the `continue` commands of the owner, in the order it submits them
    Runs,           \* ids of commands, rows and lineage records: the owner's and the recoveries
    Recovery,       \* the wd-xl id that replaces each run; None where the instance ends: no finding is kept there
    None,           \* no run
    NTasks,         \* tasks of the project's roadmap
    Confirmations,  \* execution_loss_confirmations
    MaxRecoveries,  \* execution_loss_max_recoveries
    MaxCommits,     \* bound: commits of Workers before the one that ends their task
    MaxFailures     \* bound: crashes, unwritten obligations and outages of the Broker, together

ASSUME OwnersAssumption   == Owners \in Seq(Runs) /\ None \notin Runs
ASSUME RecoveryAssumption == /\ Recovery \in [Runs -> (Runs \ Range(Owners)) \cup {None}]
                             /\ \A x, y \in Runs : Recovery[x] = Recovery[y] => x = y \/ Recovery[x] = None
ASSUME BoundsAssumption   == {NTasks, Confirmations, MaxRecoveries} \subseteq Nat \ {0}
                             /\ {MaxCommits, MaxFailures} \subseteq Nat

VARIABLES
    repo,     \* the repository: its task, whether it says READY_TO_RUN, and its HEAD as a number
    rows,     \* transition-executor.json: state, task and launch head of each execution
    broker,   \* the Broker's executions
    lineage,  \* execution-lineage.json: phase, outcome and findings of each record
    owed,     \* rows a Worker's thread has settled and whose lineage record it has not written yet
    slot,     \* watchdog.json: execution_loss_slots; ended stands for completed, blocked and unresolved
    cooling,  \* slots within execution_loss_backoff_seconds of their reservation or request
    cmds,     \* control/inbox and control/history: state and expected identity of each command
    raw,      \* the snapshot the tick works on
    pc, cur, todo,  \* the tick: its step, what it is at, and what is left of the phase
    blind,    \* the Broker does not answer
    commits, failures

daemon  == <<raw, pc, cur, todo>>
watch   == <<slot, cooling>>
vars    == <<repo, rows, broker, lineage, owed, slot, cooling, cmds, raw, pc, cur, todo, blind, commits, failures>>

NoRow    == [st |-> "none", task |-> 0, head |-> 0]
NoRecord == [phase |-> "none", out |-> "none", finds |-> <<>>]
NoRaw    == [task |-> 0, ready |-> FALSE, head |-> 0]
NoOne    == [run |-> None, tries |-> 0]
Goals    == [run : Runs, tries : 0..MaxRecoveries]
NoCmd    == [st |-> "none", exp |-> <<0, 0>>]
Ended    == {"completed", "failed"}
Finding(code) == [code |-> code, st |-> "candidate", conf |-> 0, tries |-> 0]

Active(x)   == rows[x].st = "active"
Terminal(x) == lineage[x].phase = "terminal"

\* Mutant: a Broker that does not answer counts as a dead execution.
SilenceIsDead(x) == IF broker[x] = "running" /\ ~blind THEN "alive" ELSE "dead"

\* resolve_execution_liveness: only what the Broker answers is proof.
Verdict(x) == IF blind THEN "unknown" ELSE IF broker[x] = "running" THEN "alive" ELSE "dead"

\* READY_TO_RUN or IDLE without an execution under way; a completed row keeps its task REVIEWING.
Quiet(ready) == ready /\ \A x \in Runs : ~Active(x) /\ ~(rows[x].st = "completed" /\ rows[x].task = repo.task)

Identity == <<raw.task, raw.head>>

\* update_finding_state looks for the finding by id or by the run's key, which all of a run's findings
\* share: it writes the first.
Tell(x, st) == lineage' = [lineage EXCEPT ![x].finds[1].st = st]

TypeOK ==
    /\ repo \in [task: 1..NTasks, ready: BOOLEAN, head: Nat]
    /\ \A x \in Runs : /\ rows[x].st \in {"none", "active", "blocked", "recovery_required", "reconciled"} \cup Ended
                       /\ broker[x] \in {"none", "running", "succeeded", "failed", "gone"}
                       /\ lineage[x].phase \in {"none", "open", "terminal"}
                       /\ slot[x] \in {"none", "reserved", "pending", "requested", "ended"}
                       /\ cmds[x].st \in {"none", "queued", "accepted", "blocked"}
    /\ owed \subseteq Runs /\ cooling \subseteq Runs
    /\ cur \in Goals \cup {NoOne} /\ todo \subseteq Goals

Init ==
    /\ repo = [task |-> 1, ready |-> TRUE, head |-> 0]
    /\ rows = [x \in Runs |-> NoRow] /\ broker = [x \in Runs |-> "none"]
    /\ lineage = [x \in Runs |-> NoRecord] /\ owed = {}
    /\ slot = [x \in Runs |-> "none"] /\ cooling = {}
    /\ cmds = [x \in Runs |-> NoCmd]
    /\ raw = NoRaw /\ pc = "idle" /\ cur = NoOne /\ todo = {}
    /\ blind = FALSE /\ commits = 0 /\ failures = 0

(******************************** Workers, the Broker and the owner *************************************)
\* An agent commits as it goes; with its last commit it takes its task out of READY_TO_RUN.
BrokerCommits(x) ==
    /\ broker[x] = "running" /\ commits < MaxCommits
    /\ commits' = commits + 1 /\ repo' = [repo EXCEPT !.head = @ + 1]
    /\ UNCHANGED <<rows, broker, lineage, owed, watch, cmds, daemon, blind, failures>>

BrokerEnds(x) ==
    /\ broker[x] = "running"
    /\ \/ /\ broker' = [broker EXCEPT ![x] = "succeeded"]
          /\ repo' = [repo EXCEPT !.head = @ + 1, !.ready = @ /\ rows[x].task # repo.task]
       \/ \E end \in {"failed", "gone"} : broker' = [broker EXCEPT ![x] = end] /\ UNCHANGED repo
    /\ UNCHANGED <<rows, lineage, owed, watch, cmds, daemon, blind, commits, failures>>

\* _update_record writes the row and then, outside the lock, the lineage.
WorkerRecords(x) ==
    /\ pc # "down" /\ Active(x) /\ broker[x] \notin {"none", "running"} /\ ~blind
    /\ rows' = [rows EXCEPT ![x].st = IF broker[x] = "succeeded" THEN "completed" ELSE "failed"]
    /\ owed' = owed \cup {x}
    /\ UNCHANGED <<repo, broker, lineage, watch, cmds, daemon, blind, commits, failures>>

CloseObligation(x) ==
    /\ x \in owed /\ owed' = owed \ {x}
    /\ lineage' = [lineage EXCEPT ![x].phase = "terminal", ![x].out = rows[x].st]
    /\ UNCHANGED <<repo, rows, broker, watch, cmds, daemon, blind, commits, failures>>

\* The inbox is looked at once a tick: when in a tick a command arrives makes no difference.  The
\* control view offers `continue` while nothing is queued or under way.
OwnerContinue(c) ==
    /\ pc = "idle" /\ cmds[c].st = "none"
    /\ \E i \in DOMAIN Owners : Owners[i] = c /\ \A j \in 1..(i - 1) : cmds[Owners[j]].st # "none"
    /\ \A x \in Runs : cmds[x].st # "queued" /\ ~Active(x)
    /\ cmds' = [cmds EXCEPT ![c] = [st |-> "queued", exp |-> <<repo.task, repo.head>>]]
    /\ UNCHANGED <<repo, rows, broker, lineage, owed, watch, daemon, blind, commits, failures>>

(******************************** the tick: commands ****************************************************)
\* A phase goes on while something of it is left.
Left(todos, here, next) == IF todos = {} THEN next ELSE here

Monitor ==
    /\ pc = "idle" /\ raw' = repo
    /\ todo' = {[run |-> x, tries |-> 0] : x \in {y \in Runs : cmds[y].st = "queued"}}
    /\ pc' = Left(todo', "controls", "observe")
    /\ UNCHANGED <<repo, rows, broker, lineage, owed, watch, cmds, cur, blind, commits, failures>>

Valid(c) == cmds[c].exp = Identity

\* start_control, _fresh_guard and _launch_aibroker.  A recovery_required row of this task and HEAD is the
\* latest there is: it keeps every later launch out.
CanStart(c) ==
    /\ Quiet(raw.ready) /\ raw.task = repo.task /\ rows[c].st = "none"
    /\ ~\E x \in Runs : rows[x] = [st |-> "recovery_required", task |-> repo.task, head |-> repo.head]

Launch(f) ==
    /\ pc = "controls" /\ f \in todo /\ Valid(f.run) /\ CanStart(f.run)
    /\ rows' = [rows EXCEPT ![f.run] = [st |-> "active", task |-> repo.task, head |-> repo.head]]
    /\ pc' = "oblige" /\ cur' = f
    /\ UNCHANGED <<repo, broker, lineage, owed, watch, cmds, raw, todo, blind, commits, failures>>

Refuse(f) ==
    /\ pc = "controls" /\ f \in todo /\ ~(Valid(f.run) /\ CanStart(f.run))
    /\ rows' = IF Valid(f.run) /\ rows[f.run].st = "none" THEN [rows EXCEPT ![f.run].st = "blocked"] ELSE rows
    /\ cmds' = [cmds EXCEPT ![f.run].st = "blocked"]
    /\ todo' = todo \ {f} /\ pc' = Left(todo', "controls", "observe")
    /\ UNCHANGED <<repo, broker, lineage, owed, watch, raw, cur, blind, commits, failures>>

\* The obligation is written and read back before the thread that asks the Broker is started.
Oblige ==
    /\ pc = "oblige" /\ pc' = "settle"
    /\ lineage' = [lineage EXCEPT ![cur.run] = [NoRecord EXCEPT !.phase = "open"]]
    /\ broker' = [broker EXCEPT ![cur.run] = "running"]
    /\ UNCHANGED <<repo, rows, owed, watch, cmds, raw, cur, todo, blind, commits, failures>>

ObligeFails ==
    /\ pc = "oblige" /\ pc' = "settle" /\ failures < MaxFailures /\ failures' = failures + 1
    /\ rows' = [rows EXCEPT ![cur.run].st = "blocked"]
    /\ UNCHANGED <<repo, broker, lineage, owed, watch, cmds, raw, cur, todo, blind, commits>>

Settle ==
    /\ pc = "settle" /\ cur' = NoOne /\ todo' = todo \ {cur} /\ pc' = Left(todo', "controls", "observe")
    /\ cmds' = [cmds EXCEPT ![cur.run].st = IF rows[cur.run].st = "blocked" THEN "blocked" ELSE "accepted"]
    /\ UNCHANGED <<repo, rows, broker, lineage, owed, watch, raw, blind, commits, failures>>

\* Review and decision of a completed run, in the phases between the commands and the watchdog.
HandOff ==
    /\ pc = "observe" /\ ~repo.ready /\ repo.task < NTasks
    /\ \E x \in Runs : rows[x].st = "completed" /\ rows[x].task = repo.task
    /\ repo' = [repo EXCEPT !.task = @ + 1, !.ready = TRUE]
    /\ UNCHANGED <<rows, broker, lineage, owed, watch, cmds, daemon, blind, commits, failures>>

(******************************** the tick: what the watchdog sees **************************************)
\* _reconcile_recoveries: what became of the command of each slot.
Synced(x) ==
    LET st == IF Recovery[x] = None THEN "none" ELSE cmds[Recovery[x]].st IN
    IF slot[x] \in {"none", "ended"} THEN slot[x]
    ELSE IF st \in {"accepted", "blocked"} THEN "ended"
    ELSE IF st = "queued" THEN "requested"
    ELSE IF slot[x] = "reserved" THEN "ended"
    ELSE slot[x]

\* Step A of observe_executions: the ledger's rows open and close records.
Adopted(x) ==
    IF lineage[x].phase = "none" /\ Active(x) THEN [NoRecord EXCEPT !.phase = "open"]
    ELSE IF lineage[x].phase = "open" /\ rows[x].st \in Ended \cup {"reconciled"}
         THEN [lineage[x] EXCEPT !.phase = "terminal", !.out = rows[x].st]
    ELSE lineage[x]

\* Mutant: a record that is terminal, whatever its outcome, has lost nothing.
AnyEndResolves(x, rec) == rec.phase = "terminal"

\* A finding is settled by the end of the run itself or of the run that replaces it.
Settled(x, rec) ==
    \/ rec.phase = "terminal" /\ rec.out \in Ended
    \/ Adopted(Recovery[x]).phase = "terminal"

\* What is found of a run in this tick; `mute` are the runs beyond provider_output_grace_seconds.  No code
\* ever notes the provider's output of a run that is still under way.
Detected(x, mute) ==
    IF Quiet(raw.ready) THEN "vanished" ELSE IF Active(x) /\ x \in mute THEN "silent" ELSE "none"

\* Mutant: a recovery that was reserved is left to whoever reserved it.
JudgedUnreserved == {"candidate", "open", "suppressed", "actionable", "unknown", "recovering"}
Judged == {"candidate", "open", "suppressed", "actionable", "unknown", "reserved", "recovering"}

Confirmed(f) ==
    LET conf == IF f.conf < Confirmations THEN f.conf + 1 ELSE f.conf
    IN  [f EXCEPT !.conf = conf, !.st = IF conf >= Confirmations THEN "actionable" ELSE "open"]

\* `late`: execution_loss_unknown_escalation_minutes are over.
Judge(x, f, late) ==
    IF f.code = "silent" THEN [f EXCEPT !.st = IF Verdict(x) = "alive" THEN "suppressed" ELSE "open", !.conf = 0]
    ELSE IF f.st \notin Judged THEN f
    ELSE IF Verdict(x) = "alive" THEN [f EXCEPT !.st = "suppressed", !.conf = 0]
    ELSE IF Verdict(x) = "dead" THEN Confirmed(f)
    ELSE [f EXCEPT !.st = IF late THEN "escalated" ELSE "unknown"]

\* Step B: resolve, skip what is over, detect, judge the first unresolved finding of the code.
Observed(x, mute, late) ==
    LET rec    == Adopted(x)
        finds  == IF Recovery[x] # None /\ Settled(x, rec) THEN [i \in DOMAIN rec.finds |-> [rec.finds[i] EXCEPT !.st = "resolved"]]
                  ELSE rec.finds
        over   == rec.phase = "terminal" /\ (rec.out \in Ended \/ \A i \in DOMAIN finds : finds[i].st = "resolved")
        code   == Detected(x, mute)
        at     == SelectInSeq(finds, LAMBDA f : f.code = code /\ f.st # "resolved")
        known  == IF at = 0 THEN Append(finds, Finding(code)) ELSE finds
        i      == IF at = 0 THEN Len(known) ELSE at
    IN  [rec EXCEPT !.finds = IF Recovery[x] = None \/ rec.phase = "none" \/ over \/ code = "none" THEN finds
                              ELSE [known EXCEPT ![i] = Judge(x, @, late)]]

Observe ==
    /\ pc = "observe"
    /\ \E mute \in SUBSET {x \in Runs : Active(x)}, late \in BOOLEAN :
          lineage' = [x \in Runs |-> Observed(x, mute, late)]
    /\ slot' = [x \in Runs |-> IF slot[x] # "none" /\ \E f \in Range(lineage'[x].finds) : f.st = "resolved"
                               THEN "ended" ELSE Synced(x)]
    /\ cooling' = cooling \cup {x \in Runs : slot[x] # "requested" /\ Synced(x) = "requested"}
    /\ todo' = {g \in Goals : \E f \in Range(lineage'[g.run].finds) :
                   f.tries = g.tries /\ f.code = "vanished" /\ f.st \in {"actionable", "pending"}}
    /\ pc' = Left(todo', "trigger", "idle")
    /\ raw' = Left(todo', [raw EXCEPT !.task = repo.task], NoRaw)
    /\ UNCHANGED <<repo, rows, broker, owed, cmds, cur, blind, commits, failures>>

(******************************** the tick: recovery ****************************************************)
\* Mutant: whatever moved HEAD, the lost run is recovered.
NeverOvertaken(x) == FALSE

\* HEAD is not the launch's, and the task was handed on: the project went on without the lost run.
Shifted(x)   == repo.head # rows[x].head
Overtaken(x) == Shifted(x) /\ raw.task # rows[x].task

Spent(f)     == (Shifted(f.run) /\ Verdict(f.run) # "dead") \/ f.tries >= MaxRecoveries
Resting(x)   == slot[x] # "pending" /\ x \in cooling
Contested(x) == \E y \in Runs \ {x} : Active(y)

AtFinding(f) == pc = "trigger" /\ f \in todo
Open(f)      == AtFinding(f) /\ ~Overtaken(f.run) /\ ~Spent(f)
Drop(f)      == todo' = todo \ {f} /\ pc' = Left(todo', "trigger", "idle") /\ raw' = Left(todo', raw, NoRaw)
                /\ cur' = NoOne /\ UNCHANGED <<repo, broker, owed, blind, commits, failures>>

Supersede(f) ==
    /\ AtFinding(f) /\ Overtaken(f.run)
    /\ Tell(f.run, "resolved") /\ Drop(f)
    /\ UNCHANGED <<rows, watch, cmds>>

GiveUp(f) ==
    /\ AtFinding(f) /\ ~Overtaken(f.run) /\ Spent(f)
    /\ Tell(f.run, "escalated") /\ Drop(f)
    /\ UNCHANGED <<rows, watch, cmds>>

Wait(f) ==
    /\ Open(f) /\ (Resting(f.run) \/ (Verdict(f.run) = "dead" /\ Contested(f.run)))
    /\ Drop(f) /\ UNCHANGED <<rows, lineage, watch, cmds>>

Doubt(f) ==
    /\ Open(f) /\ ~Resting(f.run) /\ Verdict(f.run) # "dead"
    /\ Tell(f.run, IF Verdict(f.run) = "alive" THEN "suppressed" ELSE "unknown") /\ Drop(f)
    /\ UNCHANGED <<rows, watch, cmds>>

Due(f) == Open(f) /\ ~Resting(f.run) /\ Verdict(f.run) = "dead" /\ ~Contested(f.run)

Resume(f) ==
    /\ Due(f) /\ slot[f.run] = "pending" /\ pc' = "submit" /\ cur' = f
    /\ UNCHANGED <<repo, rows, broker, lineage, owed, watch, cmds, raw, todo, blind, commits, failures>>

Reserve(f) ==
    /\ Due(f) /\ slot[f.run] # "pending" /\ pc' = "note" /\ cur' = f
    /\ slot' = [slot EXCEPT ![f.run] = "reserved"] /\ cooling' = cooling \cup {f.run}
    /\ UNCHANGED <<repo, rows, broker, lineage, owed, cmds, raw, todo, blind, commits, failures>>

\* The remaining steps of one recovery, each a file of its own.
Onward(from, to) == pc = from /\ pc' = to /\ UNCHANGED <<repo, broker, owed, raw, cur, todo, blind, commits, failures>>

NoteAttempt ==
    /\ Onward("note", "reconcile")
    /\ lineage' = [lineage EXCEPT ![cur.run].finds[1].st = "reserved", ![cur.run].finds[1].tries = cur.tries + 1]
    /\ UNCHANGED <<rows, watch, cmds>>

\* reconcile_execution_loss.  Its other answers do not arise: since the reservation nothing was launched,
\* and a row that is neither active nor reconciled stays recovery_required.
Reconcile ==
    /\ \/ /\ Onward("reconcile", "close") /\ rows[cur.run].st # "reconciled"
          /\ rows' = [rows EXCEPT ![cur.run].st = "reconciled"]
       \/ /\ Onward("reconcile", "pend") /\ rows[cur.run].st = "reconciled"
          /\ UNCHANGED rows
    /\ UNCHANGED <<lineage, watch, cmds>>

CloseLost ==
    /\ Onward("close", "pend")
    /\ lineage' = [lineage EXCEPT ![cur.run].phase = "terminal", ![cur.run].out = "reconciled"]
    /\ UNCHANGED <<rows, watch, cmds>>

Pend ==
    /\ Onward("pend", "tell") /\ slot' = [slot EXCEPT ![cur.run] = "pending"]
    /\ UNCHANGED <<rows, lineage, cooling, cmds>>

TellPending ==
    /\ Onward("tell", "submit") /\ Tell(cur.run, "pending")
    /\ UNCHANGED <<rows, watch, cmds>>

\* The id is always the same: the store returns what it has of an equal request and refuses another one.
Submit ==
    LET c == Recovery[cur.run] IN
    /\ pc = "submit"
    /\ \/ /\ cmds[c].st = "none" \/ cmds[c].exp = Identity
          /\ Onward("submit", "mark")
          /\ cmds' = IF cmds[c].st = "none" THEN [cmds EXCEPT ![c] = [st |-> "queued", exp |-> Identity]] ELSE cmds
          /\ UNCHANGED slot
       \/ /\ cmds[c].st # "none" /\ cmds[c].exp # Identity
          /\ slot' = [slot EXCEPT ![cur.run] = "ended"] /\ Drop(cur) /\ UNCHANGED cmds
    /\ UNCHANGED <<rows, lineage, cooling>>

Mark ==
    /\ Onward("mark", "record")
    /\ slot' = [slot EXCEPT ![cur.run] = "requested"] /\ cooling' = cooling \cup {cur.run}
    /\ UNCHANGED <<rows, lineage, cmds>>

Record ==
    /\ pc = "record" /\ Tell(cur.run, "recovering") /\ Drop(cur)
    /\ UNCHANGED <<rows, watch, cmds>>

(******************************** crashes, restarts, outages and time ***********************************)
Crash ==
    /\ pc # "down" /\ failures < MaxFailures /\ failures' = failures + 1
    /\ pc' = "down" /\ cur' = NoOne /\ todo' = {} /\ owed' = {} /\ raw' = NoRaw
    /\ UNCHANGED <<repo, rows, broker, lineage, watch, cmds, blind, commits>>

\* _recover_interrupted_runs: the Broker's word for what has ended, no replay of the rest.
Recovered(x) ==
    IF blind \/ broker[x] \notin {"succeeded", "failed"} THEN "recovery_required"
    ELSE IF broker[x] = "succeeded" THEN "completed" ELSE "failed"

Restart ==
    /\ pc = "down" /\ pc' = "idle"
    /\ rows' = [x \in Runs |-> IF Active(x) THEN [rows[x] EXCEPT !.st = Recovered(x)] ELSE rows[x]]
    /\ lineage' = [x \in Runs |-> IF Active(x) /\ Recovered(x) \in Ended /\ lineage[x].phase # "none"
                                  THEN [lineage[x] EXCEPT !.phase = "terminal", !.out = Recovered(x)] ELSE lineage[x]]
    /\ UNCHANGED <<repo, broker, owed, watch, cmds, raw, cur, todo, blind, commits, failures>>

GoBlind ==
    /\ ~blind /\ blind' = TRUE /\ failures < MaxFailures /\ failures' = failures + 1
    /\ UNCHANGED <<repo, rows, broker, lineage, owed, watch, cmds, daemon, commits>>

Sighted ==
    /\ blind /\ blind' = FALSE
    /\ UNCHANGED <<repo, rows, broker, lineage, owed, watch, cmds, daemon, commits, failures>>

\* A tick compares with the time it began.
Cool(x) ==
    /\ pc = "idle" /\ x \in cooling /\ cooling' = cooling \ {x}
    /\ UNCHANGED <<repo, rows, broker, lineage, owed, slot, cmds, daemon, blind, commits, failures>>

Tick ==
    \/ Monitor \/ Oblige \/ Settle \/ Observe \/ NoteAttempt \/ Reconcile \/ CloseLost \/ Pend
    \/ TellPending \/ Submit \/ Mark \/ Record
    \/ (\E f \in todo : Launch(f)) \/ (\E f \in todo : Refuse(f))
    \/ (\E f \in todo : Supersede(f)) \/ (\E f \in todo : GiveUp(f))
    \/ (\E f \in todo : Wait(f)) \/ (\E f \in todo : Doubt(f))
    \/ (\E f \in todo : Resume(f)) \/ (\E f \in todo : Reserve(f))

Thread(x) == BrokerEnds(x) \/ WorkerRecords(x) \/ CloseObligation(x)

Next ==
    \/ Tick \/ ObligeFails \/ HandOff \/ Crash \/ Restart \/ GoBlind \/ Sighted
    \/ \E x \in Runs : BrokerCommits(x) \/ Thread(x) \/ OwnerContinue(x) \/ Cool(x)

Spec == Init /\ [][Next]_vars

\* The daemon's loop and its threads go on and a dead daemon is restarted; an execution has a timeout,
\* outages end, and so do back-offs, although only a tick that begins sees it.  Nothing is assumed of the
\* owner, of commits or of review.
FairSpec ==
    /\ Spec /\ WF_vars(Tick) /\ WF_vars(Restart) /\ WF_vars(Sighted)
    /\ WF_vars(\E x \in Runs : Thread(x)) /\ SF_vars(\E x \in Runs : Cool(x))

(******************************** properties ************************************************************)
\* A run is replaced only when it is over: once the Broker has the replacement, it has the lost run no
\* longer, and the ledger says it was reconciled.  (agent/staged/P16.9.md: "Never launch duplicate Workers".)
ReplacedIsDead ==
    \A x \in Runs : Recovery[x] # None /\ broker[Recovery[x]] # "none"
        => broker[x] # "running" /\ rows[x].st = "reconciled"

\* A replacement works on the task the lost run had, however much the project has moved in between.
RecoveryRunsItsTask ==
    \A x \in Runs : Recovery[x] # None /\ broker[Recovery[x]] # "none" => rows[Recovery[x]].task = rows[x].task

Vanished(x)  == {i \in DOMAIN lineage[x].finds : lineage[x].finds[i].code = "vanished"}
Unsettled(x) == {i \in Vanished(x) : lineage[x].finds[i].st # "resolved"}

\* A reconciled row keeps a finding: it is resolved only when the replacement has ended or the project has
\* been handed on (docs in agent/staged/P16.9.md: "an execution cannot vanish without diagnosis").
LossKept ==
    \A x \in Runs : rows[x].st = "reconciled" =>
        /\ Vanished(x) # {}
        /\ Unsettled(x) = {} => repo.task # rows[x].task \/ (Recovery[x] # None /\ Terminal(Recovery[x]))

\* A project does not stay quiet over a run that is gone and not accounted for: the finding is settled or
\* escalated.  Runs with a `silent` finding are left out: every later update is written to that one.
Forgotten(x) ==
    /\ Quiet(repo.ready) /\ lineage[x].phase # "none" /\ Recovery[x] # None
    /\ broker[x] # "running" /\ rows[x].st \in {"recovery_required", "reconciled"}
    /\ lineage[x].finds = <<>> \/ (/\ lineage[x].finds[1].code = "vanished"
                                   /\ lineage[x].finds[1].st \notin {"resolved", "escalated"})
LossSettles == \A x \in Runs : []<>~Forgotten(x)
=============================================================================
