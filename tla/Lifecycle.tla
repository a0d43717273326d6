------------------------------ MODULE Lifecycle ------------------------------
(***************************************************************************)
(* One project under the daemon's lifecycle core: the execution ledger and *)
(* lifecycle authority of TransitionExecutor, the reviewer and planner     *)
(* threads, and the tick that drives them (core/transition_executor.py,    *)
(* core/lifecycle_authority.py, core/ai_reviewer.py, core/ai_planner.py,   *)
(* core/control_commands.py, daemon.py).                                   *)
(*                                                                         *)
(* The project runs its workers through AIBroker, has its reviewer and its *)
(* planner enabled, and its roadmap names task t + 1 as the staged         *)
(* successor of task t.  A tick reads the repository once (raw), and every *)
(* later phase of the tick sees that snapshot, while the worker, reviewer  *)
(* and planner threads move on.  A crash ends the threads; the ledgers,    *)
(* the repository and the Broker executions survive it.                    *)
(***************************************************************************)
EXTENDS Naturals, FiniteSets

CONSTANTS
  NTasks,      \* tasks of the roadmap, in order
  MaxRounds,   \* remediation rounds a task may have, extensions included
  MaxFailures, \* bound: daemon crashes, failed writes and commits, and commits by others
  Outcomes     \* what a worker's agent may do to the repository

ASSUME LifecycleBounds ==
  /\ NTasks \in Nat \ {0} /\ MaxRounds \in Nat /\ MaxFailures \in Nat
  /\ Outcomes \subseteq {"complete", "ready", "dirty", "advance", "open"}

VARIABLES
  repo,      \* [task, status, head, agent (last commit under agent/), dirty]
  rows,      \* executions of the ledger, by source request id
  trans,     \* transitions of the ledger: <<source, target, generation>> -> state
  auth,      \* the lifecycle authority of the ledger
  reviews,   \* ai-reviewer.json
  plans,     \* ai-planner.json, by the handoff the plan continues
  history,   \* handoffs whose continuation has a history file with a plan id
  dec,       \* review-decisions.json
  broker,    \* AIBroker executions of workers, by source request id
  pc, raw, over, todo, cur,  \* the tick: phase, snapshots, rest of the phase, open step
  failures

ledger == <<rows, trans, auth>>
roles == <<reviews, plans, history, dec>>
tick == <<pc, raw, over, todo, cur>>
vars == <<ledger, roles, repo, broker, tick, failures>>

ReadyId(t, h) == <<"ready", t, h>>
ReviewId(w) == <<"review", w>>
ExecuteId(r) == <<"execute", r>>

None == <<>>
Step(op, id, h) == [op |-> op, id |-> id, head |-> h]
NoStep == Step("", None, 0)
Put(f, k, v) == [x \in DOMAIN f \cup {k} |-> IF x = k THEN v ELSE f[x]]
Join(f, g) == [x \in DOMAIN f \cup DOMAIN g |-> IF x \in DOMAIN f THEN f[x] ELSE g[x]]

Successor(t) == IF t < NTasks THEN t + 1 ELSE 0

\* n, c and m stamp the start, the completion and the recording; b is the barrier's stamp.
Row == [kind |-> "decision", task |-> 0, state |-> "blocked", head |-> 0, n |-> 0, c |-> 0,
        m |-> 0, b |-> 0, depth |-> 0, to |-> 0, tid |-> None, staged |-> FALSE, ready |-> FALSE,
        consumed |-> FALSE, why |-> "", again |-> {}]

Now ==
  LET stamps == {0} \cup UNION {{rows[id].n, rows[id].c, rows[id].b} : id \in DOMAIN rows}
  IN (CHOOSE s \in stamps : \A o \in stamps : o <= s) + 1

Latest(S, At(_)) == {id \in S : \A o \in S : At(o) <= At(id)}

Active == {"launching", "running"}
ActivePlan == {"planning", "applying", "applied"}   \* applied: still "applying" in the file
ActiveRows == {id \in DOMAIN rows : rows[id].state \in Active}
Launched == {id \in DOMAIN rows : rows[id].n > 0}

(***************************************************************************)
(* Who owns the project (active_owners).  A completed worker is an         *)
(* obligation until its review is completed and actuated, or until a       *)
(* handoff or settlement recorded, or consumed, after it covers it.        *)
(***************************************************************************)
Covered(w) ==
  \E id \in DOMAIN rows :
    /\ rows[id].state \in {"handoff", "settled"}
    /\ rows[id].task = rows[w].task \/ rows[id].consumed
    /\ rows[id].b >= rows[w].c

ActuationOf(w) == IF ReviewId(w) \in DOMAIN rows THEN rows[ReviewId(w)].state ELSE "none"

Uncovered == {w \in DOMAIN rows : rows[w].state = "completed" /\ ~Covered(w)}

Obligations ==
  {w \in Uncovered : ~ (/\ ReviewId(w) \in DOMAIN reviews /\ reviews[ReviewId(w)].state = "completed"
                        /\ ActuationOf(w) \notin {"none", "blocked", "recovery_required"})}

RunningReviews == {v \in DOMAIN reviews : reviews[v].state = "running"}
RunningPlans == {r \in DOMAIN plans : plans[r].state \in ActivePlan}

OwnerTasks ==
  {rows[id].task : id \in ActiveRows \cup Obligations}
    \cup {reviews[v].task : v \in RunningReviews} \cup {plans[r].task : r \in RunningPlans}

Settled(t) == \E id \in DOMAIN rows : rows[id].state = "settled" /\ rows[id].task = t

Unseen == [seen |-> 0]   \* no snapshot yet, or one that nothing reads any more

Init ==
  /\ repo = [task |-> 1, status |-> "ready", head |-> 1, agent |-> 1, dirty |-> 0]
  /\ rows = <<>> /\ trans = <<>> /\ reviews = <<>> /\ plans = <<>> /\ dec = <<>> /\ broker = <<>>
  /\ auth = [task |-> 1, lc |-> "READY_TO_RUN", gate |-> "", gen |-> 0, tid |-> None, seen |-> 1]
  /\ history = {} /\ todo = {} /\ cur = NoStep
  /\ pc = "idle" /\ raw = Unseen /\ over = Unseen
  /\ failures = 0

Enter(p, ids) == pc' = p /\ todo' = ids /\ cur' = NoStep
Fails == failures < MaxFailures /\ failures' = failures + 1

\* run_monitor_once: the snapshot of this tick.
Monitor ==
  /\ pc = "idle" /\ Enter("reconcile", {}) /\ raw' = repo
  /\ UNCHANGED <<ledger, roles, repo, broker, over, failures>>

--------------------------------------------------------------------------------
(* reconcile_lifecycle_authority: one branch each for a settled task, owners of *)
(* several tasks, owners of one task, and no owner at all.                       *)

FromStatus(s) == CASE s = "pending" -> "PENDING_DESIGN" [] s = "ready" -> "READY_TO_RUN" [] s = "complete" -> "COMPLETE"

\* The authority as it is saved: a standing gate names the state, the projection is kept.
Gated(a) == [a EXCEPT !.seen = raw.task, !.lc = IF a.gate # "" THEN "OWNER_GATE" ELSE @]

SettledHere == raw.task = auth.task /\ Settled(auth.task)
Stuck == {w \in Obligations : ActuationOf(w) \in {"blocked", "recovery_required"}}

ReconcileSettled ==
  /\ SettledHere
  /\ auth' = Gated([auth EXCEPT !.lc = "COMPLETE"])
  /\ UNCHANGED trans

ReconcileSpread ==
  /\ ~SettledHere /\ Cardinality(OwnerTasks) > 1
  /\ auth' = Gated([auth EXCEPT !.gate = "SINGLE_ACTIVE_LIFECYCLE_OWNER"])
  /\ UNCHANGED trans

RoleState ==
  IF ActiveRows # {} THEN "EXECUTING"
  ELSE IF RunningReviews # {} THEN "REVIEWING"
  ELSE IF Obligations # {}
       THEN IF \E w \in Obligations : ReviewId(w) \in DOMAIN reviews /\ reviews[ReviewId(w)].state = "failed"
            THEN "REVIEW_FAILED" ELSE "REVIEWING"
  ELSE "PLANNING"

\* One task owns the project: the authority follows it, whatever it named before.
ReconcileOwned ==
  /\ ~SettledHere
  /\ \E t \in 1..NTasks :
       LET tid == <<t, raw.task, auth.gen + 1>>
           a == [auth EXCEPT !.task = t, !.lc = RoleState,
                             !.gate = IF @ = "" /\ ActiveRows = {} /\ Stuck # {} THEN "NEXT_TASK_WITHOUT_HANDOFF" ELSE @]
       IN /\ OwnerTasks = {t}
          /\ IF raw.task # t /\ raw.task = Successor(t)
             THEN auth' = Gated([a EXCEPT !.tid = tid]) /\ trans' = Join(trans, [k \in {tid} |-> "waiting_source"])
             ELSE auth' = Gated(a) /\ UNCHANGED trans

\* Nobody owns it and the repository names the authority's task, or just came to.
AtRest(a) ==
  LET mine == {r \in DOMAIN plans : plans[r].task = raw.task}
      last == {plans[r].state : r \in Latest(mine, LAMBDA r : plans[r].n)}
  IN IF a.task # raw.task \/ a.gate # "" THEN Gated(a)
     ELSE Gated([a EXCEPT !.lc = IF "failed" \in last THEN "PLAN_FAILED" ELSE FromStatus(raw.status),
                          !.gate = IF "recovery_required" \in last THEN "PLAN_RECOVERY_REQUIRED" ELSE @])

Matching == {k \in DOMAIN trans : k[1] = auth.task /\ k[2] = raw.task}
\* Mutant: a handoff that is ready counts as published.
PublishedOrReady == {k \in Matching : trans[k] \in {"ready", "published", "completed"}}

Published == {k \in Matching : trans[k] \in {"published", "completed"}}
Moved == raw.task # auth.task

ReconcileAtRest ==
  /\ ~SettledHere /\ OwnerTasks = {} /\ ~Moved
  /\ auth' = AtRest(auth) /\ UNCHANGED trans

\* The repository moved and the handoff is published: the authority follows.
ReconcileFollows ==
  /\ OwnerTasks = {} /\ Moved /\ Published # {}
  /\ \E k \in Latest(Published, LAMBDA j : j[3]) :
       /\ trans' = [trans EXCEPT ![k] = "completed"]
       /\ auth' = AtRest([auth EXCEPT !.gen = k[3], !.task = raw.task, !.tid = k, !.gate = ""])

\* The repository moved, but the handoff is not published: only a projection.
ReconcileProjection ==
  /\ OwnerTasks = {} /\ Moved /\ Published = {}
  /\ Matching # {} \/ raw.task = Successor(auth.task)
  /\ LET known == IF Matching # {} THEN Matching ELSE {<<auth.task, raw.task, auth.gen + 1>>}
     IN \E k \in Latest(known, LAMBDA j : j[3]) :
          /\ trans' = Put(trans, k, IF k \notin Matching \/ trans[k] = "waiting_source" THEN "intent" ELSE trans[k])
          /\ auth' = Gated([auth EXCEPT !.tid = k, !.lc = "TRANSITIONING"])

ReconcileStrayed ==
  /\ OwnerTasks = {} /\ Moved /\ Matching = {} /\ raw.task # Successor(auth.task)
  /\ auth' = Gated([auth EXCEPT !.gate = "CURRENT_TASK_MATCHES_ACTIVE_EXECUTION"])
  /\ UNCHANGED trans

\* overlay_lifecycle_authority, over the state the monitor derived.
Overlaid(a, base) ==
  CASE a.lc = "EXECUTING" -> "WORKER_RUNNING"
    [] a.lc \in {"PLANNING", "REVIEWING", "OWNER_GATE", "PLAN_FAILED", "REVIEW_FAILED"} -> a.lc
    [] a.lc = "PENDING_DESIGN" -> "IDLE"
    [] OTHER -> base

MonitorState == IF raw.status = "ready" THEN "READY_TO_RUN" ELSE "IDLE"

ReadyPlans == {r \in DOMAIN plans : plans[r].state = "ready"}

Reconcile ==
  /\ pc \in {"reconcile", "again"}
  /\ \/ ReconcileSettled \/ ReconcileSpread \/ ReconcileOwned
     \/ ReconcileAtRest \/ ReconcileFollows \/ ReconcileProjection \/ ReconcileStrayed
  /\ cur = NoStep
  /\ IF pc = "reconcile"
     THEN /\ over' = [task |-> auth'.task, state |-> Overlaid(auth', MonitorState),
                      tid |-> auth'.tid, seen |-> raw.task, busy |-> FALSE]
          /\ Enter("control", {}) /\ UNCHANGED raw
     ELSE raw' = Unseen /\ UNCHANGED over /\ Enter("idle", {})
  /\ UNCHANGED <<rows, roles, repo, broker, failures>>

--------------------------------------------------------------------------------
(* Launching a worker: _launch_aibroker, _lifecycle_launch_guard.               *)

\* The reason a launch is refused, or "".  Without the reviewer's file every
\* completed worker no barrier covers counts as unreviewed.
Refusal(kind, t, h) ==
  IF repo.head # h THEN "changed"
  ELSE IF auth.task # t THEN "mismatch"
  ELSE IF auth.gate # "" THEN "gate"
  ELSE IF auth.lc = "COMPLETE" \/ Settled(t) THEN "settled"
  ELSE IF auth.lc = "PENDING_DESIGN" THEN "pending"
  ELSE IF /\ kind # "remediation"
          /\ auth.lc \in {"REVIEWING", "TRANSITIONING"} \/ \E w \in Uncovered : rows[w].task = t
       THEN "unreviewed"
  ELSE IF ActiveRows # {} THEN "active"
  ELSE ""

\* Mutant: a request whose execution failed may be launched again.
ReplayableFailed(id) == id \notin DOMAIN rows \/ rows[id].state \in {"blocked", "failed"}

\* A row of this request is final, except a remediation refused for a stale snapshot.
Replayable(id) == id \notin DOMAIN rows \/ rows[id].why = "state"

Block(id, kind, t, why) ==
  rows' = IF id \in DOMAIN rows THEN rows
          ELSE Put(rows, id, [Row EXCEPT !.kind = kind, !.task = t, !.why = why])

\* The row is saved as launching, or as blocked; the thread starts in a later step.
Launch(id, kind, t, h, depth) ==
  LET why == Refusal(kind, t, h) IN
  IF Replayable(id) /\ why = ""
  THEN /\ rows' = Put(rows, id, [Row EXCEPT !.kind = kind, !.task = t, !.state = "launching",
                                            !.head = h, !.n = Now, !.depth = depth])
       /\ auth' = [auth EXCEPT !.lc = "EXECUTING"]
       /\ cur' = Step("spawn", id, 0)
  ELSE /\ IF Replayable(id) /\ why # "changed"
          THEN rows' = Put(rows, id, [Row EXCEPT !.kind = kind, !.task = t, !.why = why])
          ELSE Block(id, kind, t, why)
       /\ UNCHANGED <<auth, cur>>

\* open_execution_obligation may fail: the row is blocked, with its start and its
\* authority state left as they were.
Spawn ==
  /\ cur.op = "spawn"
  /\ cur' = IF rows[cur.id].kind = "control" THEN [cur EXCEPT !.op = "mark"] ELSE NoStep
  /\ \/ UNCHANGED <<rows, failures>>
     \/ /\ Fails /\ rows' = [rows EXCEPT ![cur.id].state = "blocked", ![cur.id].why = "obligation"]
  /\ UNCHANGED <<trans, auth, roles, repo, broker, pc, raw, over, todo>>

--------------------------------------------------------------------------------
(* control_commands: approved plans first (_resume_ready_plans, start_control). *)

Done(id) == todo' = todo \ {id}

\* start_control's fence: the latest worker of this task at this head is unresolved.
AtHead(t) == {w \in Launched : rows[w].task = t /\ rows[w].head = repo.head}
Stamp(w) == IF rows[w].c > 0 THEN rows[w].c ELSE rows[w].n
\* Mutant: only a completed worker that was not reviewed holds a launch back.
Unreviewed(t) ==
  \E w \in Latest(AtHead(t), Stamp) :
    /\ rows[w].state = "completed"
    /\ ~ (ReviewId(w) \in DOMAIN reviews /\ reviews[ReviewId(w)].state = "completed" /\ ReviewId(w) \in DOMAIN rows)

Unresolved(t) ==
  \E w \in Latest(AtHead(t), Stamp) :
    \/ rows[w].state = "recovery_required"
    \/ /\ rows[w].state = "completed"
       /\ ~ (ReviewId(w) \in DOMAIN reviews /\ reviews[ReviewId(w)].state = "completed" /\ ReviewId(w) \in DOMAIN rows)

Eligible(r) ==
  \/ over.state = "READY_TO_RUN"
  \/ over.state = "IDLE" /\ raw.status = "ready" /\ over.task = plans[r].task /\ raw.head = plans[r].ready

ResumePlan(r) ==
  /\ pc = "plans" /\ cur = NoStep /\ r \in todo /\ Done(r)
  /\ LET t == over.task
         e == ExecuteId(r)
     IN IF ~Eligible(r) THEN UNCHANGED <<ledger, plans, cur>>
        ELSE /\ IF Unresolved(t) \/ repo.dirty # 0
                THEN Block(e, "control", t, "unresolved") /\ UNCHANGED <<auth, cur>>
                ELSE Launch(e, "control", t, repo.head, 0)
             /\ plans' = IF cur' = NoStep THEN [plans EXCEPT ![r].state = "failed"] ELSE plans
             /\ UNCHANGED trans
  /\ UNCHANGED <<reviews, history, dec, repo, broker, pc, raw, over, failures>>

\* mark_worker_launched, or mark_worker_blocked when the launch came to nothing.
MarkPlan ==
  /\ cur.op = "mark" /\ cur' = NoStep
  /\ plans' = [plans EXCEPT ![cur.id[2]].state = IF rows[cur.id].why = "obligation" THEN "failed" ELSE "worker_launched"]
  /\ UNCHANGED <<ledger, reviews, history, dec, repo, broker, pc, raw, over, todo, failures>>

--------------------------------------------------------------------------------
(* Then pending handoffs (_resume_one_decision_handoff, start_deferred).        *)

Refused == {id \in DOMAIN rows : rows[id].state = "blocked" /\ rows[id].why \in {"moved", "dirty"}}
Handoffs == {id \in DOMAIN rows : rows[id].state = "handoff" /\ ~rows[id].consumed} \cup Refused

\* Once for a head that moved, once for each head of a tree that was dirty.
Reopen(r) ==
  LET mark == IF rows[r].why = "moved" THEN 0 ELSE repo.head IN
  /\ pc = "handoffs" /\ cur = NoStep /\ r \in todo /\ r \in Refused
  /\ IF /\ rows[r].staged /\ mark \notin rows[r].again
        /\ rows[r].why = "dirty" => repo.dirty = 0
        /\ trans[rows[r].tid] = "waiting_recovery"
     THEN /\ rows' = [rows EXCEPT ![r].state = "handoff", ![r].why = "", ![r].again = @ \cup {mark}]
          /\ trans' = [trans EXCEPT ![rows[r].tid] = "ready"]
          /\ UNCHANGED todo
     ELSE Done(r) /\ UNCHANGED <<rows, trans>>
  /\ UNCHANGED <<auth, roles, repo, broker, pc, raw, over, cur, failures>>

\* Mutant: a task is taken for completed whatever it was reviewed as.
OfferedWhenComplete(w) ==
  \/ raw.status = "pending" /\ (over.task = w.to \/ (w.staged /\ over.tid = w.tid /\ over.seen = w.to))
  \/ w.staged /\ over.task = w.task /\ raw.status = "complete"

Offered(w) ==
  \/ /\ raw.status = "pending"
     /\ \/ over.task = w.to
        \/ w.staged /\ over.task = w.task /\ over.tid = w.tid /\ over.seen = w.to
  \/ w.staged /\ over.task = w.task /\ raw.status = IF w.ready THEN "ready" ELSE "complete"

MarkHandoffBlocked(r, why) ==
  /\ rows' = [rows EXCEPT ![r].state = "blocked", ![r].why = why]
  /\ trans' = [trans EXCEPT ![rows[r].tid] = "waiting_recovery"]

\* _lifecycle_evidence_unchanged: commits outside agent/ leave a staged handoff good.
MovedSinceReview(w) == repo.agent > w.head

\* agent/next.md is the staged text of the successor, which is pending.
AlreadyActive(w) == repo.task = w.to /\ repo.status = "pending"

\* What the planner checks before it writes: the refusal, or "".
PlannerRefusal(w) ==
  IF repo.dirty # 0 THEN "dirty"
  ELSE IF AlreadyActive(w) THEN ""
  ELSE IF ~w.staged THEN "status"
  ELSE IF MovedSinceReview(w) THEN "moved" ELSE ""

\* The commit that makes the staged successor the current task, unless it is already.
Activate(r) ==
  LET w == rows[r] IN
  \/ /\ AlreadyActive(w) /\ cur' = Step("begin", r, 0)
     /\ UNCHANGED <<rows, trans, repo, todo, failures>>
  \/ /\ ~AlreadyActive(w) /\ cur' = Step("begin", r, repo.head + 1)
     /\ repo' = [repo EXCEPT !.task = w.to, !.status = "pending", !.head = @ + 1, !.agent = repo.head + 1]
     /\ UNCHANGED <<rows, trans, todo, failures>>
  \/ /\ ~AlreadyActive(w) /\ Fails /\ MarkHandoffBlocked(r, "commit") /\ Done(r) /\ UNCHANGED <<repo, cur>>

Offer(r) ==
  /\ pc = "handoffs" /\ cur = NoStep /\ r \in todo /\ r \notin Refused
  /\ LET why == PlannerRefusal(rows[r]) IN
     \/ ~Offered(rows[r]) /\ Done(r) /\ UNCHANGED <<rows, trans, repo, cur, failures>>
     \/ /\ Offered(rows[r]) /\ r \in history
        /\ cur' = Step("consume", r, 0) /\ UNCHANGED <<rows, trans, repo, todo, failures>>
     \/ /\ Offered(rows[r]) /\ r \notin history /\ why # ""
        /\ MarkHandoffBlocked(r, why) /\ Done(r) /\ UNCHANGED <<repo, cur, failures>>
     \/ Offered(rows[r]) /\ r \notin history /\ why = "" /\ Activate(r)
  /\ UNCHANGED <<auth, roles, broker, pc, raw, over>>

\* _begin_lifecycle: one plan per handoff, one active plan per project.
Begin ==
  /\ cur.op = "begin"
  /\ LET r == cur.id
         lost == cur.head > 0 /\ (repo.head # cur.head \/ repo.dirty # 0)
     IN IF lost \/ (r \notin DOMAIN plans /\ RunningPlans # {})
        THEN MarkHandoffBlocked(r, "busy") /\ Done(r) /\ cur' = NoStep /\ UNCHANGED plans
        ELSE /\ plans' = Join(plans, [x \in {r} |-> [state |-> "planning", task |-> rows[r].to, head |-> repo.head,
                                                         ready |-> 0, n |-> Cardinality(DOMAIN plans) + 1]])
             /\ cur' = Step("note", r, 0) /\ UNCHANGED <<rows, trans, todo>>
  /\ UNCHANGED <<auth, reviews, history, dec, repo, broker, pc, raw, over, failures>>

\* Mutant: the handoff is consumed although its history could not be written.
WriteHistoryOrNot ==
  /\ cur.op = "note" /\ cur' = [cur EXCEPT !.op = "consume"]
  /\ \/ history' = history \cup {cur.id} /\ UNCHANGED failures
     \/ Fails /\ UNCHANGED history
  /\ UNCHANGED <<ledger, reviews, plans, dec, repo, broker, pc, raw, over, todo>>

\* The history file: a failed write is contained, and the handoff stays unconsumed.
WriteHistory ==
  /\ cur.op = "note"
  /\ \/ history' = history \cup {cur.id} /\ cur' = [cur EXCEPT !.op = "consume"] /\ UNCHANGED <<todo, failures>>
     \/ Fails /\ Done(cur.id) /\ cur' = NoStep /\ UNCHANGED history
  /\ UNCHANGED <<ledger, reviews, plans, dec, repo, broker, pc, raw, over>>

\* mark_handoff_consumed: the row, the transition and the authority in one save.
Consume ==
  /\ cur.op = "consume" /\ cur' = NoStep /\ Done(cur.id)
  /\ LET w == rows[cur.id] IN
       /\ rows' = [rows EXCEPT ![cur.id].consumed = TRUE, ![cur.id].b = Now]
       /\ trans' = [trans EXCEPT ![w.tid] = "published"]
       /\ auth' = [auth EXCEPT !.gen = w.tid[3], !.task = w.to, !.tid = w.tid, !.lc = "PLANNING", !.gate = ""]
  /\ UNCHANGED <<roles, repo, broker, pc, raw, over, failures>>

--------------------------------------------------------------------------------
(* reviewer.advance: the worker that completed last, if it has no review yet;   *)
(* and the snapshot the decisions are actuated against.                         *)

Completed == {w \in DOMAIN rows : rows[w].state = "completed"}

\* Mutant: the worker that completed first is taken.
LaunchReviewOfFirst ==
  LET first == Latest(Completed, LAMBDA w : Now - rows[w].c) IN
  reviews' = Join(reviews, [v \in {ReviewId(w) : w \in first} |->
                [state |-> "running", task |-> rows[v[2]].task, worker |-> v[2], head |-> repo.head, dirty |-> repo.dirty]])

LaunchReview ==
  LET last == Latest(Completed, LAMBDA w : rows[w].c) IN
  reviews' = Join(reviews, [v \in {ReviewId(w) : w \in last} |->
                [state |-> "running", task |-> rows[v[2]].task, worker |-> v[2], head |-> repo.head, dirty |-> repo.dirty]])

\* overlay_managed_runs: the latest worker no barrier covers gives the snapshot its
\* worker, and its state where the authority has none to give.
Barrier == {0} \cup {rows[id].m : id \in DOMAIN rows}
Shown ==
  {w \in Launched :
     /\ rows[w].state \in Active \cup {"completed", "failed"}
     /\ ~ (ActuationOf(w) \in {"settled", "handoff"} /\ reviews[ReviewId(w)].state = "completed")
     /\ \A m \in Barrier : Stamp(w) > m
     /\ ~ (rows[w].state = "failed" /\ rows[w].task # raw.task /\ raw.status \in {"ready", "complete"})}

Projected ==
  LET run == {rows[w].state : w \in Latest(Shown, LAMBDA w : rows[w].n)}
      base == IF run = {} THEN MonitorState
              ELSE IF run \cap Active # {} THEN "WORKER_RUNNING"
              ELSE IF "completed" \in run THEN "WAITING_REVIEW" ELSE "WORKER_FAILED"
  IN [task |-> auth.task, state |-> Overlaid(auth, base), tid |-> auth.tid, seen |-> auth.seen,
      busy |-> run \cap Active # {}]

Review ==
  /\ pc = "review" /\ LaunchReview /\ over' = Projected /\ Enter("actuate", {})
  /\ UNCHANGED <<ledger, plans, history, dec, repo, broker, raw, failures>>

--------------------------------------------------------------------------------
(* _advance_decisions, in the order the decisions were made.                    *)

\* Mutant: a review that still has to be actuated is waited for, the deciding one included.
SourceOwners(id, t) ==
  {w \in ActiveRows \cup Obligations : rows[w].task = t} \cup {v \in RunningReviews : reviews[v].task = t}

\* What must have drained before the handoff of decision id is recorded: the deciding
\* review itself does not count, nor do the obligations it inherits.
SourceBlockers(id, t) ==
  {w \in ActiveRows : rows[w].task = t} \cup {v \in RunningReviews \ {id} : reviews[v].task = t}
    \cup {r \in RunningPlans : plans[r].task = t}

RecordHandoff(id, to, staged) ==
  LET t == dec[id].task
      prior == {k \in DOMAIN trans : k[1] = t /\ k[2] = to}
      tid == IF prior = {} THEN <<t, to, auth.gen + 1>> ELSE CHOOSE k \in prior : \A j \in prior : k[3] <= j[3]
      waits == SourceBlockers(id, t) # {}
  IN /\ trans' = Put(trans, tid, IF waits THEN "waiting_source" ELSE "ready")
     /\ auth' = [auth EXCEPT !.task = t, !.tid = tid, !.lc = IF waits THEN "REVIEWING" ELSE "TRANSITIONING"]
     /\ rows' = IF waits THEN rows
                ELSE Put(rows, id, [Row EXCEPT !.state = "handoff", !.task = t, !.to = to, !.tid = tid, !.staged = staged,
                                               !.ready = raw.status = "ready", !.head = repo.head, !.m = Now, !.b = Now])

\* Settled for good: nothing is staged after this task.
RecordSettled(id) ==
  /\ rows' = Put(rows, id, [Row EXCEPT !.state = "settled", !.task = dec[id].task, !.m = Now, !.b = Now])
  /\ auth' = IF auth.task = dec[id].task /\ auth.gate = "" THEN [auth EXCEPT !.lc = "COMPLETE"] ELSE auth
  /\ UNCHANGED trans

ActuateNext(id) ==
  LET d == dec[id]
      same == repo.head = d.head /\ repo.dirty = 0 /\ d.dirty = 0
      here == raw.task = d.task /\ raw.status \in {"complete", "ready"}
      advanced == raw.task # d.task /\ raw.status = "pending"
  IN \/ here /\ same /\ Successor(d.task) # 0 /\ RecordHandoff(id, Successor(d.task), TRUE) /\ UNCHANGED cur
     \/ here /\ same /\ Successor(d.task) = 0 /\ RecordSettled(id) /\ UNCHANGED cur
     \/ advanced /\ same /\ RecordHandoff(id, raw.task, FALSE) /\ UNCHANGED cur
     \/ /\ ~here /\ ~advanced /\ raw.task # d.task /\ raw.status = "ready" /\ ~over.busy
        /\ repo.head = d.head /\ repo.dirty = 0
        /\ Launch(id, "decision", raw.task, d.head, 0) /\ UNCHANGED trans
     \/ /\ \/ (here \/ advanced) /\ ~same
           \/ /\ ~here /\ ~advanced
              /\ ~ (raw.task # d.task /\ raw.status = "ready" /\ ~over.busy /\ repo.head = d.head /\ repo.dirty = 0)
        /\ Block(id, "decision", d.task, "truth") /\ UNCHANGED <<trans, auth, cur>>

\* Exactly the reviewed tree, and no worker at it: otherwise the decision is refused, for
\* good unless it was the snapshot's state that did not fit.
ActuateRemediation(id) ==
  LET d == dec[id]
      fits == over.state \in {"READY_TO_RUN", "WAITING_REVIEW", "REVIEWING", "IDLE"}
      same == ~over.busy /\ repo.head = d.head /\ repo.dirty = d.dirty
  IN /\ UNCHANGED trans
     /\ IF fits /\ same
        THEN Launch(id, "remediation", d.task, d.head, rows[reviews[id].worker].depth + 1)
        ELSE Block(id, "remediation", d.task, IF fits THEN "truth" ELSE "state") /\ UNCHANGED <<auth, cur>>

Actuate(id) ==
  /\ pc = "decisions" /\ cur = NoStep /\ \A o \in todo : dec[id].seq <= dec[o].seq
  /\ Done(id)
  /\ \/ dec[id].verb = "next" /\ ActuateNext(id)
     \/ dec[id].verb = "remediate" /\ ActuateRemediation(id)
  /\ UNCHANGED <<roles, repo, broker, pc, raw, over, failures>>

\* _advance_unlaunched_ready: once per ready task and head, never for a task that ran.
AutoReady ==
  LET id == ReadyId(raw.task, repo.head) IN
  /\ pc = "auto" /\ pc' = "again" /\ UNCHANGED todo
  /\ IF /\ raw.status = "ready" /\ repo.dirty = 0 /\ ActiveRows = {} /\ id \notin DOMAIN rows
        /\ \A w \in Launched : rows[w].task # raw.task
     THEN Launch(id, "ready", raw.task, repo.head, 0)
     ELSE UNCHANGED <<rows, auth, cur>>
  /\ UNCHANGED <<trans, roles, repo, broker, raw, over, failures>>

\* The next phase of the tick, which works on what it finds now; one with nothing to
\* do is passed over.
ToReview == Enter("review", {})
ToHandoffs == IF Handoffs = {} THEN ToReview ELSE Enter("handoffs", Handoffs)
Owed == {id \in DOMAIN dec : Replayable(id) /\ dec[id].verb # "stop"}

NextPhase ==
  /\ pc \in {"control", "plans", "handoffs", "actuate", "decisions"} /\ todo = {} /\ cur = NoStep
  /\ CASE pc = "control" -> IF ReadyPlans = {} THEN ToHandoffs ELSE Enter("plans", ReadyPlans)
       [] pc = "plans" -> ToHandoffs
       [] pc = "handoffs" -> ToReview
       [] pc = "actuate" -> IF Owed = {} THEN Enter("auto", {}) ELSE Enter("decisions", Owed)
       [] pc = "decisions" -> Enter("auto", {})
  /\ over' = IF pc' = "auto" THEN Unseen ELSE over
  /\ UNCHANGED <<ledger, roles, repo, broker, raw, failures>>

--------------------------------------------------------------------------------
(* The role threads and the Broker.                                             *)

Spawned(w) == w \in ActiveRows /\ (cur.op # "spawn" \/ cur.id # w)

\* _run_broker_worker_thread: the row, then the request to the Broker.
StartWorker(w) ==
  /\ Spawned(w) /\ rows[w].state = "launching"
  /\ rows' = [rows EXCEPT ![w].state = "running"] /\ auth' = [auth EXCEPT !.lc = "EXECUTING"]
  /\ broker' = Put(broker, w, "running")
  /\ UNCHANGED <<trans, roles, repo, tick, failures>>

\* The agent changes the repository, once, and then ends; neither needs the daemon.
BrokerWork(w) ==
  /\ broker[w] = "running" /\ broker' = [broker EXCEPT ![w] = "worked"]
  /\ \E o \in Outcomes :
       LET h == repo.head + 1 IN
       repo' = CASE o = "complete" -> [repo EXCEPT !.status = "complete", !.head = h, !.agent = h, !.dirty = 0]
                 [] o = "ready" -> [repo EXCEPT !.head = h, !.dirty = 0]
                 [] o = "dirty" -> [repo EXCEPT !.dirty = rows[w].n]
                 [] o \in {"advance", "open"} ->
                      IF Successor(repo.task) = 0 THEN [repo EXCEPT !.status = "complete", !.head = h, !.agent = h, !.dirty = 0]
                      ELSE [repo EXCEPT !.task = Successor(@), !.status = IF o = "open" THEN "ready" ELSE "pending",
                                        !.head = h, !.agent = h, !.dirty = 0]
  /\ UNCHANGED <<ledger, roles, tick, failures>>

BrokerEnds(w) ==
  /\ broker[w] \in {"running", "worked"}
  /\ \E end \in {"succeeded", "failed"} : broker' = [broker EXCEPT ![w] = end]
  /\ UNCHANGED <<ledger, roles, repo, tick, failures>>

\* _update_record: the completion, with the authority's state set to match.
WorkerRecords(w) ==
  /\ Spawned(w) /\ rows[w].state = "running" /\ broker[w] \in {"succeeded", "failed"}
  /\ IF broker[w] = "succeeded"
     THEN /\ rows' = [rows EXCEPT ![w].state = "completed", ![w].c = Now]
          /\ auth' = [auth EXCEPT !.lc = "REVIEWING"]
     ELSE /\ rows' = [rows EXCEPT ![w].state = "failed"] /\ auth' = [auth EXCEPT !.lc = "READY_TO_RUN"]
  /\ UNCHANGED <<trans, roles, repo, broker, tick, failures>>

\* _run_review: refused when the repository moved under it; the budget turns a
\* remediation too many into an owner's decision.
Verdicts(v) == {"next", "stop"} \cup IF rows[reviews[v].worker].depth < MaxRounds THEN {"remediate"} ELSE {}

Decide(v) ==
  /\ v \in RunningReviews \ DOMAIN dec
  /\ IF repo.head # reviews[v].head \/ repo.dirty # reviews[v].dirty
     THEN reviews' = [reviews EXCEPT ![v].state = "failed"] /\ UNCHANGED dec
     ELSE \/ /\ \E verb \in Verdicts(v) :
                  dec' = Put(dec, v, [task |-> reviews[v].task, verb |-> verb, head |-> repo.head, dirty |-> repo.dirty,
                                      seq |-> Cardinality(DOMAIN dec) + 1])
             /\ UNCHANGED reviews
          \/ reviews' = [reviews EXCEPT ![v].state = "failed"] /\ UNCHANGED dec
  /\ UNCHANGED <<ledger, plans, history, repo, broker, tick, failures>>

\* _finish_result: only after the decision is durable.
FinishReview(v) ==
  /\ v \in RunningReviews \cap DOMAIN dec
  /\ reviews' = [reviews EXCEPT ![v].state = "completed"]
  /\ UNCHANGED <<ledger, plans, history, dec, repo, broker, tick, failures>>

PlanBecomes(r, s) == plans' = [plans EXCEPT ![r].state = s]

\* _run_cycle: a plan is approved, or the planning fails.
ApprovePlan(r) ==
  /\ plans[r].state = "planning"
  /\ PlanBecomes(r, "applying") \/ PlanBecomes(r, "failed")
  /\ UNCHANGED <<ledger, reviews, history, dec, repo, broker, tick, failures>>

\* _apply_plan: the approved design is committed on the tree it was made for.
ApplyPlan(r) ==
  /\ plans[r].state = "applying"
  /\ IF repo.head # plans[r].head \/ repo.dirty # 0
     THEN PlanBecomes(r, "failed") /\ UNCHANGED <<repo, failures>>
     ELSE \/ /\ PlanBecomes(r, "applied") /\ UNCHANGED failures
             /\ repo' = [repo EXCEPT !.status = "ready", !.head = @ + 1, !.agent = repo.head + 1]
          \/ Fails /\ PlanBecomes(r, "failed") /\ UNCHANGED repo
  /\ UNCHANGED <<ledger, reviews, history, dec, broker, tick>>

\* _record_ready_and_emit: ready at whatever head the clean tree has by then.
RecordReady(r) ==
  /\ plans[r].state = "applied"
  /\ plans' = [plans EXCEPT ![r].state = IF repo.dirty = 0 THEN "ready" ELSE "failed", ![r].ready = repo.head]
  /\ UNCHANGED <<ledger, reviews, history, dec, repo, broker, tick, failures>>

\* Somebody commits beside the daemon, in agent/ or outside of it.
OthersCommit ==
  /\ Fails
  /\ \E a \in {repo.agent, repo.head + 1} : repo' = [repo EXCEPT !.head = @ + 1, !.agent = a]
  /\ UNCHANGED <<ledger, roles, broker, tick>>

--------------------------------------------------------------------------------
(* The daemon dies with its threads and starts again: every ledger recovers what *)
(* it finds open.  A Broker execution goes on, and may be finished by now.       *)

Recovered(id) ==
  IF id \notin ActiveRows THEN rows[id]
  ELSE IF id \in DOMAIN broker /\ broker[id] = "succeeded" THEN [rows[id] EXCEPT !.state = "completed", !.c = Now]
  ELSE [rows[id] EXCEPT !.state = IF id \in DOMAIN broker /\ broker[id] = "failed" THEN "failed" ELSE "recovery_required"]

Consumed == {id \in DOMAIN rows : rows[id].consumed}

CrashRestart ==
  /\ Fails
  /\ rows' = [id \in DOMAIN rows |-> Recovered(id)]
  /\ IF Consumed = {} THEN UNCHANGED auth
     ELSE \E r \in Latest(Consumed, LAMBDA r : rows[r].tid[3]) :
            auth' = [auth EXCEPT !.gen = rows[r].tid[3], !.task = rows[r].to, !.tid = rows[r].tid]
  /\ reviews' = [v \in DOMAIN reviews |-> IF v \in RunningReviews THEN [reviews[v] EXCEPT !.state = "failed"] ELSE reviews[v]]
  /\ plans' = [r \in DOMAIN plans |-> IF r \in RunningPlans THEN [plans[r] EXCEPT !.state = "recovery_required"] ELSE plans[r]]
  /\ Enter("idle", {}) /\ raw' = Unseen /\ over' = Unseen
  /\ UNCHANGED <<trans, history, dec, repo, broker>>

--------------------------------------------------------------------------------
Tick ==
  \/ Monitor \/ Reconcile \/ NextPhase \/ Spawn \/ MarkPlan \/ Begin \/ WriteHistory \/ Consume
  \/ Review \/ AutoReady
  \/ \E id \in todo : ResumePlan(id) \/ Reopen(id) \/ Offer(id) \/ Actuate(id)

Worker(w) == StartWorker(w) \/ WorkerRecords(w)
Reviewer(v) == Decide(v) \/ FinishReview(v)
Planner(r) == ApprovePlan(r) \/ ApplyPlan(r) \/ RecordReady(r)

Threads ==
  \/ \E w \in DOMAIN rows : Worker(w)
  \/ \E w \in DOMAIN broker : BrokerWork(w) \/ BrokerEnds(w)
  \/ \E v \in DOMAIN reviews : Reviewer(v)
  \/ \E r \in DOMAIN plans : Planner(r)

Next == Tick \/ Threads \/ OthersCommit \/ CrashRestart
Spec == Init /\ [][Next]_vars

\* The daemon's loop, its threads and the agents, each of which has a time limit, all go on.
FairSpec ==
  /\ Spec /\ WF_vars(Tick)
  /\ WF_vars(\E w \in DOMAIN rows : Worker(w))
  /\ WF_vars(\E w \in DOMAIN broker : BrokerEnds(w))
  /\ WF_vars(\E v \in DOMAIN reviews : Reviewer(v))
  /\ WF_vars(\E r \in DOMAIN plans : Planner(r))

--------------------------------------------------------------------------------
(* Properties. *)

Tasks == 1..NTasks
RowStates == Active \cup {"completed", "failed", "recovery_required", "blocked", "handoff", "settled"}
Edges == {k \in Tasks \X Tasks \X Nat : k[1] # k[2]}

\* The ledgers, the repository and the tick keep to their types, and refer to each other:
\* reviews to workers that ran, plans to handoffs, transitions to two tasks.
TypeOK ==
  /\ repo.task \in Tasks /\ repo.status \in {"pending", "ready", "complete"} /\ repo.agent <= repo.head
  /\ \A id \in DOMAIN rows : rows[id].state \in RowStates /\ rows[id].task \in Tasks
  /\ DOMAIN broker \subseteq Launched
  /\ \A v \in DOMAIN reviews : v = ReviewId(reviews[v].worker) /\ reviews[v].worker \in Launched
  /\ DOMAIN dec \subseteq DOMAIN reviews
  /\ \A r \in DOMAIN plans : rows[r].state \in {"handoff", "blocked"} /\ plans[r].task = rows[r].to
  /\ history \subseteq DOMAIN plans
  /\ DOMAIN trans \subseteq Edges
  /\ auth.task \in Tasks /\ auth.tid \in {None} \cup DOMAIN trans

Working == {w \in DOMAIN broker : broker[w] \in {"running", "worked"}}

\* A launch after execution v that no fence kept from v's head: decisions do not ask whether
\* an execution was given up, and plans ask it of their own task only.
Unfenced(v, o) ==
  /\ rows[v].n < rows[o].n /\ rows[v].head = rows[o].head
  /\ rows[o].kind \in {"decision", "remediation"} \/ rows[o].task # rows[v].task

\* One agent at a time works on the repository: launches come from approved plans, decisions
\* and ready tasks in one tick, and are fenced by the ledger alone.  Only an execution given up
\* at a restart may still be under way when another starts, and then only once the repository
\* has moved from the head it was launched at, by which the fence of plans knows it; unless a
\* launch got past that fence.
OneWriter ==
  \A v, w \in Working :
    v # w /\ rows[v].n <= rows[w].n =>
      /\ rows[v].state = "recovery_required"
      /\ \/ rows[v].head < rows[w].head
         \/ \E o \in Launched : Unfenced(v, o) /\ rows[o].n <= rows[w].n

Ended(id) == rows[id].state \in {"completed", "failed", "recovery_required"} \/ rows[id].why = "obligation"

\* An execution that ended, or whose launch failed half way, is never started again under its
\* request, however often the decision, plan or ready task behind it is looked at again.
RunNeverReplayed == [][\A id \in DOMAIN rows : Ended(id) => id \in DOMAIN rows' /\ Ended(id)']_vars

\* The generation that the authority fences recovery by is one whose handoff was consumed, with
\* its plan in the history, through failed writes of the history and restarts that take the
\* authority from the ledger anew.
GenerationConsumed == auth.gen # 0 => \E r \in history : rows[r].consumed /\ rows[r].tid[3] = auth.gen

\* Whatever the repository already shows, neither the authority nor a worker gets to a task but
\* the first before a plan for it has begun.
TargetWaitsForPlan ==
  \A t \in {auth.task} \cup {rows[w].task : w \in Launched} : t # 1 => \E r \in DOMAIN plans : plans[r].task = t

\* Every decision but the owner's is actuated in the end: refused, launched, handed off or
\* settled for good, although the tick passes it over while its source has not drained, or
\* while the project's state does not fit; unless a gate stands.
DecisionsActuated == []<>(auth.gate # "" \/ \A v \in DOMAIN dec : dec[v].verb # "stop" => ~Replayable(v))

Excused(w) ==
  \/ ReviewId(w) \in DOMAIN reviews /\ reviews[ReviewId(w)].state = "failed"
  \/ ReviewId(w) \in DOMAIN dec /\ dec[ReviewId(w)].verb = "stop"

\* No completed worker is forgotten: its review ends and its obligation is discharged, or the
\* review failed, or the owner was asked.
WorkReviewed == []<>(auth.gate # "" \/ \A w \in Obligations : Excused(w))

\* A recorded handoff is consumed or refused in the end, unless the task was reviewed as ready
\* by a snapshot older than the commit that completed it.
HandoffsSettle ==
  []<>(auth.gate # "" \/ \A id \in DOMAIN rows :
          rows[id].state = "handoff" => rows[id].consumed \/ (rows[id].ready /\ repo.status = "complete"))
===============================================================================
