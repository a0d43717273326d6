------------------------------ MODULE Convergence ------------------------------
(***************************************************************************)
(* The convergence kernel (src/dev_orchestrator/convergence/): the loop    *)
(* observe, decide, admit, act over the work record of one goal.           *)
(*                                                                         *)
(* decide() and ActuatorGuard.validate() are pure; the loop around them is *)
(* that of ReplayHarness.run_case: decide on a record and the evidence of  *)
(* that moment, validate, carry out the durable transition, and start over *)
(* with a fresh guard after a crash.  Evidence is gathered anew for the    *)
(* guard, and the execution a lease stands for is launched after the       *)
(* transition.  Several evaluators may run the loop at once.  What the     *)
(* package leaves to its caller (booking the end of an execution, the      *)
(* owner, the repository) is in the last part, one action each.            *)
(***************************************************************************)
EXTENDS Integers, FiniteSets

CONSTANTS
    Evaluators, \* processes that run the loop
    None,       \* Python's None
    Classes,    \* the failure classes an execution may end with
    Starts,     \* the records the loop may start with
    Troubles,   \* what may be wrong with the evidence
    Budget,     \* ProblemBudget
    MaxRepairs, \* Policy.max_output_invalid_repairs
    QuotaKnown, \* the policy has a reset rule for the problem
    MaxRev,     \* bound: authority revisions
    MaxHead     \* bound: commits

FailureClass == {"OUTPUT_INVALID", "RESOURCE_TRANSIENT", "PROVIDER_UNAVAILABLE",
                 "AUTH_OR_PERMISSION", "ENVIRONMENT_CONSTRAINT", "IMPLEMENTATION_DEFECT",
                 "REASONING_OR_STRATEGY_DEFECT", "VERIFICATION_FAILURE",
                 "INTEGRITY_OR_IDENTITY_AMBIGUITY", "SAFETY_OR_IRREVERSIBLE_AUTHORIZATION",
                 "CONTROL_PLANE_DEFECT"}

\* Recovery kinds may replace a dead lease; VERIFY may replace one that succeeded.
Recovery == {"EXECUTE", "RETRY_SAME_STRATEGY", "RETRY_NEW_STRATEGY", "FAILOVER_RESOURCE",
             "ESCALATE_CAPABILITY"}
Launching == Recovery \cup {"VERIFY"}
Passive == {"NOOP_ACTIVE", "WAIT_UNTIL", "REQUEST_HUMAN"}
DecisionKind == Launching \cup Passive \cup {"WRITE_HANDOFF", "SATISFY_GOAL", "PUBLISH_SUCCESSOR"}
Anchored == {"VERIFY", "SATISFY_GOAL", "PUBLISH_SUCCESSOR"}

Strategies == {"initial", "verification", "resource_retry", "strategy_change", "capability_escalation",
               "output_repair", "environment_rewrite"}
Roles == {"worker", "reviewer"}
Revs == 1 .. MaxRev
Heads == 1 .. MaxHead

ASSUME ConvergenceAssumption ==
    /\ Classes \subseteq FailureClass
    /\ \A s \in Starts : s \in [rev : Revs, problem : FailureClass \cup {None},
                               tried : [Strategies -> Nat], successor : {"none", "PENDING"}]
    /\ "none" \in Troubles /\ Troubles \subseteq {"none", "conflict", "missing", "no_head"}
    /\ Budget \in [resource : Nat, strategy : Nat, escalation : Nat, total : Nat]
    /\ MaxRepairs \in Nat /\ QuotaKnown \in BOOLEAN
    /\ MaxRev \in Nat \ {0} /\ MaxHead \in Nat \ {0}

\* A problem is named by its failure class, which is part of its fingerprint.
\* A lease is named by the revision that was current when it was granted.
Problems == FailureClass \cup {None}
Lease == [exec : Revs, role : Roles, strategy : Strategies, problem : Problems]
Acceptance == [kind : {"NONE", "VERIFIED", "OWNER_OVERRIDE"}, head : Heads \cup {None},
               valid : BOOLEAN]
Verification == [head : Heads, passed : BOOLEAN]

ASSUME NoneAssumption == None \notin FailureClass \cup DecisionKind /\ None \notin Lease

\* An idempotency key.  The record digest in it stands for the revision; the evidence
\* digest is left out, since a record that carried out one decision has a new revision.
Key == [kind : DecisionKind, problem : Problems, rev : Nat]

WorkRecord ==
    [rev : Revs, status : {"OPEN", "NEEDS_HUMAN", "DONE"}, lease : Lease \cup {None},
     problem : Problems, attempts : [Problems -> [Strategies -> Nat]],
     acceptance : Acceptance, verification : Verification \cup {None}, wait : BOOLEAN,
     successor : {"none", "PENDING", "PUBLISHED"}, request : {"none", "open", "answered"},
     handoff : BOOLEAN, consumed : SUBSET Key]

Decision == [key : Key, role : Roles, rev : Revs, head : Heads \cup {None}]

VARIABLES
    rec,     \* the work record
    view,    \* the decision an evaluator has taken, or the lease it is about to launch
    exec,    \* the executions: state, role and the head they started from
    head,    \* the repository
    paused,  \* the owner's emergency pause
    trouble, \* what is wrong with the evidence
    reset,   \* the wait and the quota reset lie in the past
    blind    \* history: leases granted over one that only a probe called dead

world == <<head, paused, trouble, reset>>
vars == <<rec, view, exec, head, paused, trouble, reset, blind>>

States == {"none", "running", "succeeded", "failed"}
Idle == [pc |-> "idle"]

TypeOK ==
    /\ rec \in WorkRecord
    /\ view \in [Evaluators -> [pc : {"idle"}] \cup [pc : {"judged"}, decision : Decision]
                               \cup [pc : {"launch"}, lease : Lease]]
    /\ exec \in [Revs -> [state : States, role : Roles \cup {None}, head : Heads \cup {None}]]
    /\ head \in Heads
    /\ paused \in BOOLEAN
    /\ trouble \in Troubles
    /\ reset \in BOOLEAN
    /\ blind \subseteq Revs

NoAcceptance == [kind |-> "NONE", head |-> None, valid |-> FALSE]

Init ==
    /\ \E s \in Starts :
           rec = [rev |-> s.rev, status |-> "OPEN", lease |-> None, problem |-> s.problem,
                  attempts |-> [[p \in Problems |-> [t \in Strategies |-> 0]]
                                EXCEPT ![s.problem] = s.tried],
                  acceptance |-> NoAcceptance, verification |-> None, wait |-> FALSE,
                  successor |-> s.successor, request |-> "none", handoff |-> FALSE, consumed |-> {}]
    /\ view = [e \in Evaluators |-> Idle]
    /\ exec = [x \in Revs |-> [state |-> "none", role |-> None, head |-> None]]
    /\ head = 1 /\ paused = FALSE /\ trouble = "none" /\ reset = FALSE /\ blind = {}

-----------------------------------------------------------------------------
(* Evidence *)

\* A probe finds the processes of a role, whatever execution they belong to; the broker
\* reports on one execution.  Either may be missing from a snapshot.
ProbeRow(role) ==
    LET mine == {x \in Revs : exec[x].role = role}
    IN  IF mine = {} THEN {}
        ELSE {[source |-> "process_probe",
               verdict |-> IF \E x \in mine : exec[x].state = "running" THEN "LIVE" ELSE "DEAD"]}

BrokerRow(x) ==
    CASE exec[x].state = "none" -> {}
      [] exec[x].state = "running" -> {[source |-> "broker_effect", verdict |-> "LIVE"]}
      [] exec[x].state = "succeeded" -> {[source |-> "broker_effect", verdict |-> "TERMINAL_SUCCESS"]}
      [] exec[x].state = "failed" -> {[source |-> "broker_effect", verdict |-> "TERMINAL_FAILURE"]}

LeaseRows == IF rec.lease = None THEN {}
             ELSE ProbeRow(rec.lease.role) \cup BrokerRow(rec.lease.exec)

\* The snapshots that may be gathered now, with the rows about the record's lease.
Gathered ==
    {[paused |-> paused, trouble |-> trouble,
      head |-> IF trouble = "no_head" THEN None ELSE head, rows |-> r] : r \in SUBSET LeaseRows}

Verdicts(ev) == {row.verdict : row \in ev.rows}

\* Rows that contradict a live one make the lease ambiguous.
Resolved(verdicts, missing) ==
    IF verdicts = {} THEN missing
    ELSE IF "LIVE" \in verdicts THEN IF verdicts = {"LIVE"} THEN "live" ELSE "ambiguous"
    ELSE IF "TERMINAL_SUCCESS" \in verdicts THEN "succeeded" ELSE "dead"

\* Mutant: a lease without evidence counts as dead.
MissingIsDead(ev) == Resolved(Verdicts(ev), "dead")

resolve_lease_liveness(ev) == Resolved(Verdicts(ev), "none")

-----------------------------------------------------------------------------
(* decide() *)

\* An override with a waived safety obligation is not valid.
is_goal_satisfied(r, ev) ==
    /\ ev.trouble # "conflict"
    /\ r.lease = None
    /\ \/ r.acceptance.kind = "OWNER_OVERRIDE" /\ r.acceptance.valid
       \/ /\ r.acceptance.kind = "VERIFIED"
          /\ r.verification # None /\ r.verification.passed
          /\ ev.head # None
          /\ r.acceptance.head = ev.head /\ r.verification.head = ev.head

\* The attempts of a problem; a decision that names one retries it.
Total(r, p) == LET n == r.attempts[p]
               IN  n["resource_retry"] + n["strategy_change"] + n["capability_escalation"]
                   + n["output_repair"] + n["environment_rewrite"]

\* Mutant: the attempt that is about to start is not counted.
EscalatesOnceMore(n, first) ==
    IF first /\ n["strategy_change"] <= Budget.strategy THEN "RETRY_NEW_STRATEGY"
    ELSE IF n["capability_escalation"] <= Budget.escalation THEN "ESCALATE_CAPABILITY"
    ELSE "WRITE_HANDOFF"

\* A defect is retried with new strategies, then at a higher tier.
Escalates(n, first) ==
    IF first /\ n["strategy_change"] < Budget.strategy THEN "RETRY_NEW_STRATEGY"
    ELSE IF n["capability_escalation"] < Budget.escalation THEN "ESCALATE_CAPABILITY"
    ELSE "WRITE_HANDOFF"

\* The strategy for the current problem; a budget that is used up ends in a handoff.
ProblemDecision(r) ==
    LET n == r.attempts[r.problem]
        rewrites == n["environment_rewrite"] + n["strategy_change"]
    IN CASE r.problem \in {"RESOURCE_TRANSIENT", "PROVIDER_UNAVAILABLE"} ->
                IF QuotaKnown /\ ~reset THEN "WAIT_UNTIL"
                ELSE IF n["resource_retry"] < Budget.resource THEN "FAILOVER_RESOURCE"
                ELSE "WRITE_HANDOFF"
         [] r.problem = "OUTPUT_INVALID" ->
                IF n["output_repair"] < MaxRepairs THEN "RETRY_SAME_STRATEGY" ELSE "WRITE_HANDOFF"
         [] r.problem \in {"IMPLEMENTATION_DEFECT", "VERIFICATION_FAILURE", "CONTROL_PLANE_DEFECT"} ->
                Escalates(n, TRUE)
         [] r.problem = "REASONING_OR_STRATEGY_DEFECT" -> Escalates(n, FALSE)
         [] r.problem = "ENVIRONMENT_CONSTRAINT" ->
                IF rewrites < Budget.strategy /\ Total(r, r.problem) < Budget.total
                THEN "RETRY_SAME_STRATEGY" ELSE "WRITE_HANDOFF"
         [] OTHER -> "REQUEST_HUMAN"

\* A lease that is not demonstrably dead settles the decision; a dead one does when
\* neither a request nor a problem says what to do.
LeaseDecision(r, ev) ==
    IF r.lease = None THEN None
    ELSE CASE resolve_lease_liveness(ev) \in {"ambiguous", "none"} -> "REQUEST_HUMAN"
           [] resolve_lease_liveness(ev) = "live" -> "NOOP_ACTIVE"
           [] resolve_lease_liveness(ev) = "succeeded" -> "VERIFY"
           [] OTHER -> IF r.request = "none" /\ r.problem = None THEN "REQUEST_HUMAN" ELSE None

DoneDecision(r, ev) ==
    IF r.successor # "PENDING" THEN "NOOP_ACTIVE"
    ELSE IF is_goal_satisfied(r, ev) THEN "PUBLISH_SUCCESSOR" ELSE "REQUEST_HUMAN"

OpenDecision(r, ev) ==
    CASE r.request = "answered" -> "EXECUTE"
      [] r.request = "open" -> "REQUEST_HUMAN"
      [] r.request = "none" /\ r.status = "NEEDS_HUMAN" ->
             IF r.handoff THEN "NOOP_ACTIVE" ELSE "WRITE_HANDOFF"
      [] r.request = "none" /\ r.status # "NEEDS_HUMAN" /\ r.wait /\ ~reset -> "WAIT_UNTIL"
      [] OTHER ->
             IF is_goal_satisfied(r, ev)
             THEN IF r.successor = "PENDING" THEN "PUBLISH_SUCCESSOR" ELSE "SATISFY_GOAL"
             ELSE IF r.problem # None THEN ProblemDecision(r)
             ELSE IF \E p \in Problems, s \in Strategies : r.attempts[p][s] > 0 THEN "VERIFY"
             ELSE "EXECUTE"

decide(r, ev) ==
    IF ev.paused THEN "WAIT_UNTIL"
    ELSE IF ev.trouble \in {"conflict", "missing"} THEN "REQUEST_HUMAN"
    ELSE IF r.status = "DONE" THEN DoneDecision(r, ev)
    ELSE IF LeaseDecision(r, ev) # None THEN LeaseDecision(r, ev)
    ELSE OpenDecision(r, ev)

\* A handoff's key names only the problem, a publication's only the successor; the
\* others name the record.
make_decision(r, ev) ==
    LET kind == decide(r, ev)
        named == kind \in Recovery \ {"EXECUTE"} \/ (kind = "WRITE_HANDOFF" /\ r.status = "OPEN")
    IN  [key |-> [kind |-> kind, problem |-> IF named THEN r.problem ELSE None,
                  rev |-> IF kind \in {"WRITE_HANDOFF", "PUBLISH_SUCCESSOR"} THEN 0 ELSE r.rev],
         role |-> IF kind # "VERIFY" THEN "worker"
                  ELSE IF r.lease # None THEN r.lease.role ELSE "reviewer",
         rev |-> r.rev, head |-> ev.head]

-----------------------------------------------------------------------------
(* ActuatorGuard *)

\* The guard is seeded from the record at every validation, and the record holds every key
\* that was carried out, so a guard that lived through it knows no more than a fresh one.
seed_from_work_record(r) == r.consumed

\* Mutant: only recovery may replace a lease that ended.
RecoveryAdmits(kind, ev) ==
    resolve_lease_liveness(ev) \in {"dead", "succeeded"} /\ kind \in Recovery

LeaseAdmits(kind, ev) ==
    \/ resolve_lease_liveness(ev) \in {"dead", "succeeded"} /\ kind \in Recovery
    \/ resolve_lease_liveness(ev) = "succeeded" /\ kind = "VERIFY"

\* Mutant: the anchor is required and not compared.
AnchorKnown(d, ev) == d.key.kind \in Anchored => ev.head # None

AnchorHolds(d, ev) == d.key.kind \in Anchored => ev.head # None /\ d.head = ev.head

\* validate(), with the revision and the head the decision was taken on as expectations.
Accepts(d, r, ev) ==
    /\ ev.paused => d.key.kind \in {"NOOP_ACTIVE", "WAIT_UNTIL"}
    /\ r.rev = d.rev
    /\ d.key \notin seed_from_work_record(r)
    /\ d.key.kind = "PUBLISH_SUCCESSOR" => r.acceptance.kind # "NONE"
    /\ AnchorHolds(d, ev)
    /\ d.key.kind \in Launching /\ r.lease # None => LeaseAdmits(d.key.kind, ev)

-----------------------------------------------------------------------------
(* The work record *)

\* apply_work_record_cas: every change of the record takes the next revision.
Apply(updates) ==
    /\ rec.rev < MaxRev
    /\ rec' = [updates EXCEPT !.rev = rec.rev + 1]

StrategyOf(kind) ==
    CASE kind = "FAILOVER_RESOURCE" -> "resource_retry"
      [] kind = "RETRY_NEW_STRATEGY" -> "strategy_change"
      [] kind = "ESCALATE_CAPABILITY" -> "capability_escalation"
      [] kind = "RETRY_SAME_STRATEGY" ->
             IF rec.problem = "OUTPUT_INVALID" THEN "output_repair" ELSE "environment_rewrite"
      [] kind = "VERIFY" -> "verification"
      [] OTHER -> "initial"

Granted(d) == [exec |-> rec.rev, role |-> d.role, strategy |-> StrategyOf(d.key.kind),
               problem |-> d.key.problem]

\* The transition of an admitted decision.
model_durable_decision_transition(d) ==
    LET kind == d.key.kind
        r == [rec EXCEPT !.consumed = @ \cup {d.key}]
    IN CASE kind \in Launching -> [r EXCEPT !.lease = Granted(d)]
         [] kind = "PUBLISH_SUCCESSOR" ->
                [r EXCEPT !.successor = "PUBLISHED", !.status = "DONE", !.lease = None]
         [] kind = "SATISFY_GOAL" -> [r EXCEPT !.status = "DONE", !.lease = None]
         [] kind = "WRITE_HANDOFF" -> [r EXCEPT !.status = "NEEDS_HUMAN", !.handoff = TRUE]

-----------------------------------------------------------------------------
(* The loop *)

\* Nothing is left to do when the decision is to wait, or to ask what is already asked.
Judge(e) ==
    /\ view[e] = Idle
    /\ \E ev \in Gathered :
           /\ decide(rec, ev) \notin {"NOOP_ACTIVE", "WAIT_UNTIL"}
           /\ decide(rec, ev) = "REQUEST_HUMAN" => rec.request = "none"
           /\ view' = [view EXCEPT ![e] = [pc |-> "judged", decision |-> make_decision(rec, ev)]]
    /\ UNCHANGED <<rec, exec, world, blind>>

Refuse(e) ==
    /\ view[e].pc = "judged"
    /\ \E ev \in Gathered : ~Accepts(view[e].decision, rec, ev)
    /\ view' = [view EXCEPT ![e] = Idle]
    /\ UNCHANGED <<rec, exec, world, blind>>

\* An admitted decision to ask puts the question in the record, unless one is there.
Ask(e) ==
    /\ view[e].pc = "judged" /\ view[e].decision.key.kind = "REQUEST_HUMAN"
    /\ rec.request = "none"
    /\ \E ev \in Gathered : Accepts(view[e].decision, rec, ev)
    /\ Apply([rec EXCEPT !.request = "open"])
    /\ view' = [view EXCEPT ![e] = Idle]
    /\ UNCHANGED <<exec, world, blind>>

Admit(e) ==
    /\ view[e].pc = "judged"
    /\ LET d == view[e].decision
       IN /\ d.key.kind \notin Passive
          /\ \E ev \in Gathered :
                /\ Accepts(d, rec, ev)
                /\ blind' = IF /\ d.key.kind \in Launching /\ rec.lease # None
                               /\ {row.source : row \in ev.rows} = {"process_probe"}
                            THEN blind \cup {rec.rev} ELSE blind
          /\ Apply(model_durable_decision_transition(d))
          /\ view' = [view EXCEPT ![e] = IF d.key.kind \in Launching
                                         THEN [pc |-> "launch", lease |-> Granted(d)] ELSE Idle]
    /\ UNCHANGED <<exec, world>>

Launched(l) == [state |-> "running", role |-> l.role, head |-> head]

Launch(e) ==
    /\ view[e].pc = "launch"
    /\ exec' = [exec EXCEPT ![view[e].lease.exec] = Launched(view[e].lease)]
    /\ view' = [view EXCEPT ![e] = Idle]
    /\ UNCHANGED <<rec, world, blind>>

\* The guard of the next incarnation knows what the record holds.
Crash(e) ==
    /\ view' = [view EXCEPT ![e] = Idle]
    /\ view' # view
    /\ UNCHANGED <<rec, exec, world, blind>>

-----------------------------------------------------------------------------
(* The callers of the package, the owner and the repository *)

Ends(x) ==
    /\ exec[x].state = "running"
    /\ \E s \in {"succeeded", "failed"} : exec' = [exec EXCEPT ![x].state = s]
    /\ UNCHANGED <<rec, view, world, blind>>

\* reconcile_lease clears the lease of an execution that ended; its caller books the
\* attempt, drops the answered request and names the problem.
Reconciled == [rec EXCEPT !.lease = None, !.attempts[rec.lease.problem][rec.lease.strategy] = @ + 1,
                          !.request = IF @ = "answered" THEN "none" ELSE @]

reconcile_lease ==
    /\ rec.lease # None
    /\ LET x == exec[rec.lease.exec]
       IN \/ x.state = "failed"
             /\ \E c \in Classes :
                   \E w \in IF c = "RESOURCE_TRANSIENT" THEN BOOLEAN ELSE {FALSE} :
                      Apply([Reconciled EXCEPT !.problem = c, !.wait = w])
          \/ x.state = "succeeded" /\ rec.lease.strategy # "verification"
             /\ Apply([Reconciled EXCEPT !.problem = None])
          \/ x.state = "succeeded" /\ rec.lease.strategy = "verification"
             /\ Apply([Reconciled EXCEPT !.problem = None,
                           !.verification = [head |-> x.head, passed |-> TRUE],
                           !.acceptance = [kind |-> "VERIFIED", head |-> x.head, valid |-> TRUE]])
          \/ x.state = "succeeded" /\ rec.lease.strategy = "verification"
             /\ \E c \in Classes \cap {"VERIFICATION_FAILURE"} :
                   Apply([Reconciled EXCEPT !.problem = c,
                              !.verification = [head |-> x.head, passed |-> FALSE]])
    /\ UNCHANGED <<view, exec, world, blind>>

\* The owner answers the question that is open, or overrides the acceptance.
answer_human_request ==
    /\ rec.request = "open"
    /\ Apply([rec EXCEPT !.request = "answered"])
    /\ UNCHANGED <<view, exec, world, blind>>

Override ==
    /\ rec.status # "DONE" /\ rec.acceptance.kind = "NONE"
    /\ \E v \in BOOLEAN :
           Apply([rec EXCEPT !.acceptance = [kind |-> "OWNER_OVERRIDE", head |-> None, valid |-> v]])
    /\ UNCHANGED <<view, exec, world, blind>>

propose_successor_publication ==
    /\ rec.successor = "none" /\ rec.acceptance.kind # "NONE"
    /\ Apply([rec EXCEPT !.successor = "PENDING"])
    /\ UNCHANGED <<view, exec, world, blind>>

\* One disturbance at a time; time passes only where something waits for it.
World ==
    /\ \/ head < MaxHead /\ head' = head + 1 /\ UNCHANGED <<paused, trouble, reset>>
       \/ trouble = "none" /\ paused' = ~paused /\ UNCHANGED <<head, trouble, reset>>
       \/ trouble' \in Troubles \ {trouble}
          /\ "none" \in {trouble, trouble'} /\ ~paused /\ UNCHANGED <<head, paused, reset>>
       \/ (rec.wait \/ rec.problem = "RESOURCE_TRANSIENT")
          /\ ~reset /\ reset' = TRUE /\ UNCHANGED <<head, paused, trouble>>
    /\ UNCHANGED <<rec, view, exec, blind>>

Next ==
    \/ \E e \in Evaluators : Judge(e) \/ Refuse(e) \/ Ask(e) \/ Admit(e) \/ Launch(e) \/ Crash(e)
    \/ \E x \in Revs : Ends(x)
    \/ reconcile_lease \/ answer_human_request \/ Override \/ propose_successor_publication
    \/ World

Spec == Init /\ [][Next]_vars

-----------------------------------------------------------------------------
(* Properties *)

\* A goal is closed and its successor published only for a head that was verified and
\* accepted and is still the head, or on a valid override; never while a lease is held
\* or the owner pauses.  The decision may be old: the record, the repository and the
\* owner may have moved between decide and validate.
Advances == \/ rec'.status = "DONE" /\ rec.status # "DONE"
            \/ rec'.successor = "PUBLISHED" /\ rec.successor # "PUBLISHED"
AdvancesOnEvidence ==
    [][Advances =>
          /\ ~paused /\ rec.lease = None
          /\ \/ rec.acceptance.kind = "OWNER_OVERRIDE" /\ rec.acceptance.valid
             \/ /\ rec.acceptance.kind = "VERIFIED" /\ rec.acceptance.head = head
                /\ rec.verification # None /\ rec.verification.passed
                /\ rec.verification.head = head]_vars

\* An execution starts beside one that still runs only after a lease was taken over on a
\* probe of the role alone: the broker's row of an execution is what keeps its owner single.
OverlapNeedsProbe ==
    \A x, y \in Revs : x < y /\ exec[x].state = "running" /\ exec[y].state = "running"
                       => \E z \in blind : x < z /\ z <= y

\* However a problem comes and goes, and whichever leases are taken over, its booked
\* attempts stay within the problem's budget, the BOUNDED_PROBLEM verdict of
\* evaluate_convergence_invariants.
BoundedProblem == \A p \in FailureClass : Total(rec, p) <= Budget.total

\* The guard admits what decide just decided: no decision on the record as it is can be
\* refused for ever for its lease, its anchor, its acceptance or its key.
EvaluatorAndGuardAgree ==
    \A ev \in Gathered : ev.head # None => Accepts(make_decision(rec, ev), rec, ev)

=============================================================================
