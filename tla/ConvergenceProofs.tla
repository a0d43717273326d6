--------------------------- MODULE ConvergenceProofs ---------------------------
(* For any evaluators, policies, evidence and bounds: what a decision was taken *)
(* on is still there when it is carried out, the evaluator and the guard agree, *)
(* executions overlap only after a takeover on a probe alone, and the attempts  *)
(* of a problem stay within the policy's budgets.                               *)
EXTENDS Convergence, TLAPS

(* The record *)

\* Every key that was carried out is of an earlier revision; a handoff leaves the status
\* OPEN for good, and a publication the successor PENDING.
RecordWell ==
    /\ \A k \in rec.consumed : k.rev < rec.rev
    /\ \A k \in rec.consumed : k.kind = "WRITE_HANDOFF" => rec.status # "OPEN"
    /\ \A k \in rec.consumed : k.kind = "PUBLISH_SUCCESSOR" => rec.successor = "PUBLISHED"
    /\ rec.status = "NEEDS_HUMAN" => rec.handoff

(* Decisions *)

Satisfied(h) ==
    /\ rec.lease = None
    /\ \/ rec.acceptance.kind = "OWNER_OVERRIDE" /\ rec.acceptance.valid
       \/ /\ rec.acceptance.kind = "VERIFIED" /\ rec.acceptance.head = h
          /\ rec.verification # None /\ rec.verification.passed /\ rec.verification.head = h

\* What the policy leaves for a problem's attempts with one strategy.
Counted == {"resource_retry", "strategy_change", "capability_escalation", "output_repair",
            "environment_rewrite"}
Defects == {"IMPLEMENTATION_DEFECT", "VERIFICATION_FAILURE", "CONTROL_PLANE_DEFECT"}
Cap(p, s) ==
    CASE s = "resource_retry" /\ p \in {"RESOURCE_TRANSIENT", "PROVIDER_UNAVAILABLE"} -> Budget.resource
      [] s = "strategy_change" /\ p \in Defects -> Budget.strategy
      [] s = "capability_escalation" /\ p \in Defects \cup {"REASONING_OR_STRATEGY_DEFECT"} -> Budget.escalation
      [] s = "output_repair" /\ p = "OUTPUT_INVALID" -> MaxRepairs
      [] s = "environment_rewrite" /\ p = "ENVIRONMENT_CONSTRAINT" -> Budget.total
      [] OTHER -> 0

\* A decision on the record as it is rests on what the record still says.
Rests(d) ==
    /\ d.key.kind \in {"SATISFY_GOAL", "PUBLISH_SUCCESSOR"} => Satisfied(d.head)
    /\ d.key.kind \in Recovery \ {"EXECUTE"} =>
         /\ d.key.problem = rec.problem /\ rec.problem \in FailureClass
         /\ rec.attempts[rec.problem][StrategyOf(d.key.kind)] < Cap(rec.problem, StrategyOf(d.key.kind))
    /\ d.key.kind \in {"EXECUTE", "VERIFY"} => d.key.problem = None
DecisionWell(d) ==
    /\ d.rev <= rec.rev
    /\ d.key.rev = IF d.key.kind \in {"WRITE_HANDOFF", "PUBLISH_SUCCESSOR"} THEN 0 ELSE d.rev
    /\ d.rev = rec.rev => Rests(d)
ViewWell == \A e \in Evaluators : view[e].pc = "judged" => DecisionWell(view[e].decision)

(* Executions *)

Pending(e, x) == view[e].pc = "launch" /\ view[e].lease.exec = x
Active(x) == exec[x].state = "running" \/ \E e \in Evaluators : Pending(e, x)
ExecWell ==
    /\ \A x \in Revs : exec[x].state # "none" => x < rec.rev /\ exec[x].head \in Heads
    /\ rec.lease # None => rec.lease.exec < rec.rev
    /\ \A e \in Evaluators : view[e].pc = "launch" =>
          view[e].lease.exec < rec.rev /\ exec[view[e].lease.exec].state = "none"
    /\ \A e, f \in Evaluators : e # f /\ view[e].pc = "launch" /\ view[f].pc = "launch" =>
          view[e].lease.exec # view[f].lease.exec

\* An execution that is under way has the lease, or lost it to a probe.
Overtaken ==
    \A x \in Revs : Active(x) =>
        \/ rec.lease # None /\ rec.lease.exec = x
        \/ \E z \in blind : x < z /\ z < rec.rev
Apart == \A x, y \in Revs : x < y /\ Active(x) /\ Active(y) => \E z \in blind : x < z /\ z <= y

IInv == TypeOK /\ RecordWell /\ ViewWell /\ ExecWell /\ Overtaken /\ Apart

(* Budgets *)

Underway(p, s) == IF rec.lease # None /\ rec.lease.problem = p /\ rec.lease.strategy = s THEN 1 ELSE 0
WithinBudget == \A p \in FailureClass, s \in Counted : rec.attempts[p][s] + Underway(p, s) <= Cap(p, s)

--------------------------------------------------------------------------------
(* What decide() may decide *)

LEMMA EscalatesKinds ==
  ASSUME NEW n, NEW first \in BOOLEAN
  PROVE  /\ Escalates(n, first) \in {"RETRY_NEW_STRATEGY", "ESCALATE_CAPABILITY", "WRITE_HANDOFF"}
         /\ Escalates(n, first) = "RETRY_NEW_STRATEGY" => first /\ n["strategy_change"] < Budget.strategy
         /\ Escalates(n, first) = "ESCALATE_CAPABILITY" => n["capability_escalation"] < Budget.escalation
BY DEF Escalates

LEMMA ProblemKinds ==
  ASSUME NEW r, r.problem \in FailureClass
  PROVE  ProblemDecision(r) \in (Recovery \ {"EXECUTE"}) \cup {"WAIT_UNTIL", "REQUEST_HUMAN", "WRITE_HANDOFF"}
<1> DEFINE n == r.attempts[r.problem]
<1>1. CASE r.problem \in {"RESOURCE_TRANSIENT", "PROVIDER_UNAVAILABLE"}
  BY <1>1 DEF ProblemDecision, Recovery
<1>2. CASE r.problem = "OUTPUT_INVALID"
  BY <1>2 DEF ProblemDecision, Recovery
<1>3. CASE r.problem \in Defects
  <2>1. ProblemDecision(r) = Escalates(n, TRUE)
    BY <1>3 DEF ProblemDecision, Defects
  <2> QED
    BY <2>1, EscalatesKinds DEF Recovery
<1>4. CASE r.problem = "REASONING_OR_STRATEGY_DEFECT"
  <2>1. ProblemDecision(r) = Escalates(n, FALSE)
    BY <1>4 DEF ProblemDecision
  <2> QED
    BY <2>1, EscalatesKinds DEF Recovery
<1>5. CASE r.problem = "ENVIRONMENT_CONSTRAINT"
  BY <1>5 DEF ProblemDecision, Recovery
<1>6. CASE r.problem \in {"AUTH_OR_PERMISSION", "INTEGRITY_OR_IDENTITY_AMBIGUITY",
                         "SAFETY_OR_IRREVERSIBLE_AUTHORIZATION"}
  BY <1>6 DEF ProblemDecision
<1> QED
  BY <1>1, <1>2, <1>3, <1>4, <1>5, <1>6 DEF FailureClass, Defects

\* A decision to retry leaves the policy something for the attempt it starts.
LEMMA ProblemBudgets ==
  ASSUME TypeOK, rec.problem \in FailureClass, NEW k \in Recovery \ {"EXECUTE"},
         k = ProblemDecision(rec)
  PROVE  rec.attempts[rec.problem][StrategyOf(k)] < Cap(rec.problem, StrategyOf(k))
<1> DEFINE n == rec.attempts[rec.problem]
<1>0. n \in [Strategies -> Nat] /\ Budget.total \in Nat
  BY ConvergenceAssumption DEF TypeOK, WorkRecord, Problems
<1> HIDE DEF n
<1>1. CASE rec.problem \in {"RESOURCE_TRANSIENT", "PROVIDER_UNAVAILABLE"}
  <2>1. k = "FAILOVER_RESOURCE" /\ n["resource_retry"] < Budget.resource
    BY <1>1 DEF ProblemDecision, Recovery, n
  <2> QED
    BY <1>1, <2>1 DEF StrategyOf, Cap, n
<1>2. CASE rec.problem = "OUTPUT_INVALID"
  <2>1. k = "RETRY_SAME_STRATEGY" /\ n["output_repair"] < MaxRepairs
    BY <1>2 DEF ProblemDecision, Recovery, n
  <2> QED
    BY <1>2, <2>1 DEF StrategyOf, Cap, n
<1>3. CASE rec.problem \in Defects
  <2>1. ProblemDecision(rec) = Escalates(n, TRUE)
    BY <1>3 DEF ProblemDecision, Defects, n
  <2>2. CASE k = "RETRY_NEW_STRATEGY"
    <3>1. n["strategy_change"] < Budget.strategy
      BY <2>1, <2>2, EscalatesKinds
    <3> QED
      BY <1>3, <2>2, <3>1 DEF StrategyOf, Cap, n
  <2>3. CASE k = "ESCALATE_CAPABILITY"
    <3>1. n["capability_escalation"] < Budget.escalation
      BY <2>1, <2>3, EscalatesKinds
    <3> QED
      BY <1>3, <2>3, <3>1 DEF StrategyOf, Cap, n
  <2> QED
    BY <2>1, <2>2, <2>3, EscalatesKinds DEF Recovery
<1>4. CASE rec.problem = "REASONING_OR_STRATEGY_DEFECT"
  <2>1. ProblemDecision(rec) = Escalates(n, FALSE)
    BY <1>4 DEF ProblemDecision, n
  <2>2. k = "ESCALATE_CAPABILITY" /\ n["capability_escalation"] < Budget.escalation
    BY <2>1, EscalatesKinds DEF Recovery
  <2> QED
    BY <1>4, <2>2 DEF StrategyOf, Cap, n
<1>5. CASE rec.problem = "ENVIRONMENT_CONSTRAINT"
  <2>1. k = "RETRY_SAME_STRATEGY" /\ Total(rec, rec.problem) < Budget.total
    BY <1>5 DEF ProblemDecision, Recovery
  <2>2. n["environment_rewrite"] <= Total(rec, rec.problem)
    <3>1. \A s \in Strategies : n[s] \in Nat
      BY <1>0
    <3>2. Total(rec, rec.problem) = n["resource_retry"] + n["strategy_change"] + n["capability_escalation"]
                                    + n["output_repair"] + n["environment_rewrite"]
      BY DEF Total, n
    <3> QED
      BY <3>1, <3>2 DEF Strategies
  <2>3. n["environment_rewrite"] < Budget.total
    <3>1. \A s \in Strategies : n[s] \in Nat
      BY <1>0
    <3>2. Total(rec, rec.problem) \in Nat
      BY <3>1 DEF Total, n, Strategies
    <3> QED
      BY <1>0, <2>1, <2>2, <3>1, <3>2 DEF Strategies
  <2>4. StrategyOf(k) = "environment_rewrite" /\ Cap(rec.problem, "environment_rewrite") = Budget.total
    BY <1>5, <2>1 DEF StrategyOf, Cap
  <2> QED
    BY <2>3, <2>4 DEF n
<1>6. CASE rec.problem \in {"AUTH_OR_PERMISSION", "INTEGRITY_OR_IDENTITY_AMBIGUITY",
                            "SAFETY_OR_IRREVERSIBLE_AUTHORIZATION"}
  BY <1>6 DEF ProblemDecision, Recovery
<1> QED
  BY <1>1, <1>2, <1>3, <1>4, <1>5, <1>6 DEF FailureClass, Defects

LEMMA Resolutions ==
  ASSUME NEW ev
  PROVE  resolve_lease_liveness(ev) \in {"none", "live", "ambiguous", "succeeded", "dead"}
BY DEF resolve_lease_liveness, Resolved

\* A lease stands in the way of all decisions but those the guard would let replace it.
LEMMA LeaseKinds ==
  ASSUME NEW r, NEW ev, r.lease # None
  PROVE  /\ LeaseDecision(r, ev) \in {"REQUEST_HUMAN", "NOOP_ACTIVE", "VERIFY", None}
         /\ LeaseDecision(r, ev) = "VERIFY" => resolve_lease_liveness(ev) = "succeeded"
         /\ LeaseDecision(r, ev) = None => /\ resolve_lease_liveness(ev) = "dead"
                                           /\ r.request # "none" \/ r.problem # None
BY Resolutions, NoneAssumption DEF LeaseDecision, DecisionKind, Launching, Passive

LEMMA DoneKinds ==
  ASSUME NEW r, NEW ev
  PROVE  /\ DoneDecision(r, ev) \in {"NOOP_ACTIVE", "PUBLISH_SUCCESSOR", "REQUEST_HUMAN"}
         /\ DoneDecision(r, ev) = "PUBLISH_SUCCESSOR" => is_goal_satisfied(r, ev) /\ r.successor = "PENDING"
BY DEF DoneDecision

LEMMA OpenKinds ==
  ASSUME NEW r \in WorkRecord, NEW ev, r.status # "DONE"
  PROVE  LET k == OpenDecision(r, ev) IN
         /\ k \in DecisionKind
         /\ k \in {"SATISFY_GOAL", "PUBLISH_SUCCESSOR"} => is_goal_satisfied(r, ev)
         /\ k = "PUBLISH_SUCCESSOR" => r.successor = "PENDING"
         /\ k = "WRITE_HANDOFF" => r.status = "OPEN" \/ (r.status = "NEEDS_HUMAN" /\ ~r.handoff)
         /\ k \in Recovery \ {"EXECUTE"} => r.problem \in FailureClass /\ k = ProblemDecision(r)
         /\ k = "VERIFY" => r.request = "none" /\ r.problem = None
<1>1. /\ r.request \in {"none", "open", "answered"} /\ r.status \in {"OPEN", "NEEDS_HUMAN"}
      /\ r.problem \in FailureClass \cup {None} /\ r.handoff \in BOOLEAN
  BY DEF WorkRecord, Problems
<1>2. CASE r.request # "none"
  BY <1>1, <1>2 DEF OpenDecision, DecisionKind, Launching, Passive, Recovery
<1>3. CASE r.request = "none" /\ r.status = "NEEDS_HUMAN"
  BY <1>1, <1>3 DEF OpenDecision, DecisionKind, Launching, Passive, Recovery
<1>4. CASE r.request = "none" /\ r.status = "OPEN" /\ r.wait /\ ~reset
  BY <1>1, <1>4 DEF OpenDecision, DecisionKind, Launching, Passive, Recovery
<1>5. CASE r.request = "none" /\ r.status = "OPEN" /\ ~(r.wait /\ ~reset)
  <2>1. OpenDecision(r, ev) =
             IF is_goal_satisfied(r, ev)
             THEN IF r.successor = "PENDING" THEN "PUBLISH_SUCCESSOR" ELSE "SATISFY_GOAL"
             ELSE IF r.problem # None THEN ProblemDecision(r)
             ELSE IF \E p \in Problems, s \in Strategies : r.attempts[p][s] > 0 THEN "VERIFY"
             ELSE "EXECUTE"
    BY <1>1, <1>5 DEF OpenDecision
  <2>2. CASE ~is_goal_satisfied(r, ev) /\ r.problem # None
    <3>1. ProblemDecision(r) \in (Recovery \ {"EXECUTE"}) \cup {"WAIT_UNTIL", "REQUEST_HUMAN", "WRITE_HANDOFF"}
      BY <1>1, <2>2, ProblemKinds
    <3> QED
      BY <1>1, <1>5, <2>1, <2>2, <3>1 DEF DecisionKind, Launching, Passive, Recovery
  <2>3. CASE is_goal_satisfied(r, ev) \/ r.problem = None
    BY <1>1, <1>5, <2>1, <2>3 DEF DecisionKind, Launching, Passive, Recovery
  <2> QED
    BY <2>2, <2>3
<1> QED
  BY <1>1, <1>2, <1>3, <1>4, <1>5

LEMMA Decides ==
  ASSUME NEW r \in WorkRecord, NEW ev
  PROVE  LET k == decide(r, ev) IN
         /\ k \in DecisionKind
         /\ ev.paused => k = "WAIT_UNTIL"
         /\ k \in {"SATISFY_GOAL", "PUBLISH_SUCCESSOR"} => is_goal_satisfied(r, ev)
         /\ k = "PUBLISH_SUCCESSOR" => r.successor = "PENDING"
         /\ k = "WRITE_HANDOFF" => r.status = "OPEN" \/ (r.status = "NEEDS_HUMAN" /\ ~r.handoff)
         /\ k \in Recovery \ {"EXECUTE"} => r.problem \in FailureClass /\ k = ProblemDecision(r)
         /\ k \in Launching /\ r.lease # None => LeaseAdmits(k, ev)
<1> DEFINE k == decide(r, ev)
<1>1. CASE ev.paused \/ ev.trouble \in {"conflict", "missing"}
  BY <1>1 DEF decide, DecisionKind, Launching, Passive, Recovery
<1>2. CASE ~(ev.paused \/ ev.trouble \in {"conflict", "missing"}) /\ r.status = "DONE"
  <2>1. k = DoneDecision(r, ev)
    BY <1>2 DEF decide
  <2> QED
    BY <1>2, <2>1, DoneKinds DEF DecisionKind, Launching, Passive, Recovery
<1>3. CASE ~(ev.paused \/ ev.trouble \in {"conflict", "missing"}) /\ r.status # "DONE"
  <2>1. k = IF LeaseDecision(r, ev) # None THEN LeaseDecision(r, ev) ELSE OpenDecision(r, ev)
    BY <1>3 DEF decide
  <2>2. CASE LeaseDecision(r, ev) # None
    <3>1. r.lease # None
      BY <2>2 DEF LeaseDecision
    <3> QED
      BY <1>3, <2>1, <2>2, <3>1, LeaseKinds DEF DecisionKind, Launching, Passive, Recovery, LeaseAdmits
  <2>3. CASE LeaseDecision(r, ev) = None
    <3>1. k = OpenDecision(r, ev)
      BY <2>1, <2>3
    <3>2. k \in Launching /\ r.lease # None => LeaseAdmits(k, ev)
      BY <1>3, <2>3, <3>1, LeaseKinds, OpenKinds DEF LeaseAdmits, Launching
    <3> QED
      BY <1>3, <3>1, <3>2, OpenKinds
  <2> QED
    BY <2>2, <2>3
<1> QED
  BY <1>1, <1>2, <1>3

LEMMA Snapshots ==
  ASSUME TypeOK, NEW ev \in Gathered
  PROVE  ev.paused = paused /\ ev.head \in {head, None} /\ ev.rows \subseteq LeaseRows
BY DEF Gathered

\* A decision rests on the record it is taken on.
LEMMA DecidesWell ==
  ASSUME TypeOK, NEW ev \in Gathered
  PROVE  make_decision(rec, ev) \in Decision /\ DecisionWell(make_decision(rec, ev))
<1> DEFINE kind == decide(rec, ev)
           d == make_decision(rec, ev)
           named == kind \in Recovery \ {"EXECUTE"} \/ (kind = "WRITE_HANDOFF" /\ rec.status = "OPEN")
           unversioned == {"WRITE_HANDOFF", "PUBLISH_SUCCESSOR"}
<1>1. /\ d.key = [kind |-> kind, problem |-> IF named THEN rec.problem ELSE None,
                  rev |-> IF kind \in unversioned THEN 0 ELSE rec.rev]
      /\ d.role = IF kind # "VERIFY" THEN "worker"
                  ELSE IF rec.lease # None THEN rec.lease.role ELSE "reviewer"
      /\ d.rev = rec.rev /\ d.head = ev.head
      /\ d = [key |-> d.key, role |-> d.role, rev |-> d.rev, head |-> d.head]
  BY DEF make_decision
<1>2. rec \in WorkRecord /\ head \in Heads /\ rec.rev \in Nat
  BY DEF TypeOK, WorkRecord, Revs
<1>3. /\ rec.rev \in Revs /\ rec.problem \in Problems /\ None \in Problems
      /\ rec.lease # None => rec.lease.role \in Roles
  BY <1>2 DEF WorkRecord, Problems, Lease
<1>4. /\ kind \in DecisionKind
      /\ kind \in {"SATISFY_GOAL", "PUBLISH_SUCCESSOR"} => is_goal_satisfied(rec, ev)
      /\ kind \in Recovery \ {"EXECUTE"} => rec.problem \in FailureClass /\ kind = ProblemDecision(rec)
  BY <1>2, Decides
<1>5. ev.head \in Heads \cup {None}
  BY <1>2, Snapshots
<1> HIDE DEF d
<1>6. d \in Decision
  <2>1. d.key \in Key
    BY <1>1, <1>2, <1>3, <1>4 DEF Key
  <2>2. d.role \in Roles
    BY <1>1, <1>3 DEF Roles
  <2> QED
    BY <1>1, <1>3, <1>5, <2>1, <2>2 DEF Decision
<1>7. Rests(d)
  <2> HIDE DEF kind
  <2>1. d.key.kind \in {"SATISFY_GOAL", "PUBLISH_SUCCESSOR"} => Satisfied(d.head)
    BY <1>1, <1>4 DEF is_goal_satisfied, Satisfied
  <2>2. ASSUME d.key.kind \in Recovery \ {"EXECUTE"}
        PROVE  /\ d.key.problem = rec.problem /\ rec.problem \in FailureClass
               /\ rec.attempts[rec.problem][StrategyOf(d.key.kind)]
                    < Cap(rec.problem, StrategyOf(d.key.kind))
    BY <1>1, <1>4, <2>2, ProblemBudgets
  <2>3. d.key.kind \in {"EXECUTE", "VERIFY"} => d.key.problem = None
    BY <1>1 DEF Recovery
  <2> QED
    BY <2>1, <2>2, <2>3 DEF Rests
<1>8. d.key.rev = IF d.key.kind \in unversioned THEN 0 ELSE d.rev
  BY <1>1
<1> QED
  BY <1>1, <1>2, <1>6, <1>7, <1>8 DEF DecisionWell, d

\* The guard accepts what decide() decides.
LEMMA GuardAgrees ==
  ASSUME TypeOK, RecordWell, NEW ev \in Gathered, ev.head # None
  PROVE  Accepts(make_decision(rec, ev), rec, ev)
<1> DEFINE kind == decide(rec, ev)
           d == make_decision(rec, ev)
<1>1. d.key.kind = kind /\ d.rev = rec.rev /\ d.head = ev.head
  BY DEF make_decision
<1>2. d.key.rev = IF d.key.kind \in {"WRITE_HANDOFF", "PUBLISH_SUCCESSOR"} THEN 0 ELSE rec.rev
  BY DecidesWell, <1>1 DEF DecisionWell
<1>3. rec \in WorkRecord /\ rec.rev \in Nat /\ rec.successor \in {"none", "PENDING", "PUBLISHED"}
  BY DEF TypeOK, WorkRecord, Revs
<1>4. /\ ev.paused => kind = "WAIT_UNTIL"
      /\ kind = "PUBLISH_SUCCESSOR" => is_goal_satisfied(rec, ev) /\ rec.successor = "PENDING"
      /\ kind = "WRITE_HANDOFF" => rec.status = "OPEN" \/ (rec.status = "NEEDS_HUMAN" /\ ~rec.handoff)
      /\ kind \in Launching /\ rec.lease # None => LeaseAdmits(kind, ev)
  BY <1>3, Decides
<1> HIDE DEF d, kind
<1>5. d.key \notin rec.consumed
  <2>1. CASE kind = "WRITE_HANDOFF"
    BY <1>1, <1>4, <2>1 DEF RecordWell
  <2>2. CASE kind = "PUBLISH_SUCCESSOR"
    BY <1>1, <1>4, <2>2 DEF RecordWell
  <2>3. CASE kind \notin {"WRITE_HANDOFF", "PUBLISH_SUCCESSOR"}
    BY <1>1, <1>2, <1>3, <2>3 DEF RecordWell
  <2> QED
    BY <2>1, <2>2, <2>3
<1>6. kind = "PUBLISH_SUCCESSOR" => rec.acceptance.kind # "NONE"
  BY <1>4 DEF is_goal_satisfied
<1> QED
  BY <1>1, <1>4, <1>5, <1>6 DEF Accepts, AnchorHolds, seed_from_work_record, d

--------------------------------------------------------------------------------
(* The first state *)

LEMMA Begins == Init => IInv
<1> SUFFICES ASSUME Init PROVE IInv
  OBVIOUS
<1>1. PICK s \in Starts :
           rec = [rev |-> s.rev, status |-> "OPEN", lease |-> None, problem |-> s.problem,
                  attempts |-> [[p \in Problems |-> [t \in Strategies |-> 0]]
                                EXCEPT ![s.problem] = s.tried],
                  acceptance |-> NoAcceptance, verification |-> None, wait |-> FALSE,
                  successor |-> s.successor, request |-> "none", handoff |-> FALSE, consumed |-> {}]
  BY DEF Init
<1>2. s \in [rev : Revs, problem : FailureClass \cup {None},
             tried : [Strategies -> Nat], successor : {"none", "PENDING"}]
  BY ConvergenceAssumption
<1>3. s.rev \in Revs /\ s.problem \in Problems /\ s.tried \in [Strategies -> Nat]
      /\ s.successor \in {"none", "PENDING"}
  BY <1>2 DEF Problems
<1> DEFINE a == [[p \in Problems |-> [t \in Strategies |-> 0]] EXCEPT ![s.problem] = s.tried]
<1>4. a \in [Problems -> [Strategies -> Nat]]
  BY <1>3
<1>5. NoAcceptance \in Acceptance
  BY DEF NoAcceptance, Acceptance
<1>6. rec \in WorkRecord
  <2>1. rec = [rev |-> s.rev, status |-> "OPEN", lease |-> None, problem |-> s.problem,
               attempts |-> a, acceptance |-> NoAcceptance, verification |-> None,
               wait |-> FALSE, successor |-> s.successor, request |-> "none",
               handoff |-> FALSE, consumed |-> {}]
    BY <1>1
  <2> HIDE DEF a
  <2> QED
    BY <1>3, <1>4, <1>5, <2>1 DEF WorkRecord
<1>7. TypeOK
  <2>1. \A e \in Evaluators : Idle \in [pc : {"idle"}]
    BY DEF Idle
  <2>2. view \in [Evaluators -> [pc : {"idle"}] \cup [pc : {"judged"}, decision : Decision]
                                \cup [pc : {"launch"}, lease : Lease]]
    BY <2>1 DEF Init
  <2>3. exec \in [Revs -> [state : States, role : Roles \cup {None}, head : Heads \cup {None}]]
    BY DEF Init, States
  <2>4. head \in Heads /\ trouble \in Troubles /\ blind \subseteq Revs
    BY ConvergenceAssumption DEF Init, Heads
  <2> QED
    BY <1>6, <2>2, <2>3, <2>4 DEF TypeOK, Init
<1>8. RecordWell
  BY <1>1 DEF RecordWell
<1>9. \A e \in Evaluators : view[e].pc = "idle"
  BY DEF Init, Idle
<1>10. \A x \in Revs : exec[x].state = "none"
  BY DEF Init
<1>11. rec.lease = None
  BY <1>1
<1> QED
  BY <1>7, <1>8, <1>9, <1>10, <1>11 DEF IInv, ViewWell, ExecWell, Overtaken, Apart, Active, Pending

--------------------------------------------------------------------------------
(* Every step *)

LEMMA Views ==
  ASSUME TypeOK, NEW e \in Evaluators
  PROVE  /\ view[e] = Idle \/ view[e].pc \in {"judged", "launch"}
         /\ view[e].pc = "judged" => view[e].decision \in Decision
         /\ view[e].pc = "launch" => view[e].lease \in Lease
BY DEF TypeOK, Idle

\* An evaluator that leaves a launch to no one ends what was under way.
LEMMA ViewMoves ==
  ASSUME IInv, NEW e \in Evaluators, NEW v, view' = [view EXCEPT ![e] = v],
         v = Idle \/ (\E d \in Decision : v = [pc |-> "judged", decision |-> d] /\ DecisionWell(d)),
         UNCHANGED <<rec, exec, world, blind>>
  PROVE  IInv'
<1>1. TypeOK
  BY DEF IInv
<1>2. v \in [pc : {"idle"}] \cup [pc : {"judged"}, decision : Decision]
  BY DEF Idle
<1>3. TypeOK'
  BY <1>1, <1>2 DEF TypeOK, world
<1>4. /\ view'[e] = v /\ v.pc # "launch"
      /\ \A f \in Evaluators : f # e => view'[f] = view[f]
  BY <1>1 DEF TypeOK, Idle
<1>5. RecordWell'
  BY DEF IInv, RecordWell
<1>6. ViewWell'
  <2> SUFFICES ASSUME NEW f \in Evaluators, view'[f].pc = "judged"
               PROVE  DecisionWell(view[f].decision)'
    BY DEF ViewWell
  <2>1. PICK d : view'[f].decision = d /\ DecisionWell(d)
    <3>1. CASE f = e
      BY <1>4, <3>1 DEF Idle
    <3>2. CASE f # e
      BY <1>4, <3>2 DEF IInv, ViewWell
    <3> QED
      BY <3>1, <3>2
  <2>2. rec' = rec
    OBVIOUS
  <2>3. \A k : StrategyOf(k)' = StrategyOf(k)
    BY <2>2 DEF StrategyOf
  <2> QED
    BY <2>1, <2>2, <2>3 DEF DecisionWell, Rests, Satisfied
<1>7. \A x : Active(x)' => Active(x)
  BY <1>4 DEF Active, Pending
<1>8. ExecWell'
  BY <1>4 DEF IInv, ExecWell
<1>9. Overtaken' /\ Apart'
  BY <1>7 DEF IInv, Overtaken, Apart
<1> QED
  BY <1>3, <1>5, <1>6, <1>8, <1>9 DEF IInv

LEMMA Judges ==
  ASSUME IInv, NEW e \in Evaluators, Judge(e)
  PROVE  IInv'
<1>1. PICK ev \in Gathered :
        view' = [view EXCEPT ![e] = [pc |-> "judged", decision |-> make_decision(rec, ev)]]
  BY DEF Judge
<1>2. make_decision(rec, ev) \in Decision /\ DecisionWell(make_decision(rec, ev))
  BY DecidesWell DEF IInv
<1> QED
  BY <1>1, <1>2, ViewMoves DEF Judge

LEMMA Refuses ==
  ASSUME IInv, NEW e \in Evaluators, Refuse(e) \/ Crash(e)
  PROVE  IInv'
BY ViewMoves DEF Refuse, Crash

\* A change of the record makes every decision old.
LEMMA RecordMoves ==
  ASSUME IInv, NEW u \in WorkRecord, Apply(u),
         u.consumed = rec.consumed, u.status = rec.status, u.handoff = rec.handoff,
         rec.successor = "PUBLISHED" => u.successor = "PUBLISHED",
         u.lease = rec.lease \/ (u.lease = None /\ rec.lease # None /\ ~Active(rec.lease.exec)),
         UNCHANGED <<exec, world, blind>>,
         view' \in [Evaluators -> [pc : {"idle"}] \cup [pc : {"judged"}, decision : Decision]
                                  \cup [pc : {"launch"}, lease : Lease]],
         \A f \in Evaluators : view'[f] = view[f] \/ view'[f] = Idle
  PROVE  IInv'
<1>1. TypeOK /\ rec \in WorkRecord
  BY DEF IInv, TypeOK
<1>2. /\ rec' \in WorkRecord /\ rec'.rev = rec.rev + 1 /\ rec.rev \in Nat
      /\ rec'.lease = u.lease /\ rec'.consumed = u.consumed /\ rec'.status = u.status
      /\ rec'.handoff = u.handoff /\ rec'.successor = u.successor
  <2>1. rec.rev \in Nat /\ rec.rev + 1 \in Revs
    BY <1>1, ConvergenceAssumption DEF Apply, WorkRecord, Revs
  <2> DEFINE n == rec.rev + 1
  <2>2. rec' = [u EXCEPT !.rev = n]
    BY DEF Apply
  <2> HIDE DEF n
  <2>3. [u EXCEPT !.rev = n] \in WorkRecord
    BY <2>1 DEF WorkRecord, n
  <2>4. /\ rec'.rev = n /\ rec'.lease = u.lease /\ rec'.consumed = u.consumed
        /\ rec'.status = u.status /\ rec'.handoff = u.handoff /\ rec'.successor = u.successor
    BY <2>2 DEF WorkRecord
  <2> QED
    BY <2>1, <2>2, <2>3, <2>4 DEF n
<1>3. TypeOK'
  BY <1>1, <1>2 DEF TypeOK, world
<1>4. RecordWell'
  <2>1. \A k \in rec.consumed : k.rev \in Nat
    BY <1>1 DEF WorkRecord, Key
  <2> QED
    BY <1>2, <2>1 DEF IInv, RecordWell
<1>5. ViewWell'
  <2> SUFFICES ASSUME NEW f \in Evaluators, view'[f].pc = "judged"
               PROVE  DecisionWell(view[f].decision)'
    BY DEF ViewWell
  <2>1. view'[f] = view[f] /\ view[f].pc = "judged"
    BY DEF Idle
  <2>2. DecisionWell(view[f].decision) /\ view[f].decision.rev \in Nat
    BY <1>1, <2>1, Views DEF IInv, ViewWell, Decision, Revs
  <2> QED
    BY <1>2, <2>1, <2>2 DEF DecisionWell
<1>6. \A x : Active(x)' => Active(x)
  BY DEF Active, Pending, Idle
<1>7. ExecWell'
  <2>1. \A x \in Revs : exec'[x].state # "none" => x < rec'.rev /\ exec'[x].head \in Heads
    BY <1>2 DEF IInv, ExecWell, Revs
  <2>2. rec'.lease # None => rec'.lease.exec < rec'.rev
    <3>1. rec.lease # None => rec.lease.exec \in Nat
      BY <1>1 DEF WorkRecord, Lease, Revs
    <3> QED
      BY <1>2, <3>1 DEF IInv, ExecWell
  <2>3. \A f \in Evaluators : view'[f].pc = "launch" =>
          /\ view'[f] = view[f] /\ view[f].lease.exec \in Nat
          /\ view'[f].lease.exec < rec'.rev /\ exec'[view'[f].lease.exec].state = "none"
    <3> SUFFICES ASSUME NEW f \in Evaluators, view'[f].pc = "launch"
                 PROVE  /\ view'[f] = view[f] /\ view[f].lease.exec \in Nat
                        /\ view'[f].lease.exec < rec'.rev /\ exec'[view'[f].lease.exec].state = "none"
      OBVIOUS
    <3>1. view'[f] = view[f]
      BY DEF Idle
    <3>2. view[f].lease.exec \in Nat
      BY <1>1, <3>1, Views DEF Lease, Revs
    <3> QED
      BY <1>2, <3>1, <3>2 DEF IInv, ExecWell
  <2> QED
    BY <2>1, <2>2, <2>3 DEF IInv, ExecWell
<1>8. Overtaken'
  <2> SUFFICES ASSUME NEW x \in Revs, Active(x)'
               PROVE  \/ rec'.lease # None /\ rec'.lease.exec = x
                      \/ \E z \in blind : x < z /\ z < rec'.rev
    BY DEF Overtaken
  <2>1. Active(x) /\ (rec.lease # None /\ rec.lease.exec = x => u.lease = rec.lease)
    BY <1>6
  <2>2. \A z \in blind : z \in Nat
    BY <1>1 DEF TypeOK, Revs
  <2> QED
    BY <1>2, <2>1, <2>2 DEF IInv, Overtaken
<1>9. Apart'
  BY <1>6 DEF IInv, Apart
<1> QED
  BY <1>3, <1>4, <1>5, <1>7, <1>8, <1>9 DEF IInv

LEMMA Asks ==
  ASSUME IInv, NEW e \in Evaluators, Ask(e)
  PROVE  IInv'
<1> DEFINE u == [rec EXCEPT !.request = "open"]
<1>1. TypeOK
  BY DEF IInv
<1>2. /\ u \in WorkRecord
      /\ u.consumed = rec.consumed /\ u.status = rec.status /\ u.handoff = rec.handoff
      /\ u.successor = rec.successor /\ u.lease = rec.lease
  BY <1>1 DEF TypeOK, WorkRecord
<1>3. view' = [view EXCEPT ![e] = Idle] /\ Idle \in [pc : {"idle"}]
  BY DEF Ask, Idle
<1>4. view' \in [Evaluators -> [pc : {"idle"}] \cup [pc : {"judged"}, decision : Decision]
                               \cup [pc : {"launch"}, lease : Lease]]
  BY <1>1, <1>3 DEF TypeOK
<1>5. \A f \in Evaluators : view'[f] = view[f] \/ view'[f] = Idle
  BY <1>1, <1>3 DEF TypeOK
<1>6. Apply(u) /\ UNCHANGED <<exec, world, blind>>
  BY DEF Ask
<1> HIDE DEF u
<1> QED
  BY <1>2, <1>4, <1>5, <1>6, RecordMoves

\* The owner's writes, and a proposed successor.
LEMMA OwnerWrites ==
  ASSUME IInv, answer_human_request \/ Override \/ propose_successor_publication
  PROVE  IInv'
<1>1. TypeOK /\ rec \in WorkRecord
  BY DEF IInv, TypeOK
<1>2. PICK u : /\ Apply(u) /\ u \in WorkRecord
               /\ u.consumed = rec.consumed /\ u.status = rec.status /\ u.handoff = rec.handoff
               /\ u.successor \in {rec.successor, "PENDING"} /\ u.lease = rec.lease
               /\ rec.successor = "PUBLISHED" => u.successor = "PUBLISHED"
  <2>1. CASE answer_human_request
    BY <1>1, <2>1 DEF answer_human_request, WorkRecord
  <2>2. CASE Override
    <3>1. PICK v \in BOOLEAN :
            Apply([rec EXCEPT !.acceptance = [kind |-> "OWNER_OVERRIDE", head |-> None, valid |-> v]])
      BY <2>2 DEF Override
    <3> DEFINE u == [rec EXCEPT !.acceptance = [kind |-> "OWNER_OVERRIDE", head |-> None, valid |-> v]]
    <3>2. u \in WorkRecord
      BY <1>1 DEF WorkRecord, Acceptance
    <3>3. /\ u.consumed = rec.consumed /\ u.status = rec.status /\ u.handoff = rec.handoff
          /\ u.successor = rec.successor /\ u.lease = rec.lease
      BY <1>1 DEF WorkRecord
    <3> QED
      BY <3>1, <3>2, <3>3
  <2>3. CASE propose_successor_publication
    BY <1>1, <2>3 DEF propose_successor_publication, WorkRecord
  <2> QED
    BY <2>1, <2>2, <2>3
<1>3. UNCHANGED <<view, exec, world, blind>>
  BY DEF answer_human_request, Override, propose_successor_publication
<1> QED
  BY <1>1, <1>2, <1>3, RecordMoves DEF TypeOK

\* Booking an attempt touches only the attempts, and clears the lease.
LEMMA Books ==
  ASSUME TypeOK, rec.lease # None
  PROVE  /\ Reconciled \in WorkRecord
         /\ Reconciled.consumed = rec.consumed /\ Reconciled.status = rec.status
         /\ Reconciled.handoff = rec.handoff /\ Reconciled.successor = rec.successor
         /\ Reconciled.lease = None
         /\ Reconciled.attempts = [rec.attempts EXCEPT ![rec.lease.problem][rec.lease.strategy] = @ + 1]
<1> DEFINE p == rec.lease.problem
           t == rec.lease.strategy
           a == [rec.attempts EXCEPT ![p][t] = @ + 1]
           q == IF rec.request = "answered" THEN "none" ELSE rec.request
<1>1. rec \in WorkRecord /\ rec.lease \in Lease
  BY DEF TypeOK, WorkRecord
<1>2. p \in Problems /\ t \in Strategies /\ rec.attempts \in [Problems -> [Strategies -> Nat]]
  BY <1>1 DEF WorkRecord, Lease
<1>3. a \in [Problems -> [Strategies -> Nat]]
  BY <1>2
<1>4. q \in {"none", "open", "answered"}
  BY <1>1 DEF WorkRecord
<1>5. Reconciled = [rec EXCEPT !.lease = None, !.attempts = a, !.request = q]
  BY <1>1 DEF Reconciled, WorkRecord
<1> HIDE DEF a, q
<1>6. Reconciled \in WorkRecord
  BY <1>1, <1>3, <1>4, <1>5 DEF WorkRecord
<1>7. /\ Reconciled.consumed = rec.consumed /\ Reconciled.status = rec.status
      /\ Reconciled.handoff = rec.handoff /\ Reconciled.successor = rec.successor
      /\ Reconciled.lease = None /\ Reconciled.attempts = a
  BY <1>1, <1>5 DEF WorkRecord
<1> QED
  BY <1>6, <1>7 DEF a

\* Only the lease of an execution that ended is cleared.
LEMMA Reconciles ==
  ASSUME TypeOK, ExecWell, reconcile_lease
  PROVE  /\ rec.lease # None /\ ~Active(rec.lease.exec)
         /\ \E u \in WorkRecord :
              /\ Apply(u) /\ u.lease = None /\ u.attempts = Reconciled.attempts
              /\ u.consumed = rec.consumed /\ u.status = rec.status /\ u.handoff = rec.handoff
              /\ u.successor = rec.successor
<1> DEFINE x == exec[rec.lease.exec]
           Kept(u) == /\ u.lease = None /\ u.attempts = Reconciled.attempts
                      /\ u.consumed = rec.consumed /\ u.status = rec.status /\ u.handoff = rec.handoff
                      /\ u.successor = rec.successor
<1>1. rec.lease # None /\ x.state \in {"failed", "succeeded"}
  BY DEF reconcile_lease
<1>2. ~Active(rec.lease.exec)
  <2>1. ASSUME NEW e \in Evaluators, Pending(e, rec.lease.exec) PROVE FALSE
    BY <1>1, <2>1 DEF ExecWell, Pending
  <2> QED
    BY <1>1, <2>1 DEF Active
<1>3. rec.lease.exec \in Revs /\ x.head \in Heads
  <2>1. rec.lease.exec \in Revs
    BY <1>1 DEF TypeOK, WorkRecord, Lease
  <2> QED
    BY <1>1, <2>1 DEF ExecWell
<1>4. Reconciled \in WorkRecord /\ Kept(Reconciled) /\ Classes \subseteq FailureClass
  BY <1>1, Books, ConvergenceAssumption
<1>5. \E u \in WorkRecord : Apply(u) /\ Kept(u)
  <2>1. ASSUME NEW c \in Classes, NEW w \in BOOLEAN,
               Apply([Reconciled EXCEPT !.problem = c, !.wait = w])
        PROVE  \E u \in WorkRecord : Apply(u) /\ Kept(u)
    <3> DEFINE u == [Reconciled EXCEPT !.problem = c, !.wait = w]
    <3>1. u \in WorkRecord /\ Kept(u)
      BY <1>4 DEF WorkRecord, Problems
    <3> QED
      BY <2>1, <3>1
  <2>2. ASSUME Apply([Reconciled EXCEPT !.problem = None])
        PROVE  \E u \in WorkRecord : Apply(u) /\ Kept(u)
    <3> DEFINE u == [Reconciled EXCEPT !.problem = None]
    <3>1. u \in WorkRecord /\ Kept(u)
      BY <1>4 DEF WorkRecord, Problems
    <3> QED
      BY <2>2, <3>1
  <2>3. ASSUME Apply([Reconciled EXCEPT !.problem = None,
                         !.verification = [head |-> x.head, passed |-> TRUE],
                         !.acceptance = [kind |-> "VERIFIED", head |-> x.head, valid |-> TRUE]])
        PROVE  \E u \in WorkRecord : Apply(u) /\ Kept(u)
    <3> DEFINE v == [head |-> x.head, passed |-> TRUE]
               a == [kind |-> "VERIFIED", head |-> x.head, valid |-> TRUE]
               u == [Reconciled EXCEPT !.problem = None, !.verification = v, !.acceptance = a]
    <3>1. v \in Verification /\ a \in Acceptance /\ Apply(u)
      BY <1>3, <2>3 DEF Verification, Acceptance
    <3> HIDE DEF v, a
    <3>2. u \in WorkRecord /\ Kept(u)
      BY <1>4, <3>1 DEF WorkRecord, Problems
    <3> QED
      BY <3>1, <3>2
  <2>4. ASSUME NEW c \in Classes,
               Apply([Reconciled EXCEPT !.problem = c,
                         !.verification = [head |-> x.head, passed |-> FALSE]])
        PROVE  \E u \in WorkRecord : Apply(u) /\ Kept(u)
    <3> DEFINE v == [head |-> x.head, passed |-> FALSE]
               u == [Reconciled EXCEPT !.problem = c, !.verification = v]
    <3>1. v \in Verification /\ Apply(u)
      BY <1>3, <2>4 DEF Verification
    <3> HIDE DEF v
    <3>2. u \in WorkRecord /\ Kept(u)
      BY <1>4, <3>1 DEF WorkRecord, Problems
    <3> QED
      BY <3>1, <3>2
  <2> HIDE DEF Kept
  <2> QED
    BY <2>1, <2>2, <2>3, <2>4 DEF reconcile_lease
<1> QED
  BY <1>1, <1>2, <1>5

LEMMA LeaseEnds ==
  ASSUME IInv, reconcile_lease
  PROVE  IInv'
<1>1. TypeOK /\ ExecWell
  BY DEF IInv
<1>2. UNCHANGED <<view, exec, world, blind>>
  BY DEF reconcile_lease
<1>3. PICK u \in WorkRecord :
        /\ Apply(u) /\ u.lease = None
        /\ u.consumed = rec.consumed /\ u.status = rec.status /\ u.handoff = rec.handoff
        /\ u.successor = rec.successor
  BY <1>1, Reconciles
<1>4. rec.lease # None /\ ~Active(rec.lease.exec)
  BY <1>1, Reconciles
<1> QED
  BY <1>1, <1>2, <1>3, <1>4, RecordMoves DEF TypeOK

LEMMA DecisionsKept ==
  ASSUME ViewWell, UNCHANGED rec, \A f \in Evaluators : view'[f] = view[f] \/ view'[f] = Idle
  PROVE  ViewWell'
<1>1. \A k : StrategyOf(k)' = StrategyOf(k)
  BY DEF StrategyOf
<1> SUFFICES ASSUME NEW f \in Evaluators, view'[f].pc = "judged"
             PROVE  DecisionWell(view[f].decision)'
  BY DEF ViewWell
<1>2. PICK d : d = view[f].decision /\ DecisionWell(d) /\ view'[f].decision = d
  BY DEF ViewWell, Idle
<1> QED
  BY <1>1, <1>2 DEF DecisionWell, Rests, Satisfied

\* A step outside the record that starts no execution.
LEMMA OutsideMoves ==
  ASSUME IInv, UNCHANGED <<rec, blind>>, TypeOK', ExecWell',
         \A f \in Evaluators : view'[f] = view[f] \/ view'[f] = Idle,
         \A x \in Revs : Active(x)' => Active(x)
  PROVE  IInv'
<1>1. RecordWell'
  BY DEF IInv, RecordWell
<1>2. ViewWell'
  BY DecisionsKept DEF IInv
<1>3. Overtaken' /\ Apart'
  BY DEF IInv, Overtaken, Apart
<1> QED
  BY <1>1, <1>2, <1>3 DEF IInv

LEMMA WorldMoves ==
  ASSUME IInv, World
  PROVE  IInv'
<1>1. UNCHANGED <<rec, view, exec, blind>>
  BY DEF World
<1>2. TypeOK'
  <2>1. TypeOK
    BY DEF IInv
  <2>2. head' \in Heads
    <3>1. head \in Heads /\ (head' = head \/ (head < MaxHead /\ head' = head + 1))
      BY <2>1 DEF TypeOK, World
    <3> QED
      BY <3>1, ConvergenceAssumption DEF Heads
  <2>3. trouble' \in Troubles
    BY <2>1 DEF TypeOK, World
  <2>4. paused' \in BOOLEAN /\ reset' \in BOOLEAN
    BY <2>1, Zenon DEF TypeOK, World
  <2> QED
    BY <1>1, <2>1, <2>2, <2>3, <2>4 DEF TypeOK
<1>3. ExecWell' /\ \A x \in Revs : Active(x)' => Active(x)
  BY <1>1 DEF IInv, ExecWell, Active, Pending
<1> QED
  BY <1>1, <1>2, <1>3, OutsideMoves

LEMMA ExecutionEnds ==
  ASSUME IInv, NEW x \in Revs, Ends(x)
  PROVE  IInv'
<1>1. TypeOK /\ exec[x].state = "running" /\ UNCHANGED <<rec, view, world, blind>>
  BY DEF IInv, Ends
<1>2. PICK s \in {"succeeded", "failed"} : exec' = [exec EXCEPT ![x].state = s]
  BY DEF Ends
<1>3. /\ exec'[x].state = s /\ exec'[x].head = exec[x].head
      /\ \A y \in Revs : y # x => exec'[y] = exec[y]
  BY <1>1, <1>2 DEF TypeOK
<1>4. TypeOK'
  <2>1. exec' \in [Revs -> [state : States, role : Roles \cup {None}, head : Heads \cup {None}]]
    BY <1>1, <1>2 DEF TypeOK, States
  <2> QED
    BY <1>1, <2>1 DEF TypeOK, world
<1>5. \A y \in Revs : Active(y)' => Active(y)
  BY <1>1, <1>3 DEF Active, Pending
<1>6. ExecWell'
  <2>1. \A y \in Revs : exec'[y].state # "none" => y < rec'.rev /\ exec'[y].head \in Heads
    BY <1>1, <1>3 DEF IInv, ExecWell
  <2>2. \A f \in Evaluators : view[f].pc = "launch" =>
          view[f].lease.exec < rec.rev /\ exec'[view[f].lease.exec].state = "none"
    <3> SUFFICES ASSUME NEW f \in Evaluators, view[f].pc = "launch"
                 PROVE  view[f].lease.exec < rec.rev /\ exec'[view[f].lease.exec].state = "none"
      OBVIOUS
    <3>1. view[f].lease.exec \in Revs
      BY <1>1, Views DEF Lease
    <3> QED
      BY <1>1, <1>3, <3>1 DEF IInv, ExecWell
  <2> QED
    BY <1>1, <2>1, <2>2 DEF IInv, ExecWell
<1> QED
  BY <1>1, <1>4, <1>5, <1>6, OutsideMoves

LEMMA Launches ==
  ASSUME IInv, NEW e \in Evaluators, Launch(e)
  PROVE  IInv'
<1> DEFINE l == view[e].lease
           x == l.exec
<1>1. /\ TypeOK /\ ExecWell /\ view[e].pc = "launch" /\ UNCHANGED <<rec, world, blind>>
      /\ exec' = [exec EXCEPT ![x] = Launched(l)] /\ view' = [view EXCEPT ![e] = Idle]
  BY DEF IInv, Launch
<1>2. l \in Lease /\ x \in Revs /\ l.role \in Roles
  BY <1>1, Views DEF Lease
<1>3. Launched(l) \in [state : States, role : Roles \cup {None}, head : Heads \cup {None}]
  BY <1>1, <1>2 DEF Launched, States, TypeOK
<1>4. Launched(l).head \in Heads
  BY <1>1 DEF Launched, TypeOK
<1>5. exec'[x] = Launched(l) /\ \A y \in Revs : y # x => exec'[y] = exec[y]
  BY <1>1, <1>2 DEF TypeOK
<1>6. view'[e] = Idle /\ \A f \in Evaluators : f # e => view'[f] = view[f]
  BY <1>1 DEF TypeOK
<1>7. Pending(e, x) /\ x < rec.rev /\ \A f \in Evaluators \ {e} : view[f].pc = "launch" => view[f].lease.exec # x
  BY <1>1 DEF Pending, ExecWell
<1>8. TypeOK'
  <2>1. exec' \in [Revs -> [state : States, role : Roles \cup {None}, head : Heads \cup {None}]]
    BY <1>1, <1>2, <1>3 DEF TypeOK
  <2>2. Idle \in [pc : {"idle"}]
    BY DEF Idle
  <2>3. view' \in [Evaluators -> [pc : {"idle"}] \cup [pc : {"judged"}, decision : Decision]
                                 \cup [pc : {"launch"}, lease : Lease]]
    BY <1>1, <2>2 DEF TypeOK
  <2> QED
    BY <1>1, <2>1, <2>3 DEF TypeOK, world
<1> HIDE DEF x, l
<1>9. \A y \in Revs : Active(y)' => Active(y)
  <2> SUFFICES ASSUME NEW y \in Revs, Active(y)' PROVE Active(y)
    OBVIOUS
  <2>1. CASE y = x
    BY <1>7, <2>1 DEF Active
  <2>2. CASE y # x
    BY <1>5, <1>6, <2>2 DEF Active, Pending, Idle
  <2> QED
    BY <2>1, <2>2
<1>10. ExecWell'
  <2>1. \A y \in Revs : exec'[y].state # "none" => y < rec.rev /\ exec'[y].head \in Heads
    BY <1>1, <1>4, <1>5, <1>7 DEF ExecWell
  <2>2. \A f \in Evaluators : view'[f].pc = "launch" =>
          f # e /\ view'[f] = view[f] /\ view[f].lease.exec \in Revs \ {x}
    BY <1>1, <1>6, <1>7, Views DEF Idle, Lease
  <2>3. \A f \in Evaluators : view'[f].pc = "launch" =>
          view'[f].lease.exec < rec.rev /\ exec'[view'[f].lease.exec].state = "none"
    BY <1>1, <1>5, <2>2 DEF ExecWell
  <2> QED
    BY <1>1, <2>1, <2>2, <2>3 DEF ExecWell
<1> QED
  BY <1>1, <1>6, <1>8, <1>9, <1>10, OutsideMoves

\* A running execution has a live row at the broker, and a launch that is pending none:
\* the guard gives its lease away only to a snapshot that shows a probe and nothing else.
LEMMA Takeover ==
  ASSUME TypeOK, ExecWell, rec.lease # None, Active(rec.lease.exec),
         NEW ev \in Gathered, NEW kind, LeaseAdmits(kind, ev)
  PROVE  {row.source : row \in ev.rows} = {"process_probe"}
<1> DEFINE x == rec.lease.exec
<1>1. /\ x \in Revs
      /\ exec[x].state = "running" \/ exec[x].state = "none"
  <2>1. x \in Revs
    BY DEF TypeOK, WorkRecord, Lease
  <2> QED
    BY <2>1 DEF Active, Pending, ExecWell
<1>2. Verdicts(ev) # {} /\ "LIVE" \notin Verdicts(ev)
  BY DEF LeaseAdmits, resolve_lease_liveness, Resolved
<1>3. ev.rows \subseteq ProbeRow(rec.lease.role) \cup BrokerRow(x)
  BY Snapshots DEF LeaseRows
<1>4. \A row \in BrokerRow(x) : row.verdict = "LIVE"
  BY <1>1 DEF BrokerRow
<1>5. \A row \in ev.rows : row.verdict # "LIVE"
  BY <1>2 DEF Verdicts
<1>6. \A row \in ev.rows : row \in ProbeRow(rec.lease.role)
  BY <1>3, <1>4, <1>5
<1>7. \A row \in ev.rows : row.source = "process_probe"
  BY <1>6 DEF ProbeRow
<1>8. ev.rows # {}
  BY <1>2 DEF Verdicts
<1> QED
  BY <1>7, <1>8

LEMMA Grants ==
  ASSUME TypeOK, NEW d \in Decision
  PROVE  Granted(d) \in Lease /\ Granted(d).exec = rec.rev /\ StrategyOf(d.key.kind) \in Strategies
         /\ Granted(d).problem = d.key.problem /\ Granted(d).strategy = StrategyOf(d.key.kind)
<1>1. StrategyOf(d.key.kind) \in Strategies
  BY DEF StrategyOf, Strategies
<1> QED
  BY <1>1 DEF Granted, Lease, TypeOK, WorkRecord, Decision, Key

LEMMA Transitions ==
  ASSUME TypeOK, NEW d \in Decision, d.key.kind \notin Passive
  PROVE  LET t == model_durable_decision_transition(d)
             kind == d.key.kind
         IN
         /\ t \in WorkRecord /\ t.consumed = rec.consumed \cup {d.key}
         /\ t.attempts = rec.attempts
         /\ kind \in Launching =>
              /\ t.lease = Granted(d) /\ t.status = rec.status /\ t.handoff = rec.handoff
              /\ t.successor = rec.successor
         /\ kind = "PUBLISH_SUCCESSOR" =>
              t.lease = None /\ t.status = "DONE" /\ t.successor = "PUBLISHED"
         /\ kind = "SATISFY_GOAL" =>
              t.lease = None /\ t.status = "DONE" /\ t.successor = rec.successor
         /\ kind = "WRITE_HANDOFF" =>
              /\ t.lease = rec.lease /\ t.status = "NEEDS_HUMAN" /\ t.handoff
              /\ t.successor = rec.successor
         /\ kind \in Launching \cup {"PUBLISH_SUCCESSOR", "SATISFY_GOAL", "WRITE_HANDOFF"}
<1> DEFINE t == model_durable_decision_transition(d)
           kind == d.key.kind
           c == rec.consumed \cup {d.key}
           g == Granted(d)
<1>1. rec \in WorkRecord /\ c \in SUBSET Key /\ g \in Lease
  BY Grants DEF TypeOK, WorkRecord, Decision
<1>2. kind \in Launching \cup {"PUBLISH_SUCCESSOR", "SATISFY_GOAL", "WRITE_HANDOFF"}
  BY DEF Decision, Key, DecisionKind
<1> HIDE DEF c, g
<1>3. CASE kind \in Launching
  <2>1. t = [rec EXCEPT !.consumed = c, !.lease = g]
    BY <1>1, <1>3 DEF model_durable_decision_transition, WorkRecord, c, g, Launching, Recovery
  <2> HIDE DEF t
  <2> QED
    BY <1>1, <1>2, <1>3, <2>1 DEF WorkRecord, c, g, t, Launching, Recovery
<1>4. CASE kind = "PUBLISH_SUCCESSOR"
  <2>1. t = [rec EXCEPT !.consumed = c, !.successor = "PUBLISHED", !.status = "DONE", !.lease = None]
    BY <1>1, <1>4 DEF model_durable_decision_transition, WorkRecord, c, Launching, Recovery
  <2> HIDE DEF t
  <2> QED
    BY <1>1, <1>2, <1>4, <2>1 DEF WorkRecord, c, t, Launching, Recovery
<1>5. CASE kind = "SATISFY_GOAL"
  <2>1. t = [rec EXCEPT !.consumed = c, !.status = "DONE", !.lease = None]
    BY <1>1, <1>5 DEF model_durable_decision_transition, WorkRecord, c, Launching, Recovery
  <2> HIDE DEF t
  <2> QED
    BY <1>1, <1>2, <1>5, <2>1 DEF WorkRecord, c, t, Launching, Recovery
<1>6. CASE kind = "WRITE_HANDOFF"
  <2>1. t = [rec EXCEPT !.consumed = c, !.status = "NEEDS_HUMAN", !.handoff = TRUE]
    BY <1>1, <1>6 DEF model_durable_decision_transition, WorkRecord, c, Launching, Recovery
  <2> HIDE DEF t
  <2> QED
    BY <1>1, <1>2, <1>6, <2>1 DEF WorkRecord, c, t, Launching, Recovery
<1> QED
  BY <1>2, <1>3, <1>4, <1>5, <1>6

\* What an admitted decision still rests on, and what it does.
LEMMA Admission ==
  ASSUME IInv, NEW e \in Evaluators, Admit(e)
  PROVE  LET d == view[e].decision
             t == model_durable_decision_transition(d)
         IN
         /\ view[e].pc = "judged" /\ d \in Decision /\ d.key.kind \notin Passive
         /\ DecisionWell(d) /\ d.rev = rec.rev /\ Rests(d)
         /\ rec.rev < MaxRev /\ rec' = [t EXCEPT !.rev = rec.rev + 1]
         /\ blind \subseteq blind' /\ blind' \subseteq blind \cup {rec.rev}
         /\ d.key.kind \in Launching /\ rec.lease # None /\ Active(rec.lease.exec) =>
              rec.rev \in blind'
         /\ d.key.kind \in {"SATISFY_GOAL", "PUBLISH_SUCCESSOR"} => ~paused /\ d.head \in {head, None}
         /\ d.key.kind \in Anchored => d.head = head
         /\ view' = [view EXCEPT ![e] = IF d.key.kind \in Launching
                                        THEN [pc |-> "launch", lease |-> Granted(d)] ELSE Idle]
         /\ UNCHANGED <<exec, world>>
<1> DEFINE d == view[e].decision
<1>1. TypeOK /\ ExecWell /\ view[e].pc = "judged" /\ d.key.kind \notin Passive
  BY DEF IInv, Admit
<1>2. d \in Decision /\ DecisionWell(d)
  BY <1>1, Views DEF IInv, ViewWell
<1>3. PICK ev \in Gathered :
         /\ Accepts(d, rec, ev)
         /\ blind' = IF /\ d.key.kind \in Launching /\ rec.lease # None
                        /\ {row.source : row \in ev.rows} = {"process_probe"}
                     THEN blind \cup {rec.rev} ELSE blind
  BY DEF Admit
<1>4. d.rev = rec.rev /\ Rests(d)
  BY <1>2, <1>3 DEF Accepts, DecisionWell
<1>5. ev.paused = paused /\ ev.head \in {head, None}
  BY <1>1, Snapshots
<1>6. ASSUME d.key.kind \in Launching, rec.lease # None, Active(rec.lease.exec)
      PROVE  rec.rev \in blind'
  <2>1. LeaseAdmits(d.key.kind, ev)
    BY <1>3, <1>6 DEF Accepts
  <2>2. {row.source : row \in ev.rows} = {"process_probe"}
    BY <1>1, <1>6, <2>1, Takeover
  <2> QED
    BY <1>3, <1>6, <2>2
<1>7. d.key.kind \in {"SATISFY_GOAL", "PUBLISH_SUCCESSOR"} => ~paused
  BY <1>3, <1>5 DEF Accepts
<1>8. d.key.kind \in Anchored => d.head = head
  BY <1>3, <1>5 DEF Accepts, AnchorHolds
<1>9. rec.rev < MaxRev /\ rec' = [model_durable_decision_transition(d) EXCEPT !.rev = rec.rev + 1]
  BY DEF Admit, Apply
<1>10. /\ view' = [view EXCEPT ![e] = IF d.key.kind \in Launching
                                      THEN [pc |-> "launch", lease |-> Granted(d)] ELSE Idle]
       /\ UNCHANGED <<exec, world>>
  BY DEF Admit
<1>11. blind \subseteq blind' /\ blind' \subseteq blind \cup {rec.rev}
  BY <1>3
<1> HIDE DEF d
<1> QED
  BY <1>1, <1>2, <1>4, <1>6, <1>7, <1>8, <1>9, <1>10, <1>11 DEF d, Anchored

LEMMA Admits ==
  ASSUME IInv, NEW e \in Evaluators, Admit(e)
  PROVE  IInv'
<1>1. TypeOK /\ RecordWell /\ ExecWell /\ Overtaken /\ Apart
  BY DEF IInv
<1>2. PICK d : d = view[e].decision
  OBVIOUS
<1>3. PICK kind : kind = d.key.kind
  OBVIOUS
<1>4. PICK n : n = rec.rev
  OBVIOUS
<1>5. /\ view[e].pc = "judged" /\ d \in Decision /\ kind \notin Passive
      /\ d.rev = n /\ Rests(d) /\ DecisionWell(d)
      /\ n < MaxRev
      /\ blind \subseteq blind' /\ blind' \subseteq blind \cup {n}
      /\ kind \in Launching /\ rec.lease # None /\ Active(rec.lease.exec) => n \in blind'
      /\ UNCHANGED <<exec, world>>
  BY <1>2, <1>3, <1>4, Admission
<1>6. view' = [view EXCEPT ![e] = IF kind \in Launching
                                  THEN [pc |-> "launch", lease |-> Granted(d)] ELSE Idle]
  BY <1>2, <1>3, Admission
<1>7. PICK t : /\ t \in WorkRecord /\ t.consumed = rec.consumed \cup {d.key}
               /\ kind \in Launching =>
                    /\ t.lease = Granted(d) /\ t.status = rec.status /\ t.handoff = rec.handoff
                    /\ t.successor = rec.successor
               /\ kind = "PUBLISH_SUCCESSOR" =>
                    t.lease = None /\ t.status = "DONE" /\ t.successor = "PUBLISHED"
               /\ kind = "SATISFY_GOAL" =>
                    t.lease = None /\ t.status = "DONE" /\ t.successor = rec.successor
               /\ kind = "WRITE_HANDOFF" =>
                    /\ t.lease = rec.lease /\ t.status = "NEEDS_HUMAN" /\ t.handoff
                    /\ t.successor = rec.successor
               /\ kind \in Launching \cup {"PUBLISH_SUCCESSOR", "SATISFY_GOAL", "WRITE_HANDOFF"}
               /\ rec' = [t EXCEPT !.rev = n + 1]
  BY <1>1, <1>2, <1>3, <1>4, <1>5, Transitions, Admission
<1>8. n \in Revs /\ n \in Nat /\ n + 1 \in Revs
  BY <1>1, <1>4, <1>5, ConvergenceAssumption DEF TypeOK, WorkRecord, Revs
<1>9. /\ rec' \in WorkRecord /\ rec'.rev = n + 1 /\ rec'.consumed = t.consumed
      /\ rec'.lease = t.lease /\ rec'.status = t.status /\ rec'.handoff = t.handoff
      /\ rec'.successor = t.successor
  <2> DEFINE m == n + 1
  <2>1. rec' = [t EXCEPT !.rev = m] /\ m \in Revs
    BY <1>7, <1>8
  <2> HIDE DEF m
  <2>2. /\ rec' \in WorkRecord /\ rec'.rev = m /\ rec'.consumed = t.consumed
        /\ rec'.lease = t.lease /\ rec'.status = t.status /\ rec'.handoff = t.handoff
        /\ rec'.successor = t.successor
    BY <1>7, <2>1 DEF WorkRecord
  <2> QED
    BY <2>2 DEF m
<1>10. Granted(d) \in Lease /\ Granted(d).exec = n
  BY <1>1, <1>4, <1>5, Grants
<1>11. PICK g : g = Granted(d) /\ g \in Lease /\ g.exec = n
  BY <1>10
<1>12. PICK v : v = IF kind \in Launching THEN [pc |-> "launch", lease |-> g] ELSE Idle
  OBVIOUS
<1>13. /\ v.pc # "judged" /\ (v.pc = "launch" <=> kind \in Launching)
       /\ v.pc = "launch" => v.lease = g
       /\ v \in [pc : {"idle"}] \cup [pc : {"judged"}, decision : Decision]
                \cup [pc : {"launch"}, lease : Lease]
  BY <1>11, <1>12 DEF Idle
<1>14. /\ view' = [view EXCEPT ![e] = v] /\ view'[e] = v
       /\ \A f \in Evaluators : f # e => view'[f] = view[f]
  BY <1>1, <1>6, <1>11, <1>12 DEF TypeOK
<1>15. TypeOK'
  <2>1. view' \in [Evaluators -> [pc : {"idle"}] \cup [pc : {"judged"}, decision : Decision]
                                 \cup [pc : {"launch"}, lease : Lease]]
    BY <1>1, <1>13, <1>14 DEF TypeOK
  <2>2. blind' \subseteq Revs
    BY <1>1, <1>5, <1>8 DEF TypeOK
  <2> QED
    BY <1>1, <1>5, <1>9, <2>1, <2>2 DEF TypeOK, world
<1>16. RecordWell'
  <2>1. \A k \in t.consumed : k.rev < n + 1
    <3>1. \A k \in rec.consumed : k.rev \in Nat /\ k.rev < n
      BY <1>1, <1>4 DEF RecordWell, TypeOK, WorkRecord, Key
    <3>2. d.key.rev \in {0, n}
      BY <1>5 DEF DecisionWell
    <3> QED
      BY <1>7, <1>8, <3>1, <3>2
  <2>2. \A k \in t.consumed : k.kind = "WRITE_HANDOFF" => t.status # "OPEN"
    BY <1>1, <1>3, <1>7 DEF RecordWell, Launching, Recovery
  <2>3. \A k \in t.consumed : k.kind = "PUBLISH_SUCCESSOR" => t.successor = "PUBLISHED"
    BY <1>1, <1>3, <1>7 DEF RecordWell, Launching, Recovery
  <2>4. t.status = "NEEDS_HUMAN" => t.handoff
    BY <1>1, <1>7 DEF RecordWell
  <2> QED
    BY <1>9, <2>1, <2>2, <2>3, <2>4 DEF RecordWell
<1>17. ViewWell'
  <2> SUFFICES ASSUME NEW f \in Evaluators, view'[f].pc = "judged"
               PROVE  DecisionWell(view[f].decision)'
    BY DEF ViewWell
  <2>1. view'[f] = view[f] /\ view[f].pc = "judged"
    BY <1>13, <1>14
  <2>2. DecisionWell(view[f].decision) /\ view[f].decision.rev \in Nat
    BY <1>1, <2>1, Views DEF IInv, ViewWell, Decision, Revs
  <2> QED
    BY <1>4, <1>8, <1>9, <2>1, <2>2 DEF DecisionWell
<1>18. \A f \in Evaluators : view'[f].pc = "launch" =>
          \/ f = e /\ kind \in Launching /\ view'[f].lease = g
          \/ f # e /\ view'[f] = view[f] /\ view[f].lease.exec \in Revs /\ view[f].lease.exec < n
  BY <1>1, <1>4, <1>13, <1>14, Views DEF ExecWell, Lease
<1>19. ExecWell'
  <2>1. \A x \in Revs : exec'[x].state # "none" => x < n /\ exec'[x].head \in Heads
    BY <1>1, <1>4, <1>5 DEF ExecWell
  <2>2. exec'[n].state = "none"
    BY <1>8, <2>1
  <2>3. t.lease # None => t.lease.exec \in Nat /\ t.lease.exec < n + 1
    <3>1. CASE kind \in Launching
      BY <1>7, <1>8, <1>11, <3>1
    <3>2. CASE kind = "WRITE_HANDOFF"
      <4>1. rec.lease # None => rec.lease.exec \in Nat /\ rec.lease.exec < n
        BY <1>1, <1>4 DEF ExecWell, TypeOK, WorkRecord, Lease, Revs
      <4> QED
        BY <1>7, <1>8, <3>2, <4>1
    <3>3. CASE kind \in {"SATISFY_GOAL", "PUBLISH_SUCCESSOR"}
      BY <1>7, <3>3
    <3> QED
      BY <1>7, <3>1, <3>2, <3>3
  <2>4. \A f \in Evaluators : view'[f].pc = "launch" =>
          view'[f].lease.exec < n + 1 /\ exec'[view'[f].lease.exec].state = "none"
    <3> SUFFICES ASSUME NEW f \in Evaluators, view'[f].pc = "launch"
                 PROVE  view'[f].lease.exec < n + 1 /\ exec'[view'[f].lease.exec].state = "none"
      OBVIOUS
    <3>1. CASE f = e
      BY <1>8, <1>11, <1>18, <2>2, <3>1
    <3>2. CASE f # e
      <4>1. view'[f] = view[f] /\ view[f].lease.exec \in Nat /\ view[f].lease.exec < n
        BY <1>18, <3>2 DEF Revs
      <4>2. exec'[view[f].lease.exec].state = "none"
        BY <1>1, <1>5, <4>1 DEF ExecWell
      <4> QED
        BY <1>8, <4>1, <4>2
    <3> QED
      BY <3>1, <3>2
  <2>5. \A f, h \in Evaluators : f # h /\ view'[f].pc = "launch" /\ view'[h].pc = "launch" =>
          view'[f].lease.exec # view'[h].lease.exec
    <3> SUFFICES ASSUME NEW f \in Evaluators, NEW h \in Evaluators, f # h,
                        view'[f].pc = "launch", view'[h].pc = "launch"
                 PROVE  view'[f].lease.exec # view'[h].lease.exec
      OBVIOUS
    <3>1. CASE f # e /\ h # e
      BY <1>1, <1>18, <3>1 DEF ExecWell
    <3>2. CASE f = e \/ h = e
      BY <1>8, <1>11, <1>18, <3>2 DEF Revs
    <3> QED
      BY <3>1, <3>2
  <2>6. \A x \in Revs : exec'[x].state # "none" => x < rec'.rev /\ exec'[x].head \in Heads
    BY <1>8, <1>9, <2>1 DEF Revs
  <2> QED
    BY <1>9, <2>3, <2>4, <2>5, <2>6 DEF ExecWell
\* What was under way has lost its lease to a probe, now or before, or still has it.
<1>20. \A x \in Revs : Active(x) =>
         /\ x < n
         /\ \/ kind = "WRITE_HANDOFF" /\ rec.lease # None /\ rec.lease.exec = x
            \/ \E z \in blind' : x < z /\ z <= n /\ (z < n \/ n \in blind')
  <2> SUFFICES ASSUME NEW x \in Revs, Active(x)
               PROVE  /\ x < n
                      /\ \/ kind = "WRITE_HANDOFF" /\ rec.lease # None /\ rec.lease.exec = x
                         \/ \E z \in blind' : x < z /\ z <= n /\ (z < n \/ n \in blind')
    OBVIOUS
  <2>1. x < n
    <3>1. CASE exec[x].state = "running"
      BY <1>1, <1>4, <3>1 DEF ExecWell
    <3>2. CASE \E f \in Evaluators : Pending(f, x)
      BY <1>1, <1>4, <3>2 DEF ExecWell, Pending
    <3> QED
      BY <3>1, <3>2 DEF Active
  <2>2. CASE \E z \in blind : x < z /\ z < n
    <3>1. PICK z \in blind : x < z /\ z < n
      BY <2>2
    <3>2. z \in Nat
      BY <1>1 DEF TypeOK, Revs
    <3> QED
      BY <1>5, <1>8, <2>1, <3>1, <3>2
  <2>3. CASE rec.lease # None /\ rec.lease.exec = x
    <3>1. CASE kind \in Launching
      BY <1>5, <1>8, <2>1, <2>3, <3>1
    <3>2. CASE kind \in {"SATISFY_GOAL", "PUBLISH_SUCCESSOR"}
      BY <1>3, <1>5, <2>3, <3>2 DEF Rests, Satisfied
    <3> QED
      BY <1>7, <2>1, <2>3, <3>1, <3>2
  <2> QED
    BY <1>1, <1>4, <2>2, <2>3 DEF Overtaken
<1>21. \A x \in Revs : Active(x)' => Active(x) \/ (kind \in Launching /\ x = n)
  <2> SUFFICES ASSUME NEW x \in Revs, Active(x)'
               PROVE  Active(x) \/ (kind \in Launching /\ x = n)
    OBVIOUS
  <2>1. CASE exec'[x].state = "running"
    BY <1>5, <2>1 DEF Active
  <2>2. CASE \E f \in Evaluators : Pending(f, x)'
    <3>1. PICK f \in Evaluators : view'[f].pc = "launch" /\ view'[f].lease.exec = x
      BY <2>2 DEF Pending
    <3>2. CASE f = e
      BY <1>11, <1>18, <3>1, <3>2
    <3>3. CASE f # e
      BY <1>14, <3>1, <3>3 DEF Active, Pending
    <3> QED
      BY <3>2, <3>3
  <2> QED
    BY <2>1, <2>2 DEF Active
<1>22. \A z \in blind' : z \in Nat
  BY <1>15 DEF TypeOK, Revs
<1>23. Overtaken'
  <2> SUFFICES ASSUME NEW x \in Revs, Active(x)'
               PROVE  \/ rec'.lease # None /\ rec'.lease.exec = x
                      \/ \E z \in blind' : x < z /\ z < rec'.rev
    BY DEF Overtaken
  <2>1. CASE kind \in Launching /\ x = n
    BY <1>7, <1>9, <1>11, <2>1, NoneAssumption
  <2>2. CASE Active(x)
    BY <1>7, <1>8, <1>9, <1>20, <1>22, <2>2
  <2> QED
    BY <1>21, <2>1, <2>2
<1>24. Apart'
  <2> SUFFICES ASSUME NEW x \in Revs, NEW y \in Revs, x < y, Active(x)', Active(y)'
               PROVE  \E z \in blind' : x < z /\ z <= y
    BY DEF Apart
  <2>1. x \in Nat /\ y \in Nat
    BY DEF Revs
  <2>2. CASE Active(x) /\ Active(y)
    BY <1>1, <1>5, <2>2 DEF Apart
  <2>3. CASE Active(x) /\ kind \in Launching /\ y = n
    BY <1>8, <1>20, <1>22, <2>1, <2>3 DEF Launching, Recovery
  <2>4. CASE kind \in Launching /\ x = n
    BY <1>8, <1>20, <1>21, <2>1, <2>4
  <2> QED
    BY <1>21, <2>2, <2>3, <2>4
<1> QED
  BY <1>15, <1>16, <1>17, <1>19, <1>23, <1>24 DEF IInv

LEMMA Unchanged ==
  ASSUME IInv, UNCHANGED vars
  PROVE  IInv'
<1>1. TypeOK' /\ ExecWell' /\ \A x \in Revs : Active(x)' => Active(x)
  BY DEF vars, world, IInv, TypeOK, ExecWell, Active, Pending
<1> QED
  BY <1>1, OutsideMoves DEF vars, world

LEMMA Steps == IInv /\ [Next]_vars => IInv'
<1> SUFFICES ASSUME IInv, [Next]_vars PROVE IInv'
  OBVIOUS
<1>1. ASSUME NEW e \in Evaluators,
             Judge(e) \/ Refuse(e) \/ Ask(e) \/ Admit(e) \/ Launch(e) \/ Crash(e)
      PROVE  IInv'
  BY <1>1, Judges, Refuses, Asks, Admits, Launches
<1>2. ASSUME NEW x \in Revs, Ends(x) PROVE IInv'
  BY <1>2, ExecutionEnds
<1>3. CASE reconcile_lease
  BY <1>3, LeaseEnds
<1>4. CASE answer_human_request \/ Override \/ propose_successor_publication
  BY <1>4, OwnerWrites
<1>5. CASE World
  BY <1>5, WorldMoves
<1>6. CASE UNCHANGED vars
  BY <1>6, Unchanged
<1> QED
  BY <1>1, <1>2, <1>3, <1>4, <1>5, <1>6 DEF Next

\* The kernel's state is what the invariant says, for any evaluators, policy and evidence.
THEOREM Invariance == Spec => []IInv
BY Begins, Steps, PTL DEF Spec

\* Decisions, leases, executions and the work record have their types: make_decision,
\* apply_work_record_cas and reconcile_lease build nothing else.
THEOREM TypeCorrect == Spec => []TypeOK
<1>1. IInv => TypeOK
  BY DEF IInv
<1> QED
  BY <1>1, Invariance, PTL

\* ActuatorGuard.validate accepts whatever decide() decides on the record as it is, when
\* the repository's head is known: the loop cannot be stuck on its own decision.
THEOREM Agreement == Spec => []EvaluatorAndGuardAgree
<1>1. IInv => EvaluatorAndGuardAgree
  BY GuardAgrees DEF IInv, EvaluatorAndGuardAgree
<1> QED
  BY <1>1, Invariance, PTL

\* The broker's row of a running execution keeps its lease from being replaced: two
\* executions run at once only after a takeover on a probe of the role alone.
THEOREM OverlapsOnProbe == Spec => []OverlapNeedsProbe
<1>1. IInv => OverlapNeedsProbe
  BY DEF IInv, Apart, Active, OverlapNeedsProbe
<1> QED
  BY <1>1, Invariance, PTL

--------------------------------------------------------------------------------
(* What a step may do to the status, the successor and the attempts *)

LEMMA Quiet ==
  ASSUME TypeOK, [Next]_vars, ~reconcile_lease, \A e \in Evaluators : ~Admit(e)
  PROVE  /\ rec'.status = rec.status /\ rec'.attempts = rec.attempts /\ rec'.lease = rec.lease
         /\ rec'.successor = "PUBLISHED" => rec.successor = "PUBLISHED"
<1>1. rec \in WorkRecord
  BY DEF TypeOK
<1>2. ASSUME NEW e \in Evaluators, Ask(e)
      PROVE  /\ rec'.status = rec.status /\ rec'.attempts = rec.attempts /\ rec'.lease = rec.lease
             /\ rec'.successor = rec.successor
  BY <1>1, <1>2 DEF Ask, Apply, WorkRecord
<1>3. CASE answer_human_request
  BY <1>1, <1>3 DEF answer_human_request, Apply, WorkRecord
<1>4. CASE Override
  BY <1>1, <1>4 DEF Override, Apply, WorkRecord
<1>5. CASE propose_successor_publication
  BY <1>1, <1>5 DEF propose_successor_publication, Apply, WorkRecord
<1>6. CASE rec' = rec
  BY <1>6
<1>7. \/ \E e \in Evaluators : Ask(e)
      \/ answer_human_request \/ Override \/ propose_successor_publication \/ rec' = rec
  BY DEF Next, Judge, Refuse, Launch, Crash, Ends, World, vars
<1> QED
  BY <1>2, <1>3, <1>4, <1>5, <1>6, <1>7

\* However old the decision is that closes a goal or publishes its successor, its evidence
\* holds at that moment, no lease is held, and the owner does not pause.
THEOREM AdvanceRests == Spec => AdvancesOnEvidence
<1> DEFINE Evidence ==
          /\ ~paused /\ rec.lease = None
          /\ \/ rec.acceptance.kind = "OWNER_OVERRIDE" /\ rec.acceptance.valid
             \/ /\ rec.acceptance.kind = "VERIFIED" /\ rec.acceptance.head = head
                /\ rec.verification # None /\ rec.verification.passed
                /\ rec.verification.head = head
<1>1. ASSUME IInv, [Next]_vars, Advances PROVE Evidence
  <2>1. TypeOK /\ ExecWell /\ rec \in WorkRecord
    BY <1>1 DEF IInv, TypeOK
  <2>2. ~reconcile_lease
    <3>1. ASSUME reconcile_lease PROVE FALSE
      <4>1. PICK u \in WorkRecord : Apply(u) /\ u.status = rec.status /\ u.successor = rec.successor
        BY <2>1, <3>1, Reconciles
      <4> QED
        BY <1>1, <4>1 DEF Apply, WorkRecord, Advances
    <3> QED
      BY <3>1
  <2>3. PICK e \in Evaluators : Admit(e)
    BY <1>1, <2>1, <2>2, Quiet DEF Advances
  <2>4. PICK d : d = view[e].decision
    OBVIOUS
  <2>5. /\ d \in Decision /\ d.key.kind \notin Passive /\ Rests(d)
        /\ d.key.kind \in {"SATISFY_GOAL", "PUBLISH_SUCCESSOR"} => ~paused /\ d.head = head
    BY <1>1, <2>3, <2>4, Admission DEF Anchored
  <2>6. PICK t : /\ t \in WorkRecord /\ rec' = [t EXCEPT !.rev = rec.rev + 1]
                 /\ d.key.kind \in Launching => t.status = rec.status /\ t.successor = rec.successor
                 /\ d.key.kind = "WRITE_HANDOFF" => t.status = "NEEDS_HUMAN" /\ t.successor = rec.successor
                 /\ d.key.kind \in Launching \cup {"PUBLISH_SUCCESSOR", "SATISFY_GOAL", "WRITE_HANDOFF"}
    BY <1>1, <2>1, <2>3, <2>4, <2>5, Transitions, Admission
  <2>7. rec'.status = t.status /\ rec'.successor = t.successor
    BY <2>6 DEF WorkRecord
  <2>8. d.key.kind \in {"SATISFY_GOAL", "PUBLISH_SUCCESSOR"}
    BY <1>1, <2>6, <2>7 DEF Advances
  <2> QED
    BY <2>5, <2>8 DEF Rests, Satisfied
<1>2. IInv /\ [Next]_vars => [Advances => Evidence]_vars
  BY <1>1
<1> QED
  BY <1>2, Invariance, PTL DEF Spec, AdvancesOnEvidence

--------------------------------------------------------------------------------
(* Budgets: decide() compares one counter of the current problem, and the attempt  *)
(* it starts is booked later, perhaps under another problem.                       *)

\* A record that is taken over has not spent more than the policy gives.
StartsWithin ==
    \A s \in Starts : s.problem \in FailureClass =>
        \A t \in Counted : s.tried[t] <= Cap(s.problem, t)
\* The total of the policy covers its parts, as that of the default policy does; decide()
\* compares the total for an environment problem only.
BudgetCovers ==
    /\ Budget.resource <= Budget.total /\ MaxRepairs <= Budget.total
    /\ Budget.strategy + Budget.escalation <= Budget.total

LEMMA Numbers ==
  ASSUME TypeOK
  PROVE  /\ \A p \in Problems, t \in Strategies : rec.attempts[p][t] \in Nat
         /\ \A p, t : Cap(p, t) \in Nat
         /\ \A p, t : Underway(p, t) \in {0, 1}
         /\ Counted \subseteq Strategies
<1>1. \A p \in Problems, t \in Strategies : rec.attempts[p][t] \in Nat
  BY DEF TypeOK, WorkRecord
<1>2. ASSUME NEW p, NEW t PROVE Cap(p, t) \in Nat
  <2>1. /\ Budget.resource \in Nat /\ Budget.strategy \in Nat /\ Budget.escalation \in Nat
        /\ Budget.total \in Nat /\ MaxRepairs \in Nat
    BY ConvergenceAssumption
  <2> QED
    BY <2>1 DEF Cap
<1> QED
  BY <1>1, <1>2 DEF Underway, Counted, Strategies

LEMMA BudgetBegins == StartsWithin /\ Init => WithinBudget
<1> SUFFICES ASSUME StartsWithin, Init, NEW p \in FailureClass, NEW t \in Counted
             PROVE  rec.attempts[p][t] + Underway(p, t) <= Cap(p, t)
  BY DEF WithinBudget
<1>1. TypeOK
  BY Begins DEF IInv
<1>2. PICK s \in Starts :
        /\ rec.attempts = [[q \in Problems |-> [u \in Strategies |-> 0]] EXCEPT ![s.problem] = s.tried]
        /\ rec.lease = None
  <2>1. PICK s \in Starts :
           rec = [rev |-> s.rev, status |-> "OPEN", lease |-> None, problem |-> s.problem,
                  attempts |-> [[q \in Problems |-> [u \in Strategies |-> 0]]
                                EXCEPT ![s.problem] = s.tried],
                  acceptance |-> NoAcceptance, verification |-> None, wait |-> FALSE,
                  successor |-> s.successor, request |-> "none", handoff |-> FALSE, consumed |-> {}]
    BY DEF Init
  <2> QED
    BY <2>1
<1>3. Underway(p, t) = 0 /\ Cap(p, t) \in Nat /\ t \in Strategies /\ p \in Problems
  BY <1>1, <1>2, Numbers DEF Underway, Problems
<1>4. CASE p = s.problem
  <2>1. s.tried[t] <= Cap(p, t) /\ rec.attempts[p] = s.tried
    BY <1>2, <1>3, <1>4 DEF StartsWithin
  <2>2. s.tried[t] \in Nat
    BY <1>1, <1>3, <2>1, Numbers
  <2> QED
    BY <1>3, <2>1, <2>2
<1>5. CASE p # s.problem
  <2>1. rec.attempts[p][t] = 0
    BY <1>2, <1>3, <1>5
  <2> QED
    BY <1>3, <2>1
<1> QED
  BY <1>4, <1>5

LEMMA BudgetSteps == IInv /\ WithinBudget /\ [Next]_vars => WithinBudget'
<1> SUFFICES ASSUME IInv, WithinBudget, [Next]_vars, NEW p \in FailureClass, NEW t \in Counted
             PROVE  rec'.attempts[p][t] + Underway(p, t)' <= Cap(p, t)
  BY DEF WithinBudget, Cap
<1>1. TypeOK /\ ExecWell /\ rec \in WorkRecord /\ p \in Problems /\ t \in Strategies
  BY Numbers DEF IInv, TypeOK, Problems
<1>2. PICK n \in Nat : n = rec.attempts[p][t]
  BY <1>1, Numbers
<1>3. /\ n + Underway(p, t) <= Cap(p, t) /\ Underway(p, t) \in {0, 1} /\ Cap(p, t) \in Nat
  BY <1>1, <1>2, Numbers DEF WithinBudget
\* An attempt that starts was within what is left.
<1>4. ASSUME NEW e \in Evaluators, Admit(e)
      PROVE  rec'.attempts[p][t] + Underway(p, t)' <= Cap(p, t)
  <2>1. PICK d : d = view[e].decision
    OBVIOUS
  <2>2. d \in Decision /\ d.key.kind \notin Passive /\ Rests(d)
    BY <1>4, <2>1, Admission
  <2>3. PICK u : /\ u \in WorkRecord /\ rec' = [u EXCEPT !.rev = rec.rev + 1]
                 /\ u.attempts = rec.attempts
                 /\ d.key.kind \in Launching => u.lease = Granted(d)
                 /\ d.key.kind = "WRITE_HANDOFF" => u.lease = rec.lease
                 /\ d.key.kind \in {"SATISFY_GOAL", "PUBLISH_SUCCESSOR"} => u.lease = None
                 /\ d.key.kind \in Launching \cup {"PUBLISH_SUCCESSOR", "SATISFY_GOAL", "WRITE_HANDOFF"}
    BY <1>1, <1>4, <2>1, <2>2, Transitions, Admission
  <2>4. rec'.attempts = rec.attempts /\ rec'.lease = u.lease
    BY <2>3 DEF WorkRecord
  <2>5. CASE d.key.kind \in Launching
    <3>1. PICK g : g = Granted(d) /\ g.problem = d.key.problem /\ g.strategy = StrategyOf(d.key.kind)
      BY <1>1, <2>2, Grants
    <3>2. rec'.lease = g
      BY <2>3, <2>4, <2>5, <3>1
    <3>3. CASE p = g.problem /\ t = g.strategy
      <4>1. p # None
        BY NoneAssumption
      <4>2. d.key.kind \in Recovery \ {"EXECUTE"}
        BY <2>2, <2>5, <3>1, <3>3, <4>1 DEF Rests, Launching
      <4>3. n < Cap(p, t)
        BY <1>2, <2>2, <3>1, <3>3, <4>2 DEF Rests
      <4>4. Underway(p, t)' \in {0, 1}
        BY DEF Underway
      <4> QED
        BY <1>2, <1>3, <2>4, <4>3, <4>4
    <3>4. CASE ~(p = g.problem /\ t = g.strategy)
      <4>1. Underway(p, t)' = 0
        BY <3>2, <3>4 DEF Underway
      <4> QED
        BY <1>2, <1>3, <2>4, <4>1
    <3> QED
      BY <3>3, <3>4
  <2>6. CASE d.key.kind = "WRITE_HANDOFF"
    <3>1. Underway(p, t)' = Underway(p, t)
      BY <2>3, <2>4, <2>6 DEF Underway
    <3> QED
      BY <1>2, <1>3, <2>4, <3>1
  <2>7. CASE d.key.kind \in {"SATISFY_GOAL", "PUBLISH_SUCCESSOR"}
    <3>1. Underway(p, t)' = 0
      BY <2>3, <2>4, <2>7 DEF Underway
    <3> QED
      BY <1>2, <1>3, <2>4, <3>1
  <2> QED
    BY <2>3, <2>5, <2>6, <2>7
\* An attempt that ends is booked where it was counted when it started.
<1>5. CASE reconcile_lease
  <2>1. PICK u \in WorkRecord : Apply(u) /\ u.lease = None /\ u.attempts = Reconciled.attempts
    BY <1>1, <1>5, Reconciles
  <2>2. rec'.lease = None /\ rec'.attempts = Reconciled.attempts
    BY <2>1 DEF Apply, WorkRecord
  <2>3. rec.lease # None /\ rec.lease \in Lease
    BY <1>1, <1>5 DEF reconcile_lease, WorkRecord
  <2>4. rec'.attempts = [rec.attempts EXCEPT ![rec.lease.problem][rec.lease.strategy] = @ + 1]
    BY <1>1, <2>2, <2>3, Books
  <2>5. rec.attempts \in [Problems -> [Strategies -> Nat]]
    BY <1>1 DEF WorkRecord
  <2>6. rec'.attempts[p][t] = n + Underway(p, t)
    <3>1. CASE rec.lease.problem = p /\ rec.lease.strategy = t
      BY <1>1, <1>2, <2>3, <2>4, <2>5, <3>1 DEF Underway
    <3>2. CASE ~(rec.lease.problem = p /\ rec.lease.strategy = t)
      <4>1. Underway(p, t) = 0
        BY <3>2 DEF Underway
      <4>2. rec'.attempts[p][t] = n
        BY <1>1, <1>2, <2>3, <2>4, <2>5, <3>2 DEF Lease
      <4> QED
        BY <1>2, <4>1, <4>2
    <3> QED
      BY <3>1, <3>2
  <2>7. Underway(p, t)' = 0
    BY <2>2 DEF Underway
  <2> QED
    BY <1>2, <1>3, <2>6, <2>7
<1>6. CASE ~reconcile_lease /\ \A e \in Evaluators : ~Admit(e)
  <2>1. rec'.attempts = rec.attempts /\ rec'.lease = rec.lease
    BY <1>1, <1>6, Quiet
  <2>2. Underway(p, t)' = Underway(p, t)
    BY <2>1 DEF Underway
  <2> QED
    BY <1>2, <1>3, <2>1, <2>2
<1> QED
  BY <1>4, <1>5, <1>6

\* The booked attempts of a problem with one strategy, and the one under way, never exceed
\* what the policy gives that strategy for that problem.
THEOREM CapsHold == ASSUME StartsWithin PROVE Spec => []WithinBudget
<1>1. Init => WithinBudget
  BY BudgetBegins
<1> QED
  BY <1>1, BudgetSteps, Invariance, PTL DEF Spec

\* Where the total of the policy covers its parts, the booked attempts of a problem stay
\* within it, which decide() itself checks for an environment problem only.
THEOREM ProblemsBounded == ASSUME StartsWithin, BudgetCovers PROVE Spec => []BoundedProblem
<1>1. ASSUME IInv, WithinBudget PROVE BoundedProblem
  <2> SUFFICES ASSUME NEW p \in FailureClass PROVE Total(rec, p) <= Budget.total
    BY DEF BoundedProblem
  <2>1. TypeOK /\ p \in Problems
    BY <1>1 DEF IInv, Problems
  <2>2. \A t \in Counted : rec.attempts[p][t] \in Nat /\ rec.attempts[p][t] <= Cap(p, t)
    <3> SUFFICES ASSUME NEW t \in Counted
                 PROVE  rec.attempts[p][t] \in Nat /\ rec.attempts[p][t] <= Cap(p, t)
      OBVIOUS
    <3>1. /\ rec.attempts[p][t] \in Nat /\ Cap(p, t) \in Nat /\ Underway(p, t) \in {0, 1}
          /\ rec.attempts[p][t] + Underway(p, t) <= Cap(p, t)
      BY <1>1, <2>1, Numbers DEF WithinBudget
    <3> QED
      BY <3>1
  <2>3. Cap(p, "resource_retry") + Cap(p, "strategy_change") + Cap(p, "capability_escalation")
          + Cap(p, "output_repair") + Cap(p, "environment_rewrite") <= Budget.total
    <3>1. /\ Budget.resource \in Nat /\ Budget.strategy \in Nat /\ Budget.escalation \in Nat
          /\ Budget.total \in Nat /\ MaxRepairs \in Nat
      BY ConvergenceAssumption
    <3> QED
      BY <3>1 DEF Cap, BudgetCovers, Defects, FailureClass
  <2>4. \A t \in Counted : Cap(p, t) \in Nat
    BY <2>1, Numbers
  <2>5. Budget.total \in Nat
    BY ConvergenceAssumption
  <2> QED
    BY <2>2, <2>3, <2>4, <2>5 DEF Total, Counted
<1>2. Spec => []WithinBudget
  BY CapsHold
<1> QED
  BY <1>1, <1>2, Invariance, PTL
===============================================================================
