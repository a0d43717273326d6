--------------------------- MODULE LifecycleProofs ---------------------------
(***************************************************************************)
(* Of the daemon's lifecycle core, for any roadmap, budget and number of   *)
(* failures: an execution that ended is never started again under its      *)
(* request; of the executions that are not given up at most one is under   *)
(* way in the Broker; authority and workers get to a task only behind its  *)
(* plan; and the authority's generation is that of a consumed handoff,     *)
(* which no restart takes back.  The last two rest on a second invariant,  *)
(* Linked.  A third, Timed, gives the order of the launches, and with it   *)
(* who may be under way in the Broker beside an execution given up; a      *)
(* fourth, Typed, which needs the three, the types.                        *)
(***************************************************************************)
EXTENDS Lifecycle, TLAPS, WellFoundedInduction

Fields == {"kind", "task", "state", "head", "n", "c", "m", "b", "depth", "to", "tid", "staged",
           "ready", "consumed", "why", "again"}

\* Rows are records; one that may be launched again, or whose launch failed half way, is blocked.
RowsWell ==
  \A id \in DOMAIN rows : DOMAIN rows[id] = Fields /\ (rows[id].why \in {"state", "obligation"} => rows[id].state = "blocked")

\* The project has one active execution at the most.
OneActive == \A v, w \in ActiveRows : v = w

\* A Broker execution has a row, which ends only after it or at a restart.
Known(w) ==
  /\ w \in DOMAIN rows
  /\ rows[w].state \in {"running", "completed", "failed", "recovery_required"}
  /\ broker[w] \in {"running", "worked"} => rows[w].state \in {"running", "recovery_required"}
BrokerRows == \A w \in DOMAIN broker : Known(w)

\* Executions started and launches refused are out of the tick's lists; cur.id of an open
\* handoff is the one in hand, and that of an open launch is a row not started yet.
Pending(r) == r \in DOMAIN rows /\ rows[r].state \in {"handoff", "blocked"} /\ rows[r].why \notin {"obligation", "state"}
TickWell ==
  /\ DOMAIN cur = {"op", "id", "head"}
  /\ pc = "handoffs" => \A r \in todo : Pending(r)
  /\ pc = "decisions" => \A id \in todo : Replayable(id)
  /\ pc = "auto" => cur = NoStep
  /\ cur.op \in {"begin", "note", "consume"} => pc = "handoffs" /\ cur.id \in todo
  /\ cur.op = "spawn" => cur.id \in DOMAIN rows /\ rows[cur.id].state = "launching" /\ rows[cur.id].why = ""

IInv == RowsWell /\ OneActive /\ BrokerRows /\ TickWell

\* Other requests than id may still be launched.
Spares(id) == \A x : x # id /\ Replayable(x) => Replayable(x)'

Kept == \A id \in DOMAIN rows : Ended(id) => id \in DOMAIN rows' /\ Ended(id)'

LEMMA InitIInv == Init => IInv
  <1> SUFFICES ASSUME Init PROVE IInv
    OBVIOUS
  <1>1. rows = <<>> /\ broker = <<>> /\ pc = "idle" /\ cur = NoStep
    BY DEF Init
  <1>2. DOMAIN rows = {} /\ DOMAIN broker = {}
    BY <1>1
  <1>3. DOMAIN cur = {"op", "id", "head"} /\ cur.op = ""
    BY <1>1 DEF NoStep, Step
  <1> QED BY <1>1, <1>2, <1>3 DEF IInv, RowsWell, OneActive, ActiveRows, BrokerRows, TickWell

--------------------------------------------------------------------------------
(* Steps that leave the rows and the Broker alone. *)

LEMMA Unmoved ==
  ASSUME IInv, UNCHANGED <<rows, broker>>
  PROVE  RowsWell' /\ OneActive' /\ BrokerRows' /\ Kept
  BY DEF IInv, RowsWell, OneActive, ActiveRows, BrokerRows, Known, Kept, Ended

\* A request that may be launched gets its row: launching, only if nothing is active, or final.
LEMMA Written ==
  ASSUME IInv, NEW id, NEW v, Replayable(id), rows' = Put(rows, id, v), UNCHANGED broker,
         DOMAIN v = Fields, v.why \in {"state", "obligation"} => v.state = "blocked",
         v.state \in Active => ActiveRows = {}
  PROVE  RowsWell' /\ OneActive' /\ BrokerRows' /\ Kept /\ Spares(id)
  <1>1. /\ DOMAIN rows' = DOMAIN rows \cup {id} /\ rows'[id] = v
        /\ \A x \in DOMAIN rows : x # id => rows'[x] = rows[x]
    BY DEF Put
  <1>2. id \in DOMAIN rows => rows[id].why = "state" /\ rows[id].state = "blocked"
    BY DEF IInv, RowsWell, Replayable
  <1>3. RowsWell'
    BY <1>1 DEF IInv, RowsWell
  <1>4. OneActive'
    BY <1>1 DEF IInv, OneActive, ActiveRows
  <1>5. BrokerRows'
    BY <1>1, <1>2 DEF IInv, BrokerRows, Known
  <1>6. Kept
    BY <1>1, <1>2 DEF Kept, Ended
  <1>7. Spares(id)
    BY <1>1 DEF Spares, Replayable
  <1> QED BY <1>3, <1>4, <1>5, <1>6, <1>7

\* No execution is active once a launch is not refused.
LEMMA Unrefused == ASSUME NEW k, NEW t, NEW h, Refusal(k, t, h) = "" PROVE ActiveRows = {}
  BY DEF Refusal

LEMMA RowFields == DOMAIN Row = Fields /\ Row.state = "blocked" /\ Row.why = ""
  BY DEF Row, Fields

LEMMA ReplayableInv ==
  ASSUME NEW id, IInv, Replayable(id)
  PROVE  id \in DOMAIN rows => rows[id].state = "blocked" /\ rows[id].why = "state"
  BY DEF IInv, RowsWell, Replayable

LEMMA Blocks ==
  ASSUME IInv, NEW id, NEW k, NEW t, NEW why, Block(id, k, t, why), UNCHANGED broker
  PROVE  RowsWell' /\ OneActive' /\ BrokerRows' /\ Kept /\ Spares(id)
  <1>1. CASE id \in DOMAIN rows
    BY <1>1, Unmoved DEF Block, Spares, Replayable
  <1>2. CASE id \notin DOMAIN rows
    <2> DEFINE v == [Row EXCEPT !.kind = k, !.task = t, !.why = why]
    <2>1. rows' = Put(rows, id, v) /\ Replayable(id)
      BY <1>2 DEF Block, Replayable
    <2>2. DOMAIN v = Fields /\ v.state = "blocked"
      BY RowFields DEF Fields
    <2> QED BY <2>1, <2>2, Written DEF Active
  <1> QED BY <1>1, <1>2

LEMMA Launches ==
  ASSUME IInv, NEW id, NEW k, NEW t, NEW h, NEW d, Launch(id, k, t, h, d), UNCHANGED broker
  PROVE  /\ RowsWell' /\ OneActive' /\ BrokerRows' /\ Kept /\ Spares(id)
         /\ \/ cur' = cur
            \/ cur' = Step("spawn", id, 0) /\ id \in DOMAIN rows' /\ rows'[id].state = "launching" /\ rows'[id].why = ""
  <1> DEFINE why == Refusal(k, t, h)
             launching == [Row EXCEPT !.kind = k, !.task = t, !.state = "launching", !.head = h, !.n = Now, !.depth = d]
             refused == [Row EXCEPT !.kind = k, !.task = t, !.why = why]
  <1>1. CASE Replayable(id) /\ why = ""
    <2>1. rows' = Put(rows, id, launching) /\ cur' = Step("spawn", id, 0)
      BY <1>1 DEF Launch
    <2>2. DOMAIN launching = Fields /\ launching.state = "launching" /\ launching.why = ""
      BY RowFields DEF Fields
    <2>3. ActiveRows = {}
      BY <1>1, Unrefused
    <2>4. RowsWell' /\ OneActive' /\ BrokerRows' /\ Kept /\ Spares(id)
      BY <1>1, <2>1, <2>2, <2>3, Written
    <2> QED BY <2>1, <2>2, <2>4 DEF Put
  <1>2. CASE Replayable(id) /\ why # "" /\ why # "changed"
    <2>1. rows' = Put(rows, id, refused) /\ cur' = cur
      BY <1>2 DEF Launch
    <2>2. DOMAIN refused = Fields /\ refused.state = "blocked"
      BY RowFields DEF Fields
    <2> QED BY <1>2, <2>1, <2>2, Written DEF Active
  <1>3. CASE ~Replayable(id) \/ why = "changed"
    BY <1>3, Blocks DEF Launch
  <1> QED BY <1>1, <1>2, <1>3

--------------------------------------------------------------------------------
(* The tick. *)

LEMMA NoStepIs == DOMAIN NoStep = {"op", "id", "head"} /\ NoStep.op = ""
  BY DEF NoStep, Step

\* A phase whose work is not known from the rows is entered.
LEMMA Entered ==
  ASSUME IInv, NEW p, NEW ids, Enter(p, ids), p \notin {"handoffs", "decisions"}, UNCHANGED <<rows, broker>>
  PROVE  IInv' /\ Kept
  <1>1. TickWell'
    BY NoStepIs DEF Enter, TickWell
  <1> QED BY <1>1, Unmoved DEF IInv

LEMMA Elsewhere ==
  ASSUME IInv, UNCHANGED <<rows, broker, tick>>
  PROVE  IInv' /\ Kept
  <1>1. TickWell'
    BY DEF IInv, TickWell, Pending, Replayable, tick
  <1> QED BY <1>1, Unmoved DEF IInv

LEMMA MonitorStep == IInv /\ Monitor => IInv' /\ Kept
  BY Entered DEF Monitor, ledger

LEMMA ReconcileStep == IInv /\ Reconcile => IInv' /\ Kept
  BY Entered DEF Reconcile

LEMMA ReviewStep == IInv /\ Review => IInv' /\ Kept
  BY Entered DEF Review, ledger

LEMMA NextPhaseStep ==
  ASSUME IInv, NextPhase
  PROVE  IInv' /\ Kept
  <1>0. UNCHANGED <<rows, broker>>
    BY DEF NextPhase, ledger
  <1>1. CASE Enter("plans", ReadyPlans) \/ Enter("review", {}) \/ Enter("auto", {})
    BY <1>0, <1>1, Entered
  <1>2. CASE Enter("handoffs", Handoffs)
    <2>1. \A r \in Handoffs : Pending(r)
      BY DEF Handoffs, Refused, Pending, IInv, RowsWell, Ended
    <2>2. TickWell'
      BY <1>0, <1>2, <2>1, NoStepIs DEF Enter, TickWell, Pending
    <2> QED BY <1>0, <2>2, Unmoved DEF IInv
  <1>3. CASE Enter("decisions", Owed)
    <2>1. TickWell'
      BY <1>0, <1>3, NoStepIs DEF Enter, TickWell, Owed, Replayable
    <2> QED BY <1>0, <2>1, Unmoved DEF IInv
  <1> QED BY <1>1, <1>2, <1>3 DEF NextPhase, ToHandoffs, ToReview

LEMMA MarkPlanStep ==
  ASSUME IInv, MarkPlan
  PROVE  IInv' /\ Kept
  <1>1. UNCHANGED <<rows, broker, pc, todo>> /\ cur' = NoStep
    BY DEF MarkPlan, ledger
  <1>2. TickWell'
    BY <1>1, NoStepIs DEF IInv, TickWell, Pending, Replayable
  <1> QED BY <1>1, <1>2, Unmoved DEF IInv

LEMMA WriteHistoryStep ==
  ASSUME IInv, WriteHistory
  PROVE  IInv' /\ Kept
  <1>1. UNCHANGED <<rows, broker, pc>> /\ pc = "handoffs" /\ cur.id \in todo
    BY DEF WriteHistory, ledger, IInv, TickWell
  <1>2. TickWell'
    <2>1. CASE cur' = [cur EXCEPT !.op = "consume"] /\ UNCHANGED todo
      BY <1>1, <2>1 DEF IInv, TickWell, Pending
    <2>2. CASE cur' = NoStep /\ Done(cur.id)
      BY <1>1, <2>2, NoStepIs DEF IInv, TickWell, Pending, Done
    <2> QED BY <2>1, <2>2 DEF WriteHistory
  <1> QED BY <1>1, <1>2, Unmoved DEF IInv

\* A handoff that is consumed, refused or opened again changes its own row only.
LEMMA Amended ==
  ASSUME IInv, NEW r, Pending(r), UNCHANGED broker,
         DOMAIN rows' = DOMAIN rows, \A x \in DOMAIN rows : x # r => rows'[x] = rows[x],
         DOMAIN rows'[r] = Fields, rows'[r].state \in {"handoff", "blocked"}, rows'[r].why \notin {"obligation", "state"}
  PROVE  /\ RowsWell' /\ OneActive' /\ BrokerRows' /\ Kept
         /\ \A x : Pending(x) => Pending(x)'
  <1>1. r \notin ActiveRows /\ r \notin DOMAIN broker /\ ~Ended(r)
    BY DEF Pending, ActiveRows, Active, IInv, BrokerRows, Known, Ended
  <1>2. RowsWell'
    BY DEF IInv, RowsWell
  <1>3. OneActive'
    BY <1>1 DEF IInv, OneActive, ActiveRows, Active
  <1>4. BrokerRows'
    BY <1>1 DEF IInv, BrokerRows, Known
  <1>5. Kept
    BY <1>1 DEF Kept, Ended
  <1>6. \A x : Pending(x) => Pending(x)'
    BY DEF Pending
  <1> QED BY <1>2, <1>3, <1>4, <1>5, <1>6

LEMMA HandoffBlocked ==
  ASSUME IInv, NEW r, NEW why, Pending(r), MarkHandoffBlocked(r, why), why \notin {"obligation", "state"}, UNCHANGED broker
  PROVE  /\ RowsWell' /\ OneActive' /\ BrokerRows' /\ Kept
         /\ \A x : Pending(x) => Pending(x)'
  <1>1. DOMAIN rows[r] = Fields /\ r \in DOMAIN rows
    BY DEF IInv, RowsWell, Pending
  <1>2. /\ DOMAIN rows' = DOMAIN rows /\ \A x \in DOMAIN rows : x # r => rows'[x] = rows[x]
        /\ rows'[r] = [rows[r] EXCEPT !.state = "blocked", !.why = why]
    BY <1>1 DEF MarkHandoffBlocked
  <1>3. DOMAIN rows'[r] = Fields /\ rows'[r].state = "blocked" /\ rows'[r].why = why
    BY <1>1, <1>2 DEF Fields
  <1> QED BY <1>2, <1>3, Amended

LEMMA ReopenStep ==
  ASSUME IInv, NEW r \in todo, Reopen(r)
  PROVE  IInv' /\ Kept
  <1>1. pc = "handoffs" /\ Pending(r) /\ UNCHANGED <<broker, pc, cur>> /\ cur = NoStep
    BY DEF Reopen, IInv, TickWell
  <1>2. CASE UNCHANGED rows /\ Done(r)
    <2>1. TickWell'
      BY <1>1, <1>2, NoStepIs DEF IInv, TickWell, Pending, Done
    <2> QED BY <1>1, <1>2, <2>1, Unmoved DEF IInv
  <1>3. ASSUME NEW mark, UNCHANGED todo,
               rows' = [rows EXCEPT ![r].state = "handoff", ![r].why = "", ![r].again = @ \cup {mark}]
        PROVE  IInv' /\ Kept
    <2>1. DOMAIN rows[r] = Fields /\ r \in DOMAIN rows
      BY <1>1 DEF IInv, RowsWell, Pending
    <2>2. /\ DOMAIN rows' = DOMAIN rows /\ \A x \in DOMAIN rows : x # r => rows'[x] = rows[x]
          /\ rows'[r] = [rows[r] EXCEPT !.state = "handoff", !.why = "", !.again = @ \cup {mark}]
      BY <1>3, <2>1
    <2>3. DOMAIN rows'[r] = Fields /\ rows'[r].state = "handoff" /\ rows'[r].why = ""
      BY <2>1, <2>2 DEF Fields
    <2>4. /\ RowsWell' /\ OneActive' /\ BrokerRows' /\ Kept
          /\ \A x : Pending(x) => Pending(x)'
      BY <1>1, <2>2, <2>3, Amended
    <2>5. TickWell'
      BY <1>1, <1>3, <2>4, NoStepIs DEF IInv, TickWell
    <2> QED BY <2>4, <2>5 DEF IInv
  <1> QED BY <1>2, <1>3 DEF Reopen

\* Within the phase of the handoffs.
LEMMA HandoffTick ==
  ASSUME IInv, pc = "handoffs", UNCHANGED pc, \A x : Pending(x) => Pending(x)', todo' \subseteq todo,
         \/ cur' = NoStep
         \/ \E op \in {"begin", "note", "consume"}, r \in todo' : \E h : cur' = Step(op, r, h)
  PROVE  TickWell'
  <1>1. DOMAIN cur' = {"op", "id", "head"} /\ cur'.op # "spawn"
        /\ (cur'.op \in {"begin", "note", "consume"} => cur'.id \in todo')
    <2>1. CASE cur' = NoStep
      BY <2>1, NoStepIs
    <2>2. ASSUME NEW op \in {"begin", "note", "consume"}, NEW r \in todo', NEW h, cur' = Step(op, r, h)
          PROVE  DOMAIN cur' = {"op", "id", "head"} /\ cur'.op = op /\ cur'.id = r
      BY <2>2 DEF Step
    <2> QED BY <2>1, <2>2
  <1>2. \A x \in todo' : Pending(x)'
    BY DEF IInv, TickWell
  <1> QED BY <1>1, <1>2 DEF TickWell

LEMMA Untouched == ASSUME UNCHANGED rows PROVE \A x : Pending(x) => Pending(x)'
  BY DEF Pending

LEMMA OfferStep ==
  ASSUME IInv, NEW r \in todo, Offer(r)
  PROVE  IInv' /\ Kept
  <1>1. pc = "handoffs" /\ Pending(r) /\ UNCHANGED <<broker, pc>> /\ cur = NoStep
    BY DEF Offer, IInv, TickWell
  <1>2. ASSUME UNCHANGED rows, todo' \subseteq todo,
               \/ cur' = NoStep
               \/ \E op \in {"begin", "note", "consume"}, x \in todo' : \E h : cur' = Step(op, x, h)
        PROVE  IInv' /\ Kept
    BY <1>1, <1>2, Untouched, HandoffTick, Unmoved DEF IInv
  <1>3. ASSUME NEW why, why \notin {"obligation", "state"}, MarkHandoffBlocked(r, why), Done(r), UNCHANGED cur
        PROVE  IInv' /\ Kept
    <2>1. RowsWell' /\ OneActive' /\ BrokerRows' /\ Kept /\ \A x : Pending(x) => Pending(x)'
      BY <1>1, <1>3, HandoffBlocked
    <2>2. TickWell'
      BY <1>1, <1>3, <2>1, HandoffTick DEF Done
    <2> QED BY <2>1, <2>2 DEF IInv
  <1>4. PlannerRefusal(rows[r]) \notin {"obligation", "state"}
    BY DEF PlannerRefusal
  <1>5. CASE UNCHANGED rows /\ Done(r) /\ UNCHANGED cur
    BY <1>1, <1>2, <1>5 DEF Done
  <1>6. CASE UNCHANGED <<rows, todo>> /\ \E op \in {"begin", "consume"} : \E h : cur' = Step(op, r, h)
    BY <1>2, <1>6
  <1>7. CASE MarkHandoffBlocked(r, PlannerRefusal(rows[r])) /\ Done(r) /\ UNCHANGED cur
    BY <1>3, <1>4, <1>7
  <1>8. CASE Activate(r)
    <2>1. CASE MarkHandoffBlocked(r, "commit") /\ Done(r) /\ UNCHANGED cur
      BY <1>3, <2>1
    <2>2. CASE UNCHANGED <<rows, todo>> /\ \E h : cur' = Step("begin", r, h)
      BY <1>6, <2>2
    <2> QED BY <1>8, <2>1, <2>2 DEF Activate
  <1> QED BY <1>5, <1>6, <1>7, <1>8 DEF Offer

LEMMA BeginStep ==
  ASSUME IInv, Begin
  PROVE  IInv' /\ Kept
  <1>1. pc = "handoffs" /\ cur.id \in todo /\ Pending(cur.id) /\ UNCHANGED <<broker, pc>>
    BY DEF Begin, IInv, TickWell
  <1>2. CASE MarkHandoffBlocked(cur.id, "busy") /\ Done(cur.id) /\ cur' = NoStep
    <2>1. RowsWell' /\ OneActive' /\ BrokerRows' /\ Kept /\ \A x : Pending(x) => Pending(x)'
      BY <1>1, <1>2, HandoffBlocked
    <2>2. TickWell'
      BY <1>1, <1>2, <2>1, HandoffTick DEF Done
    <2> QED BY <2>1, <2>2 DEF IInv
  <1>3. CASE cur' = Step("note", cur.id, 0) /\ UNCHANGED <<rows, todo>>
    BY <1>1, <1>3, Untouched, HandoffTick, Unmoved DEF IInv
  <1> QED BY <1>2, <1>3 DEF Begin

LEMMA ConsumeStep ==
  ASSUME IInv, Consume
  PROVE  IInv' /\ Kept
  <1> DEFINE r == cur.id
  <1>1. pc = "handoffs" /\ r \in todo /\ Pending(r) /\ UNCHANGED <<broker, pc>> /\ cur' = NoStep /\ Done(r)
    BY DEF Consume, roles, IInv, TickWell
  <1>2. DOMAIN rows[r] = Fields /\ r \in DOMAIN rows
    BY <1>1 DEF IInv, RowsWell, Pending
  <1>3. /\ DOMAIN rows' = DOMAIN rows /\ \A x \in DOMAIN rows : x # r => rows'[x] = rows[x]
        /\ rows'[r] = [rows[r] EXCEPT !.consumed = TRUE, !.b = Now]
    BY <1>2 DEF Consume
  <1>4. DOMAIN rows'[r] = Fields /\ rows'[r].state = rows[r].state /\ rows'[r].why = rows[r].why
    BY <1>2, <1>3 DEF Fields
  <1>5. RowsWell' /\ OneActive' /\ BrokerRows' /\ Kept /\ \A x : Pending(x) => Pending(x)'
    BY <1>1, <1>3, <1>4, Amended DEF Pending
  <1>6. TickWell'
    BY <1>1, <1>5, HandoffTick DEF Done
  <1> QED BY <1>5, <1>6 DEF IInv

LEMMA SpawnStep ==
  ASSUME IInv, Spawn
  PROVE  IInv' /\ Kept
  <1> DEFINE r == cur.id
  <1>1. /\ r \in DOMAIN rows /\ rows[r].state = "launching" /\ rows[r].why = "" /\ DOMAIN rows[r] = Fields
        /\ DOMAIN cur = {"op", "id", "head"} /\ UNCHANGED <<broker, pc, todo>> /\ pc # "auto"
    BY NoStepIs DEF Spawn, roles, IInv, TickWell, RowsWell
  <1>2. DOMAIN cur' = {"op", "id", "head"} /\ cur'.op \in {"", "mark"}
    BY <1>1, NoStepIs DEF Spawn
  <1>3. CASE UNCHANGED rows
    <2>1. TickWell'
      BY <1>1, <1>2, <1>3 DEF IInv, TickWell, Pending, Replayable
    <2> QED BY <1>1, <1>3, <2>1, Unmoved DEF IInv
  <1>4. CASE rows' = [rows EXCEPT ![r].state = "blocked", ![r].why = "obligation"]
    <2>1. /\ DOMAIN rows' = DOMAIN rows /\ \A x \in DOMAIN rows : x # r => rows'[x] = rows[x]
          /\ rows'[r] = [rows[r] EXCEPT !.state = "blocked", !.why = "obligation"]
      BY <1>1, <1>4
    <2>2. DOMAIN rows'[r] = Fields /\ rows'[r].state = "blocked" /\ rows'[r].why = "obligation"
      BY <1>1, <2>1 DEF Fields
    <2>3. RowsWell'
      BY <2>1, <2>2 DEF IInv, RowsWell
    <2>4. OneActive'
      BY <2>1, <2>2 DEF IInv, OneActive, ActiveRows, Active
    <2>5. BrokerRows'
      BY <1>1, <2>1 DEF IInv, BrokerRows, Known
    <2>6. Kept
      BY <2>1, <2>2 DEF Kept, Ended
    <2>7. (\A x : Pending(x) => Pending(x)') /\ (\A x : Replayable(x) => Replayable(x)')
      BY <1>1, <2>1 DEF Pending, Replayable
    <2>8. TickWell'
      BY <1>1, <1>2, <2>7 DEF IInv, TickWell
    <2> QED BY <2>3, <2>4, <2>5, <2>6, <2>8 DEF IInv
  <1> QED BY <1>3, <1>4 DEF Spawn

\* Where launches are made: nothing is open, and then at most the launch itself.
LEMMA LaunchTick ==
  ASSUME IInv, NEW id, cur = NoStep, pc' \notin {"handoffs", "auto"}, pc' = "decisions" => \A x \in todo' : Replayable(x)',
         \/ cur' = cur
         \/ cur' = Step("spawn", id, 0) /\ id \in DOMAIN rows' /\ rows'[id].state = "launching" /\ rows'[id].why = ""
  PROVE  TickWell'
  <1>1. CASE cur' = cur
    BY <1>1, NoStepIs DEF TickWell
  <1>2. CASE cur' = Step("spawn", id, 0) /\ id \in DOMAIN rows' /\ rows'[id].state = "launching" /\ rows'[id].why = ""
    <2>1. DOMAIN cur' = {"op", "id", "head"} /\ cur'.op = "spawn" /\ cur'.id = id
      BY <1>2 DEF Step
    <2> QED BY <1>2, <2>1 DEF TickWell
  <1> QED BY <1>1, <1>2

LEMMA ResumePlanStep ==
  ASSUME IInv, NEW r \in todo, ResumePlan(r)
  PROVE  IInv' /\ Kept
  <1>1. pc = "plans" /\ cur = NoStep /\ UNCHANGED <<broker, pc>>
    BY DEF ResumePlan
  <1>2. CASE UNCHANGED <<rows, cur>>
    BY <1>1, <1>2, Unmoved, LaunchTick DEF IInv
  <1>3. ASSUME NEW e, NEW t, Block(e, "control", t, "unresolved"), UNCHANGED cur
        PROVE  IInv' /\ Kept
    BY <1>1, <1>3, Blocks, LaunchTick DEF IInv
  <1>4. ASSUME NEW e, NEW t, NEW h, Launch(e, "control", t, h, 0)
        PROVE  IInv' /\ Kept
    BY <1>1, <1>4, Launches, LaunchTick DEF IInv
  <1> QED BY <1>2, <1>3, <1>4 DEF ResumePlan, ledger

LEMMA AutoReadyStep ==
  ASSUME IInv, AutoReady
  PROVE  IInv' /\ Kept
  <1> DEFINE id == ReadyId(raw.task, repo.head)
  <1>1. pc' = "again" /\ cur = NoStep /\ UNCHANGED broker
    BY DEF AutoReady, IInv, TickWell
  <1>2. CASE UNCHANGED <<rows, cur>>
    BY <1>1, <1>2, Unmoved, LaunchTick DEF IInv
  <1>3. CASE Launch(id, "ready", raw.task, repo.head, 0)
    BY <1>1, <1>3, Launches, LaunchTick DEF IInv
  <1> QED BY <1>2, <1>3 DEF AutoReady

LEMMA ActuateStep ==
  ASSUME IInv, NEW id \in todo, Actuate(id)
  PROVE  IInv' /\ Kept
  <1>1. /\ pc = "decisions" /\ cur = NoStep /\ UNCHANGED <<broker, pc>> /\ todo' = todo \ {id}
        /\ \A x \in todo : Replayable(x)
    BY DEF Actuate, Done, IInv, TickWell
  <1>2. ASSUME Spares(id), RowsWell' /\ OneActive' /\ BrokerRows' /\ Kept,
               \/ cur' = cur
               \/ cur' = Step("spawn", id, 0) /\ id \in DOMAIN rows' /\ rows'[id].state = "launching" /\ rows'[id].why = ""
        PROVE  IInv' /\ Kept
    BY <1>1, <1>2, LaunchTick DEF IInv, Spares
  <1>3. ASSUME UNCHANGED <<rows, cur>> PROVE IInv' /\ Kept
    BY <1>1, <1>2, <1>3, Unmoved DEF Spares, Replayable
  <1>4. ASSUME NEW v, rows' = Put(rows, id, v), DOMAIN v = Fields, v.state \in {"handoff", "settled"}, v.why = "", UNCHANGED cur
        PROVE  IInv' /\ Kept
    BY <1>1, <1>2, <1>4, Written DEF Active
  <1>5. ASSUME NEW to, NEW staged, RecordHandoff(id, to, staged), UNCHANGED cur
        PROVE  IInv' /\ Kept
    <2>1. CASE UNCHANGED rows
      BY <1>3, <1>5, <2>1
    <2>2. CASE rows' # rows
      <3>1. PICK t, tid :
              rows' = Put(rows, id, [Row EXCEPT !.state = "handoff", !.task = t, !.to = to, !.tid = tid, !.staged = staged,
                                                !.ready = raw.status = "ready", !.head = repo.head, !.m = Now, !.b = Now])
        BY <1>5, <2>2 DEF RecordHandoff
      <3> DEFINE v == [Row EXCEPT !.state = "handoff", !.task = t, !.to = to, !.tid = tid, !.staged = staged,
                                  !.ready = raw.status = "ready", !.head = repo.head, !.m = Now, !.b = Now]
      <3>2. DOMAIN v = Fields /\ v.state = "handoff" /\ v.why = ""
        BY RowFields DEF Fields
      <3> QED BY <1>4, <1>5, <3>1, <3>2
    <2> QED BY <2>1, <2>2
  <1>6. ASSUME RecordSettled(id), UNCHANGED cur
        PROVE  IInv' /\ Kept
    <2> DEFINE v == [Row EXCEPT !.state = "settled", !.task = dec[id].task, !.m = Now, !.b = Now]
    <2>1. DOMAIN v = Fields /\ v.state = "settled" /\ v.why = "" /\ rows' = Put(rows, id, v)
      BY <1>6, RowFields DEF Fields, RecordSettled
    <2> QED BY <1>4, <1>6, <2>1
  <1>7. ASSUME NEW k, NEW t, NEW why, Block(id, k, t, why), UNCHANGED cur
        PROVE  IInv' /\ Kept
    BY <1>1, <1>2, <1>7, Blocks
  <1>8. ASSUME NEW k, NEW t, NEW h, NEW d, Launch(id, k, t, h, d)
        PROVE  IInv' /\ Kept
    BY <1>1, <1>2, <1>8, Launches
  <1>9. CASE ActuateNext(id)
    BY <1>5, <1>6, <1>7, <1>8, <1>9 DEF ActuateNext
  <1>10. CASE ActuateRemediation(id)
    BY <1>7, <1>8, <1>10 DEF ActuateRemediation
  <1> QED BY <1>9, <1>10 DEF Actuate

--------------------------------------------------------------------------------
(* The threads, the Broker and restarts. *)

\* A step of an active row that is started, or ends.
LEMMA Progressed ==
  ASSUME IInv, NEW w, Spawned(w), UNCHANGED tick, NEW s, rows[w].state \in {"launching", "running"},
         DOMAIN rows' = DOMAIN rows, \A x \in DOMAIN rows : x # w => rows'[x] = rows[x],
         DOMAIN rows'[w] = Fields, rows'[w].state = s, rows'[w].why = rows[w].why,
         s \in {"running", "completed", "failed"}
  PROVE  RowsWell' /\ OneActive' /\ TickWell' /\ Kept
  <1>1. w \in DOMAIN rows /\ rows[w].why \notin {"obligation", "state"} /\ w \in ActiveRows
    BY DEF Spawned, ActiveRows, IInv, RowsWell
  <1>2. RowsWell'
    BY <1>1 DEF IInv, RowsWell
  <1>3. OneActive'
    BY <1>1 DEF IInv, OneActive, ActiveRows
  <1>4. (\A x : Pending(x) => Pending(x)') /\ (\A x : Replayable(x) => Replayable(x)')
    BY <1>1 DEF Pending, Replayable
  <1>5. TickWell'
    BY <1>4 DEF IInv, TickWell, Spawned, tick
  <1>6. Kept
    BY <1>1 DEF Kept, Ended
  <1> QED BY <1>2, <1>3, <1>5, <1>6

LEMMA StartWorkerStep ==
  ASSUME IInv, NEW w, StartWorker(w)
  PROVE  IInv' /\ Kept
  <1>1. Spawned(w) /\ w \in DOMAIN rows /\ rows[w].state = "launching" /\ DOMAIN rows[w] = Fields /\ UNCHANGED tick
    BY DEF StartWorker, Spawned, ActiveRows, IInv, RowsWell
  <1>2. /\ DOMAIN rows' = DOMAIN rows /\ \A x \in DOMAIN rows : x # w => rows'[x] = rows[x]
        /\ rows'[w] = [rows[w] EXCEPT !.state = "running"]
    BY <1>1 DEF StartWorker
  <1>3. DOMAIN rows'[w] = Fields /\ rows'[w].state = "running" /\ rows'[w].why = rows[w].why
    BY <1>1, <1>2 DEF Fields
  <1>4. RowsWell' /\ OneActive' /\ TickWell' /\ Kept
    BY <1>1, <1>2, <1>3, Progressed
  <1>5. BrokerRows'
    <2>1. broker' = Put(broker, w, "running")
      BY DEF StartWorker
    <2>2. DOMAIN broker' = DOMAIN broker \cup {w} /\ \A x \in DOMAIN broker : x # w => broker'[x] = broker[x]
      BY <2>1 DEF Put
    <2> QED BY <1>1, <1>2, <1>3, <2>2 DEF IInv, BrokerRows, Known
  <1> QED BY <1>4, <1>5 DEF IInv

LEMMA WorkerRecordsStep ==
  ASSUME IInv, NEW w, WorkerRecords(w)
  PROVE  IInv' /\ Kept
  <1>1. /\ Spawned(w) /\ w \in DOMAIN rows /\ rows[w].state = "running" /\ DOMAIN rows[w] = Fields /\ UNCHANGED <<tick, broker>>
        /\ broker[w] \in {"succeeded", "failed"}
    BY DEF WorkerRecords, Spawned, ActiveRows, IInv, RowsWell
  <1>2. PICK s \in {"completed", "failed"} :
          /\ DOMAIN rows' = DOMAIN rows /\ \A x \in DOMAIN rows : x # w => rows'[x] = rows[x]
          /\ DOMAIN rows'[w] = Fields /\ rows'[w].state = s /\ rows'[w].why = rows[w].why
    <2>1. CASE rows' = [rows EXCEPT ![w].state = "completed", ![w].c = Now]
      <3>1. /\ DOMAIN rows' = DOMAIN rows /\ \A x \in DOMAIN rows : x # w => rows'[x] = rows[x]
            /\ rows'[w] = [rows[w] EXCEPT !.state = "completed", !.c = Now]
        BY <1>1, <2>1
      <3> QED BY <1>1, <3>1 DEF Fields
    <2>2. CASE rows' = [rows EXCEPT ![w].state = "failed"]
      <3>1. /\ DOMAIN rows' = DOMAIN rows /\ \A x \in DOMAIN rows : x # w => rows'[x] = rows[x]
            /\ rows'[w] = [rows[w] EXCEPT !.state = "failed"]
        BY <1>1, <2>2
      <3> QED BY <1>1, <3>1 DEF Fields
    <2> QED BY <2>1, <2>2 DEF WorkerRecords
  <1>3. RowsWell' /\ OneActive' /\ TickWell' /\ Kept
    BY <1>1, <1>2, Progressed
  <1>4. BrokerRows'
    BY <1>1, <1>2 DEF IInv, BrokerRows, Known
  <1> QED BY <1>3, <1>4 DEF IInv

\* The Broker's own steps end executions, or let them work.
LEMMA BrokerStep ==
  ASSUME IInv, NEW w \in DOMAIN broker, BrokerWork(w) \/ BrokerEnds(w)
  PROVE  IInv' /\ Kept
  <1>1. UNCHANGED <<rows, tick>> /\ broker[w] \in {"running", "worked"}
    BY DEF BrokerWork, BrokerEnds, ledger
  <1>2. DOMAIN broker' = DOMAIN broker /\ \A x \in DOMAIN broker : broker'[x] \in {"running", "worked"} => broker[x] \in {"running", "worked"}
    BY <1>1 DEF BrokerWork, BrokerEnds
  <1>3. BrokerRows'
    BY <1>1, <1>2 DEF IInv, BrokerRows, Known
  <1>4. RowsWell' /\ OneActive' /\ Kept
    BY <1>1 DEF IInv, RowsWell, OneActive, ActiveRows, Kept, Ended
  <1>5. TickWell'
    BY <1>1 DEF IInv, TickWell, Pending, Replayable, tick
  <1> QED BY <1>3, <1>4, <1>5 DEF IInv

LEMMA RoleStep ==
  ASSUME IInv, (\E v \in DOMAIN reviews : Reviewer(v)) \/ (\E r \in DOMAIN plans : Planner(r)) \/ OthersCommit
  PROVE  IInv' /\ Kept
  <1>1. UNCHANGED <<rows, broker, tick>>
    BY DEF Reviewer, Decide, FinishReview, Planner, ApprovePlan, ApplyPlan, RecordReady, OthersCommit, ledger
  <1> QED BY <1>1, Elsewhere

LEMMA CrashRestartStep ==
  ASSUME IInv, CrashRestart
  PROVE  IInv' /\ Kept
  <1>1. /\ rows' = [id \in DOMAIN rows |-> Recovered(id)] /\ UNCHANGED broker
        /\ Enter("idle", {})
    BY DEF CrashRestart
  <1>2. ASSUME NEW id \in DOMAIN rows
        PROVE  /\ DOMAIN Recovered(id) = Fields /\ Recovered(id).why = rows[id].why /\ Recovered(id).state \notin Active
               /\ id \notin ActiveRows => Recovered(id) = rows[id]
               /\ id \in ActiveRows => Recovered(id).state \in {"completed", "failed", "recovery_required"}
               /\ id \in ActiveRows /\ id \in DOMAIN broker /\ broker[id] \in {"running", "worked"} => Recovered(id).state = "recovery_required"
    <2>1. DOMAIN rows[id] = Fields
      BY DEF IInv, RowsWell
    <2>2. CASE id \notin ActiveRows
      BY <2>1, <2>2 DEF Recovered, ActiveRows
    <2>3. CASE id \in ActiveRows
      BY <2>1, <2>3 DEF Recovered, Fields, Active
    <2> QED BY <2>2, <2>3
  <1>3. RowsWell'
    BY <1>1, <1>2 DEF IInv, RowsWell, ActiveRows, Active
  <1>4. OneActive'
    BY <1>1, <1>2 DEF OneActive, ActiveRows
  <1>5. BrokerRows'
    BY <1>1, <1>2 DEF IInv, BrokerRows, Known, ActiveRows, Active
  <1>6. TickWell'
    BY <1>1, NoStepIs DEF Enter, TickWell
  <1>7. Kept
    BY <1>1, <1>2 DEF Kept, Ended
  <1> QED BY <1>3, <1>4, <1>5, <1>6, <1>7 DEF IInv

--------------------------------------------------------------------------------

\* One step for each action of Next.
LEMMA Inductive ==
  ASSUME IInv, [Next]_vars
  PROVE  IInv' /\ Kept
  <1>1. CASE UNCHANGED vars
    BY <1>1, Elsewhere DEF vars, ledger
  <1>2. CASE Tick
    <2>1. CASE Monitor \/ Reconcile \/ NextPhase \/ Spawn \/ MarkPlan
      BY <2>1, MonitorStep, ReconcileStep, NextPhaseStep, SpawnStep, MarkPlanStep
    <2>2. CASE Begin \/ WriteHistory \/ Consume \/ Review \/ AutoReady
      BY <2>2, BeginStep, WriteHistoryStep, ConsumeStep, ReviewStep, AutoReadyStep
    <2>3. CASE \E id \in todo : ResumePlan(id) \/ Reopen(id) \/ Offer(id) \/ Actuate(id)
      BY <2>3, ResumePlanStep, ReopenStep, OfferStep, ActuateStep
    <2> QED BY <1>2, <2>1, <2>2, <2>3 DEF Tick
  <1>3. CASE Threads
    BY <1>3, StartWorkerStep, WorkerRecordsStep, BrokerStep, RoleStep DEF Threads, Worker
  <1>4. CASE OthersCommit \/ CrashRestart
    BY <1>4, RoleStep, CrashRestartStep
  <1> QED BY <1>1, <1>2, <1>3, <1>4 DEF Next

\* The rows, the Broker's executions and the tick's lists go together in every state.
THEOREM Invariance == Spec => []IInv
  <1>1. IInv /\ [Next]_vars => IInv'
    BY Inductive
  <1> QED BY InitIInv, <1>1, PTL DEF Spec

\* Of the executions that were not given up at a restart at most one is under way in the
\* Broker: decisions, approved plans and ready tasks launch behind one fence.
AloneUnlessGivenUp ==
  \A v, w \in Working : rows[v].state # "recovery_required" /\ rows[w].state # "recovery_required" => v = w

\* The one-execution fence of _launch_aibroker holds over decisions, plans and ready tasks together.
THEOREM Alone == Spec => []AloneUnlessGivenUp
  <1>1. IInv => AloneUnlessGivenUp
    BY DEF IInv, AloneUnlessGivenUp, Working, BrokerRows, Known, OneActive, ActiveRows, Active
  <1> QED BY Invariance, <1>1, PTL

\* No decision, plan or ready task runs a second time under its request (_launch_aibroker,
\* _recover_interrupted_runs): the row of an ended execution stays ended.
THEOREM NeverReplayed == Spec => RunNeverReplayed
  <1>1. IInv /\ [Next]_vars => [\A id \in DOMAIN rows : Ended(id) => id \in DOMAIN rows' /\ Ended(id)']_vars
    BY Inductive DEF Kept
  <1> QED BY Invariance, <1>1, PTL DEF Spec, RunNeverReplayed

--------------------------------------------------------------------------------
(* What the tasks, plans, transitions and consumed handoffs have to do with each *)
(* other: the tick takes a task from one of them and writes it to another.       *)

Planned(t) == t = 1 \/ \E r \in DOMAIN plans : plans[r].task = t

Edge(k) == k # None /\ k[3] \in Nat
EdgeTo(k, t) == Edge(k) /\ k[2] = t

Started(x) == rows[x].n # 0 \/ rows[x].state \in Active \cup {"completed"}

\* A handoff, or one that may be opened again.
Handed(x) == rows[x].state = "handoff" \/ rows[x].why \in {"moved", "dirty"}

\* The row of a handoff that no launch or refusal writes over.
Lasts(x) == x \in DOMAIN rows /\ rows[x].why # "state" /\ rows[x].tid # None

\* Only planned tasks are worked on; a handoff has an edge to its target, and is consumed after
\* its history is written.
RowsLinked ==
  \A x \in DOMAIN rows :
    /\ Started(x) => Planned(rows[x].task)
    /\ Handed(x) => rows[x].tid # None
    /\ rows[x].tid # None => EdgeTo(rows[x].tid, rows[x].to)
    /\ rows[x].consumed => x \in history

ReviewFields == {"state", "task", "worker", "head", "dirty"}
PlanFields == {"state", "task", "head", "ready", "n"}

\* Reviews and decisions are about planned tasks; a plan is of a handoff, and for its target.
RolesLinked ==
  /\ \A v \in DOMAIN reviews : DOMAIN reviews[v] = ReviewFields /\ Planned(reviews[v].task)
  /\ \A v \in DOMAIN dec : Planned(dec[v].task)
  /\ \A r \in DOMAIN plans : DOMAIN plans[r] = PlanFields /\ Lasts(r) /\ rows[r].to = plans[r].task
  /\ history \subseteq DOMAIN plans

\* Transition k was published with a consumed handoff.
Backed(k) == \E r \in history : rows[r].consumed /\ rows[r].tid = k

TransLinked ==
  \A k \in DOMAIN trans : Edge(k) /\ (trans[k] \in {"published", "completed"} => Backed(k))

AuthFields == {"task", "lc", "gate", "gen", "tid", "seen"}

\* The authority is on a planned task, in the generation of a consumed handoff.
AuthLinked ==
  /\ DOMAIN auth = AuthFields /\ Planned(auth.task) /\ auth.gen \in Nat
  /\ auth.gen # 0 => \E k : Backed(k) /\ k[3] = auth.gen

\* The handoff in the tick's hands has its plan before its history, and that before it is consumed.
HandsLinked ==
  /\ pc = "handoffs" => \A r \in todo : Lasts(r)
  /\ pc = "decisions" => todo \subseteq DOMAIN dec
  /\ cur.op \in {"note", "consume"} => cur.id \in DOMAIN plans
  /\ cur.op = "consume" => cur.id \in history

Linked == RowsLinked /\ RolesLinked /\ TransLinked /\ AuthLinked /\ HandsLinked

\* What every step keeps of handoffs, plans and history.
RowsLast ==
  \A x : Lasts(x) => /\ Lasts(x)' /\ rows'[x].to = rows[x].to /\ rows'[x].tid = rows[x].tid
                     /\ rows[x].consumed => rows'[x].consumed
PlansLast ==
  /\ \A r \in DOMAIN plans : r \in DOMAIN plans' /\ plans'[r].task = plans[r].task /\ DOMAIN plans'[r] = PlanFields
  /\ history \subseteq history'

\* Where a step leads, and what it keeps.
Advance == Linked' /\ RowsLast /\ PlansLast

LEMMA InitLinked == Init => Linked
  <1> SUFFICES ASSUME Init PROVE Linked
    OBVIOUS
  <1>1. history = {} /\ cur.op = "" /\ pc = "idle"
    BY NoStepIs DEF Init
  <1>2. DOMAIN rows = {} /\ DOMAIN trans = {} /\ DOMAIN reviews = {} /\ DOMAIN plans = {} /\ DOMAIN dec = {}
    <2>1. DOMAIN <<>> = {}
      OBVIOUS
    <2> QED BY <2>1, Zenon DEF Init
  <1>3. DOMAIN auth = AuthFields /\ auth.task = 1 /\ auth.gen = 0
    BY Zenon DEF Init, AuthFields
  <1>4. RowsLinked
    BY <1>2, Zenon DEF RowsLinked
  <1>5. RolesLinked
    BY <1>1, <1>2, Zenon DEF RolesLinked
  <1>6. TransLinked
    BY <1>2, Zenon DEF TransLinked
  <1>7. AuthLinked
    BY <1>3 DEF AuthLinked, Planned
  <1>8. HandsLinked
    BY <1>1 DEF HandsLinked
  <1> QED BY <1>4, <1>5, <1>6, <1>7, <1>8 DEF Linked

LEMMA PlannedLasts == ASSUME PlansLast, NEW t, Planned(t) PROVE Planned(t)'
  BY DEF PlansLast, Planned

PlannedNext(t) == t = 1 \/ \E r \in DOMAIN plans' : plans'[r].task = t

LEMMA PlannedNow == ASSUME PlansLast, NEW t, Planned(t) PROVE PlannedNext(t)
  BY DEF PlansLast, Planned, PlannedNext

LEMMA BackedLasts == ASSUME Linked, RowsLast, PlansLast, NEW k, Backed(k) PROVE Backed(k)'
  <1>1. PICK r \in history : rows[r].consumed /\ rows[r].tid = k
    BY DEF Backed
  <1>2. Lasts(r) /\ r \in history'
    BY DEF Linked, RolesLinked, PlansLast
  <1> QED BY <1>1, <1>2 DEF RowsLast, Backed

\* What a published transition leads to has a plan.
LEMMA BackedPlanned ==
  ASSUME Linked, NEW k, Backed(k)
  PROVE  Planned(k[2]) /\ k[3] \in Nat
  <1>1. PICK r \in history : rows[r].consumed /\ rows[r].tid = k
    BY DEF Backed
  <1>2. r \in DOMAIN plans /\ rows[r].to = plans[r].task /\ EdgeTo(k, rows[r].to)
    BY <1>1 DEF Linked, RolesLinked, RowsLinked, Lasts
  <1> QED BY <1>2 DEF EdgeTo, Edge, Planned

\* How a row may change in place.
Amends(x) ==
  /\ rows'[x].task = rows[x].task /\ rows'[x].n = rows[x].n /\ rows'[x].to = rows[x].to /\ rows'[x].tid = rows[x].tid
  /\ rows'[x].state \in Active \cup {"completed"} => Started(x)
  /\ rows'[x].state = "handoff" \/ rows'[x].why \in {"moved", "dirty"} => rows[x].tid # None
  /\ rows'[x].why = "state" => rows[x].why = "state"
  /\ rows'[x].consumed => rows[x].consumed \/ x \in history
  /\ rows[x].consumed => rows'[x].consumed

LEMMA RowsAmended ==
  ASSUME Linked, PlansLast, DOMAIN rows' = DOMAIN rows, \A x \in DOMAIN rows : Amends(x)
  PROVE  RowsLast /\ RowsLinked'
  <1>1. RowsLast
    BY DEF RowsLast, Lasts, Amends
  <1>2. ASSUME NEW x \in DOMAIN rows
        PROVE  /\ Started(x)' => Planned(rows[x].task)
               /\ Handed(x)' => rows[x].tid # None
               /\ rows[x].tid # None => EdgeTo(rows[x].tid, rows[x].to)
               /\ rows'[x].consumed => x \in history'
    BY DEF Linked, RowsLinked, Amends, Started, Handed, PlansLast
  <1>3. ASSUME NEW x \in DOMAIN rows
        PROVE  rows'[x].task = rows[x].task /\ rows'[x].to = rows[x].to /\ rows'[x].tid = rows[x].tid
    BY DEF Amends
  <1> QED BY <1>1, <1>2, <1>3, PlannedLasts DEF RowsLinked, EdgeTo

LEMMA RowsUnchanged ==
  ASSUME Linked, PlansLast, UNCHANGED rows
  PROVE  RowsLast /\ RowsLinked'
  <1>1. \A x \in DOMAIN rows : Amends(x)
    BY DEF Linked, RowsLinked, Amends, Started, Handed
  <1> QED BY <1>1, RowsAmended

\* A row that may be written for a request.
Fits(v) ==
  /\ v.n # 0 \/ v.state \in Active \cup {"completed"} => Planned(v.task)
  /\ v.state = "handoff" \/ v.why \in {"moved", "dirty"} => v.tid # None
  /\ v.tid # None => EdgeTo(v.tid, v.to)
  /\ ~v.consumed

LEMMA RowsWritten ==
  ASSUME Linked, PlansLast, NEW id, NEW v, Replayable(id), rows' = Put(rows, id, v), Fits(v)
  PROVE  RowsLast /\ RowsLinked'
  <1>1. /\ DOMAIN rows' = DOMAIN rows \cup {id} /\ rows'[id] = v
        /\ \A x \in DOMAIN rows : x # id => rows'[x] = rows[x]
    BY DEF Put
  <1>2. RowsLast
    BY <1>1 DEF RowsLast, Lasts, Replayable
  <1>3. ASSUME NEW x \in DOMAIN rows'
        PROVE  /\ Started(x)' => Planned(rows'[x].task)
               /\ Handed(x)' => rows'[x].tid # None
               /\ rows'[x].tid # None => EdgeTo(rows'[x].tid, rows'[x].to)
               /\ rows'[x].consumed => x \in history'
    BY <1>1 DEF Linked, RowsLinked, Fits, Started, Handed, PlansLast
  <1> QED BY <1>2, <1>3, PlannedLasts DEF RowsLinked, EdgeTo

--------------------------------------------------------------------------------
(* The parts of Linked, from what a step says of the ledgers. *)

LEMMA PlansUnchanged == ASSUME Linked, UNCHANGED <<plans, history>> PROVE PlansLast
  BY DEF Linked, RolesLinked, PlansLast

AuthFrom ==
  /\ DOMAIN auth' = AuthFields /\ Planned(auth'.task)
  /\ auth'.gen = auth.gen \/ \E k : Backed(k) /\ k[3] = auth'.gen
TransFrom == \A k \in DOMAIN trans' : Edge(k) /\ (trans'[k] \in {"published", "completed"} => Backed(k))
RolesFrom ==
  /\ \A v \in DOMAIN reviews' : DOMAIN reviews'[v] = ReviewFields /\ Planned(reviews'[v].task)
  /\ DOMAIN dec \subseteq DOMAIN dec' /\ \A v \in DOMAIN dec' : Planned(dec'[v].task)
  /\ PlansLast /\ DOMAIN plans' = DOMAIN plans /\ UNCHANGED history
HandsFrom ==
  /\ pc' \in {"handoffs", "decisions"} => pc' = pc /\ todo' \subseteq todo
  /\ cur' = cur \/ cur'.op \notin {"note", "consume"}

LEMMA Links ==
  ASSUME Linked, RowsLast, RowsLinked', AuthFrom, TransFrom, RolesFrom, HandsFrom
  PROVE  Advance
  <1>0. PlansLast
    BY DEF RolesFrom
  <1>1. RolesLinked'
    <2>1. \A v \in DOMAIN reviews' : DOMAIN reviews'[v] = ReviewFields /\ PlannedNext(reviews'[v].task)
      BY <1>0, PlannedNow DEF RolesFrom
    <2>2. \A v \in DOMAIN dec' : PlannedNext(dec'[v].task)
      BY <1>0, PlannedNow DEF RolesFrom
    <2>3. \A r \in DOMAIN plans' : DOMAIN plans'[r] = PlanFields /\ Lasts(r)' /\ rows'[r].to = plans'[r].task
      BY DEF RolesFrom, PlansLast, RowsLast, Linked, RolesLinked
    <2>4. history' \subseteq DOMAIN plans'
      BY DEF RolesFrom, Linked, RolesLinked
    <2> QED BY <2>1, <2>2, <2>3, <2>4 DEF RolesLinked, Planned, PlannedNext
  <1>2. TransLinked'
    BY <1>0, BackedLasts DEF TransFrom, TransLinked
  <1>3. AuthLinked'
    <2>1. PlannedNext(auth'.task)
      BY <1>0, PlannedNow DEF AuthFrom
    <2>2. auth'.gen \in Nat /\ (auth'.gen # 0 => \E k : Backed(k) /\ k[3] = auth'.gen)
      BY BackedPlanned DEF AuthFrom, Linked, AuthLinked
    <2>3. auth'.gen # 0 => \E k : Backed(k)' /\ k[3] = auth'.gen
      BY <1>0, <2>2, BackedLasts
    <2> QED BY <2>1, <2>2, <2>3 DEF AuthLinked, AuthFrom, Planned, PlannedNext
  <1>4. HandsLinked'
    BY DEF HandsFrom, HandsLinked, RolesFrom, Linked, RowsLast
  <1> QED BY <1>0, <1>1, <1>2, <1>3, <1>4 DEF Linked, Advance

LEMMA AuthSame == ASSUME Linked, UNCHANGED auth PROVE AuthFrom
  BY DEF Linked, AuthLinked, AuthFrom
LEMMA TransSame == ASSUME Linked, UNCHANGED trans PROVE TransFrom
  BY DEF Linked, TransLinked, TransFrom
LEMMA RolesSame == ASSUME Linked, UNCHANGED roles PROVE RolesFrom
  BY PlansUnchanged DEF Linked, RolesLinked, RolesFrom, roles

\* A step of the threads that leaves the ledger alone.
LEMMA LedgerSame ==
  ASSUME Linked, UNCHANGED ledger, RolesFrom, HandsFrom
  PROVE  Advance
  <1>1. RowsLast /\ RowsLinked'
    BY RowsUnchanged DEF RolesFrom, ledger
  <1> QED BY <1>1, AuthSame, TransSame, Links DEF ledger

--------------------------------------------------------------------------------
(* Operators of the steps. *)

LEMMA Joined ==
  ASSUME NEW f, NEW k, NEW v
  PROVE  LET g == Join(f, [x \in {k} |-> v])
         IN /\ DOMAIN g = DOMAIN f \cup {k} /\ \A x \in DOMAIN f : g[x] = f[x]
            /\ k \notin DOMAIN f => g[k] = v
  BY DEF Join

LEMMA PutIs ==
  ASSUME NEW f, NEW k, NEW v
  PROVE  /\ DOMAIN Put(f, k, v) = DOMAIN f \cup {k} /\ Put(f, k, v)[k] = v
         /\ \A x \in DOMAIN f : x # k => Put(f, k, v)[x] = f[x]
  BY DEF Put

LEMMA TripleIs == ASSUME NEW a, NEW b, NEW g \in Nat PROVE EdgeTo(<<a, b, g>>, b) /\ Edge(<<a, b, g>>)
  <1>1. <<a, b, g>> # <<>>
    OBVIOUS
  <1>2. <<a, b, g>>[2] = b /\ <<a, b, g>>[3] = g
    OBVIOUS
  <1> QED BY <1>1, <1>2 DEF EdgeTo, Edge, None

\* Of some transitions there is one of the least generation.
LEMMA LeastExists ==
  ASSUME NEW S, S # {}, \A k \in S : k[3] \in Nat
  PROVE  \E k \in S : \A j \in S : k[3] <= j[3]
  <1> DEFINE G == {k[3] : k \in S}
             R == OpToRel(<, Nat)
  <1>1. IsWellFoundedOn(R, Nat)
    BY NatLessThanWellFounded
  <1>2. G \subseteq Nat /\ G # {}
    OBVIOUS
  <1> HIDE DEF G, R
  <1>3. PICK g \in G : \A y \in G : <<y, g>> \notin R
    BY <1>1, <1>2, WFMin
  <1>4. \A y \in G : ~(y < g)
    BY <1>2, <1>3 DEF R, OpToRel
  <1>5. \A y \in G : g <= y
    BY <1>2, <1>4
  <1> QED BY <1>5 DEF G

LEMMA RowIs ==
  /\ DOMAIN Row = Fields /\ Row.n = 0 /\ Row.state = "blocked" /\ Row.tid = None /\ Row.consumed = FALSE
  /\ Row.why = "" /\ Row.task = 0
  BY DEF Row, Fields

LEMMA RefusedFits ==
  ASSUME NEW k, NEW t, NEW why, why \notin {"moved", "dirty"}
  PROVE  Fits([Row EXCEPT !.kind = k, !.task = t, !.why = why])
  <1> DEFINE v == [Row EXCEPT !.kind = k, !.task = t, !.why = why]
  <1>1. v.n = 0 /\ v.state = "blocked" /\ v.why = why /\ v.tid = None /\ ~v.consumed
    BY RowIs DEF Fields
  <1> HIDE DEF v
  <1>2. Fits(v)
    BY <1>1 DEF Fits, Active
  <1> QED BY <1>2 DEF v

\* A transition is written that is not published by that.
LEMMA TransWritten ==
  ASSUME Linked, NEW k, Edge(k), DOMAIN trans' = DOMAIN trans \cup {k},
         \A x \in DOMAIN trans : x # k => trans'[x] = trans[x],
         trans'[k] \in {"published", "completed"} => k \in DOMAIN trans /\ trans'[k] = trans[k]
  PROVE  TransFrom
  <1> SUFFICES ASSUME NEW x \in DOMAIN trans'
               PROVE  Edge(x) /\ (trans'[x] \in {"published", "completed"} => Backed(x))
    BY DEF TransFrom
  <1>1. CASE x \in DOMAIN trans /\ trans'[x] = trans[x]
    BY <1>1 DEF Linked, TransLinked
  <1>2. CASE x = k /\ trans'[x] \notin {"published", "completed"}
    BY <1>2
  <1> QED BY <1>1, <1>2

LEMMA BlockLinks ==
  ASSUME Linked, PlansLast, NEW id, NEW k, NEW t, NEW why, Block(id, k, t, why), why \notin {"moved", "dirty"}
  PROVE  RowsLast /\ RowsLinked'
  <1>1. CASE id \in DOMAIN rows
    BY <1>1, RowsUnchanged DEF Block
  <1>2. CASE id \notin DOMAIN rows
    BY <1>2, RefusedFits, RowsWritten DEF Block, Replayable
  <1> QED BY <1>1, <1>2

LEMMA AuthKept ==
  ASSUME Linked, DOMAIN auth' = AuthFields, auth'.gen = auth.gen, Planned(auth'.task)
  PROVE  AuthFrom
  BY DEF AuthFrom

LEMMA AuthState ==
  ASSUME Linked, NEW s, auth' = [auth EXCEPT !.lc = s]
  PROVE  AuthFrom
  <1>1. DOMAIN auth = AuthFields
    BY DEF Linked, AuthLinked
  <1>2. DOMAIN auth' = AuthFields /\ auth'.gen = auth.gen /\ auth'.task = auth.task
    BY <1>1 DEF AuthFields
  <1> QED BY <1>2 DEF Linked, AuthLinked, AuthFrom

\* A launch that is not refused is for the authority's task.
LEMMA RefusalIs ==
  ASSUME NEW k, NEW t, NEW h
  PROVE  Refusal(k, t, h) \notin {"moved", "dirty"} /\ (Refusal(k, t, h) = "" => auth.task = t)
  BY DEF Refusal

LEMMA LaunchLinks ==
  ASSUME Linked, PlansLast, NEW id, NEW k, NEW t, NEW h, NEW d, Launch(id, k, t, h, d)
  PROVE  RowsLast /\ RowsLinked' /\ AuthFrom
  <1> DEFINE why == Refusal(k, t, h)
             launching == [Row EXCEPT !.kind = k, !.task = t, !.state = "launching", !.head = h, !.n = Now, !.depth = d]
             refused == [Row EXCEPT !.kind = k, !.task = t, !.why = why]
  <1>1. CASE Replayable(id) /\ why = ""
    <2>1. rows' = Put(rows, id, launching) /\ auth' = [auth EXCEPT !.lc = "EXECUTING"]
      BY <1>1 DEF Launch
    <2>2. /\ launching.state = "launching" /\ launching.why = "" /\ launching.tid = None /\ ~launching.consumed
          /\ launching.task = t
      BY RowIs DEF Fields
    <2>3. Planned(t)
      BY <1>1, RefusalIs DEF Linked, AuthLinked
    <2>4. Fits(launching)
      <3> HIDE DEF launching
      <3> QED BY <2>2, <2>3 DEF Fits
    <2>5. RowsLast /\ RowsLinked'
      <3> HIDE DEF launching
      <3> QED BY <1>1, <2>1, <2>4, RowsWritten
    <2> QED BY <2>1, <2>5, AuthState
  <1>2. CASE Replayable(id) /\ why # "" /\ why # "changed"
    <2>1. rows' = Put(rows, id, refused) /\ auth' = auth
      BY <1>2 DEF Launch
    <2>2. Fits(refused)
      BY RefusalIs, RefusedFits
    <2> QED BY <1>2, <2>1, <2>2, RowsWritten, AuthSame
  <1>3. CASE ~Replayable(id) \/ why = "changed"
    BY <1>3, BlockLinks, RefusalIs, AuthSame DEF Launch
  <1> QED BY <1>1, <1>2, <1>3

--------------------------------------------------------------------------------
(* Reconciling the authority. *)

LEMMA OwnersPlanned ==
  ASSUME Linked, NEW t \in OwnerTasks
  PROVE  Planned(t)
  <1>1. CASE \E id \in ActiveRows \cup Obligations : t = rows[id].task
    BY <1>1 DEF Linked, RowsLinked, ActiveRows, Obligations, Uncovered, Started
  <1>2. CASE \E v \in RunningReviews : t = reviews[v].task
    BY <1>2 DEF Linked, RolesLinked, RunningReviews
  <1>3. CASE \E r \in RunningPlans : t = plans[r].task
    BY <1>3 DEF RunningPlans, Planned
  <1> QED BY <1>1, <1>2, <1>3 DEF OwnerTasks

LEMMA GatedIs ==
  ASSUME NEW a, DOMAIN a = AuthFields
  PROVE  DOMAIN Gated(a) = AuthFields /\ Gated(a).task = a.task /\ Gated(a).gen = a.gen
  BY DEF Gated, AuthFields

LEMMA AtRestIs ==
  ASSUME NEW a, DOMAIN a = AuthFields
  PROVE  DOMAIN AtRest(a) = AuthFields /\ AtRest(a).task = a.task /\ AtRest(a).gen = a.gen
  <1>1. CASE a.task # raw.task \/ a.gate # ""
    BY <1>1, GatedIs DEF AtRest
  <1>2. CASE ~(a.task # raw.task \/ a.gate # "")
    <2>1. PICK l, g : AtRest(a) = Gated([a EXCEPT !.lc = l, !.gate = g])
      BY <1>2 DEF AtRest
    <2>2. /\ DOMAIN [a EXCEPT !.lc = l, !.gate = g] = AuthFields
          /\ [a EXCEPT !.lc = l, !.gate = g].task = a.task /\ [a EXCEPT !.lc = l, !.gate = g].gen = a.gen
      BY DEF AuthFields
    <2> QED BY <2>1, <2>2, GatedIs
  <1> QED BY <1>1, <1>2

LEMMA ReconcileLinks ==
  ASSUME Linked, \/ ReconcileSettled \/ ReconcileSpread \/ ReconcileOwned
                 \/ ReconcileAtRest \/ ReconcileFollows \/ ReconcileProjection \/ ReconcileStrayed
  PROVE  AuthFrom /\ TransFrom
  <1>0. DOMAIN auth = AuthFields /\ Planned(auth.task) /\ auth.gen \in Nat
    BY DEF Linked, AuthLinked
  <1>1. ASSUME NEW a, DOMAIN a = AuthFields, a.task = auth.task, a.gen = auth.gen, auth' = Gated(a)
        PROVE  AuthFrom
    BY <1>0, <1>1, GatedIs, AuthKept
  <1>2. CASE ReconcileSettled
    <2>1. DOMAIN [auth EXCEPT !.lc = "COMPLETE"] = AuthFields
          /\ [auth EXCEPT !.lc = "COMPLETE"].task = auth.task /\ [auth EXCEPT !.lc = "COMPLETE"].gen = auth.gen
      BY <1>0 DEF AuthFields
    <2> QED BY <1>1, <1>2, <2>1, TransSame DEF ReconcileSettled
  <1>3. CASE ReconcileSpread \/ ReconcileStrayed
    <2>1. PICK g : auth' = Gated([auth EXCEPT !.gate = g])
      BY <1>3 DEF ReconcileSpread, ReconcileStrayed
    <2>2. DOMAIN [auth EXCEPT !.gate = g] = AuthFields
          /\ [auth EXCEPT !.gate = g].task = auth.task /\ [auth EXCEPT !.gate = g].gen = auth.gen
      BY <1>0 DEF AuthFields
    <2> QED BY <1>1, <1>3, <2>1, <2>2, TransSame DEF ReconcileSpread, ReconcileStrayed
  <1>4. CASE ReconcileOwned
    <2>1. PICK t, l, g, tid :
            /\ OwnerTasks = {t} /\ tid = <<t, raw.task, auth.gen + 1>>
            /\ \/ /\ auth' = Gated([[auth EXCEPT !.task = t, !.lc = l, !.gate = g] EXCEPT !.tid = tid])
                  /\ trans' = Join(trans, [k \in {tid} |-> "waiting_source"])
               \/ auth' = Gated([auth EXCEPT !.task = t, !.lc = l, !.gate = g]) /\ UNCHANGED trans
      BY <1>4 DEF ReconcileOwned
    <2>2. Planned(t)
      BY <2>1, OwnersPlanned
    <2> DEFINE a == [auth EXCEPT !.task = t, !.lc = l, !.gate = g]
               b == [a EXCEPT !.tid = tid]
    <2>3. DOMAIN a = AuthFields /\ a.task = t /\ a.gen = auth.gen
      BY <1>0 DEF AuthFields
    <2>4. DOMAIN b = AuthFields /\ b.task = t /\ b.gen = auth.gen
      <3> HIDE DEF a
      <3> QED BY <2>3 DEF AuthFields
    <2>5. auth' = Gated(a) \/ auth' = Gated(b)
      BY <2>1
    <2> HIDE DEF a, b
    <2>6. AuthFrom
      BY <2>2, <2>3, <2>4, <2>5, GatedIs, AuthKept
    <2>7. TransFrom
      <3>1. Edge(tid)
        BY <1>0, <2>1, TripleIs
      <3>2. CASE UNCHANGED trans
        BY <3>2, TransSame
      <3>3. CASE trans' = Join(trans, [k \in {tid} |-> "waiting_source"])
        <4>1. DOMAIN trans' = DOMAIN trans \cup {tid} /\ (\A x \in DOMAIN trans : trans'[x] = trans[x])
              /\ (tid \notin DOMAIN trans => trans'[tid] = "waiting_source")
          BY <3>3 DEF Join
        <4> QED BY <3>1, <4>1, TransWritten
      <3> QED BY <2>1, <3>2, <3>3
    <2> QED BY <2>6, <2>7
  <1>5. CASE ReconcileAtRest
    BY <1>0, <1>5, AtRestIs, AuthKept, TransSame DEF ReconcileAtRest
  <1>6. CASE ReconcileFollows
    <2>1. PICK k \in Latest(Published, LAMBDA j : j[3]) :
            /\ trans' = [trans EXCEPT ![k] = "completed"]
            /\ auth' = AtRest([auth EXCEPT !.gen = k[3], !.task = raw.task, !.tid = k, !.gate = ""])
      BY <1>6 DEF ReconcileFollows
    <2>2. k \in DOMAIN trans /\ k[2] = raw.task /\ trans[k] \in {"published", "completed"}
      BY DEF Latest, Published, Matching
    <2>3. Backed(k) /\ Planned(raw.task)
      BY <2>2, BackedPlanned DEF Linked, TransLinked
    <2> DEFINE a == [auth EXCEPT !.gen = k[3], !.task = raw.task, !.tid = k, !.gate = ""]
    <2>4. DOMAIN a = AuthFields /\ a.task = raw.task /\ a.gen = k[3] /\ auth' = AtRest(a)
      BY <1>0, <2>1 DEF AuthFields
    <2> HIDE DEF a
    <2>5. AuthFrom
      BY <2>3, <2>4, AtRestIs DEF AuthFrom
    <2>6. TransFrom
      BY <2>1, <2>2, <2>3 DEF Linked, TransLinked, TransFrom
    <2> QED BY <2>5, <2>6
  <1>7. CASE ReconcileProjection
    <2>1. PICK k, s : /\ k \in Matching \/ k = <<auth.task, raw.task, auth.gen + 1>>
                      /\ s = IF k \notin Matching \/ trans[k] = "waiting_source" THEN "intent" ELSE trans[k]
                      /\ trans' = Put(trans, k, s)
                      /\ auth' = Gated([auth EXCEPT !.tid = k, !.lc = "TRANSITIONING"])
      BY <1>7 DEF ReconcileProjection, Latest
    <2>2. DOMAIN [auth EXCEPT !.tid = k, !.lc = "TRANSITIONING"] = AuthFields
          /\ [auth EXCEPT !.tid = k, !.lc = "TRANSITIONING"].task = auth.task
          /\ [auth EXCEPT !.tid = k, !.lc = "TRANSITIONING"].gen = auth.gen
      BY <1>0 DEF AuthFields
    <2>3. AuthFrom
      BY <1>1, <2>1, <2>2
    <2>4. Edge(k)
      BY <1>0, <2>1, TripleIs DEF Matching, Linked, TransLinked
    <2>5. s \notin {"published", "completed"}
      BY <1>7, <2>1 DEF ReconcileProjection, Published
    <2>6. TransFrom
      <3>1. DOMAIN trans' = DOMAIN trans \cup {k} /\ trans'[k] = s /\ \A x \in DOMAIN trans : x # k => trans'[x] = trans[x]
        <4>1. trans' = Put(trans, k, s)
          BY <2>1
        <4> QED BY <4>1 DEF Put
      <3> QED BY <2>4, <2>5, <3>1, TransWritten
    <2> QED BY <2>3, <2>6
  <1> QED BY <1>2, <1>3, <1>4, <1>5, <1>6, <1>7

--------------------------------------------------------------------------------
(* The tick. *)

LEMMA Reconciled == ASSUME Linked, Reconcile PROVE Advance
  <1>1. UNCHANGED <<rows, roles>> /\ (Enter("control", {}) \/ Enter("idle", {}))
    BY DEF Reconcile
  <1>2. AuthFrom /\ TransFrom
    BY ReconcileLinks DEF Reconcile
  <1>3. RolesFrom /\ PlansLast
    BY <1>1, RolesSame DEF RolesFrom
  <1>4. RowsLast /\ RowsLinked'
    BY <1>1, <1>3, RowsUnchanged
  <1>5. HandsFrom
    BY <1>1, NoStepIs DEF Enter, HandsFrom
  <1> QED BY <1>2, <1>3, <1>4, <1>5, Links

\* Steps that only take the tick on, except into the handoffs.
LEMMA TickMoves ==
  ASSUME Linked, UNCHANGED <<ledger, roles>>, HandsFrom
  PROVE  Advance
  BY RolesSame, LedgerSame

LEMMA NextPhaseLinks ==
  ASSUME IInv, Linked, NextPhase
  PROVE  Advance
  <1>1. UNCHANGED <<ledger, roles>>
    BY DEF NextPhase
  <1>2. CASE Enter("plans", ReadyPlans) \/ Enter("review", {}) \/ Enter("auto", {})
    <2>1. HandsFrom
      BY <1>2, NoStepIs DEF Enter, HandsFrom
    <2> QED BY <1>1, <2>1, TickMoves
  <1>3. CASE Enter("handoffs", Handoffs) \/ Enter("decisions", Owed)
    <2>1. UNCHANGED <<rows, trans, auth, reviews, plans, history, dec>>
      BY <1>1 DEF ledger, roles
    <2>2. \A r \in Handoffs : Lasts(r)
      BY DEF IInv, RowsWell, Handoffs, Refused, Lasts, Linked, RowsLinked, Handed
    <2>3. pc' = "handoffs" => \A r \in todo' : Lasts(r)'
      BY <1>3, <2>1, <2>2 DEF Enter, Lasts
    <2>4. HandsLinked'
      BY <1>3, <2>1, <2>3, NoStepIs DEF Enter, HandsLinked, Owed
    <2>5. RowsLinked' /\ RolesLinked' /\ TransLinked' /\ AuthLinked'
      BY <2>1 DEF Linked, RowsLinked, RolesLinked, TransLinked, AuthLinked, Started, Handed, Lasts, Backed, Planned
    <2>6. RowsLast /\ PlansLast
      BY <2>1, PlansUnchanged, RowsUnchanged
    <2> QED BY <2>4, <2>5, <2>6 DEF Linked, Advance
  <1> QED BY <1>2, <1>3 DEF NextPhase, ToHandoffs, ToReview

LEMMA MonitorLinks == ASSUME Linked, Monitor PROVE Advance
  <1>1. HandsFrom
    BY NoStepIs DEF Monitor, Enter, HandsFrom
  <1> QED BY <1>1, TickMoves DEF Monitor

\* A plan changes its state.
LEMMA PlanState ==
  ASSUME Linked, NEW r, NEW f, plans' = [plans EXCEPT ![r] = f], DOMAIN f = PlanFields, f.task = plans[r].task,
         UNCHANGED <<reviews, history, dec>>
  PROVE  RolesFrom
  BY DEF Linked, RolesLinked, RolesFrom, PlansLast

LEMMA PlanOnly ==
  ASSUME Linked, NEW r, NEW s, plans' = [plans EXCEPT ![r].state = s], UNCHANGED <<reviews, history, dec>>
  PROVE  RolesFrom
  <1>1. CASE r \in DOMAIN plans
    <2> DEFINE f == [plans[r] EXCEPT !.state = s]
    <2>1. DOMAIN f = PlanFields /\ f.task = plans[r].task
      BY <1>1 DEF Linked, RolesLinked, PlanFields
    <2>2. plans' = [plans EXCEPT ![r] = f]
      OBVIOUS
    <2> HIDE DEF f
    <2> QED BY <2>1, <2>2, PlanState
  <1>2. CASE r \notin DOMAIN plans
    <2>1. DOMAIN plans' = DOMAIN plans /\ \A x \in DOMAIN plans : plans'[x] = plans[x]
      BY <1>2
    <2> QED BY <2>1 DEF Linked, RolesLinked, RolesFrom, PlansLast
  <1> QED BY <1>1, <1>2

LEMMA MarkPlanLinks == ASSUME Linked, MarkPlan PROVE Advance
  <1>1. PICK s : plans' = [plans EXCEPT ![cur.id[2]].state = s]
    BY DEF MarkPlan
  <1>2. UNCHANGED <<ledger, reviews, history, dec, pc, todo>> /\ cur' = NoStep
    BY DEF MarkPlan
  <1>3. RolesFrom
    BY <1>1, <1>2, PlanOnly
  <1>4. HandsFrom
    BY <1>2, NoStepIs DEF HandsFrom
  <1> QED BY <1>2, <1>3, <1>4, LedgerSame

\* Rows of executions change in place: only the state, why, the completion and the barrier's stamp.
LEMMA InPlace ==
  ASSUME IInv, Linked, PlansLast, NEW w \in DOMAIN rows,
         DOMAIN rows' = DOMAIN rows, \A x \in DOMAIN rows : x # w => rows'[x] = rows[x], Amends(w)
  PROVE  RowsLast /\ RowsLinked'
  <1>1. \A x \in DOMAIN rows : Amends(x)
    BY DEF Linked, RowsLinked, Amends, Started, Handed
  <1> QED BY <1>1, RowsAmended

LEMMA SpawnLinks ==
  ASSUME IInv, Linked, Spawn
  PROVE  Advance
  <1> DEFINE w == cur.id
  <1>1. /\ w \in DOMAIN rows /\ rows[w].state = "launching" /\ rows[w].why = "" /\ DOMAIN rows[w] = Fields
        /\ DOMAIN cur = {"op", "id", "head"} /\ UNCHANGED <<trans, auth, roles, pc, todo>>
    BY DEF Spawn, IInv, TickWell, RowsWell
  <1>2. cur'.op \in {"", "mark"}
    BY <1>1, NoStepIs DEF Spawn
  <1>3. HandsFrom
    BY <1>1, <1>2 DEF HandsFrom
  <1>4. RolesFrom /\ PlansLast
    BY <1>1, RolesSame DEF RolesFrom
  <1>5. RowsLast /\ RowsLinked'
    <2>1. CASE UNCHANGED rows
      BY <1>4, <2>1, RowsUnchanged
    <2>2. CASE rows' = [rows EXCEPT ![w].state = "blocked", ![w].why = "obligation"]
      <3>1. /\ DOMAIN rows' = DOMAIN rows /\ \A x \in DOMAIN rows : x # w => rows'[x] = rows[x]
            /\ rows'[w] = [rows[w] EXCEPT !.state = "blocked", !.why = "obligation"]
        BY <1>1, <2>2
      <3>2. /\ rows'[w].state = "blocked" /\ rows'[w].why = "obligation" /\ rows'[w].task = rows[w].task
            /\ rows'[w].n = rows[w].n /\ rows'[w].to = rows[w].to /\ rows'[w].tid = rows[w].tid
            /\ rows'[w].consumed = rows[w].consumed
        BY <1>1, <3>1 DEF Fields
      <3>3. Amends(w)
        BY <3>2 DEF Amends, Active
      <3> QED BY <1>1, <1>4, <3>1, <3>3, InPlace
    <2> QED BY <2>1, <2>2 DEF Spawn
  <1> QED BY <1>1, <1>3, <1>4, <1>5, AuthSame, TransSame, Links

LEMMA ResumePlanLinks ==
  ASSUME Linked, NEW r \in todo, ResumePlan(r)
  PROVE  Advance
  <1>1. pc = "plans" /\ cur = NoStep /\ UNCHANGED <<reviews, history, dec, pc>>
    BY DEF ResumePlan
  <1>2. CASE UNCHANGED <<ledger, plans, cur>>
    BY <1>1, <1>2, TickMoves DEF HandsFrom, roles
  <1>3. ASSUME plans' = [plans EXCEPT ![r].state = "failed"] \/ plans' = plans, UNCHANGED trans,
               NEW e, NEW t, \/ Block(e, "control", t, "unresolved") /\ UNCHANGED <<auth, cur>>
                             \/ \E h : Launch(e, "control", t, h, 0)
        PROVE  Advance
    <2>1. RolesFrom /\ PlansLast
      BY <1>1, <1>3, PlanOnly, RolesSame DEF RolesFrom, roles
    <2>2. RowsLast /\ RowsLinked' /\ AuthFrom
      BY <1>3, <2>1, BlockLinks, LaunchLinks, AuthSame
    <2>3. cur' = cur \/ \E x : cur' = Step("spawn", x, 0)
      BY <1>3 DEF Launch
    <2>4. HandsFrom
      BY <1>1, <2>3 DEF HandsFrom, Step
    <2> QED BY <1>3, <2>1, <2>2, <2>4, TransSame, Links
  <1>4. CASE Eligible(r)
    <2>1. plans' = [plans EXCEPT ![r].state = "failed"] \/ plans' = plans
      BY <1>4 DEF ResumePlan
    <2>2. /\ UNCHANGED trans
          /\ \/ Block(ExecuteId(r), "control", over.task, "unresolved") /\ UNCHANGED <<auth, cur>>
             \/ Launch(ExecuteId(r), "control", over.task, repo.head, 0)
      BY <1>4 DEF ResumePlan
    <2> QED BY <1>3, <2>1, <2>2
  <1> QED BY <1>2, <1>4 DEF ResumePlan

LEMMA AutoReadyLinks ==
  ASSUME Linked, AutoReady
  PROVE  Advance
  <1>1. pc' = "again" /\ UNCHANGED <<trans, roles, todo>>
    BY DEF AutoReady
  <1>2. RolesFrom /\ PlansLast
    BY <1>1, RolesSame DEF RolesFrom
  <1>3. \/ UNCHANGED <<rows, auth, cur>>
        \/ Launch(ReadyId(raw.task, repo.head), "ready", raw.task, repo.head, 0)
    BY DEF AutoReady
  <1>4. RowsLast /\ RowsLinked' /\ AuthFrom
    BY <1>2, <1>3, RowsUnchanged, AuthSame, LaunchLinks
  <1>5. cur' = cur \/ \E x : cur' = Step("spawn", x, 0)
    BY <1>3 DEF Launch
  <1>6. HandsFrom
    BY <1>1, <1>5 DEF HandsFrom, Step
  <1> QED BY <1>1, <1>2, <1>4, <1>6, TransSame, Links

\* A handoff is refused or opened again: its row and its transition, which is not published by that.
LEMMA HandoffChanges ==
  ASSUME IInv, Linked, NEW r \in DOMAIN rows, rows[r].tid # None,
         DOMAIN rows' = DOMAIN rows, \A x \in DOMAIN rows : x # r => rows'[x] = rows[x],
         DOMAIN trans' = DOMAIN trans,
         \A k \in DOMAIN trans : trans'[k] = trans[k] \/ trans'[k] \notin {"published", "completed"},
         rows'[r].task = rows[r].task, rows'[r].n = rows[r].n, rows'[r].to = rows[r].to,
         rows'[r].tid = rows[r].tid, rows'[r].consumed = rows[r].consumed,
         rows'[r].state \in {"handoff", "blocked"}, rows'[r].why # "state", UNCHANGED roles, UNCHANGED auth
  PROVE  RowsLast /\ RowsLinked' /\ AuthFrom /\ TransFrom /\ RolesFrom
  <1>1. RolesFrom /\ PlansLast
    BY RolesSame DEF RolesFrom
  <1>2. Amends(r)
    BY DEF Amends, Active
  <1>3. RowsLast /\ RowsLinked'
    BY <1>1, <1>2, InPlace
  <1>4. TransFrom
    BY DEF Linked, TransLinked, TransFrom
  <1> QED BY <1>1, <1>3, <1>4, AuthSame

LEMMA Refusing ==
  ASSUME IInv, Linked, NEW r, Lasts(r), NEW why, why # "state", MarkHandoffBlocked(r, why), UNCHANGED <<roles, auth>>
  PROVE  RowsLast /\ RowsLinked' /\ AuthFrom /\ TransFrom /\ RolesFrom
  <1>1. r \in DOMAIN rows /\ DOMAIN rows[r] = Fields /\ rows[r].tid # None
    BY DEF IInv, RowsWell, Lasts
  <1>2. /\ DOMAIN rows' = DOMAIN rows /\ \A x \in DOMAIN rows : x # r => rows'[x] = rows[x]
        /\ rows'[r] = [rows[r] EXCEPT !.state = "blocked", !.why = why]
    BY <1>1 DEF MarkHandoffBlocked
  <1>3. /\ rows'[r].task = rows[r].task /\ rows'[r].n = rows[r].n /\ rows'[r].to = rows[r].to
        /\ rows'[r].tid = rows[r].tid /\ rows'[r].consumed = rows[r].consumed
        /\ rows'[r].state = "blocked" /\ rows'[r].why = why
    BY <1>1, <1>2 DEF Fields
  <1>4. /\ DOMAIN trans' = DOMAIN trans
        /\ \A k \in DOMAIN trans : trans'[k] = trans[k] \/ trans'[k] \notin {"published", "completed"}
    BY DEF MarkHandoffBlocked
  <1>5. UNCHANGED roles /\ UNCHANGED auth
    OBVIOUS
  <1>6. rows'[r].state \in {"handoff", "blocked"} /\ rows'[r].why # "state"
    BY <1>3
  <1> QED BY <1>1, <1>2, <1>3, <1>4, <1>5, <1>6, HandoffChanges

LEMMA ReopenLinks ==
  ASSUME IInv, Linked, NEW r \in todo, Reopen(r)
  PROVE  Advance
  <1>1. Lasts(r) /\ r \in DOMAIN rows /\ DOMAIN rows[r] = Fields /\ rows[r].tid # None
    BY DEF Reopen, Linked, HandsLinked, IInv, RowsWell, Lasts
  <1>2. UNCHANGED <<auth, roles, cur, pc>> /\ todo' \subseteq todo
    BY DEF Reopen, Done
  <1>3. HandsFrom
    BY <1>2 DEF HandsFrom
  <1>4. CASE UNCHANGED <<rows, trans>>
    BY <1>2, <1>3, <1>4, TickMoves DEF ledger
  <1>5. ASSUME NEW mark, rows' = [rows EXCEPT ![r].state = "handoff", ![r].why = "", ![r].again = @ \cup {mark}],
               trans' = [trans EXCEPT ![rows[r].tid] = "ready"]
        PROVE  Advance
    <2>1. /\ DOMAIN rows' = DOMAIN rows /\ \A x \in DOMAIN rows : x # r => rows'[x] = rows[x]
          /\ rows'[r] = [rows[r] EXCEPT !.state = "handoff", !.why = "", !.again = @ \cup {mark}]
      BY <1>1, <1>5
    <2>2. /\ rows'[r].task = rows[r].task /\ rows'[r].n = rows[r].n /\ rows'[r].to = rows[r].to
          /\ rows'[r].tid = rows[r].tid /\ rows'[r].consumed = rows[r].consumed
          /\ rows'[r].state \in {"handoff", "blocked"} /\ rows'[r].why # "state"
      BY <1>1, <2>1 DEF Fields
    <2>3. /\ DOMAIN trans' = DOMAIN trans
          /\ \A k \in DOMAIN trans : trans'[k] = trans[k] \/ trans'[k] \notin {"published", "completed"}
      BY <1>5
    <2>4. UNCHANGED roles /\ UNCHANGED auth
      BY <1>2
    <2>5. RowsLast /\ RowsLinked' /\ AuthFrom /\ TransFrom /\ RolesFrom
      BY <1>1, <2>1, <2>2, <2>3, <2>4, HandoffChanges
    <2> QED BY <1>3, <2>5, Links
  <1> QED BY <1>4, <1>5 DEF Reopen

LEMMA OfferLinks ==
  ASSUME IInv, Linked, NEW r \in todo, Offer(r)
  PROVE  Advance
  <1>1. Lasts(r) /\ UNCHANGED <<auth, roles, pc>> /\ pc = "handoffs" /\ todo' \subseteq todo /\ cur = NoStep
    BY DEF Offer, Activate, Done, Linked, HandsLinked
  <1>2. CASE UNCHANGED <<rows, trans, cur>>
    <2>1. HandsFrom
      BY <1>1, <1>2 DEF HandsFrom
    <2> QED BY <1>1, <1>2, <2>1, TickMoves DEF ledger
  <1>3. ASSUME NEW h, UNCHANGED <<rows, trans>>, cur' = Step("begin", r, h)
        PROVE  Advance
    <2>1. HandsFrom
      BY <1>1, <1>3 DEF HandsFrom, Step
    <2> QED BY <1>1, <1>3, <2>1, TickMoves DEF ledger
  <1>4. CASE UNCHANGED <<rows, trans>> /\ r \in history /\ cur' = Step("consume", r, 0)
    <2>1. UNCHANGED <<auth, reviews, plans, history, dec>>
      BY <1>1 DEF roles
    <2>2. cur'.op = "consume" /\ cur'.id = r
      BY <1>4 DEF Step
    <2>3. HandsLinked'
      BY <1>1, <1>4, <2>1, <2>2 DEF HandsLinked, Linked, RolesLinked, Lasts
    <2>4. RowsLinked' /\ RolesLinked' /\ TransLinked' /\ AuthLinked'
      BY <1>4, <2>1 DEF Linked, RowsLinked, RolesLinked, TransLinked, AuthLinked, Started, Handed, Lasts, Backed, Planned
    <2>5. RowsLast /\ PlansLast
      BY <1>4, <2>1, PlansUnchanged, RowsUnchanged
    <2> QED BY <2>3, <2>4, <2>5 DEF Linked, Advance
  <1>5. ASSUME NEW why, why # "state", MarkHandoffBlocked(r, why), UNCHANGED cur
        PROVE  Advance
    <2>1. RowsLast /\ RowsLinked' /\ AuthFrom /\ TransFrom /\ RolesFrom
      BY <1>1, <1>5, Refusing
    <2>2. HandsFrom
      BY <1>1, <1>5 DEF HandsFrom
    <2> QED BY <2>1, <2>2, Links
  <1>6. PlannerRefusal(rows[r]) # "state"
    BY DEF PlannerRefusal
  <1>7. CASE Activate(r)
    <2>1. \/ MarkHandoffBlocked(r, "commit") /\ UNCHANGED cur
          \/ UNCHANGED <<rows, trans>> /\ \E h : cur' = Step("begin", r, h)
      BY <1>7 DEF Activate
    <2> QED BY <1>3, <1>5, <2>1
  <1>8. \/ UNCHANGED <<rows, trans, cur>>
        \/ UNCHANGED <<rows, trans>> /\ r \in history /\ cur' = Step("consume", r, 0)
        \/ MarkHandoffBlocked(r, PlannerRefusal(rows[r])) /\ UNCHANGED cur
        \/ Activate(r)
    BY DEF Offer
  <1> QED BY <1>2, <1>4, <1>5, <1>6, <1>7, <1>8

\* The handoff in hand.
LEMMA InHand ==
  ASSUME IInv, Linked, cur.op \in {"begin", "note", "consume"}
  PROVE  pc = "handoffs" /\ cur.id \in todo /\ Lasts(cur.id)
  BY DEF IInv, TickWell, Linked, HandsLinked

LEMMA BeginLinks ==
  ASSUME IInv, Linked, Begin
  PROVE  Advance
  <1> DEFINE r == cur.id
  <1>1. pc = "handoffs" /\ r \in todo /\ Lasts(r) /\ UNCHANGED <<auth, reviews, history, dec, pc>>
    BY InHand DEF Begin
  <1>2. CASE MarkHandoffBlocked(r, "busy") /\ Done(r) /\ cur' = NoStep /\ UNCHANGED plans
    <2>1. RowsLast /\ RowsLinked' /\ AuthFrom /\ TransFrom /\ RolesFrom
      BY <1>1, <1>2, Refusing DEF roles
    <2>2. HandsFrom
      BY <1>1, <1>2, NoStepIs DEF HandsFrom, Done
    <2> QED BY <2>1, <2>2, Links
  <1>3. ASSUME NEW f, f.task = rows[r].to, DOMAIN f = PlanFields, plans' = Join(plans, [x \in {r} |-> f]),
               cur' = Step("note", r, 0), UNCHANGED <<rows, trans, todo>>
        PROVE  Advance
    <2>1. /\ DOMAIN plans' = DOMAIN plans \cup {r} /\ \A x \in DOMAIN plans : plans'[x] = plans[x]
          /\ r \notin DOMAIN plans => plans'[r] = f
      BY <1>3 DEF Join
    <2>2. PlansLast
      BY <1>1, <2>1 DEF Linked, RolesLinked, PlansLast
    <2>3. RowsLast /\ RowsLinked'
      BY <1>3, <2>2, RowsUnchanged
    <2>4. RolesLinked'
      <3>1. \A v \in DOMAIN reviews : Planned(reviews[v].task)'
        BY <1>1, <2>1 DEF Linked, RolesLinked, Planned
      <3>2. \A v \in DOMAIN dec : Planned(dec[v].task)'
        BY <1>1, <2>1 DEF Linked, RolesLinked, Planned
      <3>3. \A x \in DOMAIN plans' : DOMAIN plans'[x] = PlanFields /\ Lasts(x)' /\ rows'[x].to = plans'[x].task
        BY <1>1, <1>3, <2>1 DEF Linked, RolesLinked, Lasts
      <3> QED BY <1>1, <2>1, <3>1, <3>2, <3>3 DEF Linked, RolesLinked
    <2>5. TransLinked'
      BY <1>1, <1>3 DEF Linked, TransLinked, Backed
    <2>6. AuthLinked'
      BY <1>1, <1>3, <2>1 DEF Linked, AuthLinked, Backed, Planned
    <2>7. HandsLinked'
      <3>1. cur'.op = "note" /\ cur'.id = r
        BY <1>3 DEF Step
      <3> QED BY <1>1, <1>3, <2>1, <3>1 DEF Linked, HandsLinked, Lasts
    <2> QED BY <2>2, <2>3, <2>4, <2>5, <2>6, <2>7 DEF Linked, Advance
  <1>4. CASE ~(MarkHandoffBlocked(r, "busy") /\ Done(r) /\ cur' = NoStep /\ UNCHANGED plans)
    <2> DEFINE f == [state |-> "planning", task |-> rows[r].to, head |-> repo.head, ready |-> 0, n |-> Cardinality(DOMAIN plans) + 1]
    <2>1. plans' = Join(plans, [x \in {r} |-> f]) /\ cur' = Step("note", r, 0) /\ UNCHANGED <<rows, trans, todo>>
      BY <1>4 DEF Begin
    <2>2. f.task = rows[r].to /\ DOMAIN f = PlanFields
      BY DEF PlanFields
    <2> HIDE DEF f
    <2> QED BY <1>3, <2>1, <2>2
  <1> QED BY <1>2, <1>4

LEMMA WriteHistoryLinks ==
  ASSUME IInv, Linked, WriteHistory
  PROVE  Advance
  <1> DEFINE r == cur.id
  <1>1. /\ pc = "handoffs" /\ r \in todo /\ Lasts(r) /\ r \in DOMAIN plans
        /\ UNCHANGED <<rows, trans, auth, reviews, plans, dec, pc>>
    BY InHand DEF WriteHistory, ledger, Linked, HandsLinked
  <1>2. CASE Done(r) /\ cur' = NoStep /\ UNCHANGED history
    <2>1. HandsFrom
      BY <1>1, <1>2, NoStepIs DEF HandsFrom, Done
    <2> QED BY <1>1, <1>2, <2>1, TickMoves DEF ledger, roles
  <1>3. CASE history' = history \cup {r} /\ cur' = [cur EXCEPT !.op = "consume"] /\ UNCHANGED todo
    <2>1. PlansLast
      BY <1>1, <1>3 DEF Linked, RolesLinked, PlansLast
    <2>2. RowsLast /\ RowsLinked'
      BY <1>1, <2>1, RowsUnchanged
    <2>3. RolesLinked'
      BY <1>1, <1>3 DEF Linked, RolesLinked, Planned, Lasts
    <2>4. TransLinked' /\ AuthLinked'
      BY <1>1, <1>3 DEF Linked, TransLinked, AuthLinked, Backed, Planned
    <2>5. HandsLinked'
      <3>1. cur'.op = "consume" /\ cur'.id = r
        BY <1>3 DEF IInv, TickWell
      <3> QED BY <1>1, <1>3, <3>1 DEF Linked, HandsLinked, Lasts
    <2> QED BY <2>1, <2>2, <2>3, <2>4, <2>5 DEF Linked, Advance
  <1> QED BY <1>2, <1>3 DEF WriteHistory

LEMMA ConsumeLinks ==
  ASSUME IInv, Linked, Consume
  PROVE  Advance
  <1>0. PICK r, k : r = cur.id /\ k = rows[r].tid
    OBVIOUS
  <1>1. /\ pc = "handoffs" /\ r \in todo /\ Lasts(r) /\ r \in history /\ r \in DOMAIN plans
        /\ UNCHANGED <<roles, pc>> /\ cur' = NoStep /\ todo' \subseteq todo
    BY <1>0, InHand DEF Consume, Done, Linked, HandsLinked
  <1>2. r \in DOMAIN rows /\ DOMAIN rows[r] = Fields /\ rows[r].to = plans[r].task /\ EdgeTo(k, rows[r].to)
    BY <1>0, <1>1 DEF Lasts, IInv, RowsWell, Linked, RolesLinked, RowsLinked
  <1>3. /\ DOMAIN rows' = DOMAIN rows /\ \A x \in DOMAIN rows : x # r => rows'[x] = rows[x]
        /\ rows'[r] = [rows[r] EXCEPT !.consumed = TRUE, !.b = Now]
    BY <1>0, <1>2 DEF Consume
  <1>4. /\ rows'[r].state = rows[r].state /\ rows'[r].why = rows[r].why /\ rows'[r].task = rows[r].task
        /\ rows'[r].n = rows[r].n /\ rows'[r].to = rows[r].to /\ rows'[r].tid = rows[r].tid /\ rows'[r].consumed
    BY <1>2, <1>3 DEF Fields
  <1>5. RolesFrom /\ PlansLast
    BY <1>1, RolesSame DEF RolesFrom
  <1>6. RowsLast /\ RowsLinked'
    <2>1. Amends(r)
      BY <1>1, <1>2, <1>4 DEF Amends, Started, Linked, RowsLinked, Handed
    <2> QED BY <1>2, <1>3, <1>5, <2>1, InPlace
  <1>7. Backed(k)'
    BY <1>0, <1>1, <1>4, <1>5 DEF Backed, PlansLast
  <1>8. Linked'
    <2>1. RolesLinked'
      BY <1>1, <1>6 DEF roles, Linked, RolesLinked, Planned, RowsLast
    <2>2. TransLinked'
      <3>1. trans' = [trans EXCEPT ![k] = "published"]
        BY <1>0 DEF Consume
      <3>2. \A j \in DOMAIN trans : Backed(j) => Backed(j)'
        BY <1>5, <1>6, BackedLasts
      <3> QED BY <1>7, <3>1, <3>2 DEF Linked, TransLinked
    <2>3. AuthLinked'
      <3> DEFINE a == [auth EXCEPT !.gen = k[3], !.task = rows[r].to, !.tid = k, !.lc = "PLANNING", !.gate = ""]
      <3>1. DOMAIN a = AuthFields /\ a.task = rows[r].to /\ a.gen = k[3]
        BY DEF Linked, AuthLinked, AuthFields
      <3>2. auth' = a
        BY <1>0 DEF Consume
      <3>3. k[3] \in Nat
        BY <1>2 DEF EdgeTo, Edge
      <3>4. DOMAIN auth' = AuthFields /\ auth'.task = rows[r].to /\ auth'.gen = k[3]
        BY <3>1, <3>2
      <3>5. auth'.task = plans'[r].task /\ r \in DOMAIN plans'
        BY <1>1, <1>2, <3>4 DEF roles
      <3> HIDE DEF a
      <3> QED BY <1>7, <3>3, <3>4, <3>5 DEF AuthLinked, Planned
    <2>4. HandsLinked'
      <3>1. \A x \in todo : Lasts(x)'
        BY <1>1, <1>6 DEF Linked, HandsLinked, RowsLast
      <3> QED BY <1>1, <3>1, NoStepIs DEF HandsLinked
    <2> QED BY <1>6, <2>1, <2>2, <2>3, <2>4 DEF Linked
  <1> QED BY <1>5, <1>6, <1>8 DEF Advance, RolesFrom

LEMMA HandoffRecorded ==
  ASSUME Linked, PlansLast, NEW id \in DOMAIN dec, NEW to, NEW staged, Replayable(id), RecordHandoff(id, to, staged)
  PROVE  RowsLast /\ RowsLinked' /\ AuthFrom /\ TransFrom
  <1> DEFINE t == dec[id].task
             prior == {k \in DOMAIN trans : k[1] = t /\ k[2] = to}
             waits == SourceBlockers(id, t) # {}
             tid == IF prior = {} THEN <<t, to, auth.gen + 1>> ELSE CHOOSE k \in prior : \A j \in prior : k[3] <= j[3]
  <1>0. Planned(t) /\ auth.gen \in Nat /\ DOMAIN auth = AuthFields
    BY DEF Linked, RolesLinked, AuthLinked
  <1>1.   /\ trans' = Put(trans, tid, IF waits THEN "waiting_source" ELSE "ready")
          /\ auth' = [auth EXCEPT !.task = t, !.tid = tid, !.lc = IF waits THEN "REVIEWING" ELSE "TRANSITIONING"]
          /\ rows' = IF waits THEN rows
                     ELSE Put(rows, id, [Row EXCEPT !.state = "handoff", !.task = t, !.to = to, !.tid = tid, !.staged = staged,
                                                    !.ready = raw.status = "ready", !.head = repo.head, !.m = Now, !.b = Now])
    BY DEF RecordHandoff
  <1>2. EdgeTo(tid, to)
    <2>1. CASE prior = {}
      BY <1>0, <2>1, TripleIs
    <2>2. CASE prior # {}
      <3>1. \A k \in prior : Edge(k) /\ k[2] = to
        BY DEF Linked, TransLinked
      <3>2. \A k \in prior : k[3] \in Nat
        BY <3>1 DEF Edge
      <3>3. \E k \in prior : \A j \in prior : k[3] <= j[3]
        <4> HIDE DEF prior
        <4> QED BY <2>2, <3>2, LeastExists
      <3>4. tid \in prior
        <4> HIDE DEF prior
        <4> QED BY <2>2, <3>3
      <3> QED BY <3>1, <3>4 DEF EdgeTo
    <2> QED BY <2>1, <2>2
  <1> HIDE DEF tid, waits, prior
  <1>3. AuthFrom
    <2> DEFINE a == [auth EXCEPT !.task = t, !.tid = tid, !.lc = IF waits THEN "REVIEWING" ELSE "TRANSITIONING"]
    <2>1. DOMAIN a = AuthFields /\ a.task = t /\ a.gen = auth.gen
      BY <1>0 DEF AuthFields
    <2>2. auth' = a
      BY <1>1
    <2> HIDE DEF a
    <2> QED BY <1>0, <2>1, <2>2, AuthKept
  <1>4. TransFrom
    <2>1. PICK s \in {"waiting_source", "ready"} : trans' = Put(trans, tid, s)
      BY <1>1
    <2>2. /\ DOMAIN trans' = DOMAIN trans \cup {tid} /\ trans'[tid] = s
          /\ \A x \in DOMAIN trans : x # tid => trans'[x] = trans[x]
      BY <2>1 DEF Put
    <2> QED BY <1>2, <2>2, TransWritten DEF EdgeTo
  <1>5. RowsLast /\ RowsLinked'
    <2>1. CASE waits
      BY <1>1, <2>1, RowsUnchanged
    <2>2. CASE ~waits
      <3> DEFINE v == [Row EXCEPT !.state = "handoff", !.task = t, !.to = to, !.tid = tid, !.staged = staged,
                                  !.ready = raw.status = "ready", !.head = repo.head, !.m = Now, !.b = Now]
      <3>1. v.n = 0 /\ v.state = "handoff" /\ v.why = "" /\ v.tid = tid /\ v.to = to /\ ~v.consumed
        BY RowIs DEF Fields
      <3>2. rows' = Put(rows, id, v)
        BY <1>1, <2>2
      <3> HIDE DEF v
      <3>3. Fits(v)
        BY <1>2, <3>1 DEF Fits, Active, EdgeTo, Edge
      <3> QED BY <3>2, <3>3, RowsWritten
    <2> QED BY <2>1, <2>2
  <1> QED BY <1>3, <1>4, <1>5

LEMMA SettledRecorded ==
  ASSUME Linked, PlansLast, NEW id, Replayable(id), RecordSettled(id)
  PROVE  RowsLast /\ RowsLinked' /\ AuthFrom /\ TransFrom
  <1> DEFINE v == [Row EXCEPT !.state = "settled", !.task = dec[id].task, !.m = Now, !.b = Now]
  <1>1. v.n = 0 /\ v.state = "settled" /\ v.why = "" /\ v.tid = None /\ ~v.consumed
    BY RowIs DEF Fields
  <1>2. rows' = Put(rows, id, v) /\ UNCHANGED trans
    BY DEF RecordSettled
  <1>3. AuthFrom
    BY AuthState, AuthSame DEF RecordSettled
  <1> HIDE DEF v
  <1>4. Fits(v)
    BY <1>1 DEF Fits, Active
  <1> QED BY <1>2, <1>3, <1>4, RowsWritten, TransSame

LEMMA ActuateLinks ==
  ASSUME IInv, Linked, NEW id \in todo, Actuate(id)
  PROVE  Advance
  <1>1. /\ pc = "decisions" /\ UNCHANGED <<roles, pc>> /\ todo' \subseteq todo /\ cur = NoStep
        /\ Replayable(id) /\ id \in DOMAIN dec
    BY DEF Actuate, Done, IInv, TickWell, Linked, HandsLinked
  <1>2. RolesFrom /\ PlansLast
    BY <1>1, RolesSame DEF RolesFrom
  <1>3. cur' = cur \/ \E x : cur' = Step("spawn", x, 0)
    BY DEF Actuate, ActuateNext, ActuateRemediation, Launch
  <1>4. HandsFrom
    BY <1>1, <1>3 DEF HandsFrom, Step
  <1>5. ASSUME NEW k, NEW t, NEW why, why \notin {"moved", "dirty"}, Block(id, k, t, why), UNCHANGED <<trans, auth>>
        PROVE  RowsLast /\ RowsLinked' /\ AuthFrom /\ TransFrom
    BY <1>2, <1>5, BlockLinks, AuthSame, TransSame
  <1>6. ASSUME NEW k, NEW t, NEW h, NEW d, Launch(id, k, t, h, d), UNCHANGED trans
        PROVE  RowsLast /\ RowsLinked' /\ AuthFrom /\ TransFrom
    BY <1>2, <1>6, LaunchLinks, TransSame
  <1>7. RowsLast /\ RowsLinked' /\ AuthFrom /\ TransFrom
    <2>1. CASE ActuateNext(id)
      <3>1. \/ \E to, staged : RecordHandoff(id, to, staged)
            \/ RecordSettled(id)
            \/ \E k, t, h, d : Launch(id, k, t, h, d) /\ UNCHANGED trans
            \/ Block(id, "decision", dec[id].task, "truth") /\ UNCHANGED <<trans, auth>>
        BY <2>1 DEF ActuateNext
      <3> QED BY <1>1, <1>2, <1>5, <1>6, <3>1, HandoffRecorded, SettledRecorded
    <2>2. CASE ActuateRemediation(id)
      <3>1. \/ \E k, t, h, d : Launch(id, k, t, h, d) /\ UNCHANGED trans
            \/ \E why \in {"truth", "state"} : Block(id, "remediation", dec[id].task, why) /\ UNCHANGED <<trans, auth>>
        BY <2>2 DEF ActuateRemediation
      <3> QED BY <1>5, <1>6, <3>1
    <2> QED BY <2>1, <2>2 DEF Actuate
  <1> QED BY <1>2, <1>4, <1>7, Links

\* A review is of a completed worker's task.
LEMMA ReviewLinks ==
  ASSUME Linked, Review
  PROVE  Advance
  <1>1. UNCHANGED <<ledger, plans, history, dec>> /\ pc' = "actuate" /\ cur' = NoStep
    BY DEF Review, Enter
  <1>2. PICK last : /\ last \subseteq Completed
                    /\ reviews' = Join(reviews, [v \in {ReviewId(w) : w \in last} |->
                         [state |-> "running", task |-> rows[v[2]].task, worker |-> v[2], head |-> repo.head, dirty |-> repo.dirty]])
    <2>1. Latest(Completed, LAMBDA w : rows[w].c) \subseteq Completed
      BY DEF Latest
    <2> QED BY <2>1 DEF Review, LaunchReview
  <1>3. ASSUME NEW v \in DOMAIN reviews', v \notin DOMAIN reviews
        PROVE  DOMAIN reviews'[v] = ReviewFields /\ Planned(reviews'[v].task)
    <2>1. PICK w \in last : v = ReviewId(w)
      BY <1>2, <1>3 DEF Join
    <2>2. v[2] = w
      BY <2>1 DEF ReviewId
    <2>3. reviews'[v] = [state |-> "running", task |-> rows[w].task, worker |-> w, head |-> repo.head, dirty |-> repo.dirty]
      BY <1>2, <1>3, <2>1, <2>2 DEF Join
    <2>4. DOMAIN reviews'[v] = ReviewFields /\ reviews'[v].task = rows[w].task
      BY <2>3 DEF ReviewFields
    <2>5. Planned(rows[w].task)
      BY <1>2 DEF Completed, Linked, RowsLinked, Started
    <2> QED BY <2>4, <2>5
  <1>4. \A v \in DOMAIN reviews : reviews'[v] = reviews[v]
    BY <1>2 DEF Join
  <1>5. RolesFrom
    BY <1>1, <1>3, <1>4, PlansUnchanged DEF RolesFrom, Linked, RolesLinked
  <1>6. HandsFrom
    BY <1>1, NoStepIs DEF HandsFrom
  <1> QED BY <1>1, <1>5, <1>6, LedgerSame

--------------------------------------------------------------------------------
(* The threads and restarts. *)

LEMMA StartWorkerLinks ==
  ASSUME IInv, Linked, NEW w, StartWorker(w)
  PROVE  Advance
  <1>1. /\ w \in DOMAIN rows /\ rows[w].state = "launching" /\ DOMAIN rows[w] = Fields
        /\ UNCHANGED <<trans, roles, tick>> /\ rows' = [rows EXCEPT ![w].state = "running"]
    BY DEF StartWorker, Spawned, ActiveRows, IInv, RowsWell
  <1>2. /\ DOMAIN rows' = DOMAIN rows /\ \A x \in DOMAIN rows : x # w => rows'[x] = rows[x]
        /\ rows'[w] = [rows[w] EXCEPT !.state = "running"]
    BY <1>1
  <1>3. /\ rows'[w].state = "running" /\ rows'[w].why = rows[w].why /\ rows'[w].task = rows[w].task
        /\ rows'[w].n = rows[w].n /\ rows'[w].to = rows[w].to /\ rows'[w].tid = rows[w].tid
        /\ rows'[w].consumed = rows[w].consumed
    BY <1>1, <1>2 DEF Fields
  <1>4. Amends(w)
    BY <1>1, <1>3 DEF Amends, Started, Active, Linked, RowsLinked, Handed
  <1>5. RolesFrom /\ PlansLast
    BY <1>1, RolesSame DEF RolesFrom
  <1>6. RowsLast /\ RowsLinked'
    BY <1>1, <1>2, <1>4, <1>5, InPlace
  <1>7. AuthFrom
    BY AuthState DEF StartWorker
  <1>8. HandsFrom
    BY <1>1 DEF HandsFrom, tick
  <1> QED BY <1>1, <1>5, <1>6, <1>7, <1>8, TransSame, Links

LEMMA WorkerRecordsLinks ==
  ASSUME IInv, Linked, NEW w, WorkerRecords(w)
  PROVE  Advance
  <1>1. /\ w \in DOMAIN rows /\ rows[w].state = "running" /\ DOMAIN rows[w] = Fields
        /\ UNCHANGED <<trans, roles, tick>>
    BY DEF WorkerRecords, Spawned, ActiveRows, IInv, RowsWell
  <1>2. /\ DOMAIN rows' = DOMAIN rows /\ \A x \in DOMAIN rows : x # w => rows'[x] = rows[x]
        /\ \/ rows'[w] = [rows[w] EXCEPT !.state = "completed", !.c = Now]
           \/ rows'[w] = [rows[w] EXCEPT !.state = "failed"]
    BY <1>1 DEF WorkerRecords
  <1>3. /\ rows'[w].state \in {"completed", "failed"} /\ rows'[w].why = rows[w].why /\ rows'[w].task = rows[w].task
        /\ rows'[w].n = rows[w].n /\ rows'[w].to = rows[w].to /\ rows'[w].tid = rows[w].tid
        /\ rows'[w].consumed = rows[w].consumed
    BY <1>1, <1>2 DEF Fields
  <1>4. Amends(w)
    BY <1>1, <1>3 DEF Amends, Started, Active, Linked, RowsLinked, Handed
  <1>5. RolesFrom /\ PlansLast
    BY <1>1, RolesSame DEF RolesFrom
  <1>6. RowsLast /\ RowsLinked'
    BY <1>1, <1>2, <1>4, <1>5, InPlace
  <1>7. AuthFrom
    BY AuthState DEF WorkerRecords
  <1>8. HandsFrom
    BY <1>1 DEF HandsFrom, tick
  <1> QED BY <1>1, <1>5, <1>6, <1>7, <1>8, TransSame, Links

LEMMA RoleLinks ==
  ASSUME Linked, \/ \E v \in DOMAIN reviews : Reviewer(v)
                 \/ \E r \in DOMAIN plans : Planner(r)
                 \/ \E w \in DOMAIN broker : BrokerWork(w) \/ BrokerEnds(w)
                 \/ OthersCommit
  PROVE  Advance
  <1>1. UNCHANGED <<ledger, history, tick>>
    BY DEF Reviewer, Decide, FinishReview, Planner, ApprovePlan, ApplyPlan, RecordReady, OthersCommit,
           BrokerWork, BrokerEnds, roles
  <1>2. HandsFrom
    BY <1>1 DEF HandsFrom, tick
  <1>3. ASSUME NEW v, NEW s, v \in RunningReviews, reviews' = [reviews EXCEPT ![v].state = s], UNCHANGED <<dec, plans>>
        PROVE  RolesFrom
    <2>1. v \in DOMAIN reviews /\ DOMAIN reviews[v] = ReviewFields
      BY <1>3 DEF RunningReviews, Linked, RolesLinked
    <2>2. /\ DOMAIN reviews' = DOMAIN reviews /\ \A x \in DOMAIN reviews : x # v => reviews'[x] = reviews[x]
          /\ reviews'[v] = [reviews[v] EXCEPT !.state = s]
      BY <1>3, <2>1
    <2>3. DOMAIN reviews'[v] = ReviewFields /\ reviews'[v].task = reviews[v].task
      BY <2>1, <2>2 DEF ReviewFields
    <2>4. PlansLast
      BY <1>1, <1>3, PlansUnchanged
    <2> QED BY <1>1, <1>3, <2>2, <2>3, <2>4 DEF RolesFrom, Linked, RolesLinked
  <1>4. ASSUME NEW v \in RunningReviews, NEW d, d.task = reviews[v].task, dec' = Put(dec, v, d), UNCHANGED <<reviews, plans>>
        PROVE  RolesFrom
    <2>1. Planned(d.task)
      BY <1>4 DEF RunningReviews, Linked, RolesLinked
    <2>2. /\ DOMAIN dec' = DOMAIN dec \cup {v} /\ dec'[v] = d
          /\ \A x \in DOMAIN dec : x # v => dec'[x] = dec[x]
      BY <1>4 DEF Put
    <2>3. PlansLast
      BY <1>1, <1>4, PlansUnchanged
    <2> QED BY <1>1, <1>4, <2>1, <2>2, <2>3 DEF RolesFrom, Linked, RolesLinked
  <1>5. ASSUME NEW v \in DOMAIN reviews, Reviewer(v) PROVE RolesFrom
    <2>1. CASE FinishReview(v)
      BY <1>3, <2>1 DEF FinishReview
    <2>2. CASE Decide(v)
      <3>1. CASE reviews' = [reviews EXCEPT ![v].state = "failed"] /\ UNCHANGED dec
        BY <1>3, <2>2, <3>1 DEF Decide
      <3>2. ASSUME NEW verb, UNCHANGED reviews,
                   dec' = Put(dec, v, [task |-> reviews[v].task, verb |-> verb, head |-> repo.head, dirty |-> repo.dirty,
                                       seq |-> Cardinality(DOMAIN dec) + 1])
            PROVE  RolesFrom
        <4> DEFINE d == [task |-> reviews[v].task, verb |-> verb, head |-> repo.head, dirty |-> repo.dirty,
                         seq |-> Cardinality(DOMAIN dec) + 1]
        <4>1. d.task = reviews[v].task /\ dec' = Put(dec, v, d) /\ v \in RunningReviews /\ UNCHANGED plans
          BY <2>2, <3>2 DEF Decide
        <4> HIDE DEF d
        <4> QED BY <1>4, <3>2, <4>1
      <3> QED BY <2>2, <3>1, <3>2 DEF Decide
    <2> QED BY <1>5, <2>1, <2>2 DEF Reviewer
  <1>6. ASSUME NEW r \in DOMAIN plans, Planner(r) PROVE RolesFrom
    <2>1. UNCHANGED <<reviews, history, dec>>
      BY <1>6 DEF Planner, ApprovePlan, ApplyPlan, RecordReady
    <2>2. CASE \E s : plans' = [plans EXCEPT ![r].state = s]
      BY <2>1, <2>2, PlanOnly
    <2>3. CASE \E s, h : plans' = [plans EXCEPT ![r].state = s, ![r].ready = h]
      <3>1. PICK s, h : plans' = [plans EXCEPT ![r].state = s, ![r].ready = h]
        BY <2>3
      <3>2. /\ DOMAIN plans' = DOMAIN plans /\ \A x \in DOMAIN plans : x # r => plans'[x] = plans[x]
            /\ plans'[r] = [plans[r] EXCEPT !.state = s, !.ready = h]
        BY <3>1
      <3>3. DOMAIN plans'[r] = PlanFields /\ plans'[r].task = plans[r].task
        BY <3>2 DEF Linked, RolesLinked, PlanFields
      <3> QED BY <2>1, <3>2, <3>3 DEF Linked, RolesLinked, RolesFrom, PlansLast
    <2> QED BY <1>6, <2>2, <2>3 DEF Planner, ApprovePlan, ApplyPlan, RecordReady, PlanBecomes
  <1>7. CASE (\E w \in DOMAIN broker : BrokerWork(w) \/ BrokerEnds(w)) \/ OthersCommit
    <2>1. UNCHANGED roles
      BY <1>7 DEF BrokerWork, BrokerEnds, OthersCommit
    <2> QED BY <1>1, <1>2, <2>1, TickMoves
  <1> QED BY <1>1, <1>2, <1>5, <1>6, <1>7, LedgerSame

\* A restart takes the authority from the handoff consumed last.
LEMMA RestartAuth ==
  ASSUME Linked, CrashRestart
  PROVE  AuthFrom /\ auth'.gen >= auth.gen
  <1>0. DOMAIN auth = AuthFields /\ auth.gen \in Nat /\ Planned(auth.task)
    BY DEF Linked, AuthLinked
  <1>1. CASE Consumed = {}
    <2>1. auth' = auth
      BY <1>1 DEF CrashRestart
    <2> QED BY <1>0, <2>1, AuthSame
  <1>2. CASE Consumed # {}
    <2>1. PICK r : /\ r \in Latest(Consumed, LAMBDA x : rows[x].tid[3])
                   /\ auth' = [auth EXCEPT !.gen = rows[r].tid[3], !.task = rows[r].to, !.tid = rows[r].tid]
      BY <1>2 DEF CrashRestart
    <2>2. r \in Consumed /\ \A o \in Consumed : rows[o].tid[3] <= rows[r].tid[3]
      BY <2>1 DEF Latest
    <2>3. r \in DOMAIN rows /\ rows[r].consumed /\ r \in history /\ r \in DOMAIN plans /\ rows[r].to = plans[r].task
      BY <2>2 DEF Consumed, Linked, RowsLinked, RolesLinked
    <2>4. Backed(rows[r].tid) /\ Planned(rows[r].to)
      BY <2>3 DEF Backed, Planned
    <2> DEFINE a == [auth EXCEPT !.gen = rows[r].tid[3], !.task = rows[r].to, !.tid = rows[r].tid]
    <2>5. DOMAIN a = AuthFields /\ a.gen = rows[r].tid[3] /\ a.task = rows[r].to
      BY <1>0 DEF AuthFields
    <2>6. auth' = a
      BY <2>1
    <2>7. AuthFrom
      <3> HIDE DEF a
      <3> QED BY <2>4, <2>5, <2>6 DEF AuthFrom
    <2>8. rows[r].tid[3] \in Nat
      BY <2>4, BackedPlanned
    <2>9. rows[r].tid[3] >= auth.gen
      <3>1. CASE auth.gen = 0
        BY <2>8, <3>1
      <3>2. CASE auth.gen # 0
        <4>1. PICK k : Backed(k) /\ k[3] = auth.gen
          BY <3>2 DEF Linked, AuthLinked
        <4>2. PICK o \in history : rows[o].consumed /\ rows[o].tid = k
          BY <4>1 DEF Backed
        <4>3. o \in Consumed
          BY <4>2 DEF Consumed, Linked, RolesLinked, Lasts
        <4>4. auth.gen <= rows[r].tid[3]
          BY <2>2, <4>1, <4>2, <4>3
        <4> QED BY <1>0, <2>8, <4>4
      <3> QED BY <3>1, <3>2
    <2> HIDE DEF a
    <2>10. auth'.gen = rows[r].tid[3]
      BY <2>5, <2>6
    <2> QED BY <2>7, <2>9, <2>10
  <1> QED BY <1>1, <1>2

LEMMA RestartLinks ==
  ASSUME IInv, Linked, CrashRestart
  PROVE  Advance
  <1>1. /\ rows' = [id \in DOMAIN rows |-> Recovered(id)] /\ Enter("idle", {}) /\ UNCHANGED <<trans, history, dec>>
        /\ reviews' = [v \in DOMAIN reviews |-> IF v \in RunningReviews THEN [reviews[v] EXCEPT !.state = "failed"] ELSE reviews[v]]
        /\ plans' = [r \in DOMAIN plans |-> IF r \in RunningPlans THEN [plans[r] EXCEPT !.state = "recovery_required"] ELSE plans[r]]
    BY DEF CrashRestart
  <1>2. AuthFrom
    BY RestartAuth
  <1>3. PlansLast /\ DOMAIN plans' = DOMAIN plans
    <2>1. DOMAIN plans' = DOMAIN plans
      BY <1>1
    <2>2. ASSUME NEW r \in DOMAIN plans
          PROVE  plans'[r].task = plans[r].task /\ DOMAIN plans'[r] = PlanFields
      <3>1. DOMAIN plans[r] = PlanFields
        BY DEF Linked, RolesLinked
      <3>2. plans'[r] = plans[r] \/ plans'[r] = [plans[r] EXCEPT !.state = "recovery_required"]
        BY <1>1
      <3> QED BY <3>1, <3>2 DEF PlanFields
    <2> QED BY <1>1, <2>1, <2>2 DEF PlansLast
  <1>4. RolesFrom
    <2>1. DOMAIN reviews' = DOMAIN reviews
      BY <1>1
    <2>2. ASSUME NEW v \in DOMAIN reviews
          PROVE  reviews'[v].task = reviews[v].task /\ DOMAIN reviews'[v] = ReviewFields
      <3>1. DOMAIN reviews[v] = ReviewFields
        BY DEF Linked, RolesLinked
      <3>2. reviews'[v] = reviews[v] \/ reviews'[v] = [reviews[v] EXCEPT !.state = "failed"]
        BY <1>1
      <3> QED BY <3>1, <3>2 DEF ReviewFields
    <2> QED BY <1>1, <1>3, <2>1, <2>2 DEF RolesFrom, Linked, RolesLinked
  <1>5. ASSUME NEW x \in DOMAIN rows PROVE Amends(x)
    <2>1. rows'[x] = Recovered(x) /\ DOMAIN rows[x] = Fields
      BY <1>1 DEF IInv, RowsWell
    <2>2. \/ rows'[x] = rows[x]
          \/ x \in ActiveRows /\ rows'[x] = [rows[x] EXCEPT !.state = "completed", !.c = Now]
          \/ x \in ActiveRows /\ \E s \in {"failed", "recovery_required"} : rows'[x] = [rows[x] EXCEPT !.state = s]
      BY <2>1 DEF Recovered
    <2>3. /\ rows'[x].task = rows[x].task /\ rows'[x].n = rows[x].n /\ rows'[x].to = rows[x].to /\ rows'[x].tid = rows[x].tid
          /\ rows'[x].why = rows[x].why /\ rows'[x].consumed = rows[x].consumed
          /\ \/ rows'[x].state = rows[x].state
             \/ x \in ActiveRows /\ rows'[x].state \in {"completed", "failed", "recovery_required"}
      BY <2>1, <2>2 DEF Fields
    <2> QED BY <2>3 DEF Amends, ActiveRows, Started, Linked, RowsLinked, Handed
  <1>6. RowsLast /\ RowsLinked'
    <2>1. DOMAIN rows' = DOMAIN rows
      BY <1>1
    <2> QED BY <1>3, <1>5, <2>1, RowsAmended
  <1>7. HandsFrom
    BY <1>1, NoStepIs DEF Enter, HandsFrom
  <1> QED BY <1>1, <1>2, <1>4, <1>6, <1>7, TransSame, Links

--------------------------------------------------------------------------------

LEMMA LinkedInductive ==
  ASSUME IInv, Linked, [Next]_vars
  PROVE  Advance
  <1>1. CASE UNCHANGED vars
    <2>1. UNCHANGED <<ledger, roles>> /\ HandsFrom
      BY <1>1 DEF vars, tick, HandsFrom
    <2> QED BY <2>1, TickMoves
  <1>2. CASE Tick
    <2>1. CASE Monitor \/ Reconcile \/ NextPhase \/ Spawn \/ MarkPlan
      BY <2>1, MonitorLinks, Reconciled, NextPhaseLinks, SpawnLinks, MarkPlanLinks
    <2>2. CASE Begin \/ WriteHistory \/ Consume \/ Review \/ AutoReady
      BY <2>2, BeginLinks, WriteHistoryLinks, ConsumeLinks, ReviewLinks, AutoReadyLinks
    <2>3. CASE \E id \in todo : ResumePlan(id) \/ Reopen(id) \/ Offer(id) \/ Actuate(id)
      BY <2>3, ResumePlanLinks, ReopenLinks, OfferLinks, ActuateLinks
    <2> QED BY <1>2, <2>1, <2>2, <2>3 DEF Tick
  <1>3. CASE Threads
    BY <1>3, StartWorkerLinks, WorkerRecordsLinks, RoleLinks DEF Threads, Worker
  <1>4. CASE OthersCommit \/ CrashRestart
    BY <1>4, RoleLinks, RestartLinks
  <1> QED BY <1>1, <1>2, <1>3, <1>4 DEF Next

\* Tasks, plans, transitions and consumed handoffs agree in every state, with any number of
\* tasks, rounds and failures: what reconcile, the handoffs' tick and a restart rely on.
THEOREM Linkage == Spec => []Linked
  <1>1. Init => Linked
    BY InitLinked
  <1>2. IInv /\ Linked /\ [Next]_vars => Linked'
    BY LinkedInductive DEF Advance
  <1> QED BY Invariance, <1>1, <1>2, PTL DEF Spec

\* What a handoff settled stands through the tick, failed writes, the planner and restarts: its
\* row keeps its edge and its target and, once consumed, stays so; a plan keeps the task it is
\* for; and no handoff leaves the history (mark_handoff_blocked, mark_handoff_consumed, recover).
THEOREM HandoffsLast == Spec => [][RowsLast /\ PlansLast]_vars
  <1>1. IInv /\ Linked /\ [Next]_vars => [RowsLast /\ PlansLast]_vars
    BY LinkedInductive DEF Advance
  <1> QED BY Invariance, Linkage, <1>1, PTL DEF Spec

\* However the repository, the restarts and the role threads move on, neither the authority nor
\* any worker is on a task that no plan was begun for (_begin_lifecycle, mark_handoff_consumed,
\* reconcile_lifecycle_authority), whatever the number of tasks.
THEOREM WaitsForPlan == Spec => []TargetWaitsForPlan
  <1>1. Linked => TargetWaitsForPlan
    <2> SUFFICES ASSUME Linked, NEW t \in {auth.task} \cup {rows[w].task : w \in Launched}
                 PROVE  Planned(t)
      BY DEF TargetWaitsForPlan, Planned
    <2>1. CASE t = auth.task
      BY <2>1 DEF Linked, AuthLinked
    <2>2. ASSUME NEW w \in Launched, t = rows[w].task PROVE Planned(t)
      <3>1. w \in DOMAIN rows /\ rows[w].n # 0
        BY DEF Launched
      <3> QED BY <2>2, <3>1 DEF Linked, RowsLinked, Started
    <2> QED BY <2>1, <2>2
  <1> QED BY Linkage, <1>1, PTL

\* The authority's generation is that of a handoff that was consumed and is in the history
\* (mark_handoff_consumed, reconcile_lifecycle_authority).
THEOREM OfConsumed == Spec => []GenerationConsumed
  <1>1. Linked => GenerationConsumed
    BY DEF Linked, AuthLinked, Backed, GenerationConsumed
  <1> QED BY Linkage, <1>1, PTL

\* A restart, which takes the authority from the ledger's consumed handoffs anew, never takes
\* the generation back (_migrate_legacy_handoff_authority).
THEOREM RestartKeepsGeneration == Spec => [][CrashRestart => auth'.gen >= auth.gen]_vars
  <1>1. Linked /\ [Next]_vars => [CrashRestart => auth'.gen >= auth.gen]_vars
    BY RestartAuth
  <1> QED BY Linkage, <1>1, PTL DEF Spec

--------------------------------------------------------------------------------
(* Who works in the Broker beside whom: launches are in the order of their stamps *)
(* and heads, each after what came before it has ended or was given up.           *)

RepoFields == {"task", "status", "head", "agent", "dirty"}

\* An execution under way or given up has started and not completed; no started one is a
\* refusal that may be launched again; none is ahead of the repository.
RowTimed(x) ==
  /\ rows[x].n \in Nat /\ rows[x].c \in Nat /\ rows[x].b \in Nat
  /\ rows[x].n > 0 => rows[x].head \in Nat /\ rows[x].head <= repo.head
  /\ rows[x].state \in Active \cup {"recovery_required"} => rows[x].n > 0 /\ rows[x].c = 0
  /\ rows[x].why = "state" => rows[x].n = 0

\* The stamps of the ledger have a latest: what Now is taken from.
Bounded == \E t \in Nat : \A x \in DOMAIN rows : rows[x].n <= t /\ rows[x].c <= t /\ rows[x].b <= t

\* Execution v was given up at the head that w is launched at.
GivenUpAt(v, h) == rows[v].state = "recovery_required" /\ rows[v].head = h

\* An execution is launched after the completion of the earlier ones, none of which is active;
\* at the head of one that was given up only behind an unfenced launch, or as one.
InOrder ==
  \A v, w \in Launched : v # w /\ rows[v].n <= rows[w].n =>
    /\ rows[v].n < rows[w].n /\ rows[v].c < rows[w].n /\ rows[v].state \notin Active
    /\ rows[v].head <= rows[w].head
    /\ GivenUpAt(v, rows[w].head) => \E o \in Launched : Unfenced(v, o) /\ rows[o].n <= rows[w].n

\* What a fence must have shown for a launch of this kind and task at the present head.
FencedFor(kind, t) ==
  \A x \in Launched :
    GivenUpAt(x, repo.head) => kind \in {"decision", "remediation"} \/ t # rows[x].task \/ \E o \in Launched : Unfenced(x, o)

\* The third invariant, on top of IInv.
Timed ==
  /\ \A x \in DOMAIN rows : RowTimed(x)
  /\ Bounded /\ InOrder
  /\ DOMAIN repo = RepoFields /\ repo.head \in Nat
  /\ DOMAIN broker \subseteq Launched

\* The repository is only ever committed to.
HeadRises == DOMAIN repo' = RepoFields /\ repo'.head \in Nat /\ repo.head <= repo'.head

LEMMA InitTimed == Init => Timed
  <1> SUFFICES ASSUME Init PROVE Timed
    OBVIOUS
  <1>1. DOMAIN rows = {} /\ DOMAIN broker = {}
    <2>1. DOMAIN <<>> = {}
      OBVIOUS
    <2> QED BY <2>1, Zenon DEF Init
  <1>2. DOMAIN repo = RepoFields /\ repo.head = 1
    BY Zenon DEF Init, RepoFields
  <1>3. Launched = {}
    BY <1>1 DEF Launched
  <1>4. Bounded /\ InOrder
    BY <1>1, <1>3 DEF Bounded, InOrder
  <1> QED BY <1>1, <1>2, <1>4 DEF Timed

\* Stamps that do not pass t have a latest among them.
LEMMA GreatestExists ==
  ASSUME NEW S, S \subseteq Nat, S # {}, NEW t \in Nat, \A s \in S : s <= t
  PROVE  \E s \in S : \A o \in S : o <= s
  <1> DEFINE G == {t - s : s \in S}
             R == OpToRel(<, Nat)
  <1>1. IsWellFoundedOn(R, Nat)
    BY NatLessThanWellFounded
  <1>2. \A s \in S : t - s \in Nat /\ t - s \in G
    OBVIOUS
  <1>3. \A g \in G : \E s \in S : g = t - s
    OBVIOUS
  <1> HIDE DEF G, R
  <1>4. G \subseteq Nat /\ G # {}
    BY <1>2, <1>3
  <1>5. PICK g \in G : \A y \in G : <<y, g>> \notin R
    BY <1>1, <1>4, WFMin
  <1>6. \A y \in G : ~(y < g)
    BY <1>4, <1>5 DEF R, OpToRel
  <1>7. PICK s \in S : g = t - s
    BY <1>3
  <1>8. ASSUME NEW o \in S PROVE o <= s
    BY <1>2, <1>6, <1>7
  <1> QED BY <1>8

\* Now is later than every stamp of the ledger.
LEMMA NowIs ==
  ASSUME \A x \in DOMAIN rows : RowTimed(x), Bounded
  PROVE  /\ Now \in Nat /\ Now > 0
         /\ \A x \in DOMAIN rows : rows[x].n < Now /\ rows[x].c < Now /\ rows[x].b < Now
  <1> DEFINE S == {0} \cup UNION {{rows[id].n, rows[id].c, rows[id].b} : id \in DOMAIN rows}
  <1>1. \A s \in S : s = 0 \/ \E x \in DOMAIN rows : s \in {rows[x].n, rows[x].c, rows[x].b}
    OBVIOUS
  <1>2. 0 \in S /\ \A x \in DOMAIN rows : rows[x].n \in S /\ rows[x].c \in S /\ rows[x].b \in S
    OBVIOUS
  <1>3. Now = (CHOOSE s \in S : \A o \in S : o <= s) + 1
    BY Zenon DEF Now
  <1> HIDE DEF S
  <1>4. S \subseteq Nat /\ S # {}
    BY <1>1, <1>2 DEF RowTimed
  <1>5. PICK t \in Nat : \A x \in DOMAIN rows : rows[x].n <= t /\ rows[x].c <= t /\ rows[x].b <= t
    BY DEF Bounded
  <1>6. \A s \in S : s <= t
    BY <1>1, <1>5
  <1>7. \E s \in S : \A o \in S : o <= s
    BY <1>4, <1>6, GreatestExists
  <1>8. PICK s \in S : Now = s + 1 /\ \A o \in S : o <= s
    <2> DEFINE g == CHOOSE s \in S : \A o \in S : o <= s
    <2>1. g \in S /\ \A o \in S : o <= g
      BY <1>7, Zenon
    <2>2. Now = g + 1
      BY <1>3
    <2> HIDE DEF g
    <2> QED BY <2>1, <2>2
  <1>9. s \in Nat
    BY <1>4
  <1>10. \A o \in S : o \in Nat /\ o < Now
    BY <1>4, <1>8, <1>9
  <1>11. Now \in Nat /\ Now > 0
    BY <1>8, <1>9
  <1>12. ASSUME NEW x \in DOMAIN rows
         PROVE  rows[x].n < Now /\ rows[x].c < Now /\ rows[x].b < Now
    <2>1. rows[x].n \in S /\ rows[x].c \in S /\ rows[x].b \in S
      BY <1>2
    <2> QED BY <1>10, <2>1
  <1> QED BY <1>11, <1>12

\* How a step may change a row in place.
Ages(x) ==
  /\ rows'[x].n = rows[x].n /\ rows'[x].head = rows[x].head
  /\ rows'[x].kind = rows[x].kind /\ rows'[x].task = rows[x].task
  /\ rows'[x].b \in {rows[x].b, Now}
  /\ rows'[x].why = "state" => rows[x].why = "state"
  /\ rows'[x].state \in Active => rows[x].state \in Active
  /\ rows'[x].state \in Active \cup {"recovery_required"} => rows[x].state \in Active \cup {"recovery_required"} /\ rows'[x].c = rows[x].c
  /\ rows'[x].c = rows[x].c \/ (rows[x].state \in Active /\ rows'[x].c = Now)

LEMMA Unaged == ASSUME UNCHANGED rows PROVE \A x \in DOMAIN rows : Ages(x)
  BY DEF Ages

LEMMA Aged ==
  ASSUME Timed, DOMAIN rows' = DOMAIN rows, \A x \in DOMAIN rows : Ages(x), HeadRises, DOMAIN broker' \subseteq Launched
  PROVE  Timed'
  <1>1. /\ Now \in Nat /\ Now > 0
        /\ \A x \in DOMAIN rows : RowTimed(x) /\ rows[x].n < Now /\ rows[x].c < Now /\ rows[x].b < Now
    BY NowIs DEF Timed
  <1>2. Launched' = Launched
    BY DEF Launched, Ages
  <1>3. ASSUME NEW x \in DOMAIN rows PROVE RowTimed(x)'
    BY <1>1 DEF Ages, RowTimed, HeadRises, Timed
  <1>4. Bounded'
    <2>1. \A x \in DOMAIN rows' : rows'[x].n <= Now /\ rows'[x].c <= Now /\ rows'[x].b <= Now
      BY <1>1 DEF Ages, RowTimed
    <2>2. PICK t \in Nat : t = Now
      BY <1>1
    <2>3. \A x \in DOMAIN rows' : rows'[x].n <= t /\ rows'[x].c <= t /\ rows'[x].b <= t
      BY <2>1, <2>2
    <2> QED BY <2>3, Zenon DEF Bounded
  <1>5. \A x \in Launched : Ages(x)
    BY DEF Launched
  <1>6. ASSUME NEW v \in Launched, NEW w \in Launched, v # w, rows'[v].n <= rows'[w].n
        PROVE  /\ rows'[v].n < rows'[w].n /\ rows'[v].c < rows'[w].n /\ rows'[v].state \notin Active
               /\ rows'[v].head <= rows'[w].head
               /\ GivenUpAt(v, rows[w].head)' => \E o \in Launched : Unfenced(v, o)' /\ rows'[o].n <= rows'[w].n
    <2>1. /\ rows[v].n < rows[w].n /\ rows[v].c < rows[w].n /\ rows[v].state \notin Active
          /\ rows[v].head <= rows[w].head
          /\ GivenUpAt(v, rows[w].head) => \E o \in Launched : Unfenced(v, o) /\ rows[o].n <= rows[w].n
      BY <1>5, <1>6 DEF Timed, InOrder, Ages
    <2>2. /\ rows'[v].c = rows[v].c /\ rows'[v].state \notin Active
          /\ rows'[v].state = "recovery_required" => rows[v].state = "recovery_required"
      BY <1>5, <2>1 DEF Ages, Active
    <2>3. /\ rows'[v].n = rows[v].n /\ rows'[v].head = rows[v].head
          /\ rows'[w].n = rows[w].n /\ rows'[w].head = rows[w].head
      BY <1>5 DEF Ages
    <2>4. \A o \in Launched : Unfenced(v, o) => Unfenced(v, o)' /\ rows'[o].n = rows[o].n
      BY <1>5 DEF Ages, Unfenced
    <2> QED BY <2>1, <2>2, <2>3, <2>4 DEF GivenUpAt
  <1>7. InOrder'
    BY <1>2, <1>6 DEF InOrder
  <1> QED BY <1>2, <1>3, <1>4, <1>7 DEF Timed, HeadRises

\* Steps that leave the executions alone.
LEMMA StillTimed ==
  ASSUME Timed, UNCHANGED rows, HeadRises, DOMAIN broker' = DOMAIN broker
  PROVE  Timed'
  BY Unaged, Aged DEF Timed

LEMMA RepoSame == ASSUME Timed, UNCHANGED repo PROVE HeadRises
  BY DEF Timed, HeadRises

\* One row changes in place.
LEMMA AgedOne ==
  ASSUME Timed, NEW w \in DOMAIN rows, DOMAIN rows' = DOMAIN rows, \A x \in DOMAIN rows : x # w => rows'[x] = rows[x],
         Ages(w), HeadRises, UNCHANGED broker
  PROVE  Timed'
  <1>1. \A x \in DOMAIN rows : Ages(x)
    BY DEF Ages
  <1> QED BY <1>1, Aged DEF Timed

\* A request that may be launched has not been, and its row gets a stamp of now at the most.
LEMMA Writes ==
  ASSUME Timed, NEW id, NEW v, Replayable(id), rows' = Put(rows, id, v), UNCHANGED repo,
         v.n \in {0, Now}, v.c = 0, v.b \in {0, Now}, v.n # 0 => v.head = repo.head,
         v.state \in Active \cup {"recovery_required"} => v.n # 0, v.why = "state" => v.n = 0
  PROVE  /\ id \notin Launched /\ Now \in Nat /\ Now > 0
         /\ DOMAIN rows' = DOMAIN rows \cup {id} /\ rows'[id] = v
         /\ \A x \in DOMAIN rows : x # id => rows'[x] = rows[x]
         /\ \A x \in Launched : x \in DOMAIN rows /\ rows'[x] = rows[x]
         /\ \A x \in DOMAIN rows : rows[x].n < Now /\ rows[x].c < Now /\ rows[x].b < Now
         /\ (\A x \in DOMAIN rows' : RowTimed(x)') /\ Bounded'
  <1>1. /\ DOMAIN rows' = DOMAIN rows \cup {id} /\ rows'[id] = v
        /\ \A x \in DOMAIN rows : x # id => rows'[x] = rows[x]
    BY DEF Put
  <1>2. id \notin Launched
    BY DEF Replayable, Launched, Timed, RowTimed
  <1>3. \A x \in Launched : x \in DOMAIN rows /\ rows'[x] = rows[x]
    BY <1>1, <1>2 DEF Launched
  <1>4. /\ Now \in Nat /\ Now > 0
        /\ \A x \in DOMAIN rows : RowTimed(x) /\ rows[x].n < Now /\ rows[x].c < Now /\ rows[x].b < Now
    BY NowIs DEF Timed
  <1>5. repo.head \in Nat
    BY DEF Timed
  <1>6. ASSUME NEW x \in DOMAIN rows' PROVE RowTimed(x)'
    <2>1. CASE x = id
      BY <1>1, <1>4, <1>5, <2>1 DEF RowTimed
    <2>2. CASE x # id
      BY <1>1, <1>4, <2>2 DEF RowTimed
    <2> QED BY <2>1, <2>2
  <1>7. Bounded'
    <2>1. PICK t \in Nat : t = Now
      BY <1>4
    <2>2. ASSUME NEW x \in DOMAIN rows' PROVE rows'[x].n <= t /\ rows'[x].c <= t /\ rows'[x].b <= t
      <3>1. CASE x = id
        BY <1>1, <1>4, <2>1, <3>1
      <3>2. CASE x # id
        BY <1>1, <1>4, <2>1, <3>2 DEF RowTimed
      <3> QED BY <3>1, <3>2
    <2> QED BY <2>2, Zenon DEF Bounded
  <1> QED BY <1>1, <1>2, <1>3, <1>4, <1>6, <1>7

\* A row that is no execution: a refusal, a handoff or a settlement.
LEMMA Noted ==
  ASSUME Timed, NEW id, NEW v, Replayable(id), rows' = Put(rows, id, v), UNCHANGED <<repo, broker>>,
         v.n = 0, v.c = 0, v.b \in {0, Now}, v.state \notin Active \cup {"recovery_required"}
  PROVE  Timed'
  <1>1. /\ id \notin Launched
        /\ DOMAIN rows' = DOMAIN rows \cup {id} /\ rows'[id] = v
        /\ \A x \in DOMAIN rows : x # id => rows'[x] = rows[x]
        /\ \A x \in Launched : rows'[x] = rows[x]
        /\ (\A x \in DOMAIN rows' : RowTimed(x)') /\ Bounded'
    BY Writes
  <1>2. Launched' = Launched
    BY <1>1 DEF Launched
  <1>3. InOrder'
    BY <1>1, <1>2 DEF InOrder, Timed, GivenUpAt, Unfenced
  <1> QED BY <1>1, <1>2, <1>3 DEF Timed

LEMMA Begun ==
  ASSUME Timed, NEW k, NEW t, ActiveRows = {}, FencedFor(k, t), UNCHANGED <<repo, broker>>,
         NEW id, NEW v, Replayable(id), rows' = Put(rows, id, v),
         v.kind = k, v.task = t, v.n = Now, v.c = 0, v.b = 0, v.head = repo.head, v.why # "state"
  PROVE  Timed'
  <1>0. Now \in Nat /\ Now > 0
    BY NowIs DEF Timed
  <1>1. /\ id \notin Launched
        /\ DOMAIN rows' = DOMAIN rows \cup {id} /\ rows'[id] = v
        /\ \A x \in DOMAIN rows : x # id => rows'[x] = rows[x]
        /\ \A x \in Launched : x \in DOMAIN rows /\ rows'[x] = rows[x]
        /\ \A x \in DOMAIN rows : rows[x].n < Now /\ rows[x].c < Now /\ rows[x].b < Now
        /\ (\A x \in DOMAIN rows' : RowTimed(x)') /\ Bounded'
    <2>1. v.n \in {0, Now} /\ v.n # 0 /\ v.b \in {0, Now} /\ repo' = repo
      BY <1>0
    <2>2. v.n # 0 => v.head = repo.head
      OBVIOUS
    <2>3. (v.state \in Active \cup {"recovery_required"} => v.n # 0) /\ (v.why = "state" => v.n = 0)
      BY <2>1
    <2> QED BY <2>1, <2>2, <2>3, Writes
  <1>2. Launched' = Launched \cup {id}
    BY <1>0, <1>1 DEF Launched
  <1>3. \A x, o \in Launched : Unfenced(x, o) => Unfenced(x, o)'
    BY <1>1 DEF Unfenced
  <1>4. ASSUME NEW x \in Launched, NEW y \in Launched, x # y, rows'[x].n <= rows'[y].n
        PROVE  /\ rows'[x].n < rows'[y].n /\ rows'[x].c < rows'[y].n /\ rows'[x].state \notin Active
               /\ rows'[x].head <= rows'[y].head
               /\ GivenUpAt(x, rows[y].head)' => \E o \in Launched' : Unfenced(x, o)' /\ rows'[o].n <= rows'[y].n
    <2>1. rows'[x] = rows[x] /\ rows'[y] = rows[y]
      BY <1>1
    <2>2. /\ rows[x].n < rows[y].n /\ rows[x].c < rows[y].n /\ rows[x].state \notin Active
          /\ rows[x].head <= rows[y].head
          /\ GivenUpAt(x, rows[y].head) => \E o \in Launched : Unfenced(x, o) /\ rows[o].n <= rows[y].n
      BY <1>4, <2>1 DEF Timed, InOrder
    <2> QED BY <1>1, <1>2, <1>3, <2>1, <2>2 DEF GivenUpAt
  <1>5. ASSUME NEW x \in Launched
        PROVE  /\ rows'[x].n < rows'[id].n /\ rows'[x].c < rows'[id].n /\ rows'[x].state \notin Active
               /\ rows'[x].head <= rows'[id].head
               /\ GivenUpAt(x, rows[id].head)' => \E o \in Launched' : Unfenced(x, o)' /\ rows'[o].n <= rows'[id].n
    <2>1. rows'[x] = rows[x] /\ rows'[id].n = Now /\ rows'[id].head = repo.head /\ x \in DOMAIN rows
      BY <1>1
    <2>2. rows[x].n < Now /\ rows[x].c < Now /\ rows[x].state \notin Active /\ rows[x].head <= repo.head
      BY <1>1, <2>1 DEF ActiveRows, Timed, RowTimed, Launched
    <2>3. ASSUME GivenUpAt(x, repo.head)
          PROVE  \E o \in Launched' : Unfenced(x, o)' /\ rows'[o].n <= rows'[id].n
      <3>1. CASE v.kind \in {"decision", "remediation"} \/ v.task # rows[x].task
        <4>1. Unfenced(x, id)'
          BY <1>1, <2>1, <2>2, <2>3, <3>1 DEF Unfenced, GivenUpAt
        <4>2. id \in Launched' /\ rows'[id].n <= rows'[id].n
          BY <1>0, <1>2, <2>1
        <4> QED BY <4>1, <4>2
      <3>2. ASSUME NEW o \in Launched, Unfenced(x, o)
            PROVE  \E y \in Launched' : Unfenced(x, y)' /\ rows'[y].n <= rows'[id].n
        <4>1. rows'[o].n <= rows'[id].n
          BY <1>0, <1>1, <2>1 DEF Timed, RowTimed
        <4> QED BY <1>2, <1>3, <3>2, <4>1
      <3> QED BY <2>3, <3>1, <3>2 DEF FencedFor
    <2> QED BY <2>1, <2>2, <2>3 DEF GivenUpAt
  <1>6. \A x \in Launched : ~(rows'[id].n <= rows'[x].n)
    BY <1>0, <1>1 DEF Timed, RowTimed
  <1>7. InOrder'
    BY <1>2, <1>4, <1>5, <1>6 DEF InOrder
  <1>8. DOMAIN broker' \subseteq Launched'
    BY <1>2 DEF Timed
  <1> QED BY <1>1, <1>7, <1>8 DEF Timed

LEMMA BlockTimed ==
  ASSUME Timed, NEW id, NEW k, NEW t, NEW why, Block(id, k, t, why), UNCHANGED <<repo, broker>>
  PROVE  Timed'
  <1>1. CASE id \in DOMAIN rows
    BY <1>1, StillTimed, RepoSame DEF Block
  <1>2. CASE id \notin DOMAIN rows
    <2> DEFINE v == [Row EXCEPT !.kind = k, !.task = t, !.why = why]
    <2>1. rows' = Put(rows, id, v) /\ Replayable(id)
      BY <1>2 DEF Block, Replayable
    <2>2. v.n = 0 /\ v.c = 0 /\ v.b = 0 /\ v.state = "blocked"
      BY DEF Row
    <2> HIDE DEF v
    <2> QED BY <2>1, <2>2, Noted DEF Active
  <1> QED BY <1>1, <1>2

\* A launch is fenced by its kind or by what its caller asked, and is made at the present head.
LEMMA LaunchTimed ==
  ASSUME Timed, NEW id, NEW k, NEW t, NEW h, NEW d, FencedFor(k, t), Launch(id, k, t, h, d), UNCHANGED <<repo, broker>>
  PROVE  Timed'
  <1> DEFINE why == Refusal(k, t, h)
             launching == [Row EXCEPT !.kind = k, !.task = t, !.state = "launching", !.head = h, !.n = Now, !.depth = d]
             refused == [Row EXCEPT !.kind = k, !.task = t, !.why = why]
  <1>1. CASE Replayable(id) /\ why = ""
    <2>1. rows' = Put(rows, id, launching)
      BY <1>1 DEF Launch
    <2>2. h = repo.head /\ ActiveRows = {}
      BY <1>1 DEF Refusal
    <2>3. /\ launching.n = Now /\ launching.c = 0 /\ launching.b = 0 /\ launching.head = repo.head
          /\ launching.why # "state" /\ launching.kind = k /\ launching.task = t
      BY <2>2 DEF Row
    <2> HIDE DEF launching
    <2> QED BY <1>1, <2>1, <2>2, <2>3, Begun
  <1>2. CASE Replayable(id) /\ why # "" /\ why # "changed"
    <2>1. rows' = Put(rows, id, refused)
      BY <1>2 DEF Launch
    <2>2. refused.n = 0 /\ refused.c = 0 /\ refused.b = 0 /\ refused.state = "blocked"
      BY DEF Row
    <2> HIDE DEF refused
    <2> QED BY <1>2, <2>1, <2>2, Noted DEF Active
  <1>3. CASE ~Replayable(id) \/ why = "changed"
    BY <1>3, BlockTimed DEF Launch
  <1> QED BY <1>1, <1>2, <1>3

LEMMA OfDecision == ASSUME NEW k \in {"decision", "remediation"}, NEW t PROVE FencedFor(k, t)
  BY DEF FencedFor

\* start_control's fence: an execution of the task given up at this head was the latest
\* there, or another was launched after it, and then some launch before had passed the fence.
LEMMA OfControl ==
  ASSUME Timed, NEW t, ~Unresolved(t)
  PROVE  FencedFor("control", t)
  <1> SUFFICES ASSUME NEW x \in Launched, GivenUpAt(x, repo.head), rows[x].task = t
               PROVE  \E o \in Launched : Unfenced(x, o)
    BY DEF FencedFor
  <1>1. /\ x \in AtHead(t) /\ rows[x].state = "recovery_required" /\ rows[x].head = repo.head
        /\ rows[x].c = 0 /\ rows[x].n \in Nat /\ Stamp(x) = rows[x].n
    BY DEF AtHead, GivenUpAt, Timed, RowTimed, Launched, Stamp
  <1>2. x \notin Latest(AtHead(t), Stamp)
    BY <1>1 DEF Unresolved
  <1>3. PICK o \in AtHead(t) : ~(Stamp(o) <= Stamp(x))
    BY <1>1, <1>2 DEF Latest
  <1>4. /\ o \in Launched /\ rows[o].head = repo.head /\ rows[o].n \in Nat /\ rows[o].c \in Nat
        /\ o # x /\ (Stamp(o) = rows[o].n \/ Stamp(o) = rows[o].c)
    BY <1>1, <1>3 DEF AtHead, Launched, Timed, RowTimed, Stamp
  <1>5. rows[x].n <= rows[o].n
    <2> SUFFICES ASSUME ~(rows[x].n <= rows[o].n) PROVE FALSE
      OBVIOUS
    <2>1. rows[o].n <= rows[x].n
      BY <1>1, <1>4
    <2>2. rows[o].n < rows[x].n /\ rows[o].c < rows[x].n
      BY <1>4, <2>1 DEF Timed, InOrder
    <2> QED BY <1>1, <1>3, <1>4, <2>2
  <1>6. GivenUpAt(x, rows[o].head)
    BY <1>1, <1>4 DEF GivenUpAt
  <1> QED BY <1>4, <1>5, <1>6 DEF Timed, InOrder

LEMMA ResumePlanTimed ==
  ASSUME Timed, NEW r \in todo, ResumePlan(r)
  PROVE  Timed'
  <1>1. UNCHANGED <<repo, broker>>
    BY DEF ResumePlan
  <1>2. CASE UNCHANGED rows
    BY <1>1, <1>2, StillTimed, RepoSame
  <1>3. CASE Block(ExecuteId(r), "control", over.task, "unresolved")
    BY <1>1, <1>3, BlockTimed
  <1>4. CASE ~Unresolved(over.task) /\ Launch(ExecuteId(r), "control", over.task, repo.head, 0)
    BY <1>1, <1>4, LaunchTimed, OfControl
  <1> QED BY <1>2, <1>3, <1>4 DEF ResumePlan, ledger

LEMMA AutoReadyTimed ==
  ASSUME Timed, AutoReady
  PROVE  Timed'
  <1>1. UNCHANGED <<repo, broker>>
    BY DEF AutoReady
  <1>2. CASE UNCHANGED rows
    BY <1>1, <1>2, StillTimed, RepoSame
  <1>3. CASE /\ \A w \in Launched : rows[w].task # raw.task
             /\ Launch(ReadyId(raw.task, repo.head), "ready", raw.task, repo.head, 0)
    <2>1. FencedFor("ready", raw.task)
      BY <1>3 DEF FencedFor
    <2> QED BY <1>1, <1>3, <2>1, LaunchTimed
  <1> QED BY <1>2, <1>3 DEF AutoReady

LEMMA HandoffTimed ==
  ASSUME Timed, NEW id, NEW to, NEW staged, Replayable(id), RecordHandoff(id, to, staged), UNCHANGED <<repo, broker>>
  PROVE  Timed'
  <1> DEFINE w == SourceBlockers(id, dec[id].task) # {}
  <1>1. CASE UNCHANGED rows
    BY <1>1, StillTimed, RepoSame
  <1>2. ASSUME NEW tid, NEW ready, NEW t,
               rows' = Put(rows, id, [Row EXCEPT !.state = "handoff", !.task = t, !.to = to, !.tid = tid, !.staged = staged,
                                                 !.ready = ready, !.head = repo.head, !.m = Now, !.b = Now])
        PROVE  Timed'
    <2> DEFINE v == [Row EXCEPT !.state = "handoff", !.task = t, !.to = to, !.tid = tid, !.staged = staged,
                                !.ready = ready, !.head = repo.head, !.m = Now, !.b = Now]
    <2>1. v.n = 0 /\ v.c = 0 /\ v.b = Now /\ v.state = "handoff"
      BY DEF Row
    <2>2. rows' = Put(rows, id, v)
      BY <1>2
    <2> HIDE DEF v
    <2> QED BY <2>1, <2>2, Noted DEF Active
  <1>3. \/ UNCHANGED rows
        \/ \E tid, ready, t :
             rows' = Put(rows, id, [Row EXCEPT !.state = "handoff", !.task = t, !.to = to, !.tid = tid, !.staged = staged,
                                               !.ready = ready, !.head = repo.head, !.m = Now, !.b = Now])
    BY Zenon DEF RecordHandoff
  <1> QED BY <1>1, <1>2, <1>3

LEMMA ActuateTimed ==
  ASSUME IInv, Timed, NEW id \in todo, Actuate(id)
  PROVE  Timed'
  <1>1. UNCHANGED <<repo, broker>> /\ Replayable(id)
    BY DEF Actuate, IInv, TickWell
  <1>2. CASE \E to, staged : RecordHandoff(id, to, staged)
    BY <1>1, <1>2, HandoffTimed
  <1>3. CASE RecordSettled(id)
    <2> DEFINE v == [Row EXCEPT !.state = "settled", !.task = dec[id].task, !.m = Now, !.b = Now]
    <2>1. rows' = Put(rows, id, v)
      BY <1>3 DEF RecordSettled
    <2>2. v.n = 0 /\ v.c = 0 /\ v.b = Now /\ v.state = "settled"
      BY DEF Row
    <2> HIDE DEF v
    <2> QED BY <1>1, <2>1, <2>2, Noted DEF Active
  <1>4. CASE \E k \in {"decision", "remediation"} : \E t, h, d : Launch(id, k, t, h, d)
    BY <1>1, <1>4, OfDecision, LaunchTimed
  <1>5. CASE \E k, t, why : Block(id, k, t, why)
    BY <1>1, <1>5, BlockTimed
  <1>6. ActuateNext(id) => \/ \E to, staged : RecordHandoff(id, to, staged)
                           \/ RecordSettled(id)
                           \/ \E k \in {"decision", "remediation"} : \E t, h, d : Launch(id, k, t, h, d)
                           \/ \E k, t, why : Block(id, k, t, why)
    BY DEF ActuateNext
  <1>7. ActuateRemediation(id) => \/ \E k \in {"decision", "remediation"} : \E t, h, d : Launch(id, k, t, h, d)
                                  \/ \E k, t, why : Block(id, k, t, why)
    BY DEF ActuateRemediation
  <1> QED BY <1>2, <1>3, <1>4, <1>5, <1>6, <1>7 DEF Actuate

LEMMA SpawnTimed ==
  ASSUME IInv, Timed, Spawn
  PROVE  Timed'
  <1> DEFINE w == cur.id
  <1>1. w \in DOMAIN rows /\ rows[w].state = "launching" /\ DOMAIN rows[w] = Fields /\ UNCHANGED <<repo, broker>>
    BY DEF Spawn, IInv, TickWell, RowsWell
  <1>2. CASE UNCHANGED rows
    BY <1>1, <1>2, StillTimed, RepoSame
  <1>3. CASE rows' = [rows EXCEPT ![w].state = "blocked", ![w].why = "obligation"]
    <2>1. /\ DOMAIN rows' = DOMAIN rows /\ \A x \in DOMAIN rows : x # w => rows'[x] = rows[x]
          /\ rows'[w] = [rows[w] EXCEPT !.state = "blocked", !.why = "obligation"]
      BY <1>1, <1>3
    <2>2. /\ rows'[w].state = "blocked" /\ rows'[w].why = "obligation" /\ rows'[w].task = rows[w].task
          /\ rows'[w].n = rows[w].n /\ rows'[w].head = rows[w].head /\ rows'[w].kind = rows[w].kind
          /\ rows'[w].b = rows[w].b /\ rows'[w].c = rows[w].c
      BY <1>1, <2>1 DEF Fields
    <2>3. Ages(w)
      BY <2>2 DEF Ages, Active
    <2> QED BY <1>1, <2>1, <2>3, AgedOne, RepoSame
  <1> QED BY <1>2, <1>3 DEF Spawn

\* A handoff's row is refused, opened again or consumed, which is no execution.
LEMMA HandoffAges ==
  ASSUME Timed, NEW r \in DOMAIN rows, DOMAIN rows' = DOMAIN rows, \A x \in DOMAIN rows : x # r => rows'[x] = rows[x],
         rows'[r].n = rows[r].n, rows'[r].head = rows[r].head, rows'[r].kind = rows[r].kind, rows'[r].task = rows[r].task,
         rows'[r].c = rows[r].c, rows'[r].b \in {rows[r].b, Now}, rows'[r].state \in {"handoff", "blocked"},
         rows'[r].why # "state", HeadRises, UNCHANGED broker
  PROVE  Timed'
  <1>1. Ages(r)
    BY DEF Ages, Active
  <1> QED BY <1>1, AgedOne

LEMMA RefusingTimed ==
  ASSUME IInv, Timed, NEW r, Pending(r), NEW why, why # "state", MarkHandoffBlocked(r, why), HeadRises, UNCHANGED broker
  PROVE  Timed'
  <1>1. r \in DOMAIN rows /\ DOMAIN rows[r] = Fields
    BY DEF IInv, RowsWell, Pending
  <1>2. /\ DOMAIN rows' = DOMAIN rows /\ \A x \in DOMAIN rows : x # r => rows'[x] = rows[x]
        /\ rows'[r] = [rows[r] EXCEPT !.state = "blocked", !.why = why]
    BY <1>1 DEF MarkHandoffBlocked
  <1>3. /\ rows'[r].state = "blocked" /\ rows'[r].why = why /\ rows'[r].task = rows[r].task
        /\ rows'[r].n = rows[r].n /\ rows'[r].head = rows[r].head /\ rows'[r].kind = rows[r].kind
        /\ rows'[r].b = rows[r].b /\ rows'[r].c = rows[r].c
    BY <1>1, <1>2 DEF Fields
  <1> QED BY <1>1, <1>2, <1>3, HandoffAges

LEMMA ReopenTimed ==
  ASSUME IInv, Timed, NEW r \in todo, Reopen(r)
  PROVE  Timed'
  <1>1. Pending(r) /\ r \in DOMAIN rows /\ DOMAIN rows[r] = Fields /\ UNCHANGED <<repo, broker>>
    BY DEF Reopen, IInv, TickWell, Pending, RowsWell
  <1>2. CASE UNCHANGED rows
    BY <1>1, <1>2, StillTimed, RepoSame
  <1>3. ASSUME NEW mark,
               rows' = [rows EXCEPT ![r].state = "handoff", ![r].why = "", ![r].again = @ \cup {mark}]
        PROVE  Timed'
    <2>1. /\ DOMAIN rows' = DOMAIN rows /\ \A x \in DOMAIN rows : x # r => rows'[x] = rows[x]
          /\ rows'[r] = [rows[r] EXCEPT !.state = "handoff", !.why = "", !.again = @ \cup {mark}]
      BY <1>1, <1>3
    <2>2. /\ rows'[r].state = "handoff" /\ rows'[r].why # "state" /\ rows'[r].task = rows[r].task
          /\ rows'[r].n = rows[r].n /\ rows'[r].head = rows[r].head /\ rows'[r].kind = rows[r].kind
          /\ rows'[r].b = rows[r].b /\ rows'[r].c = rows[r].c
      BY <1>1, <2>1 DEF Fields
    <2> QED BY <1>1, <2>1, <2>2, HandoffAges, RepoSame
  <1> QED BY <1>2, <1>3 DEF Reopen

\* Commits of the daemon, of agents and of others are made on top of the head.
LEMMA Commits ==
  ASSUME Timed, DOMAIN repo' = DOMAIN repo, repo'.head = repo.head + 1
  PROVE  HeadRises
  BY DEF Timed, HeadRises

LEMMA OfferTimed ==
  ASSUME IInv, Timed, NEW r \in todo, Offer(r)
  PROVE  Timed'
  <1>1. Pending(r) /\ UNCHANGED broker
    BY DEF Offer, IInv, TickWell
  <1>2. ASSUME NEW why, why # "state", MarkHandoffBlocked(r, why), UNCHANGED repo PROVE Timed'
    BY <1>1, <1>2, RefusingTimed, RepoSame
  <1>3. CASE UNCHANGED <<rows, repo>>
    BY <1>1, <1>3, StillTimed, RepoSame
  <1>4. PlannerRefusal(rows[r]) # "state"
    BY DEF PlannerRefusal
  <1>5. CASE Activate(r)
    <2>1. CASE UNCHANGED rows /\ repo' = [repo EXCEPT !.task = rows[r].to, !.status = "pending", !.head = @ + 1, !.agent = repo.head + 1]
      <3>1. DOMAIN repo' = DOMAIN repo /\ repo'.head = repo.head + 1
        BY <2>1 DEF Timed, RepoFields
      <3> QED BY <1>1, <2>1, <3>1, Commits, StillTimed
    <2> QED BY <1>2, <1>3, <1>5, <2>1 DEF Activate
  <1> QED BY <1>2, <1>3, <1>4, <1>5 DEF Offer

LEMMA BeginTimed ==
  ASSUME IInv, Timed, Begin
  PROVE  Timed'
  <1>1. Pending(cur.id) /\ UNCHANGED <<repo, broker>>
    BY DEF Begin, IInv, TickWell
  <1>2. CASE UNCHANGED rows
    BY <1>1, <1>2, StillTimed, RepoSame
  <1>3. CASE MarkHandoffBlocked(cur.id, "busy")
    BY <1>1, <1>3, RefusingTimed, RepoSame
  <1> QED BY <1>2, <1>3 DEF Begin

LEMMA ConsumeTimed ==
  ASSUME IInv, Timed, Consume
  PROVE  Timed'
  <1> DEFINE r == cur.id
  <1>1. /\ Pending(r) /\ r \in DOMAIN rows /\ DOMAIN rows[r] = Fields /\ UNCHANGED <<repo, broker>>
        /\ rows' = [rows EXCEPT ![r].consumed = TRUE, ![r].b = Now]
    BY DEF Consume, IInv, TickWell, Pending, RowsWell, roles
  <1>2. /\ DOMAIN rows' = DOMAIN rows /\ \A x \in DOMAIN rows : x # r => rows'[x] = rows[x]
        /\ rows'[r] = [rows[r] EXCEPT !.consumed = TRUE, !.b = Now]
    BY <1>1
  <1>3. /\ rows'[r].state = rows[r].state /\ rows'[r].why = rows[r].why /\ rows'[r].task = rows[r].task
        /\ rows'[r].n = rows[r].n /\ rows'[r].head = rows[r].head /\ rows'[r].kind = rows[r].kind
        /\ rows'[r].b = Now /\ rows'[r].c = rows[r].c
    BY <1>1, <1>2 DEF Fields
  <1>4. rows[r].state \in {"handoff", "blocked"} /\ rows[r].why # "state"
    BY <1>1 DEF Pending
  <1> QED BY <1>1, <1>2, <1>3, <1>4, HandoffAges, RepoSame

LEMMA StartWorkerTimed ==
  ASSUME IInv, Timed, NEW w \in DOMAIN rows, StartWorker(w)
  PROVE  Timed'
  <1>1. /\ DOMAIN rows[w] = Fields /\ rows[w].state = "launching" /\ rows[w].n > 0 /\ UNCHANGED repo
        /\ rows' = [rows EXCEPT ![w].state = "running"] /\ broker' = Put(broker, w, "running")
    BY DEF StartWorker, IInv, RowsWell, Timed, RowTimed, Active
  <1>2. /\ DOMAIN rows' = DOMAIN rows /\ \A x \in DOMAIN rows : x # w => rows'[x] = rows[x]
        /\ rows'[w] = [rows[w] EXCEPT !.state = "running"]
    BY <1>1
  <1>3. /\ rows'[w].state = "running" /\ rows'[w].why = rows[w].why /\ rows'[w].task = rows[w].task
        /\ rows'[w].n = rows[w].n /\ rows'[w].head = rows[w].head /\ rows'[w].kind = rows[w].kind
        /\ rows'[w].b = rows[w].b /\ rows'[w].c = rows[w].c
    BY <1>1, <1>2 DEF Fields
  <1>4. \A x \in DOMAIN rows : Ages(x)
    BY <1>1, <1>2, <1>3 DEF Ages, Active
  <1>5. DOMAIN broker' \subseteq Launched
    <2>1. DOMAIN broker' = DOMAIN broker \cup {w}
      BY <1>1 DEF Put
    <2> QED BY <1>1, <2>1 DEF Timed, Launched
  <1> QED BY <1>1, <1>2, <1>4, <1>5, Aged, RepoSame

LEMMA WorkerRecordsTimed ==
  ASSUME IInv, Timed, NEW w \in DOMAIN rows, WorkerRecords(w)
  PROVE  Timed'
  <1>1. DOMAIN rows[w] = Fields /\ rows[w].state = "running" /\ UNCHANGED <<repo, broker>>
    BY DEF WorkerRecords, IInv, RowsWell
  <1>2. CASE rows' = [rows EXCEPT ![w].state = "completed", ![w].c = Now]
    <2>1. /\ DOMAIN rows' = DOMAIN rows /\ \A x \in DOMAIN rows : x # w => rows'[x] = rows[x]
          /\ rows'[w] = [rows[w] EXCEPT !.state = "completed", !.c = Now]
      BY <1>1, <1>2
    <2>2. /\ rows'[w].state = "completed" /\ rows'[w].why = rows[w].why /\ rows'[w].task = rows[w].task
          /\ rows'[w].n = rows[w].n /\ rows'[w].head = rows[w].head /\ rows'[w].kind = rows[w].kind
          /\ rows'[w].b = rows[w].b /\ rows'[w].c = Now
      BY <1>1, <2>1 DEF Fields
    <2>3. Ages(w)
      BY <1>1, <2>2 DEF Ages, Active
    <2> QED BY <1>1, <2>1, <2>3, AgedOne, RepoSame
  <1>3. CASE rows' = [rows EXCEPT ![w].state = "failed"]
    <2>1. /\ DOMAIN rows' = DOMAIN rows /\ \A x \in DOMAIN rows : x # w => rows'[x] = rows[x]
          /\ rows'[w] = [rows[w] EXCEPT !.state = "failed"]
      BY <1>1, <1>3
    <2>2. /\ rows'[w].state = "failed" /\ rows'[w].why = rows[w].why /\ rows'[w].task = rows[w].task
          /\ rows'[w].n = rows[w].n /\ rows'[w].head = rows[w].head /\ rows'[w].kind = rows[w].kind
          /\ rows'[w].b = rows[w].b /\ rows'[w].c = rows[w].c
      BY <1>1, <2>1 DEF Fields
    <2>3. Ages(w)
      BY <1>1, <2>2 DEF Ages, Active
    <2> QED BY <1>1, <2>1, <2>3, AgedOne, RepoSame
  <1> QED BY <1>2, <1>3 DEF WorkerRecords

LEMMA BrokerTimed ==
  ASSUME Timed, NEW w \in DOMAIN broker, BrokerWork(w) \/ BrokerEnds(w)
  PROVE  Timed'
  <1>1. UNCHANGED rows /\ DOMAIN broker' = DOMAIN broker
    BY DEF BrokerWork, BrokerEnds, ledger
  <1>2. HeadRises
    <2>1. CASE BrokerEnds(w)
      BY <2>1, RepoSame DEF BrokerEnds
    <2>2. CASE BrokerWork(w)
      <3>1. PICK o \in Outcomes :
              repo' = CASE o = "complete" -> [repo EXCEPT !.status = "complete", !.head = repo.head + 1, !.agent = repo.head + 1, !.dirty = 0]
                        [] o = "ready" -> [repo EXCEPT !.head = repo.head + 1, !.dirty = 0]
                        [] o = "dirty" -> [repo EXCEPT !.dirty = rows[w].n]
                        [] o \in {"advance", "open"} ->
                             IF Successor(repo.task) = 0
                             THEN [repo EXCEPT !.status = "complete", !.head = repo.head + 1, !.agent = repo.head + 1, !.dirty = 0]
                             ELSE [repo EXCEPT !.task = Successor(@), !.status = IF o = "open" THEN "ready" ELSE "pending",
                                               !.head = repo.head + 1, !.agent = repo.head + 1, !.dirty = 0]
        BY <2>2 DEF BrokerWork
      <3>2. o \in {"complete", "ready", "dirty", "advance", "open"}
        BY LifecycleBounds
      <3>3. DOMAIN repo = RepoFields /\ repo.head \in Nat
        BY DEF Timed
      <3>4. DOMAIN repo' = RepoFields /\ repo'.head \in {repo.head, repo.head + 1}
        BY <3>1, <3>2, <3>3 DEF RepoFields
      <3> QED BY <3>3, <3>4 DEF HeadRises
    <2> QED BY <2>1, <2>2
  <1> QED BY <1>1, <1>2, StillTimed

LEMMA PlannerTimed ==
  ASSUME Timed, NEW r \in DOMAIN plans, Planner(r)
  PROVE  Timed'
  <1>1. UNCHANGED <<rows, broker>>
    BY DEF Planner, ApprovePlan, ApplyPlan, RecordReady, ledger
  <1>2. HeadRises
    <2>1. CASE UNCHANGED repo
      BY <2>1, RepoSame
    <2>2. CASE repo' = [repo EXCEPT !.status = "ready", !.head = @ + 1, !.agent = repo.head + 1]
      <3>1. DOMAIN repo' = DOMAIN repo /\ repo'.head = repo.head + 1
        BY <2>2 DEF Timed, RepoFields
      <3> QED BY <3>1, Commits
    <2> QED BY <2>1, <2>2 DEF Planner, ApprovePlan, ApplyPlan, RecordReady
  <1> QED BY <1>1, <1>2, StillTimed

LEMMA OthersTimed ==
  ASSUME Timed, OthersCommit
  PROVE  Timed'
  <1>1. UNCHANGED <<rows, broker>>
    BY DEF OthersCommit, ledger
  <1>2. PICK a : repo' = [repo EXCEPT !.head = @ + 1, !.agent = a]
    BY DEF OthersCommit
  <1>3. DOMAIN repo' = DOMAIN repo /\ repo'.head = repo.head + 1
    BY <1>2 DEF Timed, RepoFields
  <1> QED BY <1>1, <1>3, Commits, StillTimed

LEMMA CrashRestartTimed ==
  ASSUME IInv, Timed, CrashRestart
  PROVE  Timed'
  <1>1. UNCHANGED <<repo, broker>> /\ rows' = [id \in DOMAIN rows |-> Recovered(id)]
    BY DEF CrashRestart
  <1>2. ASSUME NEW x \in DOMAIN rows PROVE Ages(x)
    <2>1. rows'[x] = Recovered(x) /\ DOMAIN rows[x] = Fields
      BY <1>1 DEF IInv, RowsWell
    <2>2. CASE rows'[x] = rows[x]
      BY <2>2 DEF Ages
    <2>3. CASE x \in ActiveRows /\ rows'[x] = [rows[x] EXCEPT !.state = "completed", !.c = Now]
      <3>1. /\ rows'[x].state = "completed" /\ rows'[x].why = rows[x].why /\ rows'[x].task = rows[x].task
            /\ rows'[x].n = rows[x].n /\ rows'[x].head = rows[x].head /\ rows'[x].kind = rows[x].kind
            /\ rows'[x].b = rows[x].b /\ rows'[x].c = Now
        BY <2>1, <2>3 DEF Fields
      <3> QED BY <2>3, <3>1 DEF Ages, Active, ActiveRows
    <2>4. ASSUME NEW s \in {"failed", "recovery_required"}, x \in ActiveRows, rows'[x] = [rows[x] EXCEPT !.state = s]
          PROVE  Ages(x)
      <3>1. /\ rows'[x].state = s /\ rows'[x].why = rows[x].why /\ rows'[x].task = rows[x].task
            /\ rows'[x].n = rows[x].n /\ rows'[x].head = rows[x].head /\ rows'[x].kind = rows[x].kind
            /\ rows'[x].b = rows[x].b /\ rows'[x].c = rows[x].c
        BY <2>1, <2>4 DEF Fields
      <3> QED BY <2>4, <3>1 DEF Ages, Active, ActiveRows
    <2>5. \/ rows'[x] = rows[x]
          \/ x \in ActiveRows /\ rows'[x] = [rows[x] EXCEPT !.state = "completed", !.c = Now]
          \/ x \in ActiveRows /\ \E s \in {"failed", "recovery_required"} : rows'[x] = [rows[x] EXCEPT !.state = s]
      BY <2>1 DEF Recovered
    <2> QED BY <2>2, <2>3, <2>4, <2>5
  <1>3. DOMAIN rows' = DOMAIN rows
    BY <1>1
  <1>4. DOMAIN broker' \subseteq Launched
    BY <1>1 DEF Timed
  <1> QED BY <1>1, <1>2, <1>3, <1>4, Aged, RepoSame

LEMMA TimedInductive ==
  ASSUME IInv, Timed, [Next]_vars
  PROVE  Timed'
  <1>1. CASE UNCHANGED <<rows, repo, broker>>
    BY <1>1, StillTimed, RepoSame
  <1>2. CASE Monitor \/ Reconcile \/ NextPhase \/ MarkPlan \/ WriteHistory \/ Review
    BY <1>1, <1>2 DEF Monitor, Reconcile, NextPhase, MarkPlan, WriteHistory, Review, ledger
  <1>3. CASE Tick
    BY <1>2, <1>3, SpawnTimed, BeginTimed, ConsumeTimed, AutoReadyTimed, ResumePlanTimed, ReopenTimed, OfferTimed, ActuateTimed
    DEF Tick
  <1>4. ASSUME NEW v \in DOMAIN reviews, Reviewer(v) PROVE Timed'
    BY <1>1, <1>4 DEF Reviewer, Decide, FinishReview, ledger
  <1>5. CASE Threads
    BY <1>4, <1>5, StartWorkerTimed, WorkerRecordsTimed, BrokerTimed, PlannerTimed DEF Threads, Worker
  <1>6. CASE UNCHANGED vars
    BY <1>1, <1>6 DEF vars, ledger
  <1> QED BY <1>3, <1>5, <1>6, OthersTimed, CrashRestartTimed DEF Next

\* Launches are stamped in the order of the heads they were made at; every earlier execution
\* has ended or was given up by the time of a later one, and one given up at the head of a
\* later one is there behind a launch that no fence held back.
THEOREM LaunchOrder == Spec => []Timed
  <1>1. Init => Timed
    BY InitTimed
  <1>2. IInv /\ Timed /\ [Next]_vars => Timed'
    BY TimedInductive
  <1> QED BY Invariance, <1>1, <1>2, PTL DEF Spec

\* Two agents are never under way together but for executions given up at a restart, and such
\* a one only beside launches at later heads or behind one that no fence kept from its head.
THEOREM Writers == Spec => []OneWriter
  <1>1. IInv /\ Timed => OneWriter
    <2> SUFFICES ASSUME IInv, Timed, NEW v \in Working, NEW w \in Working, v # w, rows[v].n <= rows[w].n
                 PROVE  /\ rows[v].state = "recovery_required"
                        /\ \/ rows[v].head < rows[w].head
                           \/ \E o \in Launched : Unfenced(v, o) /\ rows[o].n <= rows[w].n
      BY DEF OneWriter
    <2>1. v \in Launched /\ w \in Launched /\ v \in DOMAIN rows /\ w \in DOMAIN rows
      BY DEF Working, Timed, Launched
    <2>2. rows[v].state \in {"running", "recovery_required"}
      BY DEF Working, IInv, BrokerRows, Known
    <2>3. /\ rows[v].state \notin Active /\ rows[v].head <= rows[w].head
          /\ GivenUpAt(v, rows[w].head) => \E o \in Launched : Unfenced(v, o) /\ rows[o].n <= rows[w].n
      BY <2>1 DEF Timed, InOrder
    <2>4. rows[v].state = "recovery_required"
      BY <2>2, <2>3 DEF Active
    <2>5. rows[v].head \in Nat /\ rows[w].head \in Nat
      BY <2>1 DEF Timed, RowTimed, Launched
    <2>6. rows[v].head < rows[w].head \/ rows[v].head = rows[w].head
      BY <2>3, <2>5
    <2> QED BY <2>3, <2>4, <2>6 DEF GivenUpAt
  <1> QED BY Invariance, LaunchOrder, <1>1, PTL

--------------------------------------------------------------------------------
(* Type correctness: tasks and edges go from one ledger to another through the tick. *)

Phases == {"idle", "reconcile", "control", "plans", "handoffs", "review", "actuate", "decisions", "auto", "again"}

RowTyped(x) ==
  /\ rows[x].state \in RowStates /\ rows[x].task \in Tasks
  /\ rows[x].state = "completed" => rows[x].n # 0
  /\ rows[x].tid # None => rows[x].state \in {"handoff", "blocked"} /\ rows[x].to \in Tasks /\ rows[x].tid \in DOMAIN trans

RepoTyped ==
  /\ repo.task \in Tasks /\ repo.status \in {"pending", "ready", "complete"}
  /\ repo.agent \in Nat /\ repo.agent <= repo.head
RolesTyped ==
  /\ \A v \in DOMAIN reviews : v = ReviewId(reviews[v].worker) /\ reviews[v].worker \in Launched /\ reviews[v].task \in Tasks
  /\ \A v \in DOMAIN dec : v \in DOMAIN reviews /\ dec[v].task \in Tasks
AuthTyped == auth.task \in Tasks /\ auth.tid \in {None} \cup DOMAIN trans

\* The snapshots that a phase still reads.
TickTyped ==
  /\ pc \in Phases
  /\ pc # "idle" => raw.task \in Tasks
  /\ pc \in {"control", "plans"} => over.task \in Tasks

\* The fourth invariant, on top of the three before.
Typed ==
  /\ \A x \in DOMAIN rows : RowTyped(x)
  /\ RepoTyped /\ RolesTyped /\ DOMAIN trans \subseteq Edges /\ AuthTyped /\ TickTyped

Well == IInv /\ Linked /\ Timed /\ Typed

LEMMA InitTyped == Init => Typed
  <1> SUFFICES ASSUME Init PROVE Typed
    OBVIOUS
  <1>1. DOMAIN rows = {} /\ DOMAIN trans = {} /\ DOMAIN reviews = {} /\ DOMAIN dec = {}
    <2>1. DOMAIN <<>> = {}
      OBVIOUS
    <2> QED BY <2>1, Zenon DEF Init
  <1>2. repo.task = 1 /\ repo.status = "ready" /\ repo.agent = 1 /\ repo.head = 1
    BY Zenon DEF Init
  <1>3. auth.task = 1 /\ auth.tid = None
    BY Zenon DEF Init
  <1>4. 1 \in Tasks
    BY LifecycleBounds DEF Tasks
  <1>5. TickTyped
    BY DEF Init, TickTyped, Phases
  <1>6. RolesTyped
    BY <1>1, Zenon DEF RolesTyped
  <1>7. \A x \in DOMAIN rows : RowTyped(x)
    BY <1>1, Zenon
  <1>8. DOMAIN trans \subseteq Edges
    BY <1>1
  <1>9. RepoTyped /\ AuthTyped
    BY <1>2, <1>3, <1>4 DEF RepoTyped, AuthTyped
  <1> QED BY <1>5, <1>6, <1>7, <1>8, <1>9 DEF Typed

\* What a step says of the parts.
TransTo == DOMAIN trans \subseteq DOMAIN trans' /\ DOMAIN trans' \subseteq Edges
AuthTo == auth'.task \in Tasks /\ auth'.tid \in {None} \cup DOMAIN trans'
RowTo(x) ==
  /\ rows'[x].state \in RowStates /\ rows'[x].task \in Tasks
  /\ rows'[x].state = "completed" => rows'[x].n # 0
  /\ rows'[x].tid # None => rows'[x].state \in {"handoff", "blocked"} /\ rows'[x].to \in Tasks /\ rows'[x].tid \in DOMAIN trans'
RowsTo == Launched \subseteq Launched' /\ \A x \in DOMAIN rows' : RowTo(x)
RolesTo ==
  /\ \A v \in DOMAIN reviews' : v = ReviewId(reviews'[v].worker) /\ reviews'[v].worker \in Launched /\ reviews'[v].task \in Tasks
  /\ \A v \in DOMAIN dec' : v \in DOMAIN reviews' /\ dec'[v].task \in Tasks

LEMMA Types ==
  ASSUME TransTo, AuthTo, RowsTo, RolesTo, RepoTyped', TickTyped'
  PROVE  Typed'
  <1>1. RolesTyped'
    BY DEF RolesTo, RowsTo, RolesTyped
  <1>2. AuthTyped'
    BY DEF AuthTo, AuthTyped
  <1>3. ASSUME NEW x \in DOMAIN rows' PROVE RowTyped(x)'
    BY DEF RowsTo, RowTo, RowTyped
  <1> QED BY <1>1, <1>2, <1>3 DEF Typed, TransTo

LEMMA TransKept == ASSUME Typed, UNCHANGED trans PROVE TransTo
  BY DEF Typed, TransTo
LEMMA AuthStays == ASSUME Typed, TransTo, auth'.task = auth.task, auth'.tid = auth.tid PROVE AuthTo
  BY DEF Typed, AuthTyped, TransTo, AuthTo
LEMMA RowsKept == ASSUME Typed, TransTo, UNCHANGED rows PROVE RowsTo
  BY DEF Typed, RowTyped, TransTo, RowsTo, RowTo, Launched
LEMMA RolesKept == ASSUME Typed, UNCHANGED <<reviews, dec>> PROVE RolesTo
  BY DEF Typed, RolesTyped, RolesTo
LEMMA RepoKept == ASSUME Typed, UNCHANGED repo PROVE RepoTyped'
  BY DEF Typed, RepoTyped
LEMMA TickKept == ASSUME Typed, UNCHANGED <<pc, raw, over>> PROVE TickTyped'
  BY DEF Typed, TickTyped

\* A step of the threads or of the tick that leaves the ledger alone.
LEMMA LedgerKept ==
  ASSUME Typed, UNCHANGED ledger, RolesTo, RepoTyped', TickTyped'
  PROVE  Typed'
  <1>1. TransTo
    BY TransKept DEF ledger
  <1> QED BY <1>1, AuthStays, RowsKept, Types DEF ledger

\* A row written for a request that may be launched.
LEMMA RowPut ==
  ASSUME Well, TransTo, NEW id, NEW v, Replayable(id), rows' = Put(rows, id, v),
         v.state \in RowStates, v.task \in Tasks, v.state # "completed",
         v.tid # None => v.state = "handoff" /\ v.to \in Tasks /\ v.tid \in DOMAIN trans'
  PROVE  RowsTo
  <1>1. /\ DOMAIN rows' = DOMAIN rows \cup {id} /\ rows'[id] = v
        /\ \A x \in DOMAIN rows : x # id => rows'[x] = rows[x]
    BY DEF Put
  <1>2. id \notin Launched
    BY DEF Replayable, Launched, Well, Timed, RowTimed
  <1>3. Launched \subseteq Launched'
    BY <1>1, <1>2 DEF Launched
  <1>4. ASSUME NEW x \in DOMAIN rows' PROVE RowTo(x)
    BY <1>1 DEF Well, Typed, RowTyped, RowTo, TransTo
  <1> QED BY <1>3, <1>4 DEF RowsTo

\* A row that changes in place.
LEMMA RowEdited ==
  ASSUME Typed, TransTo, NEW w \in DOMAIN rows, DOMAIN rows' = DOMAIN rows, \A x \in DOMAIN rows : x # w => rows'[x] = rows[x],
         rows'[w].task = rows[w].task, rows'[w].n = rows[w].n, rows'[w].to = rows[w].to, rows'[w].tid = rows[w].tid,
         rows'[w].state \in RowStates, rows'[w].state = "completed" => rows[w].n # 0,
         rows[w].tid # None => rows'[w].state \in {"handoff", "blocked"}
  PROVE  RowsTo
  <1>1. Launched \subseteq Launched'
    BY DEF Launched
  <1>2. ASSUME NEW x \in DOMAIN rows PROVE RowTo(x)
    BY DEF Typed, RowTyped, RowTo, TransTo
  <1> QED BY <1>1, <1>2 DEF RowsTo

LEMMA BlockTypes ==
  ASSUME Well, TransTo, NEW id, NEW k, NEW t \in Tasks, NEW why, Block(id, k, t, why)
  PROVE  RowsTo
  <1>1. CASE id \in DOMAIN rows
    BY <1>1, RowsKept DEF Block, Well
  <1>2. CASE id \notin DOMAIN rows
    <2> DEFINE v == [Row EXCEPT !.kind = k, !.task = t, !.why = why]
    <2>1. rows' = Put(rows, id, v) /\ Replayable(id)
      BY <1>2 DEF Block, Replayable
    <2>2. v.tid = None /\ v.task = t /\ v.state = "blocked"
      BY DEF Row
    <2> HIDE DEF v
    <2> QED BY <2>1, <2>2, RowPut DEF RowStates
  <1> QED BY <1>1, <1>2

LEMMA LaunchTypes ==
  ASSUME Well, TransTo, NEW id, NEW k, NEW t \in Tasks, NEW h, NEW d, Launch(id, k, t, h, d)
  PROVE  RowsTo /\ AuthTo
  <1> DEFINE why == Refusal(k, t, h)
             launching == [Row EXCEPT !.kind = k, !.task = t, !.state = "launching", !.head = h, !.n = Now, !.depth = d]
             refused == [Row EXCEPT !.kind = k, !.task = t, !.why = why]
  <1>1. CASE Replayable(id) /\ why = ""
    <2>1. rows' = Put(rows, id, launching) /\ auth' = [auth EXCEPT !.lc = "EXECUTING"]
      BY <1>1 DEF Launch
    <2>2. launching.tid = None /\ launching.task = t /\ launching.state = "launching"
      BY DEF Row
    <2>3. auth'.task = auth.task /\ auth'.tid = auth.tid
      BY <2>1 DEF Well, Linked, AuthLinked, AuthFields
    <2> HIDE DEF launching
    <2> QED BY <1>1, <2>1, <2>2, <2>3, RowPut, AuthStays DEF RowStates, Active, Well
  <1>2. CASE Replayable(id) /\ why # "" /\ why # "changed"
    <2>1. rows' = Put(rows, id, refused) /\ auth' = auth
      BY <1>2 DEF Launch
    <2>2. refused.tid = None /\ refused.task = t /\ refused.state = "blocked"
      BY DEF Row
    <2> HIDE DEF refused
    <2> QED BY <1>2, <2>1, <2>2, RowPut, AuthStays DEF RowStates, Well
  <1>3. CASE ~Replayable(id) \/ why = "changed"
    BY <1>3, BlockTypes, AuthStays DEF Launch, Well
  <1> QED BY <1>1, <1>2, <1>3

LEMMA SuccessorIs ==
  ASSUME NEW t \in Tasks
  PROVE  Successor(t) # t /\ Successor(t) \in Tasks \cup {0}
  BY LifecycleBounds DEF Successor, Tasks

LEMMA EdgeIs ==
  ASSUME NEW a \in Tasks, NEW b \in Tasks, a # b, NEW g \in Nat
  PROVE  <<a, b, g>> \in Edges
  <1>1. <<a, b, g>> \in Tasks \X Tasks \X Nat
    OBVIOUS
  <1>2. <<a, b, g>>[1] = a /\ <<a, b, g>>[2] = b
    OBVIOUS
  <1> QED BY <1>1, <1>2 DEF Edges

\* A transition is written, in place or for a new edge.
LEMMA TransPut ==
  ASSUME Typed, NEW k, k \in DOMAIN trans \/ k \in Edges, DOMAIN trans' = DOMAIN trans \cup {k}
  PROVE  TransTo
  BY DEF Typed, TransTo

LEMMA GatedKeeps ==
  ASSUME NEW a, DOMAIN a = AuthFields
  PROVE  Gated(a).task = a.task /\ Gated(a).tid = a.tid
  BY DEF Gated, AuthFields

LEMMA AtRestKeeps ==
  ASSUME NEW a, DOMAIN a = AuthFields
  PROVE  AtRest(a).task = a.task /\ AtRest(a).tid = a.tid
  <1>1. CASE a.task # raw.task \/ a.gate # ""
    BY <1>1, GatedKeeps DEF AtRest
  <1>2. CASE ~(a.task # raw.task \/ a.gate # "")
    <2>1. PICK l, g : AtRest(a) = Gated([a EXCEPT !.lc = l, !.gate = g])
      BY <1>2 DEF AtRest
    <2>2. /\ DOMAIN [a EXCEPT !.lc = l, !.gate = g] = AuthFields
          /\ [a EXCEPT !.lc = l, !.gate = g].task = a.task /\ [a EXCEPT !.lc = l, !.gate = g].tid = a.tid
      BY DEF AuthFields
    <2> QED BY <2>1, <2>2, GatedKeeps
  <1> QED BY <1>1, <1>2

LEMMA ReconcileTypes ==
  ASSUME Well, raw.task \in Tasks, \/ ReconcileSettled \/ ReconcileSpread \/ ReconcileOwned
                                   \/ ReconcileAtRest \/ ReconcileFollows \/ ReconcileProjection \/ ReconcileStrayed
  PROVE  TransTo /\ AuthTo
  <1>0. /\ DOMAIN auth = AuthFields /\ auth.gen \in Nat /\ auth.gen + 1 \in Nat
        /\ auth.task \in Tasks /\ auth.tid \in {None} \cup DOMAIN trans
    BY DEF Well, Linked, AuthLinked, Typed, AuthTyped
  <1>1. ASSUME NEW a, DOMAIN a = AuthFields, a.task = auth.task, a.tid = auth.tid, auth' = Gated(a), UNCHANGED trans
        PROVE  TransTo /\ AuthTo
    BY <1>1, GatedKeeps, TransKept, AuthStays DEF Well
  <1>2. CASE ReconcileSettled
    <2>1. DOMAIN [auth EXCEPT !.lc = "COMPLETE"] = AuthFields
          /\ [auth EXCEPT !.lc = "COMPLETE"].task = auth.task /\ [auth EXCEPT !.lc = "COMPLETE"].tid = auth.tid
      BY <1>0 DEF AuthFields
    <2> QED BY <1>1, <1>2, <2>1 DEF ReconcileSettled
  <1>3. CASE ReconcileSpread \/ ReconcileStrayed
    <2>1. PICK g : auth' = Gated([auth EXCEPT !.gate = g])
      BY <1>3 DEF ReconcileSpread, ReconcileStrayed
    <2>2. DOMAIN [auth EXCEPT !.gate = g] = AuthFields
          /\ [auth EXCEPT !.gate = g].task = auth.task /\ [auth EXCEPT !.gate = g].tid = auth.tid
      BY <1>0 DEF AuthFields
    <2> QED BY <1>1, <1>3, <2>1, <2>2 DEF ReconcileSpread, ReconcileStrayed
  <1>4. CASE ReconcileOwned
    <2>0. PICK t \in 1..NTasks :
            LET e == <<t, raw.task, auth.gen + 1>>
                a == [auth EXCEPT !.task = t, !.lc = RoleState,
                                  !.gate = IF @ = "" /\ ActiveRows = {} /\ Stuck # {} THEN "NEXT_TASK_WITHOUT_HANDOFF" ELSE @]
            IN IF raw.task # t /\ raw.task = Successor(t)
               THEN auth' = Gated([a EXCEPT !.tid = e]) /\ trans' = Join(trans, [k \in {e} |-> "waiting_source"])
               ELSE auth' = Gated(a) /\ UNCHANGED trans
      BY <1>4, Zenon DEF ReconcileOwned
    <2>1. PICK l, g, tid :
            /\ t \in Tasks /\ tid = <<t, raw.task, auth.gen + 1>>
            /\ \/ /\ raw.task # t
                  /\ auth' = Gated([[auth EXCEPT !.task = t, !.lc = l, !.gate = g] EXCEPT !.tid = tid])
                  /\ trans' = Join(trans, [k \in {tid} |-> "waiting_source"])
               \/ auth' = Gated([auth EXCEPT !.task = t, !.lc = l, !.gate = g]) /\ UNCHANGED trans
      BY <2>0 DEF Tasks
    <2> DEFINE a == [auth EXCEPT !.task = t, !.lc = l, !.gate = g]
               b == [a EXCEPT !.tid = tid]
    <2>2. DOMAIN a = AuthFields /\ a.task = t /\ a.tid = auth.tid
      BY <1>0 DEF AuthFields
    <2>3. DOMAIN b = AuthFields /\ b.task = t /\ b.tid = tid
      <3> HIDE DEF a
      <3> QED BY <2>2 DEF AuthFields
    <2>4. CASE auth' = Gated(a) /\ UNCHANGED trans
      <3> HIDE DEF a
      <3>1. auth'.task = t /\ auth'.tid = auth.tid
        BY <2>2, <2>4, GatedKeeps
      <3> QED BY <1>0, <2>1, <2>4, <3>1, TransKept DEF Well, AuthTo
    <2>5. CASE auth' = Gated(b) /\ raw.task # t /\ trans' = Join(trans, [k \in {tid} |-> "waiting_source"])
      <3>1. DOMAIN trans' = DOMAIN trans \cup {tid}
        BY <2>5 DEF Join
      <3>2. tid \in Edges
        BY <1>0, <2>1, <2>5, EdgeIs
      <3> HIDE DEF b
      <3>3. auth'.task = t /\ auth'.tid = tid
        BY <2>3, <2>5, GatedKeeps
      <3> QED BY <2>1, <3>1, <3>2, <3>3, TransPut DEF AuthTo, Well
    <2> QED BY <2>1, <2>4, <2>5
  <1>5. CASE ReconcileAtRest
    BY <1>0, <1>5, AtRestKeeps, AuthStays, TransKept DEF ReconcileAtRest, Well
  <1>6. CASE ReconcileFollows
    <2>1. PICK k \in Latest(Published, LAMBDA j : j[3]) :
            /\ trans' = [trans EXCEPT ![k] = "completed"]
            /\ auth' = AtRest([auth EXCEPT !.gen = k[3], !.task = raw.task, !.tid = k, !.gate = ""])
      BY <1>6 DEF ReconcileFollows
    <2>2. k \in DOMAIN trans
      BY DEF Latest, Published, Matching
    <2> DEFINE a == [auth EXCEPT !.gen = k[3], !.task = raw.task, !.tid = k, !.gate = ""]
    <2>3. DOMAIN a = AuthFields /\ a.task = raw.task /\ a.tid = k /\ auth' = AtRest(a)
      BY <1>0, <2>1 DEF AuthFields
    <2>4. DOMAIN trans' = DOMAIN trans \cup {k}
      BY <2>1, <2>2
    <2> HIDE DEF a
    <2> QED BY <2>2, <2>3, <2>4, AtRestKeeps, TransPut DEF AuthTo, Well
  <1>7. CASE ReconcileProjection
    <2>1. PICK k, s : /\ k \in Matching \/ k = <<auth.task, raw.task, auth.gen + 1>>
                      /\ trans' = Put(trans, k, s)
                      /\ auth' = Gated([auth EXCEPT !.tid = k, !.lc = "TRANSITIONING"])
      BY <1>7 DEF ReconcileProjection, Latest
    <2>2. DOMAIN [auth EXCEPT !.tid = k, !.lc = "TRANSITIONING"] = AuthFields
          /\ [auth EXCEPT !.tid = k, !.lc = "TRANSITIONING"].task = auth.task
          /\ [auth EXCEPT !.tid = k, !.lc = "TRANSITIONING"].tid = k
      BY <1>0 DEF AuthFields
    <2>3. auth'.task = auth.task /\ auth'.tid = k
      BY <2>1, <2>2, GatedKeeps
    <2>4. auth.task # raw.task
      BY <1>7 DEF ReconcileProjection, Moved
    <2>5. k \in DOMAIN trans \/ k \in Edges
      BY <1>0, <2>1, <2>4, EdgeIs DEF Matching
    <2>6. DOMAIN trans' = DOMAIN trans \cup {k}
      BY <2>1 DEF Put
    <2> QED BY <1>0, <2>3, <2>5, <2>6, TransPut DEF AuthTo, Well
  <1> QED BY <1>2, <1>3, <1>4, <1>5, <1>6, <1>7

LEMMA ReconcileTyped ==
  ASSUME Well, Reconcile
  PROVE  Typed'
  <1>1. UNCHANGED <<rows, reviews, dec, repo>> /\ pc \in {"reconcile", "again"} /\ raw.task \in Tasks
    BY DEF Reconcile, roles, Well, Typed, TickTyped
  <1>2. TransTo /\ AuthTo
    BY <1>1, ReconcileTypes DEF Reconcile
  <1>3. TickTyped'
    <2>1. CASE pc = "reconcile"
      <3>1. pc' = "control" /\ raw' = raw /\ over'.task = auth'.task
        BY <2>1 DEF Reconcile, Enter
      <3> QED BY <1>1, <1>2, <3>1 DEF TickTyped, AuthTo, Phases
    <2>2. CASE pc = "again"
      <3>1. pc' = "idle"
        BY <2>2 DEF Reconcile, Enter
      <3> QED BY <3>1 DEF TickTyped, Phases
    <2> QED BY <1>1, <2>1, <2>2
  <1> QED BY <1>1, <1>2, <1>3, RowsKept, RolesKept, RepoKept, Types DEF Well

LEMMA MonitorTyped ==
  ASSUME Well, Monitor
  PROVE  Typed'
  <1>1. UNCHANGED <<ledger, reviews, dec, repo>> /\ pc' = "reconcile" /\ raw' = repo
    BY DEF Monitor, Enter, roles
  <1>2. TickTyped'
    BY <1>1 DEF TickTyped, Phases, Well, Typed, RepoTyped
  <1> QED BY <1>1, <1>2, RolesKept, RepoKept, LedgerKept DEF Well

LEMMA NextPhaseTyped ==
  ASSUME Well, NextPhase
  PROVE  Typed'
  <1>1. UNCHANGED <<ledger, reviews, dec, repo, raw>>
    BY DEF NextPhase, roles
  <1>2. /\ pc' \in {"plans", "handoffs", "review", "decisions", "auto"}
        /\ pc' = "plans" => pc = "control" /\ over' = over
        /\ pc # "idle"
    BY DEF NextPhase, ToHandoffs, ToReview, Enter
  <1>3. TickTyped'
    BY <1>1, <1>2 DEF TickTyped, Phases, Well, Typed
  <1> QED BY <1>1, <1>3, RolesKept, RepoKept, LedgerKept DEF Well

LEMMA ReviewTyped ==
  ASSUME Well, Review
  PROVE  Typed'
  <1>1. UNCHANGED <<ledger, dec, repo, raw>> /\ pc' = "actuate" /\ pc = "review"
    BY DEF Review, Enter
  <1>2. TickTyped'
    BY <1>1 DEF TickTyped, Phases, Well, Typed
  <1>3. RolesTo
    <2> DEFINE last == Latest(Completed, LAMBDA w : rows[w].c)
               new == {ReviewId(w) : w \in last}
               g == [v \in new |-> [state |-> "running", task |-> rows[v[2]].task, worker |-> v[2], head |-> repo.head, dirty |-> repo.dirty]]
    <2>1. reviews' = Join(reviews, g)
      BY DEF Review, LaunchReview
    <2>2. /\ DOMAIN reviews' = DOMAIN reviews \cup new
          /\ \A v \in DOMAIN reviews : reviews'[v] = reviews[v]
          /\ \A v \in new : v \notin DOMAIN reviews => reviews'[v] = g[v]
      BY <2>1 DEF Join
    <2>3. ASSUME NEW v \in new PROVE g[v].worker \in Launched /\ v = ReviewId(g[v].worker) /\ g[v].task \in Tasks
      <3>1. PICK w \in last : v = ReviewId(w)
        OBVIOUS
      <3>2. w \in DOMAIN rows /\ rows[w].state = "completed"
        BY DEF Latest, Completed
      <3>3. w \in Launched /\ rows[w].task \in Tasks
        BY <3>2 DEF Well, Typed, RowTyped, Timed, RowTimed, Launched
      <3>4. v[2] = w
        BY <3>1 DEF ReviewId
      <3>5. g[v].worker = v[2] /\ g[v].task = rows[v[2]].task
        OBVIOUS
      <3> QED BY <3>1, <3>3, <3>4, <3>5
    <2> HIDE DEF g, new
    <2> QED BY <1>1, <2>2, <2>3 DEF Well, Typed, RolesTyped, RolesTo
  <1> QED BY <1>1, <1>2, <1>3, RepoKept, LedgerKept DEF Well

LEMMA SpawnTyped ==
  ASSUME Well, Spawn
  PROVE  Typed'
  <1> DEFINE w == cur.id
  <1>1. /\ w \in DOMAIN rows /\ DOMAIN rows[w] = Fields /\ rows[w].state = "launching"
        /\ UNCHANGED <<trans, auth, reviews, dec, repo, pc, raw, over>>
    BY DEF Spawn, Well, IInv, TickWell, RowsWell, roles
  <1>2. TransTo
    BY <1>1, TransKept DEF Well
  <1>3. RowsTo
    <2>1. CASE UNCHANGED rows
      BY <1>2, <2>1, RowsKept DEF Well
    <2>2. CASE rows' = [rows EXCEPT ![w].state = "blocked", ![w].why = "obligation"]
      <3>1. /\ DOMAIN rows' = DOMAIN rows /\ \A x \in DOMAIN rows : x # w => rows'[x] = rows[x]
            /\ rows'[w] = [rows[w] EXCEPT !.state = "blocked", !.why = "obligation"]
        BY <1>1, <2>2
      <3>2. /\ rows'[w].state = "blocked" /\ rows'[w].task = rows[w].task
            /\ rows'[w].n = rows[w].n /\ rows'[w].to = rows[w].to /\ rows'[w].tid = rows[w].tid
        BY <1>1, <3>1 DEF Fields
      <3> QED BY <1>1, <1>2, <3>1, <3>2, RowEdited DEF Well, RowStates
    <2> QED BY <2>1, <2>2 DEF Spawn
  <1> QED BY <1>1, <1>2, <1>3, AuthStays, RolesKept, RepoKept, TickKept, Types DEF Well

LEMMA MarkPlanTyped ==
  ASSUME Well, MarkPlan
  PROVE  Typed'
  BY RolesKept, RepoKept, TickKept, LedgerKept DEF MarkPlan, Well

LEMMA WriteHistoryTyped ==
  ASSUME Well, WriteHistory
  PROVE  Typed'
  BY RolesKept, RepoKept, TickKept, LedgerKept DEF WriteHistory, Well

LEMMA ResumePlanTyped ==
  ASSUME Well, NEW r \in todo, ResumePlan(r)
  PROVE  Typed'
  <1>1. UNCHANGED <<reviews, dec, repo, pc, raw, over>> /\ UNCHANGED trans /\ over.task \in Tasks
    BY DEF ResumePlan, Well, Typed, TickTyped, ledger
  <1>2. TransTo
    BY <1>1, TransKept DEF Well
  <1>3. RowsTo /\ AuthTo
    <2>1. CASE UNCHANGED <<rows, auth>>
      BY <1>2, <2>1, RowsKept, AuthStays DEF Well
    <2>2. CASE Block(ExecuteId(r), "control", over.task, "unresolved") /\ UNCHANGED auth
      BY <1>1, <1>2, <2>2, BlockTypes, AuthStays DEF Well
    <2>3. CASE Launch(ExecuteId(r), "control", over.task, repo.head, 0)
      BY <1>1, <1>2, <2>3, LaunchTypes
    <2> QED BY <2>1, <2>2, <2>3 DEF ResumePlan, ledger
  <1> QED BY <1>1, <1>2, <1>3, RolesKept, RepoKept, TickKept, Types DEF Well

LEMMA AutoReadyTyped ==
  ASSUME Well, AutoReady
  PROVE  Typed'
  <1>1. UNCHANGED <<reviews, dec, repo, raw, over, trans>> /\ pc' = "again" /\ raw.task \in Tasks
    BY DEF AutoReady, Well, Typed, TickTyped, roles
  <1>2. TransTo
    BY <1>1, TransKept DEF Well
  <1>3. RowsTo /\ AuthTo
    <2>1. CASE UNCHANGED <<rows, auth>>
      BY <1>2, <2>1, RowsKept, AuthStays DEF Well
    <2>2. CASE Launch(ReadyId(raw.task, repo.head), "ready", raw.task, repo.head, 0)
      BY <1>1, <1>2, <2>2, LaunchTypes
    <2> QED BY <2>1, <2>2 DEF AutoReady
  <1>4. TickTyped'
    BY <1>1 DEF TickTyped, Phases
  <1> QED BY <1>1, <1>2, <1>3, <1>4, RolesKept, RepoKept, Types DEF Well

\* The row of a handoff in hand: its target is a task, its edge known.
LEMMA InHandTyped ==
  ASSUME Well, NEW r \in todo, pc = "handoffs"
  PROVE  /\ r \in DOMAIN rows /\ DOMAIN rows[r] = Fields /\ rows[r].tid # None
         /\ rows[r].to \in Tasks /\ rows[r].tid \in DOMAIN trans /\ rows[r].tid[3] \in Nat
         /\ rows[r].state \in {"handoff", "blocked"}
  <1>1. Lasts(r)
    BY DEF Well, Linked, HandsLinked
  <1> QED BY <1>1 DEF Lasts, Well, Typed, RowTyped, IInv, RowsWell, Linked, RowsLinked, EdgeTo, Edge

LEMMA RefusingTyped ==
  ASSUME Well, NEW r \in todo, pc = "handoffs", NEW why, MarkHandoffBlocked(r, why)
  PROVE  RowsTo /\ TransTo
  <1>1. r \in DOMAIN rows /\ DOMAIN rows[r] = Fields /\ rows[r].tid \in DOMAIN trans
    BY InHandTyped
  <1>2. /\ DOMAIN rows' = DOMAIN rows /\ \A x \in DOMAIN rows : x # r => rows'[x] = rows[x]
        /\ rows'[r] = [rows[r] EXCEPT !.state = "blocked", !.why = why]
    BY <1>1 DEF MarkHandoffBlocked
  <1>3. /\ rows'[r].state = "blocked" /\ rows'[r].task = rows[r].task
        /\ rows'[r].n = rows[r].n /\ rows'[r].to = rows[r].to /\ rows'[r].tid = rows[r].tid
    BY <1>1, <1>2 DEF Fields
  <1>4. DOMAIN trans' = DOMAIN trans \cup {rows[r].tid}
    BY <1>1 DEF MarkHandoffBlocked
  <1>5. TransTo
    BY <1>1, <1>4, TransPut DEF Well
  <1> QED BY <1>1, <1>2, <1>3, <1>5, RowEdited DEF Well, RowStates

LEMMA ReopenTyped ==
  ASSUME Well, NEW r \in todo, Reopen(r)
  PROVE  Typed'
  <1>1. pc = "handoffs" /\ UNCHANGED <<auth, reviews, dec, repo, pc, raw, over>>
    BY DEF Reopen, roles
  <1>2. r \in DOMAIN rows /\ DOMAIN rows[r] = Fields /\ rows[r].tid \in DOMAIN trans
    BY <1>1, InHandTyped
  <1>3. TransTo /\ RowsTo
    <2>1. CASE UNCHANGED <<rows, trans>>
      BY <2>1, TransKept, RowsKept DEF Well
    <2>2. ASSUME NEW mark, trans' = [trans EXCEPT ![rows[r].tid] = "ready"],
                 rows' = [rows EXCEPT ![r].state = "handoff", ![r].why = "", ![r].again = @ \cup {mark}]
          PROVE  TransTo /\ RowsTo
      <3>1. /\ DOMAIN rows' = DOMAIN rows /\ \A x \in DOMAIN rows : x # r => rows'[x] = rows[x]
            /\ rows'[r] = [rows[r] EXCEPT !.state = "handoff", !.why = "", !.again = @ \cup {mark}]
        BY <1>2, <2>2
      <3>2. /\ rows'[r].state = "handoff" /\ rows'[r].task = rows[r].task
            /\ rows'[r].n = rows[r].n /\ rows'[r].to = rows[r].to /\ rows'[r].tid = rows[r].tid
        BY <1>2, <3>1 DEF Fields
      <3>3. DOMAIN trans' = DOMAIN trans \cup {rows[r].tid}
        BY <1>2, <2>2
      <3>4. TransTo
        BY <1>2, <3>3, TransPut DEF Well
      <3> QED BY <1>2, <3>1, <3>2, <3>4, RowEdited DEF Well, RowStates
    <2> QED BY <2>1, <2>2 DEF Reopen
  <1> QED BY <1>1, <1>3, AuthStays, RolesKept, RepoKept, TickKept, Types DEF Well

\* A commit that names a task and leaves the last one under agent/ behind the head.
LEMMA RepoMoves ==
  ASSUME Well, repo'.task \in Tasks, repo'.status \in {"pending", "ready", "complete"},
         repo'.agent \in {repo.agent, repo.head + 1}, repo'.head = repo.head + 1
  PROVE  RepoTyped'
  BY DEF Well, Typed, Timed, RepoTyped

LEMMA OfferTyped ==
  ASSUME Well, NEW r \in todo, Offer(r)
  PROVE  Typed'
  <1>1. pc = "handoffs" /\ UNCHANGED <<auth, reviews, dec, pc, raw, over>>
    BY DEF Offer, roles
  <1>2. ASSUME NEW why, MarkHandoffBlocked(r, why), UNCHANGED repo PROVE Typed'
    <2>1. RowsTo /\ TransTo
      BY <1>1, <1>2, RefusingTyped
    <2> QED BY <1>1, <1>2, <2>1, AuthStays, RolesKept, RepoKept, TickKept, Types DEF Well
  <1>3. ASSUME UNCHANGED <<rows, trans>>, RepoTyped' PROVE Typed'
    BY <1>1, <1>3, RolesKept, TickKept, LedgerKept DEF Well, ledger
  <1>4. CASE UNCHANGED <<rows, trans, repo>>
    BY <1>3, <1>4, RepoKept DEF Well
  <1>5. CASE Activate(r)
    <2>1. CASE /\ UNCHANGED <<rows, trans>>
               /\ repo' = [repo EXCEPT !.task = rows[r].to, !.status = "pending", !.head = @ + 1, !.agent = repo.head + 1]
      <3>1. /\ repo'.task = rows[r].to /\ repo'.status = "pending" /\ repo'.head = repo.head + 1
            /\ repo'.agent = repo.head + 1
        BY <2>1 DEF Well, Timed, RepoFields
      <3>2. rows[r].to \in Tasks
        BY <1>1, InHandTyped
      <3> QED BY <1>3, <2>1, <3>1, <3>2, RepoMoves
    <2> QED BY <1>2, <1>4, <1>5, <2>1 DEF Activate
  <1> QED BY <1>2, <1>4, <1>5 DEF Offer

LEMMA BeginTyped ==
  ASSUME Well, Begin
  PROVE  Typed'
  <1>1. /\ pc = "handoffs" /\ cur.id \in todo
        /\ UNCHANGED <<auth, reviews, dec, repo, pc, raw, over>>
    BY DEF Begin, Well, IInv, TickWell
  <1>2. CASE UNCHANGED <<rows, trans>>
    BY <1>1, <1>2, RolesKept, RepoKept, TickKept, LedgerKept DEF Well, ledger
  <1>3. CASE MarkHandoffBlocked(cur.id, "busy")
    <2>1. RowsTo /\ TransTo
      BY <1>1, <1>3, RefusingTyped
    <2> QED BY <1>1, <2>1, AuthStays, RolesKept, RepoKept, TickKept, Types DEF Well
  <1> QED BY <1>2, <1>3 DEF Begin

LEMMA ConsumeTyped ==
  ASSUME Well, Consume
  PROVE  Typed'
  <1> DEFINE r == cur.id
  <1>1. /\ pc = "handoffs" /\ r \in todo /\ UNCHANGED <<reviews, dec, repo, pc, raw, over>>
        /\ rows' = [rows EXCEPT ![r].consumed = TRUE, ![r].b = Now]
        /\ trans' = [trans EXCEPT ![rows[r].tid] = "published"]
        /\ auth' = [auth EXCEPT !.gen = rows[r].tid[3], !.task = rows[r].to, !.tid = rows[r].tid, !.lc = "PLANNING", !.gate = ""]
    BY DEF Consume, Well, IInv, TickWell, roles
  <1>2. /\ r \in DOMAIN rows /\ DOMAIN rows[r] = Fields /\ rows[r].tid # None
        /\ rows[r].to \in Tasks /\ rows[r].tid \in DOMAIN trans /\ rows[r].state \in {"handoff", "blocked"}
    BY <1>1, InHandTyped
  <1>3. /\ DOMAIN rows' = DOMAIN rows /\ \A x \in DOMAIN rows : x # r => rows'[x] = rows[x]
        /\ rows'[r] = [rows[r] EXCEPT !.consumed = TRUE, !.b = Now]
    BY <1>1, <1>2
  <1>4. /\ rows'[r].state = rows[r].state /\ rows'[r].task = rows[r].task
        /\ rows'[r].n = rows[r].n /\ rows'[r].to = rows[r].to /\ rows'[r].tid = rows[r].tid
    BY <1>2, <1>3 DEF Fields
  <1>5. DOMAIN trans' = DOMAIN trans \cup {rows[r].tid}
    BY <1>1, <1>2
  <1>6. TransTo
    BY <1>2, <1>5, TransPut DEF Well
  <1>7. RowsTo
    BY <1>2, <1>3, <1>4, <1>6, RowEdited DEF Well, RowStates
  <1>8. auth'.task = rows[r].to /\ auth'.tid = rows[r].tid
    BY <1>1 DEF Well, Linked, AuthLinked, AuthFields
  <1>9. AuthTo
    BY <1>2, <1>5, <1>8 DEF AuthTo
  <1> QED BY <1>1, <1>6, <1>7, <1>9, RolesKept, RepoKept, TickKept, Types DEF Well

LEMMA HandoffTyped ==
  ASSUME Well, NEW id \in DOMAIN dec, NEW to \in Tasks, NEW staged, to # dec[id].task, Replayable(id),
         RecordHandoff(id, to, staged)
  PROVE  TransTo /\ RowsTo /\ AuthTo
  <1> DEFINE t == dec[id].task
             prior == {k \in DOMAIN trans : k[1] = t /\ k[2] = to}
             waits == SourceBlockers(id, t) # {}
             tid == IF prior = {} THEN <<t, to, auth.gen + 1>> ELSE CHOOSE k \in prior : \A j \in prior : k[3] <= j[3]
  <1>1. t \in Tasks /\ auth.gen + 1 \in Nat /\ DOMAIN auth = AuthFields
    BY DEF Well, Typed, RolesTyped, Linked, AuthLinked
  <1>2. tid \in DOMAIN trans \/ tid \in Edges
    <2>1. CASE prior = {}
      BY <1>1, <2>1, EdgeIs
    <2>2. CASE prior # {}
      <3>1. \A k \in prior : k[3] \in Nat
        BY DEF Well, Linked, TransLinked, Edge
      <3>2. \E k \in prior : \A j \in prior : k[3] <= j[3]
        <4> HIDE DEF prior
        <4> QED BY <2>2, <3>1, LeastExists
      <3>3. tid \in prior
        <4> HIDE DEF prior
        <4> QED BY <2>2, <3>2
      <3> QED BY <3>3
    <2> QED BY <2>1, <2>2
  <1>0. /\ trans' = Put(trans, tid, IF waits THEN "waiting_source" ELSE "ready")
        /\ auth' = [auth EXCEPT !.task = t, !.tid = tid, !.lc = IF waits THEN "REVIEWING" ELSE "TRANSITIONING"]
        /\ rows' = IF waits THEN rows
                   ELSE Put(rows, id, [Row EXCEPT !.state = "handoff", !.task = t, !.to = to, !.tid = tid, !.staged = staged,
                                                  !.ready = raw.status = "ready", !.head = repo.head, !.m = Now, !.b = Now])
    BY DEF RecordHandoff
  <1> HIDE DEF tid, prior, waits
  <1>3. /\ \E s : trans' = Put(trans, tid, s)
        /\ \E l : auth' = [auth EXCEPT !.task = t, !.tid = tid, !.lc = l]
        /\ \/ UNCHANGED rows
           \/ \E ready, now : rows' = Put(rows, id, [Row EXCEPT !.state = "handoff", !.task = t, !.to = to, !.tid = tid,
                                                       !.staged = staged, !.ready = ready, !.head = repo.head, !.m = now, !.b = now])
    <2>1. \E s : trans' = Put(trans, tid, s)
      BY <1>0
    <2>2. \E l : auth' = [auth EXCEPT !.task = t, !.tid = tid, !.lc = l]
      BY <1>0
    <2>3. CASE waits
      BY <1>0, <2>1, <2>2, <2>3
    <2>4. CASE ~waits
      <3> DEFINE ready == raw.status = "ready"
      <3>1. rows' = Put(rows, id, [Row EXCEPT !.state = "handoff", !.task = t, !.to = to, !.tid = tid, !.staged = staged,
                                              !.ready = ready, !.head = repo.head, !.m = Now, !.b = Now])
        BY <1>0, <2>4, Zenon
      <3> HIDE DEF ready
      <3> QED BY <2>1, <2>2, <3>1
    <2> QED BY <2>3, <2>4
  <1>4. DOMAIN trans' = DOMAIN trans \cup {tid}
    <2>1. PICK s : trans' = Put(trans, tid, s)
      BY <1>3
    <2> QED BY <2>1 DEF Put
  <1>5. TransTo
    BY <1>2, <1>4, TransPut DEF Well
  <1>6. AuthTo
    <2>1. PICK l : auth' = [auth EXCEPT !.task = t, !.tid = tid, !.lc = l]
      BY <1>3
    <2>2. auth'.task = t /\ auth'.tid = tid
      BY <1>1, <2>1 DEF AuthFields
    <2> QED BY <1>1, <1>4, <2>2 DEF AuthTo
  <1>7. RowsTo
    <2>1. CASE UNCHANGED rows
      BY <1>5, <2>1, RowsKept DEF Well
    <2>2. ASSUME NEW ready, NEW now,
                 rows' = Put(rows, id, [Row EXCEPT !.state = "handoff", !.task = t, !.to = to, !.tid = tid,
                                                   !.staged = staged, !.ready = ready, !.head = repo.head, !.m = now, !.b = now])
          PROVE  RowsTo
      <3> DEFINE v == [Row EXCEPT !.state = "handoff", !.task = t, !.to = to, !.tid = tid,
                                  !.staged = staged, !.ready = ready, !.head = repo.head, !.m = now, !.b = now]
      <3>1. v.state = "handoff" /\ v.task = t /\ v.to = to /\ v.tid = tid
        BY DEF Row
      <3>2. rows' = Put(rows, id, v)
        BY <2>2
      <3> HIDE DEF v, t
      <3> QED BY <1>1, <1>4, <1>5, <3>1, <3>2, RowPut DEF RowStates
    <2> QED BY <1>3, <2>1, <2>2
  <1> QED BY <1>5, <1>6, <1>7

LEMMA ActuateTyped ==
  ASSUME Well, NEW id \in todo, Actuate(id)
  PROVE  Typed'
  <1>1. /\ pc = "decisions" /\ Replayable(id) /\ id \in DOMAIN dec /\ UNCHANGED <<reviews, dec, repo, pc, raw, over>>
        /\ dec[id].task \in Tasks /\ raw.task \in Tasks
    BY DEF Actuate, Well, IInv, TickWell, Linked, HandsLinked, Typed, RolesTyped, TickTyped, roles
  <1> SUFFICES TransTo /\ RowsTo /\ AuthTo
    BY <1>1, RolesKept, RepoKept, TickKept, Types DEF Well
  <1>2. CASE \E to \in Tasks, staged \in BOOLEAN : to # dec[id].task /\ RecordHandoff(id, to, staged)
    <2>1. PICK to \in Tasks, staged \in BOOLEAN : to # dec[id].task /\ RecordHandoff(id, to, staged)
      BY <1>2
    <2> QED BY <1>1, <2>1, HandoffTyped
  <1>3. CASE RecordSettled(id)
    <2> DEFINE v == [Row EXCEPT !.state = "settled", !.task = dec[id].task, !.m = Now, !.b = Now]
    <2>1. rows' = Put(rows, id, v) /\ UNCHANGED trans
      BY <1>3 DEF RecordSettled
    <2>2. v.state = "settled" /\ v.task = dec[id].task /\ v.tid = None
      BY DEF Row
    <2>3. auth'.task = auth.task /\ auth'.tid = auth.tid
      BY <1>3 DEF RecordSettled, Well, Linked, AuthLinked, AuthFields
    <2>4. TransTo
      BY <2>1, TransKept DEF Well
    <2> HIDE DEF v
    <2>5. AuthTo
      BY <2>3, <2>4, AuthStays DEF Well
    <2>6. v.state \in RowStates /\ v.state # "completed" /\ v.task \in Tasks
      BY <1>1, <2>2 DEF RowStates
    <2>7. RowsTo
      BY <1>1, <2>1, <2>2, <2>4, <2>6, RowPut
    <2> QED BY <2>4, <2>5, <2>7
  <1>4. CASE UNCHANGED trans /\ \E t \in Tasks : \E k, h, d : Launch(id, k, t, h, d)
    <2>1. TransTo
      BY <1>4, TransKept DEF Well
    <2>2. PICK t \in Tasks : \E k, h, d : Launch(id, k, t, h, d)
      BY <1>4
    <2>3. PICK k, h, d : Launch(id, k, t, h, d)
      BY <2>2
    <2> QED BY <2>1, <2>3, LaunchTypes
  <1>5. CASE UNCHANGED <<trans, auth>> /\ \E t \in Tasks : \E k, why : Block(id, k, t, why)
    <2>1. TransTo
      BY <1>5, TransKept DEF Well
    <2>2. PICK t \in Tasks : \E k, why : Block(id, k, t, why)
      BY <1>5
    <2>3. PICK k, why : Block(id, k, t, why)
      BY <2>2
    <2>4. RowsTo
      BY <2>1, <2>3, BlockTypes
    <2>5. AuthTo
      BY <1>5, <2>1, AuthStays DEF Well
    <2> QED BY <2>1, <2>4, <2>5
  <1>6. ActuateNext(id) =>
          \/ \E to \in Tasks, staged \in BOOLEAN : to # dec[id].task /\ RecordHandoff(id, to, staged)
          \/ RecordSettled(id)
          \/ UNCHANGED trans /\ \E t \in Tasks : \E k, h, d : Launch(id, k, t, h, d)
          \/ UNCHANGED <<trans, auth>> /\ \E t \in Tasks : \E k, why : Block(id, k, t, why)
    BY <1>1, SuccessorIs DEF ActuateNext
  <1>7. ActuateRemediation(id) =>
          \/ UNCHANGED trans /\ \E t \in Tasks : \E k, h, d : Launch(id, k, t, h, d)
          \/ UNCHANGED <<trans, auth>> /\ \E t \in Tasks : \E k, why : Block(id, k, t, why)
    BY <1>1 DEF ActuateRemediation
  <1> QED BY <1>2, <1>3, <1>4, <1>5, <1>6, <1>7, Zenon DEF Actuate

\* A worker's thread or a restart moves an execution on: its state alone changes, and its completion.
LEMMA StateMoves ==
  ASSUME Well, TransTo, DOMAIN rows' = DOMAIN rows,
         \A x \in DOMAIN rows : \/ rows'[x] = rows[x]
                                \/ /\ rows[x].state \in Active
                                   /\ rows'[x].state \in {"running", "completed", "failed", "recovery_required"}
                                   /\ rows'[x].task = rows[x].task /\ rows'[x].n = rows[x].n
                                   /\ rows'[x].to = rows[x].to /\ rows'[x].tid = rows[x].tid
  PROVE  RowsTo
  <1>1. ASSUME NEW x \in DOMAIN rows PROVE RowTo(x) /\ rows'[x].n = rows[x].n
    <2>1. RowTyped(x) /\ RowTimed(x)
      BY DEF Well, Typed, Timed
    <2>2. CASE rows'[x] = rows[x]
      BY <2>1, <2>2 DEF RowTo, RowTyped, TransTo
    <2>3. CASE rows[x].state \in Active
      <3>1. rows[x].n # 0 /\ rows[x].tid = None
        BY <2>1, <2>3 DEF RowTimed, RowTyped, Active
      <3> QED BY <2>1, <2>3, <3>1 DEF RowTo, RowTyped, RowStates, Active
    <2> QED BY <2>2, <2>3
  <1>2. Launched \subseteq Launched'
    BY <1>1 DEF Launched
  <1> QED BY <1>1, <1>2 DEF RowsTo

LEMMA WorkerTyped ==
  ASSUME Well, NEW w \in DOMAIN rows, Worker(w)
  PROVE  Typed'
  <1>1. /\ DOMAIN rows[w] = Fields /\ rows[w].state \in Active
        /\ UNCHANGED <<trans, reviews, dec, repo, pc, raw, over>>
    BY DEF Worker, StartWorker, WorkerRecords, Well, IInv, RowsWell, roles, tick, Active
  <1>2. TransTo
    BY <1>1, TransKept DEF Well
  <1>3. \/ rows' = [rows EXCEPT ![w].state = "running"] \/ rows' = [rows EXCEPT ![w].state = "failed"]
        \/ rows' = [rows EXCEPT ![w].state = "completed", ![w].c = Now]
    BY DEF Worker, StartWorker, WorkerRecords
  <1>4. \E l : auth' = [auth EXCEPT !.lc = l]
    BY DEF Worker, StartWorker, WorkerRecords
  <1>5. auth'.task = auth.task /\ auth'.tid = auth.tid
    BY <1>4 DEF Well, Linked, AuthLinked, AuthFields
  <1>6. DOMAIN rows' = DOMAIN rows /\ \A x \in DOMAIN rows : x # w => rows'[x] = rows[x]
    BY <1>3
  <1>7. /\ rows'[w].state \in {"running", "completed", "failed"}
        /\ rows'[w].task = rows[w].task /\ rows'[w].n = rows[w].n
        /\ rows'[w].to = rows[w].to /\ rows'[w].tid = rows[w].tid
    <2>1. \/ rows'[w] = [rows[w] EXCEPT !.state = "running"] \/ rows'[w] = [rows[w] EXCEPT !.state = "failed"]
          \/ rows'[w] = [rows[w] EXCEPT !.state = "completed", !.c = Now]
      BY <1>3
    <2> QED BY <1>1, <2>1 DEF Fields
  <1>8. RowsTo
    BY <1>1, <1>2, <1>6, <1>7, StateMoves
  <1> QED BY <1>1, <1>2, <1>5, <1>8, AuthStays, RolesKept, RepoKept, TickKept, Types DEF Well

LEMMA BrokerTyped ==
  ASSUME Well, NEW w \in DOMAIN broker, BrokerWork(w) \/ BrokerEnds(w)
  PROVE  Typed'
  <1>1. UNCHANGED <<ledger, reviews, dec, pc, raw, over>>
    BY DEF BrokerWork, BrokerEnds, roles, tick
  <1>2. RepoTyped'
    <2>1. CASE BrokerEnds(w)
      BY <2>1, RepoKept DEF BrokerEnds, Well
    <2>2. CASE BrokerWork(w)
      <3>1. PICK o \in Outcomes :
              repo' = CASE o = "complete" -> [repo EXCEPT !.status = "complete", !.head = repo.head + 1, !.agent = repo.head + 1, !.dirty = 0]
                        [] o = "ready" -> [repo EXCEPT !.head = repo.head + 1, !.dirty = 0]
                        [] o = "dirty" -> [repo EXCEPT !.dirty = rows[w].n]
                        [] o \in {"advance", "open"} ->
                             IF Successor(repo.task) = 0
                             THEN [repo EXCEPT !.status = "complete", !.head = repo.head + 1, !.agent = repo.head + 1, !.dirty = 0]
                             ELSE [repo EXCEPT !.task = Successor(@), !.status = IF o = "open" THEN "ready" ELSE "pending",
                                               !.head = repo.head + 1, !.agent = repo.head + 1, !.dirty = 0]
        BY <2>2 DEF BrokerWork
      <3>2. o \in {"complete", "ready", "dirty", "advance", "open"}
        BY LifecycleBounds
      <3>3. /\ DOMAIN repo = RepoFields /\ repo.task \in Tasks /\ repo.status \in {"pending", "ready", "complete"}
            /\ Successor(repo.task) # 0 => Successor(repo.task) \in Tasks
        BY SuccessorIs DEF Well, Timed, Typed, RepoTyped
      <3>4. CASE o = "dirty"
        <4>1. repo'.task = repo.task /\ repo'.status = repo.status /\ repo'.head = repo.head /\ repo'.agent = repo.agent
          BY <3>1, <3>3, <3>4 DEF RepoFields
        <4> QED BY <4>1 DEF Well, Typed, RepoTyped
      <3>5. CASE o # "dirty"
        <4>1. repo'.head = repo.head + 1 /\ repo'.agent \in {repo.agent, repo.head + 1}
          BY <3>1, <3>2, <3>3, <3>5 DEF RepoFields
        <4>2. repo'.task \in Tasks /\ repo'.status \in {"pending", "ready", "complete"}
          BY <3>1, <3>2, <3>3, <3>5 DEF RepoFields
        <4> QED BY <4>1, <4>2, RepoMoves
      <3> QED BY <3>4, <3>5
    <2> QED BY <2>1, <2>2
  <1> QED BY <1>1, <1>2, RolesKept, TickKept, LedgerKept DEF Well

LEMMA ReviewerTyped ==
  ASSUME Well, NEW v \in DOMAIN reviews, Reviewer(v)
  PROVE  Typed'
  <1>1. UNCHANGED <<ledger, repo, pc, raw, over>>
    BY DEF Reviewer, Decide, FinishReview, tick
  <1>2. DOMAIN reviews[v] = ReviewFields /\ reviews[v].task \in Tasks
    BY DEF Well, Linked, RolesLinked, Typed, RolesTyped
  <1>3. ASSUME NEW s, reviews' = [reviews EXCEPT ![v].state = s], UNCHANGED dec
        PROVE  RolesTo
    <2>1. /\ DOMAIN reviews' = DOMAIN reviews /\ \A x \in DOMAIN reviews : x # v => reviews'[x] = reviews[x]
          /\ reviews'[v] = [reviews[v] EXCEPT !.state = s]
      BY <1>3
    <2>2. reviews'[v].worker = reviews[v].worker /\ reviews'[v].task = reviews[v].task
      BY <1>2, <2>1 DEF ReviewFields
    <2> QED BY <1>3, <2>1, <2>2 DEF Well, Typed, RolesTyped, RolesTo
  <1>4. ASSUME NEW d, d.task = reviews[v].task, dec' = Put(dec, v, d), UNCHANGED reviews
        PROVE  RolesTo
    <2>1. /\ DOMAIN dec' = DOMAIN dec \cup {v} /\ dec'[v] = d
          /\ \A x \in DOMAIN dec : x # v => dec'[x] = dec[x]
      BY <1>4 DEF Put
    <2> QED BY <1>2, <1>4, <2>1 DEF Well, Typed, RolesTyped, RolesTo
  <1>5. \/ \E s : reviews' = [reviews EXCEPT ![v].state = s] /\ UNCHANGED dec
        \/ \E d : d.task = reviews[v].task /\ dec' = Put(dec, v, d) /\ UNCHANGED reviews
    <2>1. CASE FinishReview(v)
      BY <2>1 DEF FinishReview
    <2>2. CASE Decide(v)
      <3>1. CASE \E verb \in Verdicts(v) :
                   dec' = Put(dec, v, [task |-> reviews[v].task, verb |-> verb, head |-> repo.head, dirty |-> repo.dirty,
                                       seq |-> Cardinality(DOMAIN dec) + 1])
                 /\ UNCHANGED reviews
        <4>1. PICK verb \in Verdicts(v) :
                   dec' = Put(dec, v, [task |-> reviews[v].task, verb |-> verb, head |-> repo.head, dirty |-> repo.dirty,
                                       seq |-> Cardinality(DOMAIN dec) + 1])
          BY <3>1
        <4> DEFINE d == [task |-> reviews[v].task, verb |-> verb, head |-> repo.head, dirty |-> repo.dirty,
                         seq |-> Cardinality(DOMAIN dec) + 1]
        <4>2. d.task = reviews[v].task /\ dec' = Put(dec, v, d)
          BY <4>1
        <4> HIDE DEF d
        <4> QED BY <3>1, <4>2
      <3>2. CASE reviews' = [reviews EXCEPT ![v].state = "failed"] /\ UNCHANGED dec
        BY <3>2
      <3> QED BY <2>2, <3>1, <3>2 DEF Decide
    <2> QED BY <2>1, <2>2 DEF Reviewer
  <1> QED BY <1>1, <1>3, <1>4, <1>5, RepoKept, TickKept, LedgerKept DEF Well

LEMMA PlannerTyped ==
  ASSUME Well, NEW r \in DOMAIN plans, Planner(r)
  PROVE  Typed'
  <1>1. UNCHANGED <<ledger, reviews, dec, pc, raw, over>>
    BY DEF Planner, ApprovePlan, ApplyPlan, RecordReady, tick
  <1>2. RepoTyped'
    <2>1. CASE UNCHANGED repo
      BY <2>1, RepoKept DEF Well
    <2>2. CASE repo' = [repo EXCEPT !.status = "ready", !.head = @ + 1, !.agent = repo.head + 1]
      <3>1. repo'.task = repo.task /\ repo'.status = "ready" /\ repo'.head = repo.head + 1 /\ repo'.agent = repo.head + 1
        BY <2>2 DEF Well, Timed, RepoFields
      <3> QED BY <3>1, RepoMoves DEF Well, Typed, RepoTyped
    <2> QED BY <2>1, <2>2 DEF Planner, ApprovePlan, ApplyPlan, RecordReady
  <1> QED BY <1>1, <1>2, RolesKept, TickKept, LedgerKept DEF Well

LEMMA OthersTyped ==
  ASSUME Well, OthersCommit
  PROVE  Typed'
  <1>1. UNCHANGED <<ledger, reviews, dec, pc, raw, over>>
    BY DEF OthersCommit, roles, tick
  <1>2. PICK a \in {repo.agent, repo.head + 1} : repo' = [repo EXCEPT !.head = @ + 1, !.agent = a]
    BY DEF OthersCommit
  <1>3. repo'.task = repo.task /\ repo'.status = repo.status /\ repo'.head = repo.head + 1 /\ repo'.agent = a
    BY <1>2 DEF Well, Timed, RepoFields
  <1>4. RepoTyped'
    BY <1>3, RepoMoves DEF Well, Typed, RepoTyped
  <1> QED BY <1>1, <1>4, RolesKept, TickKept, LedgerKept DEF Well

LEMMA CrashRestartTyped ==
  ASSUME Well, CrashRestart
  PROVE  Typed'
  <1>1. /\ rows' = [x \in DOMAIN rows |-> Recovered(x)] /\ UNCHANGED <<trans, dec, repo>> /\ pc' = "idle"
        /\ reviews' = [v \in DOMAIN reviews |-> IF v \in RunningReviews THEN [reviews[v] EXCEPT !.state = "failed"] ELSE reviews[v]]
    BY DEF CrashRestart, Enter
  <1>2. TransTo
    BY <1>1, TransKept DEF Well
  <1>3. ASSUME NEW x \in DOMAIN rows
        PROVE  \/ rows'[x] = rows[x]
               \/ /\ rows[x].state \in Active
                  /\ rows'[x].state \in {"running", "completed", "failed", "recovery_required"}
                  /\ rows'[x].task = rows[x].task /\ rows'[x].n = rows[x].n
                  /\ rows'[x].to = rows[x].to /\ rows'[x].tid = rows[x].tid
    <2>1. rows'[x] = Recovered(x) /\ DOMAIN rows[x] = Fields
      BY <1>1 DEF Well, IInv, RowsWell
    <2>2. \/ rows'[x] = rows[x]
          \/ x \in ActiveRows /\ rows'[x] = [rows[x] EXCEPT !.state = "completed", !.c = Now]
          \/ x \in ActiveRows /\ \E s \in {"failed", "recovery_required"} : rows'[x] = [rows[x] EXCEPT !.state = s]
      BY <2>1 DEF Recovered
    <2> QED BY <2>1, <2>2 DEF Fields, ActiveRows
  <1>4. RowsTo
    BY <1>1, <1>2, <1>3, StateMoves
  <1>5. AuthTo
    <2>1. CASE UNCHANGED auth
      BY <1>2, <2>1, AuthStays DEF Well
    <2>2. ASSUME NEW r \in Consumed, auth' = [auth EXCEPT !.gen = rows[r].tid[3], !.task = rows[r].to, !.tid = rows[r].tid]
          PROVE  AuthTo
      <3>1. auth'.task = rows[r].to /\ auth'.tid = rows[r].tid
        BY <2>2 DEF Well, Linked, AuthLinked, AuthFields
      <3>2. r \in DOMAIN plans
        BY DEF Consumed, Well, Linked, RowsLinked, RolesLinked
      <3>3. Lasts(r)
        BY <3>2 DEF Well, Linked, RolesLinked
      <3>4. rows[r].to \in Tasks /\ rows[r].tid \in DOMAIN trans
        BY <3>3 DEF Lasts, Well, Typed, RowTyped
      <3> QED BY <1>1, <3>1, <3>4 DEF AuthTo
    <2> QED BY <2>1, <2>2 DEF CrashRestart, Latest
  <1>6. RolesTo
    <2>1. ASSUME NEW v \in DOMAIN reviews
          PROVE  reviews'[v].worker = reviews[v].worker /\ reviews'[v].task = reviews[v].task
      <3>1. DOMAIN reviews[v] = ReviewFields
        BY DEF Well, Linked, RolesLinked
      <3>2. reviews'[v] = reviews[v] \/ reviews'[v] = [reviews[v] EXCEPT !.state = "failed"]
        BY <1>1
      <3> QED BY <3>1, <3>2 DEF ReviewFields
    <2>2. DOMAIN reviews' = DOMAIN reviews
      BY <1>1
    <2> QED BY <1>1, <2>1, <2>2 DEF Well, Typed, RolesTyped, RolesTo
  <1>7. TickTyped'
    BY <1>1 DEF TickTyped, Phases
  <1> QED BY <1>1, <1>2, <1>4, <1>5, <1>6, <1>7, RepoKept, Types DEF Well

LEMMA TypedInductive ==
  ASSUME Well, [Next]_vars
  PROVE  Typed'
  <1>1. CASE UNCHANGED vars
    <2>1. UNCHANGED <<ledger, reviews, dec, repo, pc, raw, over>>
      BY <1>1 DEF vars, tick, roles
    <2> QED BY <2>1, RolesKept, RepoKept, TickKept, LedgerKept DEF Well
  <1>2. CASE Tick
    <2>1. CASE Monitor \/ Reconcile \/ NextPhase \/ Spawn \/ MarkPlan
      BY <2>1, MonitorTyped, ReconcileTyped, NextPhaseTyped, SpawnTyped, MarkPlanTyped
    <2>2. CASE Begin \/ WriteHistory \/ Consume \/ Review \/ AutoReady
      BY <2>2, BeginTyped, WriteHistoryTyped, ConsumeTyped, ReviewTyped, AutoReadyTyped
    <2>3. CASE \E id \in todo : ResumePlan(id) \/ Reopen(id) \/ Offer(id) \/ Actuate(id)
      BY <2>3, ResumePlanTyped, ReopenTyped, OfferTyped, ActuateTyped
    <2> QED BY <1>2, <2>1, <2>2, <2>3 DEF Tick
  <1>3. CASE Threads
    BY <1>3, WorkerTyped, BrokerTyped, ReviewerTyped, PlannerTyped DEF Threads
  <1> QED BY <1>1, <1>2, <1>3, OthersTyped, CrashRestartTyped DEF Next

\* The ledgers, the repository and the tick keep to their types and refer to each other: reviews
\* to workers that ran, plans to handoffs and their targets, transitions to two tasks, and the
\* authority to a transition of the ledger.
THEOREM TypeCorrect == Spec => []TypeOK
  <1>1. Init => Typed
    BY InitTyped
  <1>2. IInv /\ Linked /\ Timed /\ Typed /\ [Next]_vars => Typed'
    BY TypedInductive DEF Well
  <1>3. Linked /\ Timed /\ Typed => TypeOK
    <2> SUFFICES ASSUME Linked, Timed, Typed PROVE TypeOK
      OBVIOUS
    <2>1. \A r \in DOMAIN plans : rows[r].state \in {"handoff", "blocked"} /\ plans[r].task = rows[r].to
      <3> SUFFICES ASSUME NEW r \in DOMAIN plans PROVE rows[r].state \in {"handoff", "blocked"} /\ plans[r].task = rows[r].to
        OBVIOUS
      <3>1. Lasts(r) /\ rows[r].to = plans[r].task
        BY DEF Linked, RolesLinked
      <3> QED BY <3>1 DEF Lasts, Typed, RowTyped
    <2>2. DOMAIN broker \subseteq Launched /\ history \subseteq DOMAIN plans
      BY DEF Timed, Linked, RolesLinked
    <2>3. DOMAIN dec \subseteq DOMAIN reviews
      BY DEF Typed, RolesTyped
    <2>4. \A v \in DOMAIN reviews : v = ReviewId(reviews[v].worker) /\ reviews[v].worker \in Launched
      BY DEF Typed, RolesTyped
    <2>5. \A id \in DOMAIN rows : rows[id].state \in RowStates /\ rows[id].task \in Tasks
      BY DEF Typed, RowTyped
    <2> QED BY <2>1, <2>2, <2>3, <2>4, <2>5 DEF Typed, RepoTyped, AuthTyped, TypeOK
  <1> QED BY Invariance, Linkage, LaunchOrder, <1>1, <1>2, <1>3, PTL DEF Spec
===============================================================================
