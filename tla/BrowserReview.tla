----------------------------- MODULE BrowserReview -----------------------------
(* The review of a completed Worker run by a ChatGPT conversation.  Each tick of the daemon writes the   *)
(* health of the project's binding, lets the failover engine go through the noted runs, dispatches the   *)
(* run the monitor shows and consumes what the conversation answered (daemon.py, core/dispatcher.py,     *)
(* core/websol_failover.py, core/response_consumer.py).  Tabs of the browser adapter claim, renew and    *)
(* answer requests through the Bridge (bridge/store.py); a run whose binding is offline is taken back    *)
(* and reviewed directly (core/ai_reviewer.py).  Every ledger is a file: a crash may fall between two.   *)
(* One project, ready and in the `browser_bridge` transport; request id and nonce are functions of the   *)
(* run, so a request is the run it is about.                                                             *)
EXTENDS Naturals, FiniteSets

CONSTANTS
    NRuns,        \* Worker runs, in the order they complete
    Bindings,     \* conversations a project can be bound to
    None,         \* no binding
    Tabs,         \* tabs of the browser adapter
    TabOf,        \* the conversation each tab shows
    MaxAttempts,  \* DEFAULT_MAX_FAILOVER_ATTEMPTS
    MaxFailures   \* bound: crashes of the daemon, refused direct reviews and new bindings, together

ASSUME NRunsAssumption     == NRuns \in Nat
ASSUME BindingsAssumption  == None \notin Bindings
ASSUME TabOfAssumption     == TabOf \in [Tabs -> Bindings]
ASSUME AttemptsAssumption  == MaxAttempts \in Nat /\ MaxFailures \in Nat

VARIABLES
    worker,    \* the completed run the monitor shows, 0 when there is none
    route,     \* the project's conversation_binding
    health,    \* websol-health.json: what each binding's entry says
    occ,       \* dispatcher-state.json: the occurrence of each run
    attempts,  \* websol-failover.json: the attempts of each run
    queue,     \* the Bridge's queues: the request of each run, in one binding at most
    decided,   \* websol-decisions.json: runs whose answer was consumed
    review,    \* runs with a direct review
    tab,       \* the request each tab waits for, 0 when it is idle
    pc,        \* where the daemon's tick is
    todo,      \* runs the phase under way still has to go through
    hand,      \* the failover under way: its run, its next step and the state it will note
    torn,      \* history: runs for which the daemon died after an effect and before noting it
    failures

files  == <<occ, attempts, queue, decided, review>>
world  == <<worker, route, health>>
daemon == <<pc, todo, hand>>
ghosts == <<torn, failures>>
vars   == <<worker, route, health, occ, attempts, queue, decided, review, tab, pc, todo, hand, torn, failures>>

Runs     == 1..NRuns
Nobody   == [run |-> 0, step |-> "none", state |-> "none"]
\* `completed` is final too, and no code sets it.
Final    == {"cancelled", "unavailable"}
NoOcc    == [state |-> "none", binding |-> None, failover |-> "none", aged |-> FALSE]
NoRecord == [state |-> "absent", binding |-> None, holder |-> None, lease |-> "none", spent |-> FALSE, cancel |-> FALSE]

\* PAIRING_REQUIRED and PROBE_FAILED count as OFFLINE: the engine treats the three alike.
Healths  == {"AVAILABLE", "DEGRADED", "OFFLINE"}

Occurrences == [state: {"none", "prepared", "submitted"}, binding: Bindings \cup {None},
                failover: {"none", "under_way"} \cup Final, aged: BOOLEAN]
Requests    == [state: {"absent", "pending", "claimed", "responded", "withdrawn"},
                binding: Bindings \cup {None}, holder: Tabs \cup {None},
                lease: {"none", "fresh", "ageing", "over"}, spent: BOOLEAN, cancel: BOOLEAN]
Hands       == [run: 0..NRuns, step: {"none", "withdraw", "launch", "put", "mark"},
                state: {"none", "under_way"} \cup Final]

TypeOK ==
    /\ worker \in 0..NRuns
    /\ route \in Bindings \cup {None}
    /\ health \in [Bindings -> Healths]
    /\ occ \in [Runs -> Occurrences] /\ attempts \in [Runs -> 0..MaxAttempts]
    /\ queue \in [Runs -> Requests] /\ tab \in [Tabs -> 0..NRuns]
    /\ decided \subseteq Runs /\ review \subseteq Runs /\ torn \subseteq Runs /\ todo \subseteq Runs
    /\ pc \in {"idle", "failover", "dispatch", "noting", "consume", "down"}
    /\ hand \in Hands
    /\ failures \in 0..MaxFailures

Init ==
    /\ worker = 0 /\ route \in Bindings \cup {None}
    /\ health = [b \in Bindings |-> "OFFLINE"]
    /\ occ = [r \in Runs |-> NoOcc] /\ attempts = [r \in Runs |-> 0]
    /\ queue = [r \in Runs |-> NoRecord] /\ tab = [t \in Tabs |-> 0]
    /\ decided = {} /\ review = {} /\ torn = {} /\ todo = {}
    /\ pc = "idle" /\ hand = Nobody /\ failures = 0

(******************************** the tick: health *******************************************************)
\* The tick writes the evaluated health of the bound conversation; what other entries say lapses to
\* DEGRADED once their validity is over.
StartTick ==
    /\ pc = "idle" /\ pc' = "failover"
    /\ todo' = {r \in Runs : occ[r].state # "none"}
    /\ health' \in [Bindings -> Healths]
    /\ \A b \in Bindings \ {route} : health'[b] \in {health[b], "DEGRADED"}
    /\ UNCHANGED <<worker, route, files, tab, hand, ghosts>>

(******************************** the tick: the failover engine ******************************************)
\* The engine looks up the binding the occurrence was frozen with; without an entry it reads OFFLINE.
Failing(r) == occ[r].binding = None \/ health[occ[r].binding] = "OFFLINE"

\* A request that is not in the frozen binding's queue reads as withdrawn.
BridgeState(r) == IF queue[r].binding = occ[r].binding /\ queue[r].state # "absent" THEN queue[r].state
                  ELSE "withdrawn"

\* The cancellation deadline is the lease the claim had when it was cancelled; it is not renewed after.
Revocable(r) == queue[r].cancel => queue[r].lease = "over"

Prepared(r)  == occ[r].state = "prepared"
WantsDirect(r)   == Prepared(r) /\ occ[r].aged /\ Failing(r)
WantsReview(r)   == ~Prepared(r) /\ BridgeState(r) = "withdrawn"
WantsCancel(r)   == ~Prepared(r) /\ BridgeState(r) = "responded"
WantsWithdraw(r) == /\ ~Prepared(r) /\ BridgeState(r) \in {"pending", "claimed"}
                    /\ Revocable(r) /\ (queue[r].cancel \/ Failing(r))

\* Mutant: a request that was withdrawn already needs nothing more.
StepForgetting(r) ==
    IF occ[r].failover \in Final THEN Nobody
    ELSE IF attempts[r] >= MaxAttempts THEN [run |-> r, step |-> "put", state |-> "unavailable"]
    ELSE IF WantsCancel(r) THEN [run |-> r, step |-> "put", state |-> "cancelled"]
    ELSE IF WantsDirect(r) THEN [run |-> r, step |-> "launch", state |-> "under_way"]
    ELSE IF WantsWithdraw(r) THEN [run |-> r, step |-> "withdraw", state |-> "under_way"]
    ELSE Nobody

\* The step the engine takes for a run, with the state it will note; "none" leaves the run alone.
Step(r) ==
    IF occ[r].failover \in Final THEN Nobody
    ELSE IF attempts[r] >= MaxAttempts THEN [run |-> r, step |-> "put", state |-> "unavailable"]
    ELSE IF WantsCancel(r) THEN [run |-> r, step |-> "put", state |-> "cancelled"]
    ELSE IF WantsDirect(r) \/ WantsReview(r) THEN [run |-> r, step |-> "launch", state |-> "under_way"]
    ELSE IF WantsWithdraw(r) THEN [run |-> r, step |-> "withdraw", state |-> "under_way"]
    ELSE Nobody

Consider(r) ==
    /\ pc = "failover" /\ hand = Nobody /\ r \in todo
    /\ hand' = Step(r)
    /\ todo' = todo \ {r}
    /\ UNCHANGED <<world, files, tab, pc, ghosts>>

\* BrowserBridgeStore.withdraw looks again, under its lock.  A claim in force is only marked.
Withdrawn(rec) ==
    IF rec.state = "pending" \/ (rec.state = "claimed" /\ rec.lease = "over")
    THEN [NoRecord EXCEPT !.state = "withdrawn", !.binding = rec.binding]
    ELSE IF rec.state = "claimed" THEN [rec EXCEPT !.cancel = TRUE]
    ELSE rec

\* Mutant: a claim that is only marked counts as withdrawn.
RevokedAtOnce(rec) == IF rec.state = "responded" THEN [hand EXCEPT !.step = "put", !.state = "cancelled"]
                      ELSE [hand EXCEPT !.step = "launch"]

\* What follows on the answer: the review waits for a claim's revocation.
AfterWithdrawal(rec) ==
    CASE rec.state = "responded" -> [hand EXCEPT !.step = "put", !.state = "cancelled"]
      [] rec.state = "claimed"   -> [hand EXCEPT !.step = "put"]
      [] OTHER                   -> [hand EXCEPT !.step = "launch"]

Withdraw ==
    LET rec == Withdrawn(queue[hand.run]) IN
    /\ hand.step = "withdraw"
    /\ queue' = [queue EXCEPT ![hand.run] = rec]
    /\ hand' = AfterWithdrawal(rec)
    /\ UNCHANGED <<world, occ, attempts, decided, review, tab, pc, todo, ghosts>>

\* submit_failover_review is idempotent by run.  It may find no repository truth, task or provider: a
\* prepared run is then left as it is, a withdrawn one is noted all the same.
Launch ==
    /\ hand.step = "launch"
    /\ \/ /\ review' = review \cup {hand.run}
          /\ hand' = [hand EXCEPT !.step = "put"]
          /\ UNCHANGED failures
       \/ /\ hand.run \notin review /\ failures < MaxFailures
          /\ failures' = failures + 1
          /\ hand' = IF Prepared(hand.run) THEN Nobody ELSE [hand EXCEPT !.step = "put"]
          /\ UNCHANGED review
    /\ UNCHANGED <<world, occ, attempts, queue, decided, tab, pc, todo, torn>>

PutRecord ==
    /\ hand.step = "put"
    /\ attempts' = [attempts EXCEPT ![hand.run] = IF hand.state = "under_way" THEN @ + 1 ELSE @]
    /\ hand' = [hand EXCEPT !.step = "mark"]
    /\ UNCHANGED <<world, occ, queue, decided, review, tab, pc, todo, ghosts>>

MarkFailover ==
    /\ hand.step = "mark"
    /\ occ' = [occ EXCEPT ![hand.run].failover = hand.state]
    /\ hand' = Nobody
    /\ UNCHANGED <<world, attempts, queue, decided, review, tab, pc, todo, ghosts>>

EndFailover ==
    /\ pc = "failover" /\ todo = {} /\ hand = Nobody
    /\ pc' = "dispatch"
    /\ UNCHANGED <<world, files, tab, todo, hand, ghosts>>

(******************************** the tick: dispatch *****************************************************)
\* Only the run the monitor shows is dispatched, and not once its answer was consumed.
Freeze ==
    /\ pc = "dispatch" /\ worker > 0 /\ worker \notin decided
    /\ occ[worker].state = "none"
    /\ occ' = [occ EXCEPT ![worker] = [NoOcc EXCEPT !.state = "prepared", !.binding = route]]
    /\ UNCHANGED <<world, attempts, queue, decided, review, tab, daemon, ghosts>>

Frozen == pc = "dispatch" /\ worker > 0 /\ worker \notin decided /\ occ[worker].state = "prepared"

Deliverable == /\ Frozen /\ occ[worker].failover = "none"
               /\ route # None /\ health[route] = "AVAILABLE"

\* One request id belongs to one binding: BridgeConflictError when it is in another binding's queue.
Conflict == queue[worker].state # "absent" /\ queue[worker].binding # route

\* The frozen request goes to the binding of now.  A request already in that queue is left as it is.
Deliver ==
    /\ Deliverable /\ ~Conflict
    /\ queue' = [queue EXCEPT ![worker] = IF @.state # "absent" THEN @
                                          ELSE [NoRecord EXCEPT !.state = "pending", !.binding = route]]
    /\ pc' = "noting"
    /\ UNCHANGED <<world, occ, attempts, decided, review, tab, todo, hand, ghosts>>

\* The error is not contained in the tick: the answers are not consumed.
DeliveryFails ==
    /\ Deliverable /\ Conflict
    /\ pc' = "idle"
    /\ UNCHANGED <<world, files, tab, todo, hand, ghosts>>

\* Mutant: a run with a failover behind it has no answer to consume.
UnconsumedWithoutFailover ==
    {r \in Runs : /\ queue[r].state = "responded" /\ queue[r].binding = route /\ r \notin decided
                  /\ occ[r].failover = "none"}

\* The answers the tick will go through are those of the bound conversation.
Unconsumed == {r \in Runs : queue[r].state = "responded" /\ queue[r].binding = route /\ r \notin decided}

NoteDelivery ==
    /\ pc = "noting"
    /\ occ' = [occ EXCEPT ![worker].state = "submitted"]
    /\ pc' = "consume" /\ todo' = Unconsumed
    /\ UNCHANGED <<world, attempts, queue, decided, review, tab, hand, ghosts>>

NoDelivery ==
    /\ pc = "dispatch" /\ ~Deliverable
    /\ worker > 0 /\ worker \notin decided => occ[worker].state # "none"
    /\ pc' = "consume" /\ todo' = Unconsumed
    /\ UNCHANGED <<world, files, tab, hand, ghosts>>

(******************************** the tick: consumption **************************************************)
Consume(r) ==
    /\ pc = "consume" /\ r \in todo
    /\ decided' = decided \cup {r}
    /\ todo' = todo \ {r}
    /\ UNCHANGED <<world, occ, attempts, queue, review, tab, pc, hand, ghosts>>

EndTick ==
    /\ pc = "consume" /\ todo = {}
    /\ pc' = "idle"
    /\ UNCHANGED <<world, files, tab, todo, hand, ghosts>>

(******************************** the browser adapter and the Bridge *************************************)
\* The Bridge is served by the daemon's process.
Serving == pc # "down"

Fresh(b)   == {r \in Runs : queue[r].binding = b /\ queue[r].state = "pending"}
Expired(b) == {r \in Runs : /\ queue[r].binding = b /\ queue[r].state = "claimed" /\ queue[r].lease = "over"
                            /\ ~queue[r].cancel /\ ~queue[r].spent}
Oldest(S)  == {r \in S : \A other \in S : r <= other}

\* What a poll is given: never-claimed requests first, then claims whose lease is over, oldest first.
Offered(b) == IF Fresh(b) # {} THEN Oldest(Fresh(b)) ELSE Oldest(Expired(b))

\* The claim hands out a new token, which is the tab's until the next claim.  The reply may be lost.
Claim(t) ==
    /\ Serving /\ tab[t] = 0
    /\ \E r \in Offered(TabOf[t]) :
         /\ queue' = [queue EXCEPT ![r].state = "claimed", ![r].holder = t, ![r].lease = "fresh"]
         /\ tab' \in {tab, [tab EXCEPT ![t] = r]}
    /\ UNCHANGED <<world, occ, attempts, decided, review, daemon, ghosts>>

\* A claim the Bridge still accepts this tab's token for.
InForce(t, r) == queue[r].state = "claimed" /\ queue[r].holder = t /\ queue[r].lease # "over"

Renew(t) ==
    LET r == tab[t] IN
    /\ Serving /\ r > 0 /\ InForce(t, r)
    /\ ~queue[r].cancel /\ ~queue[r].spent
    /\ queue[r].lease = "ageing"
    /\ queue' = [queue EXCEPT ![r].lease = "fresh"]
    /\ UNCHANGED <<world, occ, attempts, decided, review, tab, daemon, ghosts>>

\* A cancelled claim may still be answered while its lease lasts.
Respond(t) ==
    LET r == tab[t] IN
    /\ Serving /\ r > 0 /\ InForce(t, r)
    /\ queue' = [queue EXCEPT ![r] = [NoRecord EXCEPT !.state = "responded", !.binding = queue[r].binding]]
    /\ tab' = [tab EXCEPT ![t] = 0]
    /\ UNCHANGED <<world, occ, attempts, decided, review, daemon, ghosts>>

\* The tab stops waiting: no answer in time, a refused or lost renewal or answer, a reload.
Abandon(t) ==
    /\ tab[t] > 0
    /\ tab' = [tab EXCEPT ![t] = 0]
    /\ UNCHANGED <<world, files, daemon, ghosts>>

(******************************** time, the project and crashes ******************************************)
Age(r) ==
    /\ queue[r].lease \in {"fresh", "ageing"}
    /\ queue' = [queue EXCEPT ![r].lease = IF @ = "fresh" THEN "ageing" ELSE "over"]
    /\ UNCHANGED <<world, occ, attempts, decided, review, tab, daemon, ghosts>>

\* max_claim_lifetime_seconds after the first claim; no lease outlasts it.
LifeEnds(r) ==
    /\ queue[r].state = "claimed" /\ ~queue[r].spent
    /\ queue' = [queue EXCEPT ![r].spent = TRUE, ![r].lease = "over"]
    /\ UNCHANGED <<world, occ, attempts, decided, review, tab, daemon, ghosts>>

\* DEFAULT_PREPARED_FAILOVER_GRACE_SECONDS
GraceEnds(r) ==
    /\ Prepared(r) /\ ~occ[r].aged
    /\ occ' = [occ EXCEPT ![r].aged = TRUE]
    /\ UNCHANGED <<world, attempts, queue, decided, review, tab, daemon, ghosts>>

\* The tick works on a snapshot: what happens to the project during it counts from the next one.
Completes ==
    /\ pc = "idle" /\ worker < NRuns
    /\ worker' = worker + 1
    /\ UNCHANGED <<route, health, files, tab, daemon, ghosts>>

Rebind ==
    /\ pc = "idle" /\ failures < MaxFailures
    /\ failures' = failures + 1
    /\ route' \in (Bindings \cup {None}) \ {route}
    /\ UNCHANGED <<worker, health, files, tab, daemon, torn>>

Crash ==
    /\ pc # "down" /\ failures < MaxFailures
    /\ failures' = failures + 1
    /\ pc' = "down" /\ todo' = {} /\ hand' = Nobody
    /\ torn' = torn \cup (IF hand.step \in {"put", "mark"} THEN {hand.run} ELSE {})
                    \cup (IF pc = "noting" THEN {worker} ELSE {})
    /\ UNCHANGED <<world, files, tab>>

Restart ==
    /\ pc = "down" /\ pc' = "idle"
    /\ UNCHANGED <<world, files, tab, todo, hand, ghosts>>

Tick == \/ StartTick \/ Withdraw \/ Launch \/ PutRecord \/ MarkFailover \/ EndFailover
        \/ Freeze \/ Deliver \/ DeliveryFails \/ NoteDelivery \/ NoDelivery \/ EndTick
        \/ \E r \in Runs : Consider(r) \/ Consume(r)

Next == \/ Tick \/ Completes \/ Rebind \/ Crash \/ Restart
        \/ \E t \in Tabs : Claim(t) \/ Renew(t) \/ Respond(t) \/ Abandon(t)
        \/ \E r \in Runs : Age(r) \/ LifeEnds(r) \/ GraceEnds(r)

Spec == Init /\ [][Next]_vars

\* The daemon ticks and is restarted, tabs poll and stop waiting in the end, leases and the grace period
\* run out.  Nothing says that a claim's lifetime ends, that a tab answers or that the binding stays.
Fairness == /\ WF_vars(Tick) /\ WF_vars(Restart)
            /\ \A t \in Tabs : WF_vars(Claim(t)) /\ WF_vars(Respond(t) \/ Abandon(t))
            /\ \A r \in Runs : WF_vars(Age(r)) /\ WF_vars(GraceEnds(r))

FairSpec == Spec /\ Fairness

(******************************** properties *************************************************************)
\* OneReviewer.  A run answered by the conversation is not also reviewed directly: the engine launches a
\* review only once the request can no longer be answered, and a launched review keeps the request from
\* being delivered (websol_failover.reconcile, dispatcher._dispatch_one).  Two cases escape: a daemon that
\* died between the effect and its note, and a request delivered to another binding than it was frozen with.
OneReviewer ==
    \A r \in review : queue[r].state = "responded" => r \in torn \/ queue[r].binding # occ[r].binding

\* FailoverEnds.  A noted run whose frozen binding stays offline is reviewed, answered or given up as
\* unavailable, whatever tab holds its claim (websol_failover.reconcile with BrowserBridgeStore.withdraw).
FailoverEnds ==
    \A r \in Runs : <>[](occ[r].state # "none" /\ Failing(r))
                        => <>(r \in review \/ queue[r].state = "responded" \/ occ[r].failover = "unavailable")

\* AnswersConsumed.  An answer is consumed if its conversation stays the project's, unless the dispatch of
\* the run shown fails at every tick before the answers' turn (daemon._run_orchestration_tick).
AnswersConsumed ==
    \A r \in Runs : queue[r].state = "responded"
                        ~> (r \in decided \/ queue[r].binding # route \/ (worker > 0 /\ Prepared(worker) /\ Conflict))
=============================================================================
