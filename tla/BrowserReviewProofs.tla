-------------------------- MODULE BrowserReviewProofs --------------------------
(* For any number of runs, conversations, tabs, attempts and failures: a run that the conversation       *)
(* answered is not also reviewed directly, but for a daemon that died between an effect and its note and *)
(* for a request delivered to another binding than it was frozen with.                                   *)
EXTENDS BrowserReview, TLAPS

\* The ledger and the queues agree on what was noted and delivered, up to a death in between.
Noted ==
    \A r \in Runs :
        /\ occ[r].state = "none" => queue[r].state = "absent" /\ r \notin review
        /\ occ[r].state = "submitted" => queue[r].state # "absent"
        /\ Prepared(r) /\ queue[r].state # "absent" => r \in torn \/ (pc = "noting" /\ worker = r)

\* What the tick has in hand is a noted run with attempts left; delivering and failing over exclude
\* each other.
TickWell ==
    /\ pc = "failover" => \A r \in todo : occ[r].state # "none"
    /\ pc = "noting" => hand = Nobody /\ worker \in Runs /\ Prepared(worker) /\ queue[worker].state # "absent"
    /\ hand # Nobody => /\ pc = "failover" /\ hand.run \in Runs /\ occ[hand.run].state # "none"
                        /\ hand.step # "none" /\ hand.state # "none"
    /\ hand.step # "mark" /\ hand.state = "under_way" => attempts[hand.run] < MaxAttempts
    /\ hand.step \in {"withdraw", "launch"} => hand.state = "under_way"
    /\ hand.step = "withdraw" => ~Prepared(hand.run)

\* A run whose request cannot be answered any more, and the two cases that escape.
Escapes(r)      == r \in torn \/ (queue[r].state # "absent" /\ queue[r].binding # occ[r].binding)
Unanswerable(r) == queue[r].state = "withdrawn"
Undelivered(r)  == queue[r].state = "absent" /\ Prepared(r)

\* A review is launched only then, and what kept the request from being delivered lasts.
Taken(r) == occ[r].failover # "none" \/ (hand.run = r /\ hand.step \in {"put", "mark"})
Apart ==
    /\ hand.step = "launch" => Escapes(hand.run) \/ Unanswerable(hand.run) \/ Undelivered(hand.run)
    /\ \A r \in review : Escapes(r) \/ Unanswerable(r) \/ (Undelivered(r) /\ Taken(r))

IInv == TypeOK /\ Noted /\ TickWell /\ Apart

--------------------------------------------------------------------------------
(* Types. *)

LEMMA RecordTypes ==
    /\ NoOcc \in Occurrences /\ NoRecord \in Requests /\ Nobody \in Hands
    /\ 0 \in 0..MaxAttempts /\ 0 \in 0..MaxFailures /\ 0 \in 0..NRuns /\ Runs \subseteq 0..NRuns
    BY NRunsAssumption, AttemptsAssumption
    DEF NoOcc, NoRecord, Nobody, Occurrences, Requests, Hands, Final, Runs

LEMMA InitTypes == Init => TypeOK
    BY RecordTypes DEF Init, TypeOK, Healths

\* A request stays one whatever field is set.
LEMMA RequestChanges ==
    ASSUME NEW q \in Requests
    PROVE  /\ \A t \in Tabs :
                  [[[q EXCEPT !.state = "claimed"] EXCEPT !.holder = t] EXCEPT !.lease = "fresh"] \in Requests
           /\ \A x \in {"fresh", "ageing", "over"} : [q EXCEPT !.lease = x] \in Requests
           /\ [[q EXCEPT !.spent = TRUE] EXCEPT !.lease = "over"] \in Requests
           /\ \A x \in {"responded", "withdrawn"} :
                  [[NoRecord EXCEPT !.state = x] EXCEPT !.binding = q.binding] \in Requests
           /\ \A b \in Bindings : [[NoRecord EXCEPT !.state = "pending"] EXCEPT !.binding = b] \in Requests
           /\ [q EXCEPT !.cancel = TRUE] \in Requests
    BY DEF NoRecord, Requests

LEMMA OccurrenceChanges ==
    ASSUME NEW o \in Occurrences
    PROVE  /\ \A x \in {"under_way"} \cup Final : [o EXCEPT !.failover = x] \in Occurrences
           /\ [o EXCEPT !.state = "submitted"] \in Occurrences
           /\ [o EXCEPT !.aged = TRUE] \in Occurrences
           /\ \A b \in Bindings \cup {None} :
                  [[NoOcc EXCEPT !.state = "prepared"] EXCEPT !.binding = b] \in Occurrences
    BY DEF NoOcc, Occurrences, Final

\* Every step keeps the types.
LEMMA TypesKept ==
    ASSUME IInv, [Next]_vars
    PROVE  TypeOK'
<1>1. CASE StartTick
    BY <1>1, RecordTypes DEF StartTick, IInv, TypeOK, files, ghosts, Runs, Healths
<1>2. ASSUME NEW r \in Runs, Consider(r)
      PROVE  TypeOK'
    BY <1>2, RecordTypes, NRunsAssumption, AttemptsAssumption DEF Consider, IInv, TypeOK, files, world, ghosts,
       Nobody, Final, Prepared, Step, WantsDirect, WantsReview, WantsCancel, WantsWithdraw, BridgeState, TickWell,
       Noted, Hands, Runs
<1>3. CASE Withdraw
    <2>1. hand.run \in Runs
        BY <1>3 DEF IInv, TypeOK, TickWell, Withdraw, Nobody
    <2>2. Withdrawn(queue[hand.run]) \in Requests
        BY <2>1, RequestChanges DEF IInv, TypeOK, Withdrawn
    <2>3. queue' \in [Runs -> Requests]
        BY <1>3, <2>2 DEF IInv, TypeOK, Withdraw
    <2>4. hand' \in Hands
        BY <1>3 DEF IInv, TypeOK, Withdraw, AfterWithdrawal, Hands, Final
    <2>5. QED BY <1>3, <2>3, <2>4 DEF IInv, TypeOK, Withdraw, world, ghosts
<1>4. CASE Launch
    BY <1>4, RecordTypes, NRunsAssumption, AttemptsAssumption DEF Launch, IInv, TypeOK, world, Nobody, Prepared,
       TickWell, Noted, Hands, Runs
<1>5. CASE PutRecord
    <2>1. hand.run \in Runs /\ (hand.state = "under_way" => attempts[hand.run] < MaxAttempts)
        BY <1>5 DEF IInv, TickWell, PutRecord, Nobody
    <2>2. attempts' \in [Runs -> 0..MaxAttempts]
        BY <1>5, <2>1, AttemptsAssumption DEF IInv, TypeOK, PutRecord
    <2>3. hand' \in Hands
        BY <1>5 DEF IInv, TypeOK, PutRecord, Hands
    <2>4. QED BY <1>5, <2>2, <2>3 DEF IInv, TypeOK, PutRecord, world, ghosts
<1>6. CASE MarkFailover
    <2>1. hand.run \in Runs /\ hand.state \in {"under_way"} \cup Final
        BY <1>6 DEF IInv, TypeOK, TickWell, MarkFailover, Nobody, Hands
    <2>2. occ' = [occ EXCEPT ![hand.run] = [occ[hand.run] EXCEPT !.failover = hand.state]]
        BY <1>6 DEF MarkFailover
    <2>3. occ' \in [Runs -> Occurrences]
        BY <2>1, <2>2, OccurrenceChanges DEF IInv, TypeOK
    <2>4. QED BY <1>6, <2>3, RecordTypes DEF IInv, TypeOK, MarkFailover, world, ghosts
<1>7. CASE EndFailover
    BY <1>7, RecordTypes DEF EndFailover, IInv, TypeOK, files, world, ghosts, Nobody
<1>8. CASE Freeze
    <2>1. worker \in Runs /\ route \in Bindings \cup {None}
        BY <1>8 DEF IInv, TypeOK, Freeze, Runs
    <2>2. occ' \in [Runs -> Occurrences]
        BY <1>8, <2>1, OccurrenceChanges, RecordTypes DEF IInv, TypeOK, Freeze
    <2>3. QED BY <1>8, <2>2 DEF IInv, TypeOK, Freeze, world, daemon, ghosts
<1>9. CASE Deliver
    <2>1. worker \in Runs /\ route \in Bindings
        BY <1>9 DEF IInv, TypeOK, Deliver, Deliverable, Frozen, Runs
    <2>2. queue' \in [Runs -> Requests]
        BY <1>9, <2>1, RequestChanges, RecordTypes DEF IInv, TypeOK, Deliver
    <2>3. QED BY <1>9, <2>2 DEF IInv, TypeOK, Deliver, world, ghosts
<1>10. CASE DeliveryFails
    BY <1>10, RecordTypes DEF DeliveryFails, IInv, TypeOK, files, world, ghosts, Deliverable, Frozen, Conflict,
       Prepared
<1>11. CASE NoteDelivery
    <2>1. worker \in Runs
        BY <1>11 DEF IInv, TickWell, NoteDelivery
    <2>2. occ' = [occ EXCEPT ![worker] = [occ[worker] EXCEPT !.state = "submitted"]]
        BY <1>11 DEF NoteDelivery
    <2>3. occ' \in [Runs -> Occurrences]
        BY <2>1, <2>2, OccurrenceChanges DEF IInv, TypeOK
    <2>4. QED BY <1>11, <2>3 DEF IInv, TypeOK, NoteDelivery, Unconsumed, world, ghosts
<1>12. CASE NoDelivery
    BY <1>12, RecordTypes DEF NoDelivery, IInv, TypeOK, files, world, ghosts, Runs, Unconsumed
<1>13. ASSUME NEW r \in Runs, Consume(r)
      PROVE  TypeOK'
    BY <1>13, RecordTypes DEF Consume, IInv, TypeOK, world, ghosts
<1>14. CASE EndTick
    BY <1>14, RecordTypes DEF EndTick, IInv, TypeOK, files, world, ghosts
<1>15. ASSUME NEW t \in Tabs, Claim(t)
      PROVE  TypeOK'
    <2>1. PICK r \in Offered(TabOf[t]) :
              /\ queue' = [queue EXCEPT ![r].state = "claimed", ![r].holder = t, ![r].lease = "fresh"]
              /\ tab' \in {tab, [tab EXCEPT ![t] = r]}
        BY <1>15 DEF Claim
    <2>2. r \in Runs
        BY DEF Offered, Oldest, Fresh, Expired
    <2>3. queue' = [queue EXCEPT ![r] =
                        [[[queue[r] EXCEPT !.state = "claimed"] EXCEPT !.holder = t] EXCEPT !.lease = "fresh"]]
        BY <2>1, <2>2 DEF IInv, TypeOK
    <2>4. queue' \in [Runs -> Requests]
        BY <2>2, <2>3, RequestChanges DEF IInv, TypeOK
    <2>5. tab' \in [Tabs -> 0..NRuns]
        BY <2>1, <2>2, RecordTypes DEF IInv, TypeOK
    <2>6. QED BY <1>15, <2>4, <2>5 DEF IInv, TypeOK, Claim, world, daemon, ghosts
<1>16. ASSUME NEW t \in Tabs, Renew(t)
      PROVE  TypeOK'
    <2>1. tab[t] \in Runs
        BY <1>16 DEF IInv, TypeOK, Renew, Runs
    <2>2. queue' = [queue EXCEPT ![tab[t]] = [queue[tab[t]] EXCEPT !.lease = "fresh"]]
        BY <1>16 DEF Renew
    <2>3. queue' \in [Runs -> Requests]
        BY <2>1, <2>2, RequestChanges DEF IInv, TypeOK
    <2>4. QED BY <1>16, <2>3 DEF IInv, TypeOK, Renew, world, daemon, ghosts
<1>17. ASSUME NEW t \in Tabs, Respond(t)
      PROVE  TypeOK'
    <2>1. tab[t] \in Runs
        BY <1>17 DEF IInv, TypeOK, Respond, Runs
    <2>2. queue' \in [Runs -> Requests]
        BY <1>17, <2>1, RequestChanges DEF IInv, TypeOK, Respond
    <2>3. tab' \in [Tabs -> 0..NRuns]
        BY <1>17, RecordTypes DEF IInv, TypeOK, Respond
    <2>4. QED BY <1>17, <2>2, <2>3 DEF IInv, TypeOK, Respond, world, daemon, ghosts
<1>18. ASSUME NEW t \in Tabs, Abandon(t)
      PROVE  TypeOK'
    BY <1>18, RecordTypes DEF Abandon, IInv, TypeOK, files, world, daemon, ghosts
<1>19. ASSUME NEW r \in Runs, Age(r)
      PROVE  TypeOK'
    <2>1. PICK x \in {"fresh", "ageing", "over"} : queue' = [queue EXCEPT ![r] = [queue[r] EXCEPT !.lease = x]]
        BY <1>19 DEF Age
    <2>2. queue' \in [Runs -> Requests]
        BY <2>1, RequestChanges DEF IInv, TypeOK
    <2>3. QED BY <1>19, <2>2 DEF IInv, TypeOK, Age, world, daemon, ghosts
<1>20. ASSUME NEW r \in Runs, LifeEnds(r)
      PROVE  TypeOK'
    <2>1. queue' = [queue EXCEPT ![r] = [[queue[r] EXCEPT !.spent = TRUE] EXCEPT !.lease = "over"]]
        BY <1>20 DEF IInv, TypeOK, LifeEnds
    <2>2. queue' \in [Runs -> Requests]
        BY <2>1, RequestChanges DEF IInv, TypeOK
    <2>3. QED BY <1>20, <2>2 DEF IInv, TypeOK, LifeEnds, world, daemon, ghosts
<1>21. ASSUME NEW r \in Runs, GraceEnds(r)
      PROVE  TypeOK'
    <2>1. occ' = [occ EXCEPT ![r] = [occ[r] EXCEPT !.aged = TRUE]]
        BY <1>21 DEF GraceEnds
    <2>2. occ' \in [Runs -> Occurrences]
        BY <2>1, OccurrenceChanges DEF IInv, TypeOK
    <2>3. QED BY <1>21, <2>2 DEF IInv, TypeOK, GraceEnds, world, daemon, ghosts
<1>22. CASE Completes
    BY <1>22, RecordTypes, NRunsAssumption, AttemptsAssumption DEF Completes, IInv, TypeOK, files, daemon, ghosts,
       TickWell
<1>23. CASE Rebind
    BY <1>23, RecordTypes, NRunsAssumption, AttemptsAssumption DEF Rebind, IInv, TypeOK, files, daemon, TickWell
<1>24. CASE Crash
    <2>1. torn' \subseteq Runs
        BY <1>24 DEF IInv, TypeOK, TickWell, Crash, Nobody
    <2>2. failures' \in 0..MaxFailures
        BY <1>24, AttemptsAssumption DEF IInv, TypeOK, Crash
    <2>3. QED BY <1>24, <2>1, <2>2, RecordTypes DEF IInv, TypeOK, Crash, world, files
<1>25. CASE Restart
    BY <1>25, RecordTypes DEF Restart, IInv, TypeOK, files, world, ghosts
<1>26. CASE UNCHANGED vars
    BY <1>26, RecordTypes DEF vars, IInv, TypeOK
<1>27. QED BY <1>1, <1>2, <1>3, <1>4, <1>5, <1>6, <1>7, <1>8, <1>9, <1>10, <1>11, <1>12, <1>13, <1>14, <1>15, <1>16,
   <1>17, <1>18, <1>19, <1>20, <1>21, <1>22, <1>23, <1>24, <1>25, <1>26 DEF Next, Tick

\* Every step keeps the ledger and the queues in agreement.
LEMMA NotedKept ==
    ASSUME IInv, [Next]_vars, TypeOK'
    PROVE  Noted'
<1>1. CASE StartTick
    BY <1>1 DEF StartTick, IInv, Noted, files, ghosts, Runs, Healths, Prepared
<1>2. ASSUME NEW r \in Runs, Consider(r)
      PROVE  Noted'
    BY <1>2 DEF Consider, IInv, Noted, files, world, ghosts, Nobody, Final, Prepared, Step, WantsDirect, WantsReview,
       WantsCancel, WantsWithdraw, BridgeState
<1>3. CASE Withdraw
    BY <1>3 DEF Withdraw, IInv, Noted, world, ghosts, NoRecord, Prepared, Withdrawn, AfterWithdrawal
<1>4. CASE Launch
    <2>1. /\ hand.run \in Runs /\ occ[hand.run].state # "none"
          /\ review' \in {review, review \cup {hand.run}} /\ UNCHANGED <<occ, queue, torn, pc, worker>>
        BY <1>4 DEF IInv, TickWell, Launch, Nobody, world
    <2>2. QED BY <2>1 DEF IInv, Noted, Prepared
<1>5. CASE PutRecord
    BY <1>5 DEF PutRecord, IInv, Noted, world, ghosts, Prepared
<1>6. CASE MarkFailover
    BY <1>6 DEF MarkFailover, IInv, Noted, world, ghosts, Nobody, Prepared
<1>7. CASE EndFailover
    BY <1>7 DEF EndFailover, IInv, Noted, files, world, ghosts, Nobody, Prepared
<1>8. CASE Freeze
    BY <1>8 DEF Freeze, IInv, Noted, world, daemon, ghosts, NoOcc, Prepared
<1>9. CASE Deliver
    BY <1>9 DEF Deliver, IInv, Noted, world, ghosts, NoRecord, Prepared, Deliverable, Frozen, Conflict
<1>10. CASE DeliveryFails
    BY <1>10 DEF DeliveryFails, IInv, Noted, files, world, ghosts, Prepared, Deliverable, Frozen, Conflict
<1>11. CASE NoteDelivery
    BY <1>11 DEF NoteDelivery, IInv, Noted, world, ghosts, Runs, Prepared, Unconsumed, TypeOK, TickWell
<1>12. CASE NoDelivery
    BY <1>12 DEF NoDelivery, IInv, Noted, files, world, ghosts, Runs, Prepared, Unconsumed
<1>13. ASSUME NEW r \in Runs, Consume(r)
      PROVE  Noted'
    BY <1>13 DEF Consume, IInv, Noted, world, ghosts, Prepared
<1>14. CASE EndTick
    BY <1>14 DEF EndTick, IInv, Noted, files, world, ghosts, Prepared
<1>15. ASSUME NEW t \in Tabs, Claim(t)
      PROVE  Noted'
    BY <1>15 DEF Claim, IInv, Noted, world, daemon, ghosts, Runs, Prepared, Offered, Oldest, Fresh, Expired, TypeOK
<1>16. ASSUME NEW t \in Tabs, Renew(t)
      PROVE  Noted'
    BY <1>16 DEF Renew, IInv, Noted, world, daemon, ghosts, Prepared, InForce
<1>17. ASSUME NEW t \in Tabs, Respond(t)
      PROVE  Noted'
    BY <1>17 DEF Respond, IInv, Noted, world, daemon, ghosts, NoRecord, Prepared, InForce
<1>18. ASSUME NEW t \in Tabs, Abandon(t)
      PROVE  Noted'
    BY <1>18 DEF Abandon, IInv, Noted, files, world, daemon, ghosts, Prepared
<1>19. ASSUME NEW r \in Runs, Age(r)
      PROVE  Noted'
    BY <1>19 DEF Age, IInv, Noted, world, daemon, ghosts, Prepared
<1>20. ASSUME NEW r \in Runs, LifeEnds(r)
      PROVE  Noted'
    BY <1>20 DEF LifeEnds, IInv, Noted, world, daemon, ghosts, Prepared, TypeOK
<1>21. ASSUME NEW r \in Runs, GraceEnds(r)
      PROVE  Noted'
    BY <1>21 DEF GraceEnds, IInv, Noted, world, daemon, ghosts, Prepared
<1>22. CASE Completes
    BY <1>22 DEF Completes, IInv, Noted, files, daemon, ghosts, Prepared
<1>23. CASE Rebind
    BY <1>23 DEF Rebind, IInv, Noted, files, daemon, Prepared
<1>24. CASE Crash
    BY <1>24 DEF Crash, IInv, Noted, files, world, Nobody, Prepared
<1>25. CASE Restart
    BY <1>25 DEF Restart, IInv, Noted, files, world, ghosts, Prepared
<1>26. CASE UNCHANGED vars
    BY <1>26 DEF vars, IInv, Noted, Prepared
<1>27. QED BY <1>1, <1>2, <1>3, <1>4, <1>5, <1>6, <1>7, <1>8, <1>9, <1>10, <1>11, <1>12, <1>13, <1>14, <1>15, <1>16,
   <1>17, <1>18, <1>19, <1>20, <1>21, <1>22, <1>23, <1>24, <1>25, <1>26 DEF Next, Tick

\* Every step keeps what the tick has in hand well formed.
LEMMA TickKept ==
    ASSUME IInv, [Next]_vars, TypeOK'
    PROVE  TickWell'
<1>1. CASE StartTick
    BY <1>1 DEF StartTick, IInv, TickWell, files, ghosts, Runs, Nobody, Healths, Prepared
<1>2. ASSUME NEW r \in Runs, Consider(r)
      PROVE  TickWell'
    BY <1>2, AttemptsAssumption DEF Consider, IInv, TypeOK, TickWell, Nobody, files, world, Final, Prepared, Step,
       WantsDirect, WantsReview, WantsCancel, WantsWithdraw, BridgeState
<1>3. CASE Withdraw
    BY <1>3 DEF Withdraw, IInv, TickWell, world, ghosts, Nobody, NoRecord, Prepared, Withdrawn, AfterWithdrawal
<1>4. CASE Launch
    <2>1. /\ hand \in Hands /\ hand # Nobody /\ hand.step = "launch"
          /\ hand' = Nobody \/ hand' = [hand EXCEPT !.step = "put"]
          /\ UNCHANGED <<occ, attempts, queue, pc, todo, worker>>
        BY <1>4 DEF IInv, TypeOK, Launch, Nobody, world
    <2>2. QED BY <2>1 DEF IInv, TickWell, Prepared, Nobody, Hands
<1>5. CASE PutRecord
    BY <1>5 DEF PutRecord, IInv, TickWell, world, ghosts, Nobody, Prepared
<1>6. CASE MarkFailover
    BY <1>6 DEF MarkFailover, IInv, TickWell, world, ghosts, Nobody, Prepared
<1>7. CASE EndFailover
    BY <1>7 DEF EndFailover, IInv, TickWell, files, world, ghosts, Nobody, Prepared
<1>8. CASE Freeze
    BY <1>8 DEF Freeze, IInv, TickWell, world, daemon, ghosts, Nobody, NoOcc, Prepared
<1>9. CASE Deliver
    BY <1>9 DEF Deliver, IInv, TickWell, world, ghosts, Nobody, NoRecord, Prepared, Deliverable, Frozen, Conflict,
       TypeOK
<1>10. CASE DeliveryFails
    BY <1>10 DEF DeliveryFails, IInv, TickWell, files, world, ghosts, Nobody, Prepared, Deliverable, Frozen, Conflict
<1>11. CASE NoteDelivery
    BY <1>11 DEF NoteDelivery, IInv, TickWell, world, ghosts, Runs, Nobody, Prepared, Unconsumed
<1>12. CASE NoDelivery
    BY <1>12 DEF NoDelivery, IInv, TickWell, files, world, ghosts, Runs, Nobody, Prepared, Unconsumed
<1>13. ASSUME NEW r \in Runs, Consume(r)
      PROVE  TickWell'
    BY <1>13 DEF Consume, IInv, TickWell, world, ghosts, Nobody, Prepared
<1>14. CASE EndTick
    BY <1>14 DEF EndTick, IInv, TickWell, files, world, ghosts, Nobody, Prepared
<1>15. ASSUME NEW t \in Tabs, Claim(t)
      PROVE  TickWell'
    BY <1>15 DEF Claim, IInv, TickWell, world, daemon, ghosts, Runs, Nobody, Prepared, Offered, Oldest, Fresh,
       Expired, TypeOK
<1>16. ASSUME NEW t \in Tabs, Renew(t)
      PROVE  TickWell'
    BY <1>16 DEF Renew, IInv, TickWell, world, daemon, ghosts, Nobody, Prepared, InForce
<1>17. ASSUME NEW t \in Tabs, Respond(t)
      PROVE  TickWell'
    BY <1>17 DEF Respond, IInv, TickWell, world, daemon, ghosts, Nobody, NoRecord, Prepared, InForce
<1>18. ASSUME NEW t \in Tabs, Abandon(t)
      PROVE  TickWell'
    BY <1>18 DEF Abandon, IInv, TickWell, files, world, daemon, ghosts, Nobody, Prepared
<1>19. ASSUME NEW r \in Runs, Age(r)
      PROVE  TickWell'
    BY <1>19 DEF Age, IInv, TickWell, world, daemon, ghosts, Nobody, Prepared
<1>20. ASSUME NEW r \in Runs, LifeEnds(r)
      PROVE  TickWell'
    BY <1>20 DEF LifeEnds, IInv, TickWell, world, daemon, ghosts, Nobody, Prepared, TypeOK
<1>21. ASSUME NEW r \in Runs, GraceEnds(r)
      PROVE  TickWell'
    BY <1>21 DEF GraceEnds, IInv, TickWell, world, daemon, ghosts, Nobody, Prepared
<1>22. CASE Completes
    BY <1>22 DEF Completes, IInv, TickWell, files, daemon, ghosts, Nobody, Prepared
<1>23. CASE Rebind
    BY <1>23 DEF Rebind, IInv, TickWell, files, daemon, Nobody, Prepared
<1>24. CASE Crash
    BY <1>24 DEF Crash, IInv, TickWell, files, world, Nobody, Prepared
<1>25. CASE Restart
    BY <1>25 DEF Restart, IInv, TickWell, files, world, ghosts, Nobody, Prepared
<1>26. CASE UNCHANGED vars
    BY <1>26 DEF vars, IInv, TickWell, Nobody, Prepared
<1>27. QED BY <1>1, <1>2, <1>3, <1>4, <1>5, <1>6, <1>7, <1>8, <1>9, <1>10, <1>11, <1>12, <1>13, <1>14, <1>15, <1>16,
   <1>17, <1>18, <1>19, <1>20, <1>21, <1>22, <1>23, <1>24, <1>25, <1>26 DEF Next, Tick

\* Every step keeps reviews apart from requests that can be answered.
LEMMA ApartKept ==
    ASSUME IInv, [Next]_vars, TypeOK'
    PROVE  Apart'
<1>1. CASE StartTick
    BY <1>1 DEF StartTick, IInv, Apart, Escapes, Unanswerable, Undelivered, Taken, files, ghosts, Runs, Healths,
       Prepared
<1>2. ASSUME NEW r \in Runs, Consider(r)
      PROVE  Apart'
    <2>1. hand = Nobody /\ pc = "failover" /\ occ[r].state # "none" /\ UNCHANGED <<occ, queue, review, torn>>
        BY <1>2 DEF IInv, TickWell, Consider, files, ghosts
    <2>2. hand'.step = "launch" => hand'.run = r /\ (WantsDirect(r) \/ WantsReview(r))
        BY <1>2 DEF Consider, Step, Nobody
    <2>3. WantsDirect(r) \/ WantsReview(r) => Escapes(r) \/ Unanswerable(r) \/ Undelivered(r)
        BY <2>1 DEF IInv, TypeOK, Noted, Occurrences, WantsDirect, WantsReview, BridgeState, Prepared, Escapes,
           Unanswerable, Undelivered
    <2>4. QED BY <2>1, <2>2, <2>3 DEF IInv, Apart, Escapes, Unanswerable, Undelivered, Taken, Prepared, Nobody
<1>3. CASE Withdraw
    <2> DEFINE rec == Withdrawn(queue[hand.run])
    <2>1. /\ hand.run \in Runs /\ occ[hand.run].state # "none" /\ ~Prepared(hand.run)
          /\ queue' = [queue EXCEPT ![hand.run] = rec] /\ UNCHANGED <<occ, review, torn>>
        BY <1>3 DEF IInv, TickWell, Withdraw, Nobody, ghosts
    <2>2. queue[hand.run].state # "absent" /\ queue[hand.run] \in Requests
        BY <2>1 DEF IInv, TypeOK, Noted, Prepared, Occurrences
    <2>3. /\ rec.binding = queue[hand.run].binding /\ rec.state # "absent"
          /\ queue[hand.run].state = "withdrawn" => rec.state = "withdrawn"
        BY <2>2 DEF Withdrawn, NoRecord, Requests
    <2>4. hand'.run = hand.run /\ (hand'.step = "launch" => rec.state = "withdrawn")
        BY <1>3, <2>2 DEF IInv, TypeOK, Withdraw, Withdrawn, AfterWithdrawal, Hands, Requests, NoRecord
    <2>5. hand.step = "withdraw"
        BY <1>3 DEF Withdraw
    <2> HIDE DEF rec
    <2>6. queue \in [Runs -> Requests] /\ review \subseteq Runs
        BY DEF IInv, TypeOK
    <2>7. ASSUME NEW r \in Runs, r = hand.run
          PROVE  (Escapes(r) => Escapes(r)') /\ (Unanswerable(r) => Unanswerable(r)') /\ ~Undelivered(r)
        BY <2>1, <2>2, <2>3, <2>6, <2>7 DEF Escapes, Unanswerable, Undelivered
    <2>8. ASSUME NEW r \in Runs \ {hand.run}
          PROVE  /\ Escapes(r) => Escapes(r)'
                 /\ Unanswerable(r) => Unanswerable(r)'
                 /\ Undelivered(r) /\ Taken(r) => Undelivered(r)' /\ Taken(r)'
        BY <2>1, <2>4, <2>5, <2>6 DEF Escapes, Unanswerable, Undelivered, Taken, Prepared
    <2>9. hand'.step = "launch" => Unanswerable(hand.run)'
        BY <2>1, <2>4, <2>6 DEF Unanswerable
    <2>10. \A r \in review : (Escapes(r) \/ Unanswerable(r) \/ (Undelivered(r) /\ Taken(r)))'
        BY <2>6, <2>7, <2>8 DEF IInv, Apart
    <2>11. QED BY <2>1, <2>9, <2>10 DEF Apart
<1>4. CASE Launch
    <2>1. /\ hand.step = "launch" /\ hand.run \in Runs /\ UNCHANGED <<occ, queue, torn>>
          /\ review \subseteq Runs /\ review' \in {review, review \cup {hand.run}}
          /\ review' # review => hand'.run = hand.run /\ hand'.step = "put"
          /\ hand'.step # "launch"
        BY <1>4 DEF IInv, TypeOK, TickWell, Launch, Nobody, Hands
    <2>2. \A r \in Runs : /\ Escapes(r) => Escapes(r)'
                          /\ Unanswerable(r) => Unanswerable(r)'
                          /\ Undelivered(r) => Undelivered(r)'
        BY <2>1 DEF Escapes, Unanswerable, Undelivered, Prepared
    <2>3. \A r \in review : Taken(r) => Taken(r)'
        BY <2>1 DEF Taken
    <2>4. review' # review => Taken(hand.run)'
        BY <2>1 DEF Taken
    <2>5. Escapes(hand.run) \/ Unanswerable(hand.run) \/ Undelivered(hand.run)
        BY <2>1 DEF IInv, Apart
    <2>6. QED BY <2>1, <2>2, <2>3, <2>4, <2>5 DEF IInv, Apart
<1>5. CASE PutRecord
    BY <1>5 DEF PutRecord, IInv, Apart, Escapes, Unanswerable, Undelivered, Taken, world, ghosts, Prepared
<1>6. CASE MarkFailover
    BY <1>6 DEF MarkFailover, IInv, Apart, Escapes, Unanswerable, Undelivered, Taken, world, ghosts, Nobody,
       Prepared, TypeOK, TickWell
<1>7. CASE EndFailover
    BY <1>7 DEF EndFailover, IInv, Apart, Escapes, Unanswerable, Undelivered, Taken, files, world, ghosts, Nobody,
       Prepared
<1>8. CASE Freeze
    BY <1>8 DEF Freeze, IInv, Apart, Escapes, Unanswerable, Undelivered, Taken, world, daemon, ghosts, NoOcc,
       Prepared, TypeOK, TickWell, Noted, Nobody, Hands, Runs
<1>9. CASE Deliver
    BY <1>9 DEF Deliver, IInv, Apart, Escapes, Unanswerable, Undelivered, Taken, world, ghosts, NoRecord, Prepared,
       Deliverable, Frozen, Conflict, TypeOK, TickWell, Noted, Nobody, Hands, Runs
<1>10. CASE DeliveryFails
    BY <1>10 DEF DeliveryFails, IInv, Apart, Escapes, Unanswerable, Undelivered, Taken, files, world, ghosts,
       Prepared, Deliverable, Frozen, Conflict
<1>11. CASE NoteDelivery
    BY <1>11 DEF NoteDelivery, IInv, Apart, Escapes, Unanswerable, Undelivered, Taken, world, ghosts, Runs, Prepared,
       Unconsumed, TypeOK, TickWell
<1>12. CASE NoDelivery
    BY <1>12 DEF NoDelivery, IInv, Apart, Escapes, Unanswerable, Undelivered, Taken, files, world, ghosts, Runs,
       Prepared, Unconsumed
<1>13. ASSUME NEW r \in Runs, Consume(r)
      PROVE  Apart'
    BY <1>13 DEF Consume, IInv, Apart, Escapes, Unanswerable, Undelivered, Taken, world, ghosts, Prepared
<1>14. CASE EndTick
    BY <1>14 DEF EndTick, IInv, Apart, Escapes, Unanswerable, Undelivered, Taken, files, world, ghosts, Prepared
<1>15. ASSUME NEW t \in Tabs, Claim(t)
      PROVE  Apart'
    <2>1. PICK r \in Offered(TabOf[t]) :
              queue' = [queue EXCEPT ![r].state = "claimed", ![r].holder = t, ![r].lease = "fresh"]
        BY <1>15 DEF Claim
    <2>2. r \in Runs /\ queue[r].state \in {"pending", "claimed"}
        BY DEF Offered, Oldest, Fresh, Expired
    <2>3. /\ queue \in [Runs -> Requests] /\ review \subseteq Runs
          /\ UNCHANGED <<occ, review, hand, torn>>
        BY <1>15 DEF IInv, TypeOK, Claim, daemon, ghosts
    <2>4. queue'[r].state = "claimed" /\ queue'[r].binding = queue[r].binding
        BY <2>1, <2>2, <2>3 DEF Requests
    <2>5. \A q \in Runs \ {r} : queue'[q] = queue[q]
        BY <2>1, <2>3
    <2>6. \A q \in Runs : /\ Escapes(q) => Escapes(q)'
                          /\ Unanswerable(q) => Unanswerable(q)'
                          /\ Undelivered(q) => Undelivered(q)'
        BY <2>2, <2>3, <2>4, <2>5 DEF Escapes, Unanswerable, Undelivered, Prepared
    <2>7. \A q : Taken(q) => Taken(q)'
        BY <2>3 DEF Taken
    <2>8. hand.step = "launch" => hand.run \in Runs
        BY DEF IInv, TickWell, Nobody
    <2>9. QED BY <2>3, <2>6, <2>7, <2>8 DEF IInv, Apart
<1>16. ASSUME NEW t \in Tabs, Renew(t)
      PROVE  Apart'
    BY <1>16 DEF Renew, IInv, Apart, Escapes, Unanswerable, Undelivered, Taken, world, daemon, ghosts, Prepared,
       InForce
<1>17. ASSUME NEW t \in Tabs, Respond(t)
      PROVE  Apart'
    BY <1>17 DEF Respond, IInv, Apart, Escapes, Unanswerable, Undelivered, Taken, world, daemon, ghosts, NoRecord,
       Prepared, InForce
<1>18. ASSUME NEW t \in Tabs, Abandon(t)
      PROVE  Apart'
    BY <1>18 DEF Abandon, IInv, Apart, Escapes, Unanswerable, Undelivered, Taken, files, world, daemon, ghosts,
       Prepared
<1>19. ASSUME NEW r \in Runs, Age(r)
      PROVE  Apart'
    BY <1>19 DEF Age, IInv, Apart, Escapes, Unanswerable, Undelivered, Taken, world, daemon, ghosts, Prepared
<1>20. ASSUME NEW r \in Runs, LifeEnds(r)
      PROVE  Apart'
    BY <1>20 DEF LifeEnds, IInv, Apart, Escapes, Unanswerable, Undelivered, Taken, world, daemon, ghosts, Prepared,
       TypeOK, TickWell, Noted, Nobody, Hands, Runs
<1>21. ASSUME NEW r \in Runs, GraceEnds(r)
      PROVE  Apart'
    BY <1>21 DEF GraceEnds, IInv, Apart, Escapes, Unanswerable, Undelivered, Taken, world, daemon, ghosts, Prepared
<1>22. CASE Completes
    BY <1>22 DEF Completes, IInv, Apart, Escapes, Unanswerable, Undelivered, Taken, files, daemon, ghosts, Prepared
<1>23. CASE Rebind
    BY <1>23 DEF Rebind, IInv, Apart, Escapes, Unanswerable, Undelivered, Taken, files, daemon, Prepared
<1>24. CASE Crash
    BY <1>24 DEF Crash, IInv, Apart, Escapes, Unanswerable, Undelivered, Taken, files, world, Nobody, Prepared
<1>25. CASE Restart
    BY <1>25 DEF Restart, IInv, Apart, Escapes, Unanswerable, Undelivered, Taken, files, world, ghosts, Prepared
<1>26. CASE UNCHANGED vars
    BY <1>26 DEF vars, IInv, Apart, Escapes, Unanswerable, Undelivered, Taken, Prepared
<1>27. QED BY <1>1, <1>2, <1>3, <1>4, <1>5, <1>6, <1>7, <1>8, <1>9, <1>10, <1>11, <1>12, <1>13, <1>14, <1>15, <1>16,
   <1>17, <1>18, <1>19, <1>20, <1>21, <1>22, <1>23, <1>24, <1>25, <1>26 DEF Next, Tick

--------------------------------------------------------------------------------
(* The invariant and what follows from it. *)

LEMMA InitInvariant == Init => IInv
    BY InitTypes DEF IInv, Init, Noted, TickWell, Apart, NoOcc, NoRecord, Nobody, Prepared

LEMMA Inductive ==
    ASSUME IInv, [Next]_vars
    PROVE  IInv'
<1>1. TypeOK'
    BY TypesKept
<1>2. Noted' /\ TickWell' /\ Apart'
    BY <1>1, NotedKept, TickKept, ApartKept
<1>3. QED BY <1>1, <1>2 DEF IInv

\* Invariance.  In every reachable state the ledger, the queues and the step the failover engine has in
\* hand are well formed and agree, up to a daemon's death between an effect and its note.
THEOREM Invariance == Spec => []IInv
<1>1. Init => IInv
    BY InitInvariant
<1>2. IInv /\ [Next]_vars => IInv'
    BY Inductive
<1>3. QED BY <1>1, <1>2, PTL DEF Spec

\* TypeCorrect.  Requests, occurrences, tabs and what the engine has in hand keep to their types, with the
\* attempts and the daemon's failures within their bounds (websol_failover.reconcile, response_consumer).
THEOREM TypeCorrect == Spec => []TypeOK
<1>1. IInv => TypeOK
    BY DEF IInv
<1>2. QED BY Invariance, <1>1, PTL

LEMMA ApartOneReviewer == IInv => OneReviewer
    BY DEF IInv, TypeOK, Apart, OneReviewer, Escapes, Unanswerable, Undelivered

\* OneReviewerHolds.  The engine launches a direct review only for a request that cannot be answered any
\* more, and a request it took over is not delivered again (websol_failover.reconcile, _dispatch_one).
THEOREM OneReviewerHolds == Spec => []OneReviewer
<1>1. Spec => []IInv
    BY Invariance
<1>2. IInv => OneReviewer
    BY ApartOneReviewer
<1>3. QED BY <1>1, <1>2, PTL

=============================================================================
