------------------------------ MODULE JobRuntime ------------------------------
(***************************************************************************)
(* The durable job runtime of src/dev_orchestrator/jobs on one host: the   *)
(* job store (store.py), the service called by the CLI, the control API    *)
(* and the daemon (service.py), the detached supervisor of each job        *)
(* (supervisor.py) and the daemon's recovery sweep (recovery.py).          *)
(*                                                                         *)
(* Every store operation runs under jobs.lock, so it is one action; what   *)
(* interleaves is everything between two store operations, and the files   *)
(* read without the lock (result.json, heartbeat.json, cancel.json).  A    *)
(* store operation writes job.json and then index.json: a process may die  *)
(* between the two (a torn write), which leaves the index row stale.       *)
(***************************************************************************)
EXTENDS Integers, FiniteSets

CONSTANTS
    Jobs,        \* job ids
    Roots,       \* the ids job_id_for gives to specs submitted by a client
    Requests,    \* retry_request_ids
    Successor,   \* retry_successor_id: <<job, request>> to a job id, or None
    Callers,     \* processes that call JobService, one operation at a time
    Daemon,      \* the daemon process, which runs the recovery coordinator
    Pids,        \* process ids of the supervisors; a pid is used once
    None,        \* Python's None, and the absence of a file
    MaxActive,   \* max_concurrent_jobs
    DaemonRuns,  \* FALSE: the daemon is down, only the callers use the store
    CallerOps,   \* the operations the callers use
    MaxCalls,    \* bound: operations the callers begin in a behaviour
    MaxCrashes,  \* bound: process deaths, of any process, in a behaviour
    MaxPrunes,   \* bound: jobs pruned by retention in a behaviour
    PosixGroups  \* TRUE: terminate_process_tree signals the process group

Procs == Callers \cup {Daemon}

ASSUME ConstantsAssumption ==
    /\ IsFiniteSet(Jobs) /\ Roots \subseteq Jobs
    /\ Successor \in [Jobs \X Requests -> Jobs \cup {None}]
    /\ None \notin Jobs \cup Requests \cup Pids \cup Procs
    /\ Daemon \notin Callers
    /\ MaxActive \in Nat \ {0} /\ MaxCalls \in Nat /\ MaxCrashes \in Nat /\ MaxPrunes \in Nat
    /\ DaemonRuns \in BOOLEAN /\ PosixGroups \in BOOLEAN

\* The ids are hashes: a successor id names its predecessor and its request,
\* and is neither a root's id nor its own predecessor.
ASSUME SuccessorAssumption ==
    /\ \A j \in Jobs, r \in Requests : Successor[<<j, r>>] \notin Roots
    /\ \A j, k \in Jobs, r, s \in Requests :
          /\ Successor[<<j, r>>] # None
          /\ Successor[<<j, r>>] = Successor[<<k, s>>]
          => j = k /\ r = s

-----------------------------------------------------------------------------
Terminal == {"completed", "failed", "cancelled"}
ActiveStates == {"queued", "running", "unknown_recovery"}
States == Terminal \cup ActiveStates
Outcomes == {"success", "failure", "cancelled"}

VALID_TRANSITIONS ==
    [s \in States |->
        CASE s = "queued"  -> {"running", "cancelled", "failed", "unknown_recovery"}
          [] s = "running" -> {"completed", "failed", "cancelled", "unknown_recovery"}
          [] s = "unknown_recovery" -> {"running", "completed", "failed", "cancelled"}
          [] OTHER -> {}]

\* The state a recorded outcome settles a job in.
FinalState(o) == CASE o = "success" -> "completed"
                   [] o = "failure" -> "failed"
                   [] o = "cancelled" -> "cancelled"

\* job.json.  token stands for supervisor.start_token and timestamps.started_at,
\* which are set together; req for the whole write-once retry intent.
Record == [state : States, safe : BOOLEAN, sup : Pids \cup {None},
           token : Pids \cup {None}, req : Requests \cup {None},
           spawned : BOOLEAN, booked : BOOLEAN, observed : BOOLEAN,
           created : Nat]

NewRecord(n) == [state |-> "queued", safe |-> FALSE, sup |-> None, token |-> None,
                 req |-> None, spawned |-> FALSE, booked |-> FALSE, observed |-> FALSE,
                 created |-> n]

\* What a call keeps of a record it has read.
Snapshot == [state : States, sup : Pids \cup {None}, token : Pids \cup {None},
             observed : BOOLEAN, booked : BOOLEAN]
Snap(r) == [state |-> r.state, sup |-> r.sup, token |-> r.token,
            observed |-> r.observed, booked |-> r.booked]

\* A row of index.json.
IndexRow == [state : States, req : Requests \cup {None}, created : Nat]
Row(r) == [state |-> r.state, req |-> r.req, created |-> r.created]

\* What a service call holds in its locals.  Verdicts are the branches of
\* reconcile, decided before the update that acts on them.
Verdicts == {"mismatch", "stalled", "never", "died"}
Ops == {"submit", "reconcile", "retry", "cancel", "sweep", "redrive"}
ServicePcs == {"idle", "claim", "spawn", "recordpid", "recon", "result", "judge",
               "settle", "claimretry", "lookup", "markspawn", "cancelget",
               "cancelfile", "cancelkill", "cancelmark",
               "down", "repair", "retain", "list", "visit", "book", "mark"}
Call == [pc : ServicePcs, op : Ops \cup {None}, job : Jobs \cup {None},
         req : Requests \cup {None}, snap : Snapshot \cup {None},
         pid : Pids \cup {None}, verdict : Verdicts \cup {None}, born : Nat]

\* None is told from a record, a row, an operation and an outcome.
ASSUME NoneAssumption == None \notin Record /\ None \notin IndexRow
                         /\ None \notin Ops /\ None \notin Outcomes

At(p) == [pc |-> p, op |-> None, job |-> None, req |-> None, snap |-> None,
          pid |-> None, verdict |-> None, born |-> 0]

\* A supervisor process: boot (spawned), checked (found no reason to refuse),
\* launch (recorded as running), run (child alive), ended (outcome known),
\* finish (result saved), gone; orphan: the supervisor died, its child did not.
SupervisorPcs == {"free", "boot", "checked", "launch", "run", "ended", "finish",
                  "orphan", "gone"}
Supervisor == [pc : SupervisorPcs, job : Jobs \cup {None}, born : Nat,
               out : Outcomes \cup {None}, ran : BOOLEAN]
Unused == [pc |-> "free", job |-> None, born |-> 0, out |-> None, ran |-> FALSE]

VARIABLES
    rec,        \* job.json of each job, None when absent
    idx,        \* its row in index.json, None when absent
    res,        \* the outcome in result.json, None when absent
    hb,         \* the start_token in heartbeat.json, None when absent
    cancelFile, \* whether cancel.json exists
    th,         \* the service call each process is in
    sup,        \* the supervisor processes
    sweep,      \* the daemon's pass over its job list
    ledger,     \* accounting intervals closed for each job
    claims,     \* jobs ever created: stamps created_at
    prunes,     \* jobs ever pruned
    crashes,    \* process deaths so far
    calls       \* operations begun by the callers so far

store == <<rec, idx, crashes>>
files == <<res, hb, cancelFile>>
counters == <<claims, prunes, calls>>
vars == <<rec, idx, res, hb, cancelFile, th, sup, sweep, ledger, claims, prunes, crashes, calls>>

TypeOK ==
    /\ rec \in [Jobs -> Record \cup {None}]
    /\ idx \in [Jobs -> IndexRow \cup {None}]
    /\ res \in [Jobs -> Outcomes \cup {None}]
    /\ hb \in [Jobs -> Pids \cup {None}]
    /\ cancelFile \in [Jobs -> BOOLEAN]
    /\ th \in [Procs -> Call]
    /\ sup \in [Pids -> Supervisor]
    /\ sweep \in [todo : SUBSET Jobs, links : SUBSET Jobs, startup : BOOLEAN]
    /\ ledger \in [Jobs -> Nat]
    /\ claims \in Nat /\ prunes \in Nat /\ crashes \in Nat /\ calls \in Nat

Init ==
    /\ rec = [j \in Jobs |-> None]
    /\ idx = [j \in Jobs |-> None]
    /\ res = [j \in Jobs |-> None]
    /\ hb = [j \in Jobs |-> None]
    /\ cancelFile = [j \in Jobs |-> FALSE]
    /\ th = [t \in Procs |-> IF t = Daemon THEN At(IF DaemonRuns THEN "repair" ELSE "down")
                          ELSE At("idle")]
    /\ sup = [p \in Pids |-> Unused]
    /\ sweep = [todo |-> {}, links |-> {}, startup |-> TRUE]
    /\ ledger = [j \in Jobs |-> 0]
    /\ claims = 0 /\ prunes = 0 /\ crashes = 0 /\ calls = 0

-----------------------------------------------------------------------------
\* Helpers

Present(j) == rec[j] # None
IsTerminal(j) == Present(j) /\ rec[j].state \in Terminal
PidAlive(p) == p \in Pids /\ sup[p].pc \notin {"free", "orphan", "gone"}
ChildAlive(p) == sup[p].pc \in {"run", "orphan"}
SuccessorOf(j, r) == Successor[<<j, r>>]

\* transition_to when it is legal; an illegal one raises and nothing is saved.
CanMove(r, s) == s \in VALID_TRANSITIONS[r.state]

Settle(r, o) == [r EXCEPT !.state = FinalState(o)]

\* Whether a supervisor's update of the record, which leaves a terminal one
\* alone, goes through.
Accepts(j, s) == Present(j) /\ (rec[j].state \in Terminal \/ CanMove(rec[j], s))

\* Whether the process dies between the two files of a write.
Torn == {b \in BOOLEAN : b => crashes < MaxCrashes}

\* Mutant: the index row is written before job.json.
IndexFirst(j, r, torn) ==
    /\ rec' = IF torn THEN rec ELSE [rec EXCEPT ![j] = r]
    /\ idx' = [idx EXCEPT ![j] = Row(r)]
    /\ crashes' = IF torn THEN crashes + 1 ELSE crashes

\* The write half of every locked update: job.json, then the index row unless
\* the process dies in between.
Persist(j, r, torn) ==
    /\ rec' = [rec EXCEPT ![j] = r]
    /\ idx' = IF torn THEN idx ELSE [idx EXCEPT ![j] = Row(r)]
    /\ crashes' = IF torn THEN crashes + 1 ELSE crashes
NoWrite == UNCHANGED store

\* A dead caller is gone; a dead daemon is down until it is started again.
Dead(t) == At(IF t = Daemon THEN "down" ELSE "idle")

\* _record_accounting_if_terminal returns early on any other record.
Bookable(r) == r.state \in Terminal /\ ~r.booked

\* Where a call goes when the service operation it is in returns or raises.
\* The sweep books the terminal record it holds after a redrive either way.
Done(t) == IF t \in Callers THEN At("idle")
           ELSE IF th[t].op = "redrive" /\ Bookable(th[t].snap)
                THEN [th[t] EXCEPT !.pc = "book"]
           ELSE At("visit")
Goto(t, next) == th' = [th EXCEPT ![t] = next]
GotoPc(t, p) == Goto(t, [th[t] EXCEPT !.pc = p])

\* What follows reconcile(job) when it returns the record r.
Reconciled(t, r) ==
    LET next == [th[t] EXCEPT !.snap = r, !.verdict = None] IN
    CASE th[t].op \in {"retry", "redrive"} -> [next EXCEPT !.pc = "claimretry"]
      [] th[t].op = "sweep" -> IF Bookable(r) THEN [next EXCEPT !.pc = "book"] ELSE At("visit")
      [] OTHER -> At("idle")

\* The job a submit is for: the spec's own, or the successor of a retry.
Target(t) == IF th[t].op = "submit" THEN th[t].job
             ELSE SuccessorOf(th[t].job, th[t].req)

-----------------------------------------------------------------------------
\* A caller begins a service operation.  Operations on a job without a record
\* raise at once and are left out.
Begin(t) ==
    /\ th[t].pc = "idle"
    /\ calls < MaxCalls /\ calls' = calls + 1
    /\ \E op \in CallerOps : \E j \in Jobs :
          \/ /\ op = "submit" /\ j \in Roots
             /\ Goto(t, [At("claim") EXCEPT !.op = op, !.job = j])
          \/ /\ op = "reconcile" /\ Present(j)
             /\ Goto(t, [At("recon") EXCEPT !.op = op, !.job = j])
          \/ /\ op = "cancel" /\ Present(j)
             /\ Goto(t, [At("cancelget") EXCEPT !.op = op, !.job = j])
          \/ \E r \in Requests :
                /\ op = "retry" /\ Present(j) /\ SuccessorOf(j, r) # None
                /\ Goto(t, [At("recon") EXCEPT !.op = op, !.job = j, !.req = r])
    /\ UNCHANGED <<store, files, sup, sweep, ledger, claims, prunes>>

\* store.claim_or_get: the record that is there, a refusal at the concurrency
\* limit counted over the index rows, or a new record.
ActiveRows == {j \in Jobs : idx[j] # None /\ idx[j].state \in ActiveStates}

\* Mutant: submit ignores is_new and starts a supervisor for the record it found.
SpawnsAgain(t) == [th[t] EXCEPT !.pc = "spawn", !.born = rec[Target(t)].created]

\* A submit that finds the record returns it; only a new record is spawned.
Found(t) == IF th[t].op = "submit" THEN Done(t) ELSE [th[t] EXCEPT !.pc = "markspawn"]

Claim(t) ==
    LET j == Target(t) IN
    /\ th[t].pc = "claim"
    /\ \/ /\ Present(j)
          /\ Goto(t, Found(t))
          /\ UNCHANGED claims /\ NoWrite
       \/ /\ ~Present(j) /\ Cardinality(ActiveRows) >= MaxActive
          /\ Goto(t, Done(t))
          /\ UNCHANGED claims /\ NoWrite
       \/ /\ ~Present(j) /\ Cardinality(ActiveRows) < MaxActive
          /\ claims' = claims + 1
          /\ \E torn \in Torn :
                /\ Persist(j, NewRecord(claims + 1), torn)
                /\ Goto(t, IF torn THEN Dead(t)
                           ELSE [th[t] EXCEPT !.pc = "spawn", !.born = claims + 1])
    /\ UNCHANGED <<files, sup, sweep, ledger, prunes, calls>>

\* transport.job_start: a detached supervisor, or a spawn that raises and
\* leaves the job queued.
Spawn(t) ==
    /\ th[t].pc = "spawn"
    /\ \/ \E p \in Pids :
             /\ sup[p].pc = "free"
             /\ sup' = [sup EXCEPT ![p] = [Unused EXCEPT !.pc = "boot",
                                           !.job = Target(t), !.born = th[t].born]]
             /\ Goto(t, [th[t] EXCEPT !.pc = "recordpid", !.pid = p])
       \/ Goto(t, Done(t)) /\ UNCHANGED sup
    /\ UNCHANGED <<store, counters, files, sweep, ledger>>

\* submit's last step: _record_pid.
RecordPid(t) ==
    LET j == Target(t) IN
    /\ th[t].pc = "recordpid"
    /\ \/ ~Present(j) /\ NoWrite /\ Goto(t, Done(t))
       \/ /\ Present(j)
          /\ \E torn \in Torn :
                /\ Persist(j, [rec[j] EXCEPT !.sup = th[t].pid], torn)
                /\ Goto(t, CASE torn -> Dead(t)
                             [] ~torn /\ th[t].op = "submit" -> Done(t)
                             [] OTHER -> [th[t] EXCEPT !.pc = "markspawn"])
    /\ UNCHANGED <<counters, files, sup, sweep, ledger>>

-----------------------------------------------------------------------------
\* reconcile, first read: a terminal record is returned as it is.
ReconcileGet(t) ==
    LET j == th[t].job IN
    /\ th[t].pc = "recon"
    /\ CASE ~Present(j) -> Goto(t, Done(t))
         [] IsTerminal(j) -> Goto(t, Reconciled(t, Snap(rec[j])))
         [] OTHER -> Goto(t, [th[t] EXCEPT !.pc = "result", !.snap = Snap(rec[j])])
    /\ UNCHANGED <<store, counters, files, sup, sweep, ledger>>

\* reconcile, result.json: _promote_terminal, which steps a queued job with a
\* successful result through running.  result.json is written once, so reading
\* it and acting on it is one action.
ReconcileResult(t) ==
    LET j == th[t].job IN
    /\ th[t].pc = "result"
    /\ \/ res[j] = None /\ NoWrite /\ GotoPc(t, "judge")
       \/ res[j] # None /\ ~Present(j) /\ NoWrite /\ Goto(t, Done(t))
       \/ /\ res[j] # None /\ Present(j)
          /\ \E torn \in Torn :
                LET r == IF IsTerminal(j) THEN rec[j] ELSE Settle(rec[j], res[j]) IN
                /\ Persist(j, r, torn)
                /\ Goto(t, IF torn THEN Dead(t) ELSE Reconciled(t, Snap(r)))
    /\ UNCHANGED <<counters, files, sup, sweep, ledger>>

\* reconcile, evidence: the heartbeat and the supervisor's liveness are read
\* and judged against the record read earlier.  A heartbeat whose sequence
\* advanced, or the first one observed, is saved in the record, which is read
\* again.  A stall is an observed heartbeat that does not advance although the
\* process is alive.
StartedEvidence(r, beat) == r.token # None \/ r.sup # None \/ beat # None \/ r.state = "running"

Judge(t, r, fresh) ==
    LET j == th[t].job
        alive == PidAlive(IF hb[j] # None THEN hb[j] ELSE r.sup)
        decide(v) == Goto(t, [th[t] EXCEPT !.pc = "settle", !.verdict = v, !.snap = r])
    IN
    \/ alive /\ Goto(t, Reconciled(t, r))
    \/ alive /\ hb[j] # None /\ ~fresh /\ decide("stalled")
    \/ ~alive /\ r.state = "unknown_recovery" /\ Goto(t, Reconciled(t, r))
    \/ /\ ~alive /\ r.state # "unknown_recovery"
       /\ decide(IF StartedEvidence(r, hb[j]) THEN "died" ELSE "never")

ReconcileJudge(t) ==
    LET j == th[t].job
        snap == th[t].snap
        mismatch == hb[j] # None /\ snap.token # None /\ hb[j] # snap.token
        observed == [rec[j] EXCEPT !.observed = TRUE]
    IN
    /\ th[t].pc = "judge"
    /\ \/ /\ mismatch /\ NoWrite
          /\ Goto(t, [th[t] EXCEPT !.pc = "settle", !.verdict = "mismatch"])
       \/ /\ ~mismatch /\ (hb[j] # None => snap.observed \/ ~Present(j))
          /\ NoWrite
          /\ Judge(t, snap, ~snap.observed)
       \/ /\ ~mismatch /\ hb[j] # None /\ Present(j)
          /\ \E torn \in Torn :
                /\ Persist(j, observed, torn)
                /\ IF torn THEN Goto(t, Dead(t)) ELSE Judge(t, Snap(observed), TRUE)
    /\ UNCHANGED <<counters, files, sup, sweep, ledger>>

\* Mutants: a job whose outcome is unknown is failed; the update forgets that the
\* record may have become terminal.
UnknownIsFailed(r, v, o) ==
    IF r.state \in Terminal THEN r
    ELSE CASE v = "never" -> [r EXCEPT !.state = "failed", !.safe = TRUE]
      [] v = "died" /\ o # None -> Settle(r, o)
      [] OTHER -> [r EXCEPT !.state = "failed"]
OverwritesTerminal(r, v, o) ==
    CASE v = "never" -> [r EXCEPT !.state = "failed", !.safe = TRUE]
      [] v = "died" /\ o # None -> Settle(r, o)
      [] OTHER -> [r EXCEPT !.state = "unknown_recovery", !.safe = FALSE]

\* reconcile, update: the verdict is applied to the record as it is now, whose
\* state may have changed since.  A record that became terminal is kept.  The
\* verdict "died" looks at result.json once more under the lock.
Verdict(r, v, o) ==
    IF r.state \in Terminal THEN r
    ELSE CASE v = "never" -> [r EXCEPT !.state = "failed", !.safe = TRUE]
      [] v = "died" /\ o # None -> Settle(r, o)
      [] OTHER -> [r EXCEPT !.state = "unknown_recovery", !.safe = FALSE]

VerdictRaises(r, v, o) ==
    /\ r.state \notin Terminal
    /\ v # "never"
    /\ ~CanMove(r, IF v = "died" /\ o # None THEN FinalState(o) ELSE "unknown_recovery")

ReconcileSettle(t) ==
    LET j == th[t].job  v == th[t].verdict IN
    /\ th[t].pc = "settle"
    /\ \/ ~Present(j) /\ NoWrite /\ Goto(t, Done(t))
       \/ /\ Present(j) /\ VerdictRaises(rec[j], v, res[j])
          /\ NoWrite
          /\ Goto(t, IF v = "stalled" THEN Reconciled(t, th[t].snap) ELSE Done(t))
       \/ /\ Present(j) /\ ~VerdictRaises(rec[j], v, res[j])
          /\ \E torn \in Torn :
                /\ Persist(j, Verdict(rec[j], v, res[j]), torn)
                /\ Goto(t, IF torn THEN Dead(t)
                           ELSE Reconciled(t, Snap(Verdict(rec[j], v, res[j]))))
    /\ UNCHANGED <<counters, files, sup, sweep, ledger>>

-----------------------------------------------------------------------------
Conflicts(j, r) == Present(j) /\ rec[j].req \notin {None, r}

\* retry after its reconcile: store.claim_retry.  The intent is written once;
\* the same request is replayed, another one raises.
ClaimRetry(t) ==
    LET j == th[t].job  refused == th[t].snap.state \notin Terminal \/ ~IsTerminal(j) IN
    /\ th[t].pc = "claimretry"
    /\ \/ /\ refused \/ Conflicts(j, th[t].req)
          /\ NoWrite /\ Goto(t, Done(t))
       \/ /\ ~refused /\ rec[j].req = th[t].req
          /\ NoWrite /\ GotoPc(t, "lookup")
       \/ /\ ~refused /\ rec[j].req # th[t].req /\ ~Conflicts(j, th[t].req)
          /\ \E torn \in Torn :
                /\ Persist(j, [rec[j] EXCEPT !.req = th[t].req], torn)
                /\ Goto(t, IF torn THEN Dead(t) ELSE [th[t] EXCEPT !.pc = "claim"])
    /\ UNCHANGED <<counters, files, sup, sweep, ledger>>

\* A replayed retry returns the successor if it is there and submits it if not.
Lookup(t) ==
    /\ th[t].pc = "lookup"
    /\ IF Present(Target(t)) THEN Goto(t, Done(t)) ELSE GotoPc(t, "claim")
    /\ UNCHANGED <<store, counters, files, sup, sweep, ledger>>

\* retry's last step: _record_spawn on the predecessor.
MarkSpawned(t) ==
    LET j == th[t].job IN
    /\ th[t].pc = "markspawn"
    /\ \/ ~Present(j) /\ NoWrite /\ Goto(t, Done(t))
       \/ /\ Present(j)
          /\ \E torn \in Torn :
                /\ Persist(j, [rec[j] EXCEPT !.spawned = TRUE], torn)
                /\ Goto(t, IF torn THEN Dead(t) ELSE Done(t))
    /\ UNCHANGED <<counters, files, sup, sweep, ledger>>

-----------------------------------------------------------------------------
\* cancel: the first read, without effect on a terminal record.
CancelGet(t) ==
    /\ th[t].pc = "cancelget"
    /\ IF ~Present(th[t].job) \/ IsTerminal(th[t].job)
       THEN Goto(t, Done(t)) ELSE GotoPc(t, "cancelfile")
    /\ UNCHANGED <<store, counters, files, sup, sweep, ledger>>

\* Mutant: only the recorded pid is killed, no cancel.json is written.
KillsOnly(t) ==
    /\ th[t].pc = "cancelfile" /\ GotoPc(t, "cancelkill")
    /\ UNCHANGED <<store, counters, files, sup, sweep, ledger>>

\* job_cancel: cancel.json is written first ...
CancelFile(t) ==
    /\ th[t].pc = "cancelfile"
    /\ cancelFile' = [cancelFile EXCEPT ![th[t].job] = TRUE]
    /\ GotoPc(t, "cancelkill")
    /\ UNCHANGED <<store, counters, res, hb, sup, sweep, ledger>>

\* ... then the recorded supervisor, if it is alive, is killed with its child.
CancelKill(t) ==
    LET p == IF Present(th[t].job) THEN rec[th[t].job].sup ELSE None IN
    /\ th[t].pc = "cancelkill"
    /\ IF PidAlive(p) THEN sup' = [sup EXCEPT ![p].pc = "gone", ![p].out = None] ELSE UNCHANGED sup
    /\ GotoPc(t, "cancelmark")
    /\ UNCHANGED <<store, counters, files, sweep, ledger>>

\* The record becomes cancelled, or the call raises because it is terminal now.
CancelMark(t) ==
    LET j == th[t].job IN
    /\ th[t].pc = "cancelmark"
    /\ \/ (~Present(j) \/ IsTerminal(j)) /\ NoWrite /\ Goto(t, Done(t))
       \/ /\ Present(j) /\ ~IsTerminal(j)
          /\ \E torn \in Torn :
                /\ Persist(j, Settle(rec[j], "cancelled"), torn)
                /\ Goto(t, IF torn THEN Dead(t) ELSE Done(t))
    /\ UNCHANGED <<counters, files, sup, sweep, ledger>>

-----------------------------------------------------------------------------
\* The daemon starts: repair_corruption quarantines directories without a
\* job.json and rebuilds the index from the records.
Repair ==
    /\ th[Daemon].pc = "repair"
    /\ idx' = [j \in Jobs |-> IF Present(j) THEN Row(rec[j]) ELSE None]
    /\ res' = [j \in Jobs |-> IF Present(j) THEN res[j] ELSE None]
    /\ hb' = [j \in Jobs |-> IF Present(j) THEN hb[j] ELSE None]
    /\ cancelFile' = [j \in Jobs |-> Present(j) /\ cancelFile[j]]
    /\ Goto(Daemon, At("retain"))
    /\ UNCHANGED <<counters, rec, sup, sweep, ledger, crashes>>

\* Mutant: every row that is not queued or running may be pruned.
PrunesUnknown == {j \in Jobs : idx[j] # None /\ idx[j].state \notin {"queued", "running"}}

\* apply_retention, at startup and at the start of every tick: terminal rows,
\* oldest first, except a predecessor whose successor has no row.  A predecessor
\* finished before its successor began.
Prunable == {j \in Jobs : /\ idx[j] # None /\ idx[j].state \in Terminal
                          /\ idx[j].req # None => idx[SuccessorOf(j, idx[j].req)] # None}
OldestFirst(P) == \A j \in Prunable, k \in P :
    idx[j].req # None /\ SuccessorOf(j, idx[j].req) = k => j \in P

Retain ==
    /\ \/ th[Daemon].pc = "retain" /\ UNCHANGED sweep
       \/ /\ th[Daemon].pc = "visit" /\ sweep.todo = {}
          /\ sweep' = [todo |-> {}, links |-> {}, startup |-> FALSE]
    /\ \E P \in SUBSET Prunable :
          /\ OldestFirst(P)
          /\ prunes + Cardinality(P) <= MaxPrunes
          /\ prunes' = prunes + Cardinality(P)
          /\ rec' = [j \in Jobs |-> IF j \in P THEN None ELSE rec[j]]
          /\ res' = [j \in Jobs |-> IF j \in P THEN None ELSE res[j]]
          /\ hb' = [j \in Jobs |-> IF j \in P THEN None ELSE hb[j]]
          /\ cancelFile' = [j \in Jobs |-> j \notin P /\ cancelFile[j]]
          /\ \E torn \in Torn :
                /\ torn => P # {}
                /\ idx' = IF torn THEN idx ELSE [j \in Jobs |-> IF j \in P THEN None ELSE idx[j]]
                /\ crashes' = IF torn THEN crashes + 1 ELSE crashes
                /\ Goto(Daemon, IF torn THEN Dead(Daemon) ELSE At("list"))
    /\ UNCHANGED <<sup, ledger, claims, calls>>

\* Mutants of the tick's choice: queued jobs are left to their supervisor; only
\* queued jobs are looked at.
ListsRunning(row) == row.req # None \/ row.state = "running"
ListsQueued(row) == row.req # None \/ row.state = "queued"

\* The sweep's list, read once from the index: every job at startup, and the
\* jobs whose row is active or names a successor at a tick.
Listed(row) == row.req # None \/ row.state \in ActiveStates

List ==
    LET rows == {j \in Jobs : idx[j] # None}
        links == {j \in rows : idx[j].req # None}
    IN
    /\ th[Daemon].pc = "list"
    /\ sweep' = [sweep EXCEPT !.links = links,
                    !.todo = IF sweep.startup THEN rows ELSE {j \in rows : Listed(idx[j])}]
    /\ Goto(Daemon, At("visit"))
    /\ UNCHANGED <<store, counters, files, sup, ledger>>

\* Mutant: an intent is left to the caller that claimed it.
NeverStranded(j) == FALSE

\* One job of the list, oldest row first: re-drive a recorded retry whose
\* successor has no record, else reconcile an active job, else book it.
Stranded(j) == /\ sweep.startup \/ j \in sweep.links
               /\ rec[j].req # None /\ ~rec[j].spawned
               /\ ~Present(SuccessorOf(j, rec[j].req))

Visit(j) ==
    /\ th[Daemon].pc = "visit"
    /\ j \in sweep.todo
    /\ \A k \in sweep.todo : Present(j) /\ Present(k) => rec[j].created <= rec[k].created
    /\ sweep' = [sweep EXCEPT !.todo = @ \ {j}]
    /\ \/ ~Present(j) /\ UNCHANGED th
       \/ /\ Present(j) /\ Stranded(j)
          /\ Goto(Daemon, [At("recon") EXCEPT !.op = "redrive", !.job = j,
                           !.req = rec[j].req, !.snap = Snap(rec[j])])
       \/ /\ Present(j) /\ ~Stranded(j)
          /\ IF IsTerminal(j) /\ ~Bookable(rec[j]) THEN UNCHANGED th
             ELSE Goto(Daemon, [At(IF IsTerminal(j) THEN "book" ELSE "recon")
                                EXCEPT !.op = "sweep", !.job = j, !.snap = Snap(rec[j])])
    /\ UNCHANGED <<store, counters, files, sup, ledger>>

\* _record_accounting_if_terminal: close the interval, then mark the record.
Book ==
    /\ th[Daemon].pc = "book"
    /\ ledger' = [ledger EXCEPT ![th[Daemon].job] = @ + 1]
    /\ GotoPc(Daemon, "mark")
    /\ UNCHANGED <<store, counters, files, sup, sweep>>

Mark ==
    LET j == th[Daemon].job IN
    /\ th[Daemon].pc = "mark"
    /\ \/ ~Present(j) /\ NoWrite /\ Goto(Daemon, At("visit"))
       \/ /\ Present(j)
          /\ \E torn \in Torn :
                /\ Persist(j, [rec[j] EXCEPT !.booked = TRUE], torn)
                /\ Goto(Daemon, IF torn THEN Dead(Daemon) ELSE At("visit"))
    /\ UNCHANGED <<counters, files, sup, sweep, ledger>>

\* The daemon is started again after it died.
Restart ==
    /\ DaemonRuns /\ th[Daemon].pc = "down"
    /\ Goto(Daemon, At("repair"))
    /\ sweep' = [todo |-> {}, links |-> {}, startup |-> TRUE]
    /\ UNCHANGED <<store, counters, files, sup, ledger>>

-----------------------------------------------------------------------------
\* run_supervisor, the refusals: a result, another live supervisor on record,
\* or a terminal record.
Refuses(p) ==
    LET j == sup[p].job IN
    \/ ~Present(j) \/ res[j] # None \/ IsTerminal(j)
    \/ rec[j].sup # p /\ PidAlive(rec[j].sup)

Boot(p) ==
    /\ sup[p].pc = "boot"
    /\ sup' = [sup EXCEPT ![p].pc = IF Refuses(p) THEN "gone" ELSE "checked"]
    /\ UNCHANGED <<store, counters, files, th, sweep, ledger>>

\* _start_sup under the lock: it leaves a terminal record alone, and the
\* supervisor goes on to its child all the same.
Start(p) ==
    LET j == sup[p].job
        started == [rec[j] EXCEPT !.state = "running", !.sup = p, !.token = p]
    IN
    /\ sup[p].pc = "checked"
    /\ \/ /\ ~Accepts(j, "running")
          /\ NoWrite /\ sup' = [sup EXCEPT ![p].pc = "gone"]
       \/ /\ Accepts(j, "running")
          /\ \E torn \in Torn :
                /\ Persist(j, IF IsTerminal(j) THEN rec[j] ELSE started, torn)
                /\ sup' = [sup EXCEPT ![p].pc = IF torn THEN "gone" ELSE "launch"]
    /\ UNCHANGED <<counters, files, th, sweep, ledger>>

\* The child is started, or cannot be: a failure without a child.
Launch(p) ==
    /\ sup[p].pc = "launch"
    /\ \/ sup' = [sup EXCEPT ![p].pc = "run", ![p].ran = TRUE]
       \/ sup' = [sup EXCEPT ![p].pc = "ended", ![p].out = "failure"]
    /\ UNCHANGED <<store, counters, files, th, sweep, ledger>>

\* The monitoring loop looks at cancel.json and the run time, beats, then looks
\* at the child.  Terminating the child's tree on POSIX signals the process
\* group, which the supervisor shares: it dies before it can save a result.
Terminate(p, o) ==
    sup' = [sup EXCEPT ![p].pc = IF PosixGroups THEN "gone" ELSE "ended", ![p].out = o]

SeeCancel(p) ==
    /\ sup[p].pc = "run" /\ cancelFile[sup[p].job]
    /\ Terminate(p, "cancelled")
    /\ UNCHANGED <<store, counters, files, th, sweep, ledger>>

TimeOut(p) ==
    /\ sup[p].pc = "run" /\ ~cancelFile[sup[p].job]
    /\ Terminate(p, "failure")
    /\ UNCHANGED <<store, counters, files, th, sweep, ledger>>

Beat(p) ==
    /\ sup[p].pc = "run" /\ ~cancelFile[sup[p].job] /\ hb[sup[p].job] # p
    /\ hb' = [hb EXCEPT ![sup[p].job] = p]
    /\ UNCHANGED <<store, counters, res, cancelFile, th, sup, sweep, ledger>>

ChildExit(p) ==
    /\ sup[p].pc = "run" /\ hb[sup[p].job] = p
    /\ \E o \in {"success", "failure"} :
          sup' = [sup EXCEPT ![p].pc = "ended", ![p].out = o]
    /\ UNCHANGED <<store, counters, files, th, sweep, ledger>>

\* save_result, write-once.
SaveResult(p) ==
    LET j == sup[p].job IN
    /\ sup[p].pc = "ended"
    /\ res' = IF res[j] = None THEN [res EXCEPT ![j] = sup[p].out] ELSE res
    /\ sup' = [sup EXCEPT ![p].pc = "finish"]
    /\ UNCHANGED <<store, counters, hb, cancelFile, th, sweep, ledger>>

\* _finish_sup: a terminal record is kept; an illegal move raises.
Finish(p) ==
    LET j == sup[p].job  o == sup[p].out IN
    /\ sup[p].pc = "finish"
    /\ sup' = [sup EXCEPT ![p].pc = "gone", ![p].out = None]
    /\ \/ /\ ~Accepts(j, FinalState(o))
          /\ NoWrite
       \/ /\ Accepts(j, FinalState(o))
          /\ \E torn \in Torn :
                Persist(j, IF IsTerminal(j) THEN rec[j] ELSE Settle(rec[j], o), torn)
    /\ UNCHANGED <<counters, files, th, sweep, ledger>>

OrphanExit(p) ==
    /\ sup[p].pc = "orphan"
    /\ sup' = [sup EXCEPT ![p].pc = "gone"]
    /\ UNCHANGED <<store, counters, files, th, sweep, ledger>>

-----------------------------------------------------------------------------
\* Any process may die between two of its steps.  A supervisor that dies while
\* its child runs leaves the child behind.
CallCrash(t) ==
    /\ crashes < MaxCrashes
    /\ th[t].pc \notin {"idle", "down"}
    /\ Goto(t, Dead(t))
    /\ crashes' = crashes + 1
    /\ UNCHANGED <<counters, rec, idx, files, sup, sweep, ledger>>

SupervisorCrash(p) ==
    /\ crashes < MaxCrashes
    /\ PidAlive(p)
    /\ sup' = [sup EXCEPT ![p].pc = IF sup[p].pc = "run" THEN "orphan" ELSE "gone",
                          ![p].out = None]
    /\ crashes' = crashes + 1
    /\ UNCHANGED <<counters, rec, idx, files, th, sweep, ledger>>

Submission(t) == Claim(t) \/ Spawn(t) \/ RecordPid(t)
Reconciliation(t) == ReconcileGet(t) \/ ReconcileResult(t) \/ ReconcileJudge(t) \/ ReconcileSettle(t)
Retrying(t) == ClaimRetry(t) \/ Lookup(t) \/ MarkSpawned(t)
Cancelling(t) == CancelGet(t) \/ CancelFile(t) \/ CancelKill(t) \/ CancelMark(t)
Service(t) == Submission(t) \/ Reconciliation(t) \/ Retrying(t) \/ Cancelling(t)
Sweeping == \/ Repair \/ Retain \/ List \/ Book \/ Mark \/ Restart
            \/ \E j \in Jobs : Visit(j)
Monitoring(p) == Boot(p) \/ Start(p) \/ Launch(p) \/ SeeCancel(p) \/ Beat(p)
                 \/ SaveResult(p) \/ Finish(p)
ChildEnds(p) == TimeOut(p) \/ ChildExit(p) \/ OrphanExit(p)

Next == \/ \E t \in Callers : Begin(t)
        \/ \E t \in Procs : Service(t) \/ CallCrash(t)
        \/ Sweeping
        \/ \E p \in Pids : Monitoring(p) \/ ChildEnds(p) \/ SupervisorCrash(p)

Spec == Init /\ [][Next]_vars

\* A process that is in an operation goes on with it, the daemon keeps ticking
\* and is restarted, and the monitoring loop comes round to cancel.json.  Nothing
\* is assumed of the child: it may run for ever.
Fairness ==
    /\ \A t \in Procs : WF_vars(Service(t))
    /\ WF_vars(Sweeping)
    /\ \A p \in Pids : WF_vars(Monitoring(p))

FairSpec == Spec /\ Fairness

-----------------------------------------------------------------------------
\* Safety

\* A submission "spawns exactly one supervisor" (service.submit): however calls,
\* replays, re-drives and crashes interleave, no record gets a second one.
OneSupervisorPerRecord ==
    \A p, q \in Pids : /\ sup[p].job # None
                       /\ sup[p].job = sup[q].job /\ sup[p].born = sup[q].born
                       => p = q

\* Whoever writes the record, a settled state rests on durable evidence: a
\* result.json of that outcome, a cancel.json, or the never-started verdict.
OutcomeHasEvidence ==
    \A j \in Jobs : IsTerminal(j) =>
        CASE rec[j].state = "completed" -> res[j] = "success"
          [] rec[j].state = "failed" -> rec[j].safe \/ res[j] = "failure"
          [] rec[j].state = "cancelled" -> cancelFile[j]

\* The index may trail the records after a torn write but never runs ahead: a
\* row retention takes for terminal belongs to a record that is.  A daemon that
\* died while pruning leaves worse, until it is started again and repairs.
IndexRepaired == th[Daemon].pc \notin {"down", "repair"} \/ prunes = 0
IndexNeverAhead ==
    IndexRepaired => \A j \in Jobs :
        idx[j] # None /\ idx[j].state \in Terminal => Present(j) /\ rec[j].state = idx[j].state

\* The retry fence of reconcile: children of a job and of its successor are
\* alive together only after a cancel request for the first, or after it was
\* judged never started.
OverlapNeedsCancel ==
    \A p, q \in Pids, r \in Requests :
        LET j == sup[p].job IN
        /\ ChildAlive(p) /\ ChildAlive(q) /\ sup[q].job = SuccessorOf(j, r)
        => Present(j) /\ (cancelFile[j] \/ rec[j].safe)

\* Retention never prunes an active or unknown_recovery job (apply_retention),
\* although it decides on index rows that may be stale.
RetentionSparesActive ==
    [][\A j \in Jobs : Present(j) /\ rec'[j] = None => rec[j].state \in Terminal]_vars

-----------------------------------------------------------------------------
\* Liveness, under FairSpec

\* Retention may have pruned a record while its supervisor was up; the supervisor
\* then goes on with files that are gone, or that belong to the next record.
Disowned(p) == ~(Present(sup[p].job) /\ rec[sup[p].job].created = sup[p].born)
Up(p) == sup[p].pc \notin {"free", "gone"}

\* A job that the index shows does not stay queued: its supervisor starts it, or
\* the sweep finds that none did.  And a saved result settles its record, whether
\* or not the supervisor that saved it lived to do so.  (A job whose first index
\* write was lost stays out of the sweep's sight until the daemon is restarted,
\* and one whose id a disowned supervisor still works for may seem to be running.)
Unsettled(j) == /\ Present(j) /\ idx[j] # None
                /\ rec[j].state = "queued" \/ (res[j] # None /\ ~IsTerminal(j))
                /\ ~\E p \in Pids : sup[p].job = j /\ Up(p) /\ Disowned(p)
ShownJobSettles == \A j \in Jobs : []<>~Unsettled(j)

\* A cancelled job's child does not run on, even one started in the window
\* between the supervisor's check and the cancel.  A child whose supervisor
\* died is out of reach, and so is one whose cancel.json was pruned.
RunsCancelled(p) == sup[p].pc = "run" /\ ~Disowned(p) /\ rec[sup[p].job].state = "cancelled"
CancelStopsChild == \A p \in Pids : []<>~RunsCancelled(p)

\* A retry intent that the index shows is spawned by someone, in spite of a
\* crash of the process that claimed it.
IntentStands(j) == /\ idx[j] # None /\ idx[j].req # None /\ Present(j) /\ rec[j].req # None
                   /\ ~rec[j].spawned /\ ~Present(SuccessorOf(j, rec[j].req))
ShownIntentSpawned == \A j \in Jobs : []<>~IntentStands(j)

-----------------------------------------------------------------------------
\* The abstract contract, implemented

Contract == INSTANCE JobContract WITH
    status <- [j \in Jobs |-> IF Present(j) THEN rec[j].state ELSE "absent"],
    intent <- [j \in Jobs |-> IF Present(j) THEN rec[j].req ELSE None],
    launched <- [j \in Jobs |-> Present(j) /\ \E p \in Pids :
                                    sup[p].job = j /\ sup[p].born = rec[j].created]

\* Every step of the runtime is a step of the contract or leaves it alone.
ImplementsContract == Contract!Spec

-----------------------------------------------------------------------------
\* What the documentation says and the code does not do

\* P14 section 8.4: "if a job is queued or the supervisor fails before child
\* process launch", it is failed with recovery_safe_retry, permitting a retry.
SafeRetryNeverRan ==
    \A p \in Pids : LET j == sup[p].job IN
        sup[p].ran /\ Present(j) /\ rec[j].created = sup[p].born => ~rec[j].safe
=============================================================================
