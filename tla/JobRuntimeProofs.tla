--------------------------- MODULE JobRuntimeProofs ---------------------------
(***************************************************************************)
(* Theorems about JobRuntime, for every value of its constants.            *)
(*                                                                         *)
(* Inv is the inductive invariant.  The actions differ in few ways: a      *)
(* locked update of one record, a move of one call, a move of one          *)
(* supervisor.  A lemma for each kind of move says what it keeps; the      *)
(* lemma of an action then only says which moves the action consists of.   *)
(***************************************************************************)
EXTENDS JobRuntime, FiniteSetTheorems, TLAPS

-----------------------------------------------------------------------------
\* The inductive invariant

Resting == {"idle", "down", "repair", "retain", "list", "visit"}
DaemonOnly == {"down", "repair"}

\* A call at work names a job; one that retries also a request for which the
\* job has a successor id; a call past reconcile's reads holds a record.
CallOK(c) ==
    /\ c \in Call
    /\ c.pc \notin Resting => c.job \in Jobs
    /\ c.op \in {"retry", "redrive"} => c.req \in Requests /\ SuccessorOf(c.job, c.req) \in Jobs
    /\ c.pc \in {"claim", "spawn", "recordpid"} => c.op \in {"submit", "retry", "redrive"}
    /\ c.pc \in {"claimretry", "lookup", "markspawn"} => c.op \in {"retry", "redrive"}
    /\ c.pc \in {"result", "judge", "settle", "claimretry"} => c.snap \in Snapshot
    /\ c.pc = "settle" => c.verdict \in Verdicts

\* A supervisor has a job, and an outcome once its child has ended.
SupervisorOK(s) ==
    /\ s \in Supervisor
    /\ s.pc # "free" => s.job \in Jobs
    /\ s.pc = "free" => s.job = None
    /\ s.pc \in {"ended", "finish"} => s.out \in Outcomes

\* A recorded retry intent has a successor id.
RecordOK(r) == r \in Record /\ (r.req # None => r.req \in Requests)
IntentOK(j, r) == r.req # None => SuccessorOf(j, r.req) \in Jobs

StoreOK == /\ rec \in [Jobs -> Record \cup {None}]
           /\ idx \in [Jobs -> IndexRow \cup {None}]
           /\ crashes \in Nat
           /\ \A j \in Jobs : Present(j) => IntentOK(j, rec[j])
FilesOK == /\ res \in [Jobs -> Outcomes \cup {None}]
           /\ hb \in [Jobs -> Pids \cup {None}]
           /\ cancelFile \in [Jobs -> BOOLEAN]
CallsOK == /\ th \in [Procs -> Call]
           /\ \A t \in Procs : CallOK(th[t])
SupervisorsOK == /\ sup \in [Pids -> Supervisor]
                 /\ \A p \in Pids : SupervisorOK(sup[p])
SweepOK == /\ sweep \in [todo : SUBSET Jobs, links : SUBSET Jobs, startup : BOOLEAN]
           /\ ledger \in [Jobs -> Nat]
CountersOK == claims \in Nat /\ prunes \in Nat /\ calls \in Nat

TypeInv == StoreOK /\ FilesOK /\ CallsOK /\ SupervisorsOK /\ SweepOK /\ CountersOK

\* Creation stamps are never used twice: neither by two supervisors, nor by a
\* supervisor and a call about to spawn one, nor by two such calls.
Spawning(t) == th[t].pc = "spawn"
Used(p) == sup[p].pc # "free"
StampInv ==
    /\ \A t \in Procs : Spawning(t) => th[t].born \in 1 .. claims
    /\ \A p \in Pids : Used(p) => sup[p].born \in 1 .. claims
    /\ \A t, u \in Procs : Spawning(t) /\ Spawning(u) /\ th[t].born = th[u].born => t = u
    /\ \A t \in Procs, p \in Pids : Spawning(t) /\ Used(p) => th[t].born # sup[p].born
    /\ \A p, q \in Pids : Used(p) /\ Used(q) /\ sup[p].born = sup[q].born => p = q

\* While the index is in repair, only jobs that have a record have a row, and a
\* terminal row shows the record's state.
RowsOK == \A j \in Jobs :
    idx[j] # None => Present(j) /\ (idx[j].state \in Terminal => rec[j].state = idx[j].state)
IndexInv == IndexRepaired => RowsOK

Inv == TypeInv /\ StampInv /\ IndexInv

\* What every step keeps: the invariant, and the records of active jobs.
Spared == \A j \in Jobs : Present(j) /\ ~Present(j)' => rec[j].state \in Terminal
Kept == Inv' /\ Spared

-----------------------------------------------------------------------------
\* The kinds of moves

\* A locked update that keeps a terminal state and records no intent without a
\* successor id, or no update.
StoreMove == StoreOK' /\ (RowsOK => RowsOK') /\ Spared

\* A call moves on, without a new stamp and without repairing the index.
CallMove == /\ CallsOK'
            /\ \A t \in Procs : Spawning(t)' => Spawning(t) /\ th[t].born = th'[t].born
            /\ IndexRepaired' => IndexRepaired

\* Supervisors move on; none is started.
SupervisorMove == /\ SupervisorsOK'
                  /\ \A p \in Pids : Used(p)' => Used(p) /\ sup[p].born = sup'[p].born

LEMMA Distinct ==
    /\ None \notin Jobs /\ None \notin Requests /\ None \notin Pids
    /\ None \notin Record /\ None \notin IndexRow /\ None \notin Ops /\ None \notin Outcomes
    /\ Daemon \in Procs /\ Daemon \notin Callers
    /\ IsFiniteSet(Jobs) /\ Roots \subseteq Jobs
    /\ \A j \in Jobs, r \in Requests : SuccessorOf(j, r) \in Jobs \cup {None}
BY ConstantsAssumption, NoneAssumption DEF Procs, SuccessorOf

\* Persist is such an update.
LEMMA PersistMove ==
    ASSUME TypeInv, NEW j \in Jobs, NEW r \in Record, NEW torn \in Torn,
           Persist(j, r, torn), IntentOK(j, r),
           IsTerminal(j) => r.state = rec[j].state
    PROVE  StoreMove
<1>1. Row(r) \in IndexRow
  BY DEF Row, IndexRow, Record
<1>2. rec' \in [Jobs -> Record \cup {None}] /\ idx' \in [Jobs -> IndexRow \cup {None}] /\ crashes' \in Nat
  BY <1>1 DEF Persist, TypeInv, StoreOK, Torn
<1>3. \A k \in Jobs : Present(k)' => IntentOK(k, rec[k])'
  BY DEF Persist, TypeInv, StoreOK, Present, IntentOK
<1>4. ASSUME RowsOK PROVE RowsOK'
  <2> SUFFICES ASSUME NEW k \in Jobs, idx'[k] # None
               PROVE  rec'[k] # None /\ (idx'[k].state \in Terminal => rec'[k].state = idx'[k].state)
    BY DEF RowsOK, Present
  <2>1. CASE k # j
    BY <1>4, <2>1 DEF Persist, TypeInv, StoreOK, RowsOK, Present
  <2>2. CASE k = j /\ torn
    BY <1>4, <2>2, Distinct DEF Persist, TypeInv, StoreOK, RowsOK, Present, IsTerminal
  <2>3. CASE k = j /\ ~torn
    BY <2>3, Distinct DEF Persist, TypeInv, StoreOK, Row
  <2> QED BY <2>1, <2>2, <2>3 DEF Torn
<1>5. Spared
  BY Distinct DEF Persist, TypeInv, StoreOK, Spared, Present
<1> QED BY <1>2, <1>3, <1>4, <1>5 DEF StoreMove, StoreOK

LEMMA NoWriteMove == ASSUME TypeInv, NoWrite PROVE StoreMove
BY DEF TypeInv, StoreOK, NoWrite, store, StoreMove, RowsOK, Present, IntentOK, Spared

\* A call at work goes on to a state that is none of a spawn.
LEMMA GotoMove ==
    ASSUME TypeInv, NEW t \in Procs, NEW c, CallOK(c), c.pc # "spawn",
           th[t].pc \notin DaemonOnly, Goto(t, c), prunes' = prunes
    PROVE  CallMove
<1>1. th' \in [Procs -> Call] /\ \A u \in Procs : CallOK(th'[u])
  BY DEF TypeInv, CallsOK, Goto, CallOK
<1>2. \A u \in Procs : Spawning(u)' => Spawning(u) /\ th[u].born = th'[u].born
  BY DEF TypeInv, CallsOK, Goto, Spawning
<1>3. IndexRepaired' => IndexRepaired
  BY Distinct DEF TypeInv, CallsOK, Goto, IndexRepaired, DaemonOnly
<1> QED BY <1>1, <1>2, <1>3 DEF CallMove, CallsOK

LEMMA NoCallMove == ASSUME TypeInv, UNCHANGED <<th, prunes>> PROVE CallMove
BY DEF TypeInv, CallsOK, CallMove, Spawning, IndexRepaired

\* One supervisor goes on.
LEMMA OneSupervisorMove ==
    ASSUME TypeInv, NEW p \in Pids, NEW s, SupervisorOK(s), s.pc # "free",
           Used(p), s.born = sup[p].born, sup' = [sup EXCEPT ![p] = s]
    PROVE  SupervisorMove
BY DEF TypeInv, SupervisorsOK, SupervisorMove, SupervisorOK, Used

LEMMA NoSupervisorMove == ASSUME TypeInv, UNCHANGED sup PROVE SupervisorMove
BY DEF TypeInv, SupervisorsOK, SupervisorMove, Used

\* An action made of such moves keeps the invariant.
LEMMA Moves ==
    ASSUME Inv, StoreMove, CallMove, SupervisorMove, FilesOK', SweepOK', CountersOK',
           claims' = claims
    PROVE  Kept
<1>1. TypeInv'
  BY DEF TypeInv, StoreMove, CallMove, SupervisorMove
<1>2. StampInv'
  BY DEF Inv, StampInv, CallMove, SupervisorMove
<1>3. IndexInv'
  BY DEF Inv, IndexInv, StoreMove, CallMove
<1> QED BY <1>1, <1>2, <1>3 DEF Inv, Kept, StoreMove

-----------------------------------------------------------------------------
\* What a call goes on to

LEMMA CallsTyped ==
    ASSUME TypeInv, NEW t \in Procs
    PROVE  th[t] \in Call /\ CallOK(th[t])
BY DEF TypeInv, CallsOK

LEMMA AtOK == ASSUME NEW p \in Resting PROVE CallOK(At(p)) /\ At(p).pc = p
BY Distinct DEF At, CallOK, Call, Resting, ServicePcs, Ops

\* An operation that is over leaves its process at rest, or books first.
LEMMA DoneOK ==
    ASSUME TypeInv, NEW t \in Procs, th[t].pc \notin Resting
    PROVE  CallOK(Done(t)) /\ Done(t).pc # "spawn"
<1>1. CASE Done(t) = At("idle") \/ Done(t) = At("visit")
  BY <1>1, AtOK DEF Resting
<1>2. CASE Done(t) = [th[t] EXCEPT !.pc = "book"]
  BY <1>2, CallsTyped DEF CallOK, Call, ServicePcs, Resting
<1> QED BY <1>1, <1>2 DEF Done

LEMMA DeadOK ==
    ASSUME NEW t \in Procs
    PROVE  CallOK(Dead(t)) /\ Dead(t).pc # "spawn"
BY AtOK DEF Dead, Resting

LEMMA ReconciledOK ==
    ASSUME TypeInv, NEW t \in Procs, th[t].pc \notin Resting, NEW r \in Snapshot
    PROVE  CallOK(Reconciled(t, r)) /\ Reconciled(t, r).pc # "spawn"
<1>1. CASE Reconciled(t, r) = At("idle") \/ Reconciled(t, r) = At("visit")
  BY <1>1, AtOK DEF Resting
<1>2. CASE /\ Reconciled(t, r) = [th[t] EXCEPT !.snap = r, !.verdict = None, !.pc = "claimretry"]
           /\ th[t].op \in {"retry", "redrive"}
  BY <1>2, CallsTyped DEF CallOK, Call, ServicePcs, Resting
<1>3. CASE Reconciled(t, r) = [th[t] EXCEPT !.snap = r, !.verdict = None, !.pc = "book"]
  BY <1>3, CallsTyped DEF CallOK, Call, ServicePcs, Resting
<1> QED BY <1>1, <1>2, <1>3 DEF Reconciled

\* A call that submits has a job to submit.
LEMMA TargetOK ==
    ASSUME TypeInv, NEW t \in Procs, th[t].pc \notin Resting,
           th[t].op \in {"submit", "retry", "redrive"}
    PROVE  Target(t) \in Jobs
BY CallsTyped DEF CallOK, Target

LEMMA PresentOK ==
    ASSUME TypeInv, NEW j \in Jobs, Present(j)
    PROVE  rec[j] \in Record /\ IntentOK(j, rec[j]) /\ Snap(rec[j]) \in Snapshot
<1>1. rec[j] \in Record /\ IntentOK(j, rec[j])
  BY DEF TypeInv, StoreOK, Present
<1> QED BY <1>1 DEF Snap, Snapshot, Record

LEMMA SettleOK ==
    ASSUME NEW r \in Record, NEW o \in Outcomes
    PROVE  /\ Settle(r, o) \in Record /\ Settle(r, o).req = r.req
           /\ FinalState(o) \in Terminal
BY DEF Settle, Record, FinalState, Outcomes, States, Terminal

\* An update that changes neither the intent nor a terminal state.
LEMMA UpdateMove ==
    ASSUME TypeInv, NEW j \in Jobs, NEW r \in Record, NEW torn \in Torn, Present(j),
           Persist(j, r, torn), r.req = rec[j].req, IsTerminal(j) => r.state = rec[j].state
    PROVE  StoreMove
<1>1. IntentOK(j, r)
  BY PresentOK DEF IntentOK
<1> QED BY <1>1, PersistMove

\* A service step that touches the store and its own call only.
LEMMA ServiceMoves ==
    ASSUME Inv, NEW t \in Procs, th[t].pc \notin Resting, StoreMove,
           NEW c, CallOK(c), c.pc # "spawn", Goto(t, c),
           UNCHANGED <<counters, files, sup, sweep, ledger>>
    PROVE  Kept
<1> USE DEF Inv
<1>1. CallMove
  BY GotoMove DEF Resting, DaemonOnly, counters
<1>2. SupervisorMove
  BY NoSupervisorMove
<1>3. FilesOK' /\ SweepOK' /\ CountersOK' /\ claims' = claims
  BY DEF TypeInv, FilesOK, SweepOK, CountersOK, files, counters
<1> QED BY <1>1, <1>2, <1>3, Moves

-----------------------------------------------------------------------------
\* Submissions: the only steps that use a stamp

LEMMA BeginInv == ASSUME Inv, NEW t \in Callers, Begin(t) PROVE Kept
<1> USE DEF Inv
<1>1. t \in Procs /\ t # Daemon /\ Jobs # {}
  BY Distinct DEF Procs, Begin
<1>2. PICK c : CallOK(c) /\ c.pc \notin Resting \cup {"spawn"} /\ Goto(t, c)
  <2>1. PICK op \in CallerOps, j \in Jobs :
          \/ op = "submit" /\ Goto(t, [At("claim") EXCEPT !.op = op, !.job = j])
          \/ op = "reconcile" /\ Goto(t, [At("recon") EXCEPT !.op = op, !.job = j])
          \/ op = "cancel" /\ Goto(t, [At("cancelget") EXCEPT !.op = op, !.job = j])
          \/ \E r \in Requests :
                /\ op = "retry" /\ SuccessorOf(j, r) # None
                /\ Goto(t, [At("recon") EXCEPT !.op = op, !.job = j, !.req = r])
    BY DEF Begin
  <2>2. CASE op = "submit" /\ Goto(t, [At("claim") EXCEPT !.op = op, !.job = j])
    <3>1. CallOK([At("claim") EXCEPT !.op = op, !.job = j])
      BY <2>2 DEF At, CallOK, Call, ServicePcs, Ops
    <3> QED BY <2>2, <3>1 DEF At, Resting
  <2>3. CASE op = "reconcile" /\ Goto(t, [At("recon") EXCEPT !.op = op, !.job = j])
    <3>1. CallOK([At("recon") EXCEPT !.op = op, !.job = j])
      BY <2>3 DEF At, CallOK, Call, ServicePcs, Ops
    <3> QED BY <2>3, <3>1 DEF At, Resting
  <2>4. CASE op = "cancel" /\ Goto(t, [At("cancelget") EXCEPT !.op = op, !.job = j])
    <3>1. CallOK([At("cancelget") EXCEPT !.op = op, !.job = j])
      BY <2>4 DEF At, CallOK, Call, ServicePcs, Ops
    <3> QED BY <2>4, <3>1 DEF At, Resting
  <2>5. ASSUME NEW r \in Requests, op = "retry", SuccessorOf(j, r) # None,
               Goto(t, [At("recon") EXCEPT !.op = op, !.job = j, !.req = r])
        PROVE  \E c : CallOK(c) /\ c.pc \notin Resting \cup {"spawn"} /\ Goto(t, c)
    <3>1. CallOK([At("recon") EXCEPT !.op = op, !.job = j, !.req = r])
      BY <2>5, Distinct DEF At, CallOK, Call, ServicePcs, Ops
    <3> QED BY <2>5, <3>1 DEF At, Resting
  <2> QED BY <2>1, <2>2, <2>3, <2>4, <2>5
<1>3. CallMove
  BY <1>1, <1>2, GotoMove DEF Begin, DaemonOnly
<1>4. StoreMove
  BY NoWriteMove DEF Begin, NoWrite
<1>5. SupervisorMove
  BY NoSupervisorMove DEF Begin
<1>6. calls' = calls + 1 /\ UNCHANGED <<files, sweep, ledger, claims, prunes>>
  BY DEF Begin
<1>7. FilesOK' /\ SweepOK' /\ CountersOK' /\ claims' = claims
  BY <1>6 DEF TypeInv, FilesOK, SweepOK, CountersOK, files
<1> QED BY <1>3, <1>4, <1>5, <1>7, Moves

\* A new record takes a new stamp.
LEMMA ClaimInv == ASSUME Inv, NEW t \in Procs, Claim(t) PROVE Kept
<1> USE DEF Inv
<1>1. th[t].pc \notin Resting /\ th[t].pc \notin DaemonOnly /\ Target(t) \in Jobs
  BY CallsTyped, TargetOK DEF Claim, Resting, DaemonOnly, CallOK
<1>2. CallOK(Done(t)) /\ Done(t).pc # "spawn" /\ CallOK(Dead(t)) /\ Dead(t).pc # "spawn"
  BY <1>1, DoneOK, DeadOK
<1>3. CallOK(Found(t)) /\ Found(t).pc # "spawn"
  BY <1>1, <1>2, CallsTyped DEF Claim, Found, CallOK, Call, ServicePcs, Resting
<1>4. UNCHANGED <<files, sup, sweep, ledger, prunes, calls>>
  BY DEF Claim
<1>5. CASE NoWrite /\ UNCHANGED claims /\ (Goto(t, Done(t)) \/ Goto(t, Found(t)))
  <2>1. StoreMove
    BY <1>5, NoWriteMove
  <2> QED BY <1>1, <1>2, <1>3, <1>4, <1>5, <2>1, ServiceMoves DEF counters
<1>6. ASSUME NEW torn \in Torn, ~Present(Target(t)), claims' = claims + 1,
             Persist(Target(t), NewRecord(claims + 1), torn),
             Goto(t, IF torn THEN Dead(t) ELSE [th[t] EXCEPT !.pc = "spawn", !.born = claims + 1])
      PROVE  Kept
  <2> DEFINE c == IF torn THEN Dead(t) ELSE [th[t] EXCEPT !.pc = "spawn", !.born = claims + 1]
  <2>1. NewRecord(claims + 1) \in Record /\ IntentOK(Target(t), NewRecord(claims + 1))
    BY DEF NewRecord, Record, IntentOK, States, ActiveStates, TypeInv, CountersOK
  <2>2. StoreMove
    BY <1>1, <1>6, <2>1, PersistMove DEF IsTerminal
  <2>3. CallOK(c) /\ (c.pc = "spawn" => c.born = claims + 1)
    <3>1. CASE torn
      BY <1>2, <3>1
    <3>2. CASE ~torn
      <4>1. th[t] \in Call /\ CallOK(th[t]) /\ th[t].pc = "claim" /\ claims + 1 \in Nat
        BY CallsTyped DEF Claim, TypeInv, CountersOK
      <4>2. c \in Call /\ c.pc = "spawn" /\ c.born = claims + 1
        BY <3>2, <4>1 DEF Call, ServicePcs
      <4>3. c.op = th[t].op /\ c.job = th[t].job /\ c.req = th[t].req
        BY <3>2, <4>1 DEF Call
      <4> QED BY <4>1, <4>2, <4>3 DEF CallOK, Resting
    <3> QED BY <3>1, <3>2
  <2>4. CallsOK' /\ (\A u \in Procs : u # t => th'[u] = th[u]) /\ th'[t] = c
    BY <1>6, <2>3 DEF TypeInv, CallsOK, Goto, CallOK
  <2>5. IndexRepaired' => IndexRepaired
    BY <1>1, <1>4, <2>4, Distinct DEF IndexRepaired, DaemonOnly
  <2>6. IndexInv'
    BY <2>2, <2>5 DEF IndexInv, StoreMove
  <2>7. StampInv'
    <3> HIDE DEF c
    <3>1. /\ \A u \in Procs : Spawning(u)' => IF u = t THEN th'[u].born = claims + 1
                                             ELSE Spawning(u) /\ th'[u].born = th[u].born
          /\ \A p \in Pids : Used(p)' = Used(p) /\ sup'[p].born = sup[p].born
      BY <1>4, <2>3, <2>4 DEF Spawning, Used
    <3>2. claims \in Nat /\ claims' = claims + 1
      BY <1>6 DEF TypeInv, CountersOK
    <3>3. \A u \in Procs : Spawning(u)' => th'[u].born \in 1 .. claims'
      BY <3>1, <3>2 DEF StampInv
    <3>4. \A p \in Pids : Used(p)' => sup'[p].born \in 1 .. claims'
      BY <3>1, <3>2 DEF StampInv
    <3>5. \A u, v \in Procs : Spawning(u)' /\ Spawning(v)' /\ th'[u].born = th'[v].born => u = v
      BY <3>1, <3>2 DEF StampInv
    <3>6. \A u \in Procs, p \in Pids : Spawning(u)' /\ Used(p)' => th'[u].born # sup'[p].born
      BY <3>1, <3>2 DEF StampInv
    <3>7. \A p, q \in Pids : Used(p)' /\ Used(q)' /\ sup'[p].born = sup'[q].born => p = q
      BY <3>1, <3>2 DEF StampInv
    <3> QED BY <3>3, <3>4, <3>5, <3>6, <3>7 DEF StampInv
  <2>8. TypeInv'
    BY <1>4, <1>6, <2>2, <2>4 DEF TypeInv, StoreMove, FilesOK, SupervisorsOK, SweepOK, CountersOK, files
  <2> QED BY <2>2, <2>6, <2>7, <2>8 DEF Kept, StoreMove
<1> QED BY <1>5, <1>6 DEF Claim

\* The stamp of the call passes to the supervisor it starts.
LEMMA SpawnInv == ASSUME Inv, NEW t \in Procs, Spawn(t) PROVE Kept
<1> USE DEF Inv
<1>1. /\ th[t].pc = "spawn" /\ th[t].pc \notin Resting /\ th[t].pc \notin DaemonOnly
      /\ Target(t) \in Jobs
  BY CallsTyped, TargetOK DEF Spawn, Resting, DaemonOnly, CallOK
<1>2. UNCHANGED <<store, counters, files, sweep, ledger>> /\ StoreMove
  BY NoWriteMove DEF Spawn, NoWrite
<1>3. CASE Goto(t, Done(t)) /\ UNCHANGED sup
  BY <1>1, <1>2, <1>3, DoneOK, ServiceMoves
<1>4. ASSUME NEW p \in Pids, sup[p].pc = "free",
             sup' = [sup EXCEPT ![p] = [Unused EXCEPT !.pc = "boot", !.job = Target(t), !.born = th[t].born]],
             Goto(t, [th[t] EXCEPT !.pc = "recordpid", !.pid = p])
      PROVE  Kept
  <2> DEFINE c == [th[t] EXCEPT !.pc = "recordpid", !.pid = p]
             s == [Unused EXCEPT !.pc = "boot", !.job = Target(t), !.born = th[t].born]
  <2>1. CallOK(c) /\ c.pc # "spawn"
    BY <1>1, CallsTyped DEF CallOK, Call, ServicePcs, Resting
  <2>2. CallMove
    BY <1>1, <1>2, <1>4, <2>1, GotoMove DEF counters
  <2>3. SupervisorOK(s) /\ s.pc = "boot" /\ s.born = th[t].born
    BY <1>1, CallsTyped DEF SupervisorOK, Supervisor, SupervisorPcs, Unused, Call
  <2>4. SupervisorsOK' /\ sup'[p] = s /\ \A q \in Pids : q # p => sup'[q] = sup[q]
    BY <1>4, <2>3 DEF TypeInv, SupervisorsOK, SupervisorOK
  <2>5. ~Spawning(t)' /\ Spawning(t)
    BY <1>1, <1>4, <2>1 DEF Spawning, Goto, TypeInv, CallsOK
  <2>6. StampInv'
    BY <1>2, <1>4, <2>2, <2>3, <2>4, <2>5 DEF StampInv, Spawning, Used, CallMove, counters
  <2>7. TypeInv'
    BY <1>2, <2>2, <2>4 DEF TypeInv, StoreMove, CallMove, FilesOK, SweepOK, CountersOK, files, counters
  <2> QED BY <1>2, <2>2, <2>6, <2>7 DEF IndexInv, StoreMove, CallMove, Kept
<1> QED BY <1>3, <1>4 DEF Spawn

LEMMA RecordPidInv == ASSUME Inv, NEW t \in Procs, RecordPid(t) PROVE Kept
<1> USE DEF Inv
<1>1. th[t].pc \notin Resting /\ Target(t) \in Jobs
  BY CallsTyped, TargetOK DEF RecordPid, Resting, CallOK
<1>2. CallOK(Done(t)) /\ Done(t).pc # "spawn" /\ CallOK(Dead(t)) /\ Dead(t).pc # "spawn"
  BY <1>1, DoneOK, DeadOK
<1>3. CASE NoWrite /\ Goto(t, Done(t))
  BY <1>1, <1>2, <1>3, NoWriteMove, ServiceMoves DEF RecordPid
<1>4. ASSUME NEW torn \in Torn, Present(Target(t)),
             Persist(Target(t), [rec[Target(t)] EXCEPT !.sup = th[t].pid], torn),
             Goto(t, CASE torn -> Dead(t)
                       [] ~torn /\ th[t].op = "submit" -> Done(t)
                       [] OTHER -> [th[t] EXCEPT !.pc = "markspawn"])
      PROVE  Kept
  <2>1. [rec[Target(t)] EXCEPT !.sup = th[t].pid] \in Record
    BY <1>1, <1>4, PresentOK, CallsTyped DEF Record, Call
  <2>2. StoreMove
    BY <1>1, <1>4, <2>1, PresentOK, UpdateMove DEF Record
  <2>3. th[t].op # "submit" => CallOK([th[t] EXCEPT !.pc = "markspawn"])
    BY <1>1, CallsTyped DEF RecordPid, CallOK, Call, ServicePcs, Resting
  <2>4. [th[t] EXCEPT !.pc = "markspawn"].pc # "spawn"
    BY CallsTyped DEF Call
  <2> QED BY <1>1, <1>2, <1>4, <2>2, <2>3, <2>4, ServiceMoves DEF RecordPid, Torn
<1> QED BY <1>3, <1>4 DEF RecordPid

-----------------------------------------------------------------------------
\* reconcile: the updates keep a terminal record

LEMMA ReconcileGetInv == ASSUME Inv, NEW t \in Procs, ReconcileGet(t) PROVE Kept
<1> USE DEF Inv
<1> DEFINE j == th[t].job
           c == [th[t] EXCEPT !.pc = "result", !.snap = Snap(rec[j])]
<1>1. th[t].pc \notin Resting /\ j \in Jobs
  BY CallsTyped DEF ReconcileGet, Resting, CallOK
<1>2. StoreMove /\ UNCHANGED <<counters, files, sup, sweep, ledger>>
  BY NoWriteMove DEF ReconcileGet, NoWrite
<1>3. CASE Goto(t, Done(t))
  BY <1>1, <1>2, <1>3, DoneOK, ServiceMoves
<1>4. CASE Present(j) /\ Goto(t, Reconciled(t, Snap(rec[j])))
  BY <1>1, <1>2, <1>4, PresentOK, ReconciledOK, ServiceMoves
<1>5. CASE Present(j) /\ Goto(t, c)
  <2>1. CallOK(c) /\ c.pc # "spawn"
    BY <1>1, <1>5, PresentOK, CallsTyped DEF CallOK, Call, ServicePcs, Resting
  <2> QED BY <1>1, <1>2, <1>5, <2>1, ServiceMoves
<1> QED BY <1>3, <1>4, <1>5 DEF ReconcileGet, IsTerminal

LEMMA ReconcileResultInv == ASSUME Inv, NEW t \in Procs, ReconcileResult(t) PROVE Kept
<1> USE DEF Inv
<1> DEFINE j == th[t].job
           c == [th[t] EXCEPT !.pc = "judge"]
<1>1. th[t].pc \notin Resting /\ j \in Jobs /\ UNCHANGED <<counters, files, sup, sweep, ledger>>
  BY CallsTyped DEF ReconcileResult, Resting, CallOK
<1>2. CASE NoWrite /\ Goto(t, c)
  <2>1. CallOK(c) /\ c.pc # "spawn"
    BY <1>1, CallsTyped DEF ReconcileResult, CallOK, Call, ServicePcs, Resting
  <2> QED BY <1>1, <1>2, <2>1, NoWriteMove, ServiceMoves
<1>3. CASE NoWrite /\ Goto(t, Done(t))
  BY <1>1, <1>3, DoneOK, NoWriteMove, ServiceMoves
<1>4. ASSUME Present(j), res[j] # None, NEW torn \in Torn, NEW r,
             r = (IF IsTerminal(j) THEN rec[j] ELSE Settle(rec[j], res[j])),
             Persist(j, r, torn), Goto(t, IF torn THEN Dead(t) ELSE Reconciled(t, Snap(r)))
      PROVE  Kept
  <2>1. r \in Record /\ r.req = rec[j].req /\ (IsTerminal(j) => r.state = rec[j].state)
    BY <1>1, <1>4, PresentOK, SettleOK DEF TypeInv, FilesOK
  <2>2. Snap(r) \in Snapshot
    BY <2>1 DEF Snap, Snapshot, Record
  <2> QED BY <1>1, <1>4, <2>1, <2>2, UpdateMove, DeadOK, ReconciledOK, ServiceMoves DEF Torn
<1> QED BY <1>2, <1>3, <1>4 DEF ReconcileResult, GotoPc

\* Judging moves the call only.
LEMMA JudgeGoto ==
    ASSUME TypeInv, NEW t \in Procs, th[t].pc \notin Resting, NEW r \in Snapshot,
           NEW fresh \in BOOLEAN, Judge(t, r, fresh)
    PROVE  \E c : CallOK(c) /\ c.pc # "spawn" /\ Goto(t, c)
<1> DEFINE settle(v) == [th[t] EXCEPT !.pc = "settle", !.verdict = v, !.snap = r]
<1>1. ASSUME NEW v \in Verdicts PROVE CallOK(settle(v)) /\ settle(v).pc # "spawn"
  BY CallsTyped DEF CallOK, Call, ServicePcs, Resting
<1>2. CASE Goto(t, Reconciled(t, r))
  BY <1>2, ReconciledOK
<1>3. CASE \E v \in Verdicts : Goto(t, settle(v))
  BY <1>1, <1>3
<1> QED BY <1>2, <1>3 DEF Judge, Verdicts

LEMMA ReconcileJudgeInv == ASSUME Inv, NEW t \in Procs, ReconcileJudge(t) PROVE Kept
<1> USE DEF Inv
<1> DEFINE j == th[t].job
           snap == th[t].snap
           observed == [rec[j] EXCEPT !.observed = TRUE]
           c == [th[t] EXCEPT !.pc = "settle", !.verdict = "mismatch"]
<1>1. /\ th[t].pc \notin Resting /\ j \in Jobs /\ snap \in Snapshot
      /\ UNCHANGED <<counters, files, sup, sweep, ledger>>
  BY CallsTyped DEF ReconcileJudge, Resting, CallOK
<1>2. CASE NoWrite /\ Goto(t, c)
  <2>1. CallOK(c) /\ c.pc # "spawn"
    BY <1>1, CallsTyped DEF CallOK, Call, ServicePcs, Resting, Verdicts
  <2> QED BY <1>1, <1>2, <2>1, NoWriteMove, ServiceMoves
<1>3. CASE NoWrite /\ Judge(t, snap, ~snap.observed)
  <2>1. PICK d : CallOK(d) /\ d.pc # "spawn" /\ Goto(t, d)
    BY <1>1, <1>3, JudgeGoto DEF Snapshot
  <2> QED BY <1>1, <1>3, <2>1, NoWriteMove, ServiceMoves
<1>4. ASSUME Present(j), NEW torn \in Torn, Persist(j, observed, torn),
             IF torn THEN Goto(t, Dead(t)) ELSE Judge(t, Snap(observed), TRUE)
      PROVE  Kept
  <2>1. observed \in Record /\ observed.req = rec[j].req /\ observed.state = rec[j].state
    BY <1>1, <1>4, PresentOK DEF Record
  <2>2. Snap(observed) \in Snapshot
    BY <2>1 DEF Snap, Snapshot, Record
  <2>3. PICK d : CallOK(d) /\ d.pc # "spawn" /\ Goto(t, d)
    BY <1>1, <1>4, <2>2, JudgeGoto, DeadOK
  <2>4. StoreMove
    BY <1>1, <1>4, <2>1, UpdateMove
  <2> QED BY <1>1, <2>3, <2>4, ServiceMoves
<1> QED BY <1>2, <1>3, <1>4 DEF ReconcileJudge

LEMMA VerdictOK ==
    ASSUME NEW r \in Record, NEW v \in Verdicts, NEW o \in Outcomes \cup {None}
    PROVE  /\ Verdict(r, v, o) \in Record /\ Verdict(r, v, o).req = r.req
           /\ r.state \in Terminal => Verdict(r, v, o).state = r.state
<1>1. CASE r.state \in Terminal
  BY <1>1 DEF Verdict
<1>2. CASE r.state \notin Terminal /\ v = "died" /\ o # None
  <2>1. Verdict(r, v, o) = Settle(r, o)
    BY <1>2 DEF Verdict
  <2> QED BY <1>2, <2>1, SettleOK
<1>3. CASE r.state \notin Terminal /\ v = "never"
  <2>1. Verdict(r, v, o) = [r EXCEPT !.state = "failed", !.safe = TRUE]
    BY <1>3 DEF Verdict
  <2> QED BY <1>3, <2>1 DEF Record, States, Terminal
<1>4. CASE r.state \notin Terminal /\ v # "never" /\ ~(v = "died" /\ o # None)
  <2>1. Verdict(r, v, o) = [r EXCEPT !.state = "unknown_recovery", !.safe = FALSE]
    BY <1>4 DEF Verdict
  <2> QED BY <1>4, <2>1 DEF Record, States, ActiveStates
<1> QED BY <1>1, <1>2, <1>3, <1>4

LEMMA ReconcileSettleInv == ASSUME Inv, NEW t \in Procs, ReconcileSettle(t) PROVE Kept
<1> USE DEF Inv
<1> DEFINE j == th[t].job
           v == th[t].verdict
           r == Verdict(rec[j], v, res[j])
<1>1. /\ th[t].pc \notin Resting /\ j \in Jobs /\ v \in Verdicts /\ th[t].snap \in Snapshot
      /\ UNCHANGED <<counters, files, sup, sweep, ledger>>
  BY CallsTyped DEF ReconcileSettle, Resting, CallOK
<1>2. CASE NoWrite /\ (Goto(t, Done(t)) \/ Goto(t, Reconciled(t, th[t].snap)))
  BY <1>1, <1>2, DoneOK, ReconciledOK, NoWriteMove, ServiceMoves
<1>3. ASSUME Present(j), NEW torn \in Torn, Persist(j, r, torn),
             Goto(t, IF torn THEN Dead(t) ELSE Reconciled(t, Snap(r)))
      PROVE  Kept
  <2>1. r \in Record /\ r.req = rec[j].req /\ (IsTerminal(j) => r.state = rec[j].state)
    BY <1>1, <1>3, PresentOK, VerdictOK DEF TypeInv, FilesOK, IsTerminal
  <2>2. Snap(r) \in Snapshot
    BY <2>1 DEF Snap, Snapshot, Record
  <2> QED BY <1>1, <1>3, <2>1, <2>2, UpdateMove, DeadOK, ReconciledOK, ServiceMoves DEF Torn
<1> QED BY <1>2, <1>3 DEF ReconcileSettle

-----------------------------------------------------------------------------
\* retry and cancel

LEMMA ClaimRetryInv == ASSUME Inv, NEW t \in Procs, ClaimRetry(t) PROVE Kept
<1> USE DEF Inv
<1> DEFINE j == th[t].job
           r == [rec[j] EXCEPT !.req = th[t].req]
<1>1. /\ th[t].pc \notin Resting /\ j \in Jobs /\ th[t].op \in {"retry", "redrive"}
      /\ th[t].req \in Requests /\ SuccessorOf(j, th[t].req) \in Jobs
      /\ UNCHANGED <<counters, files, sup, sweep, ledger>>
  BY CallsTyped DEF ClaimRetry, Resting, CallOK
<1>2. \A p \in {"lookup", "claim"} : LET c == [th[t] EXCEPT !.pc = p] IN CallOK(c) /\ c.pc # "spawn"
  BY <1>1, CallsTyped DEF CallOK, Call, ServicePcs, Resting
<1>3. CASE NoWrite /\ (Goto(t, Done(t)) \/ GotoPc(t, "lookup"))
  BY <1>1, <1>2, <1>3, DoneOK, NoWriteMove, ServiceMoves DEF GotoPc
<1>4. ASSUME IsTerminal(j), NEW torn \in Torn, Persist(j, r, torn),
             Goto(t, IF torn THEN Dead(t) ELSE [th[t] EXCEPT !.pc = "claim"])
      PROVE  Kept
  <2>1. r \in Record /\ r.req = th[t].req /\ r.state = rec[j].state
    BY <1>1, <1>4, PresentOK DEF Record, IsTerminal
  <2>2. StoreMove
    BY <1>1, <1>4, <2>1, PersistMove DEF IntentOK
  <2> QED BY <1>1, <1>2, <1>4, <2>2, DeadOK, ServiceMoves DEF Torn
<1> QED BY <1>3, <1>4 DEF ClaimRetry

\* An update of one record by a call that is over with it.
LEMMA LastUpdate ==
    ASSUME Inv, NEW t \in Procs, th[t].pc \notin Resting, NEW j \in Jobs, Present(j),
           NEW r \in Record, NEW torn \in Torn, Persist(j, r, torn),
           r.req = rec[j].req, IsTerminal(j) => r.state = rec[j].state,
           Goto(t, IF torn THEN Dead(t) ELSE Done(t)),
           UNCHANGED <<counters, files, sup, sweep, ledger>>
    PROVE  Kept
<1>1. StoreMove
  BY UpdateMove DEF Inv
<1> QED BY <1>1, DeadOK, DoneOK, ServiceMoves DEF Inv, Torn

LEMMA MarkSpawnedInv == ASSUME Inv, NEW t \in Procs, MarkSpawned(t) PROVE Kept
<1> USE DEF Inv
<1> DEFINE j == th[t].job
           r == [rec[j] EXCEPT !.spawned = TRUE]
<1>1. th[t].pc \notin Resting /\ j \in Jobs /\ UNCHANGED <<counters, files, sup, sweep, ledger>>
  BY CallsTyped DEF MarkSpawned, Resting, CallOK
<1>2. CASE NoWrite /\ Goto(t, Done(t))
  BY <1>1, <1>2, DoneOK, NoWriteMove, ServiceMoves
<1>3. ASSUME Present(j), NEW torn \in Torn, Persist(j, r, torn), Goto(t, IF torn THEN Dead(t) ELSE Done(t))
      PROVE  Kept
  <2>1. r \in Record /\ r.req = rec[j].req /\ r.state = rec[j].state
    BY <1>1, <1>3, PresentOK DEF Record
  <2> QED BY <1>1, <1>3, <2>1, LastUpdate
<1> QED BY <1>2, <1>3 DEF MarkSpawned

LEMMA CancelMarkInv == ASSUME Inv, NEW t \in Procs, CancelMark(t) PROVE Kept
<1> USE DEF Inv
<1> DEFINE j == th[t].job
           r == Settle(rec[j], "cancelled")
<1>1. th[t].pc \notin Resting /\ j \in Jobs /\ UNCHANGED <<counters, files, sup, sweep, ledger>>
  BY CallsTyped DEF CancelMark, Resting, CallOK
<1>2. CASE NoWrite /\ Goto(t, Done(t))
  BY <1>1, <1>2, DoneOK, NoWriteMove, ServiceMoves
<1>3. ASSUME Present(j), ~IsTerminal(j), NEW torn \in Torn, Persist(j, r, torn),
             Goto(t, IF torn THEN Dead(t) ELSE Done(t))
      PROVE  Kept
  <2>1. r \in Record /\ r.req = rec[j].req
    BY <1>1, <1>3, PresentOK, SettleOK DEF Outcomes
  <2> QED BY <1>1, <1>3, <2>1, LastUpdate
<1> QED BY <1>2, <1>3 DEF CancelMark

\* The steps that move only their call.
LEMMA StepOK ==
    ASSUME TypeInv, NEW t \in Procs, th[t].pc \notin Resting,
           NEW p \in {"cancelfile", "cancelkill", "cancelmark", "claim", "mark"},
           p = "claim" => th[t].op \in {"retry", "redrive"}
    PROVE  LET c == [th[t] EXCEPT !.pc = p] IN CallOK(c) /\ c.pc # "spawn"
BY CallsTyped DEF CallOK, Call, ServicePcs, Resting

LEMMA LookupInv == ASSUME Inv, NEW t \in Procs, Lookup(t) PROVE Kept
<1>1. /\ th[t].pc \notin Resting /\ th[t].op \in {"retry", "redrive"} /\ StoreMove
      /\ UNCHANGED <<counters, files, sup, sweep, ledger>>
  BY CallsTyped, NoWriteMove DEF Inv, Lookup, Resting, CallOK, NoWrite
<1>2. Goto(t, Done(t)) \/ GotoPc(t, "claim")
  BY DEF Lookup
<1> QED BY <1>1, <1>2, DoneOK, StepOK, ServiceMoves DEF Inv, GotoPc

LEMMA CancelGetInv == ASSUME Inv, NEW t \in Procs, CancelGet(t) PROVE Kept
<1>1. /\ th[t].pc \notin Resting /\ StoreMove
      /\ UNCHANGED <<counters, files, sup, sweep, ledger>>
  BY NoWriteMove DEF Inv, CancelGet, Resting, NoWrite
<1>2. Goto(t, Done(t)) \/ GotoPc(t, "cancelfile")
  BY DEF CancelGet
<1> QED BY <1>1, <1>2, DoneOK, StepOK, ServiceMoves DEF Inv, GotoPc

LEMMA CancelFileInv == ASSUME Inv, NEW t \in Procs, CancelFile(t) PROVE Kept
<1> USE DEF Inv
<1>1. /\ th[t].pc \notin Resting /\ th[t].pc \notin DaemonOnly /\ th[t].job \in Jobs
      /\ UNCHANGED <<store, counters, res, hb, sup, sweep, ledger>>
      /\ StoreMove /\ SupervisorMove
  BY CallsTyped, NoWriteMove, NoSupervisorMove DEF CancelFile, Resting, DaemonOnly, CallOK, NoWrite
<1>2. CallMove
  BY <1>1, StepOK, GotoMove DEF CancelFile, GotoPc, counters
<1>3. FilesOK' /\ SweepOK' /\ CountersOK' /\ claims' = claims
  BY <1>1 DEF CancelFile, TypeInv, FilesOK, SweepOK, CountersOK, counters
<1> QED BY <1>1, <1>2, <1>3, Moves

LEMMA CancelKillInv == ASSUME Inv, NEW t \in Procs, CancelKill(t) PROVE Kept
<1> USE DEF Inv
<1>1. /\ th[t].pc \notin Resting /\ th[t].pc \notin DaemonOnly
      /\ UNCHANGED <<store, counters, files, sweep, ledger>> /\ StoreMove
  BY NoWriteMove DEF CancelKill, Resting, DaemonOnly, NoWrite
<1>2. CallMove
  BY <1>1, StepOK, GotoMove DEF CancelKill, GotoPc, counters
<1>3. SupervisorMove
  <2>1. CASE UNCHANGED sup
    BY <2>1, NoSupervisorMove
  <2>2. ASSUME NEW p, PidAlive(p), sup' = [sup EXCEPT ![p].pc = "gone", ![p].out = None]
        PROVE  SupervisorMove
    <3> DEFINE s == [sup[p] EXCEPT !.pc = "gone", !.out = None]
    <3>1. p \in Pids /\ Used(p) /\ sup[p] \in Supervisor /\ SupervisorOK(sup[p])
      BY <2>2 DEF PidAlive, Used, TypeInv, SupervisorsOK
    <3>2. SupervisorOK(s) /\ s.pc # "free" /\ s.born = sup[p].born
      BY <3>1 DEF SupervisorOK, Supervisor, SupervisorPcs, Used
    <3>3. sup' = [sup EXCEPT ![p] = s]
      BY <2>2
    <3> QED BY <3>1, <3>2, <3>3, OneSupervisorMove
  <2> QED BY <2>1, <2>2 DEF CancelKill
<1>4. FilesOK' /\ SweepOK' /\ CountersOK' /\ claims' = claims
  BY <1>1 DEF TypeInv, FilesOK, SweepOK, CountersOK, counters, files
<1> QED BY <1>1, <1>2, <1>3, <1>4, Moves

-----------------------------------------------------------------------------
\* The daemon: only Repair establishes RowsOK, and only a death in Retain, which
\* leaves the daemon down, may break it.

LEMMA DaemonGoto ==
    ASSUME TypeInv, NEW c, CallOK(c), Goto(Daemon, c)
    PROVE  /\ CallsOK' /\ th'[Daemon] = c
           /\ \A u \in Procs : u # Daemon => th'[u] = th[u]
BY Distinct DEF TypeInv, CallsOK, Goto, CallOK

\* A step of the daemon to a place of rest keeps the stamps.
LEMMA DaemonStamps ==
    ASSUME Inv, NEW c, CallOK(c), c.pc # "spawn", Goto(Daemon, c), UNCHANGED <<sup, claims>>
    PROVE  StampInv'
<1>1. \A u \in Procs : Spawning(u)' => Spawning(u) /\ th'[u].born = th[u].born
  BY DaemonGoto DEF Inv, Spawning
<1>2. \A p \in Pids : Used(p)' = Used(p)
  BY DEF Used
<1> QED BY <1>1, <1>2 DEF Inv, StampInv

LEMMA RepairInv == ASSUME Inv, Repair PROVE Kept
<1> USE DEF Inv
<1>1. CallOK(At("retain")) /\ At("retain").pc = "retain" /\ Goto(Daemon, At("retain"))
  BY AtOK DEF Repair, Resting
<1>2. StampInv'
  BY <1>1, DaemonStamps DEF Repair, counters
<1>3. StoreOK'
  <2>1. idx' \in [Jobs -> IndexRow \cup {None}]
    BY PresentOK DEF Repair, Row, IndexRow, Record
  <2> QED BY <2>1 DEF Repair, TypeInv, StoreOK, Present, IntentOK
<1>4. FilesOK' /\ SupervisorsOK' /\ SweepOK' /\ CountersOK'
  BY DEF Repair, TypeInv, FilesOK, SupervisorsOK, SweepOK, CountersOK, counters
<1>5. RowsOK'
  BY Distinct DEF Repair, RowsOK, Present, Row
<1>6. Spared
  BY DEF Repair, Spared, Present
<1> QED BY <1>1, <1>2, <1>3, <1>4, <1>5, <1>6, DaemonGoto DEF TypeInv, IndexInv, Kept

LEMMA RetainInv == ASSUME Inv, Retain PROVE Kept
<1> USE DEF Inv
<1>1. PICK P \in SUBSET Prunable, torn \in Torn :
        /\ prunes' = prunes + Cardinality(P)
        /\ rec' = [j \in Jobs |-> IF j \in P THEN None ELSE rec[j]]
        /\ res' = [j \in Jobs |-> IF j \in P THEN None ELSE res[j]]
        /\ hb' = [j \in Jobs |-> IF j \in P THEN None ELSE hb[j]]
        /\ cancelFile' = [j \in Jobs |-> j \notin P /\ cancelFile[j]]
        /\ torn => P # {}
        /\ idx' = IF torn THEN idx ELSE [j \in Jobs |-> IF j \in P THEN None ELSE idx[j]]
        /\ crashes' = IF torn THEN crashes + 1 ELSE crashes
        /\ Goto(Daemon, IF torn THEN Dead(Daemon) ELSE At("list"))
  BY DEF Retain
<1>2. IsFiniteSet(P) /\ Cardinality(P) \in Nat /\ (P # {} => Cardinality(P) # 0)
  BY Distinct, FS_Subset, FS_CardinalityType, FS_EmptySet DEF Prunable
<1>3. UNCHANGED <<sup, ledger, claims, calls>>
  BY DEF Retain
<1>4. SweepOK'
  <2>1. sweep' = sweep \/ sweep' = [todo |-> {}, links |-> {}, startup |-> FALSE]
    BY DEF Retain
  <2>2. sweep' \in [todo : SUBSET Jobs, links : SUBSET Jobs, startup : BOOLEAN]
    <3>1. CASE sweep' = sweep
      BY <3>1 DEF TypeInv, SweepOK
    <3>2. CASE sweep' = [todo |-> {}, links |-> {}, startup |-> FALSE]
      BY <3>2
    <3> QED BY <2>1, <3>1, <3>2
  <2> QED BY <1>3, <2>2 DEF TypeInv, SweepOK
<1>5. th[Daemon].pc \in {"retain", "visit"}
  BY DEF Retain
<1> DEFINE c == IF torn THEN Dead(Daemon) ELSE At("list")
<1>6. CallOK(c) /\ c.pc # "spawn" /\ (torn => c.pc = "down") /\ Goto(Daemon, c)
  BY <1>1, AtOK DEF Dead, Resting, Torn
<1>7. StampInv'
  BY <1>3, <1>6, DaemonStamps
<1>8. StoreOK'
  BY <1>1 DEF TypeInv, StoreOK, Present, IntentOK, Torn
<1>9. FilesOK' /\ SupervisorsOK' /\ CountersOK'
  BY <1>1, <1>2, <1>3 DEF TypeInv, FilesOK, SupervisorsOK, CountersOK
<1>10. IndexInv'
  <2>1. CASE torn
    BY <1>1, <1>2, <1>6, <2>1, DaemonGoto DEF IndexInv, IndexRepaired, TypeInv, CountersOK
  <2>2. CASE ~torn
    BY <1>1, <1>5, <2>2 DEF IndexInv, IndexRepaired, RowsOK, Present
  <2> QED BY <2>1, <2>2
<1>11. Spared
  BY <1>1, <1>5 DEF IndexInv, IndexRepaired, RowsOK, Prunable, Spared, Present
<1> QED BY <1>4, <1>6, <1>7, <1>8, <1>9, <1>10, <1>11, DaemonGoto DEF TypeInv, Kept

\* A step of the running daemon that writes no record.
LEMMA DaemonMoves ==
    ASSUME Inv, th[Daemon].pc \notin DaemonOnly, StoreMove,
           NEW c, CallOK(c), c.pc # "spawn", Goto(Daemon, c),
           UNCHANGED <<counters, files, sup>>, SweepOK'
    PROVE  Kept
<1>1. CallMove
  BY Distinct, GotoMove DEF Inv, counters
<1>2. FilesOK' /\ CountersOK' /\ claims' = claims
  BY DEF Inv, TypeInv, FilesOK, CountersOK, files, counters
<1> QED BY <1>1, <1>2, NoSupervisorMove, Moves DEF Inv

LEMMA ListInv == ASSUME Inv, List PROVE Kept
<1>1. CallOK(At("visit")) /\ At("visit").pc # "spawn"
  BY AtOK DEF Resting
<1>2. SweepOK'
  BY DEF List, Inv, TypeInv, SweepOK
<1>3. StoreMove
  BY NoWriteMove DEF List, NoWrite, Inv
<1> QED BY <1>1, <1>2, <1>3, DaemonMoves DEF List, DaemonOnly

LEMMA VisitInv == ASSUME Inv, NEW j \in Jobs, Visit(j) PROVE Kept
<1> USE DEF Inv
<1>1. /\ StoreMove /\ th[Daemon].pc \notin DaemonOnly
      /\ UNCHANGED <<store, counters, files, sup, ledger>>
  BY NoWriteMove DEF Visit, NoWrite, DaemonOnly
<1>2. SweepOK'
  BY DEF Visit, TypeInv, SweepOK
<1>3. CASE UNCHANGED th
  <2>1. CallMove
    BY <1>1, <1>3, NoCallMove DEF counters
  <2>2. FilesOK' /\ CountersOK' /\ claims' = claims
    BY <1>1 DEF TypeInv, FilesOK, CountersOK, files, counters
  <2> QED BY <1>1, <1>2, <2>1, <2>2, NoSupervisorMove, Moves
<1>4. CASE Present(j) /\ Stranded(j)
           /\ Goto(Daemon, [At("recon") EXCEPT !.op = "redrive", !.job = j,
                            !.req = rec[j].req, !.snap = Snap(rec[j])])
  <2> DEFINE c == [At("recon") EXCEPT !.op = "redrive", !.job = j,
                   !.req = rec[j].req, !.snap = Snap(rec[j])]
  <2>1. rec[j].req \in Requests /\ SuccessorOf(j, rec[j].req) \in Jobs /\ Snap(rec[j]) \in Snapshot
    BY <1>4, PresentOK DEF Stranded, Record, IntentOK
  <2>2. CallOK(c) /\ c.pc # "spawn"
    BY <2>1 DEF At, CallOK, Call, ServicePcs, Ops
  <2> QED BY <1>1, <1>2, <1>4, <2>2, DaemonMoves
<1>5. ASSUME Present(j), NEW p \in {"book", "recon"},
             Goto(Daemon, [At(p) EXCEPT !.op = "sweep", !.job = j, !.snap = Snap(rec[j])])
      PROVE  Kept
  <2> DEFINE c == [At(p) EXCEPT !.op = "sweep", !.job = j, !.snap = Snap(rec[j])]
  <2>1. CallOK(c) /\ c.pc # "spawn"
    BY <1>5, PresentOK DEF At, CallOK, Call, ServicePcs, Ops
  <2> QED BY <1>1, <1>2, <1>5, <2>1, DaemonMoves
<1>6. \/ UNCHANGED th
      \/ Present(j) /\ Stranded(j)
         /\ Goto(Daemon, [At("recon") EXCEPT !.op = "redrive", !.job = j,
                          !.req = rec[j].req, !.snap = Snap(rec[j])])
      \/ Present(j) /\ \E p \in {"book", "recon"} :
            Goto(Daemon, [At(p) EXCEPT !.op = "sweep", !.job = j, !.snap = Snap(rec[j])])
  BY DEF Visit
<1> QED BY <1>3, <1>4, <1>5, <1>6

LEMMA BookInv == ASSUME Inv, Book PROVE Kept
<1> USE DEF Inv
<1>1. /\ StoreMove /\ th[Daemon].pc \notin DaemonOnly /\ th[Daemon].pc \notin Resting
      /\ UNCHANGED <<store, counters, files, sup, sweep>>
  BY NoWriteMove DEF Book, NoWrite, DaemonOnly, Resting
<1>2. SweepOK'
  <2>1. ledger' = [ledger EXCEPT ![th[Daemon].job] = @ + 1] /\ sweep' = sweep
    BY DEF Book
  <2>2. ledger' \in [Jobs -> Nat]
    <3>1. ledger \in [Jobs -> Nat] /\ th[Daemon].job \in Jobs
      BY <1>1, CallsTyped, Distinct DEF TypeInv, SweepOK, CallOK
    <3>2. ledger[th[Daemon].job] + 1 \in Nat
      BY <3>1
    <3> QED BY <2>1, <3>1, <3>2
  <2> QED BY <2>1, <2>2 DEF TypeInv, SweepOK
<1>3. LET c == [th[Daemon] EXCEPT !.pc = "mark"] IN CallOK(c) /\ c.pc # "spawn"
  BY <1>1, Distinct, StepOK
<1> QED BY <1>1, <1>2, <1>3, DaemonMoves DEF Book, GotoPc

LEMMA MarkInv == ASSUME Inv, Mark PROVE Kept
<1> USE DEF Inv
<1> DEFINE j == th[Daemon].job
           r == [rec[j] EXCEPT !.booked = TRUE]
<1>1. /\ th[Daemon].pc \notin DaemonOnly /\ th[Daemon].pc \notin Resting /\ j \in Jobs
      /\ UNCHANGED <<counters, files, sup, sweep, ledger>>
  BY CallsTyped, Distinct DEF Mark, DaemonOnly, Resting, CallOK
<1>2. /\ CallOK(At("visit")) /\ At("visit").pc # "spawn"
      /\ CallOK(Dead(Daemon)) /\ Dead(Daemon).pc # "spawn"
  BY AtOK, DeadOK, Distinct DEF Resting
<1>3. SweepOK'
  BY <1>1 DEF TypeInv, SweepOK
<1>4. CASE NoWrite /\ Goto(Daemon, At("visit"))
  BY <1>1, <1>2, <1>3, <1>4, NoWriteMove, DaemonMoves
<1>5. ASSUME Present(j), NEW torn \in Torn, Persist(j, r, torn),
             Goto(Daemon, IF torn THEN Dead(Daemon) ELSE At("visit"))
      PROVE  Kept
  <2>1. r \in Record /\ r.req = rec[j].req /\ r.state = rec[j].state
    BY <1>1, <1>5, PresentOK DEF Record
  <2>2. StoreMove
    BY <1>1, <1>5, <2>1, UpdateMove
  <2> QED BY <1>1, <1>2, <1>3, <1>5, <2>2, DaemonMoves DEF Torn
<1> QED BY <1>4, <1>5 DEF Mark

\* A daemon that is started again has still to repair the index.
LEMMA RestartInv == ASSUME Inv, Restart PROVE Kept
<1> USE DEF Inv
<1>1. CallOK(At("repair")) /\ At("repair").pc = "repair" /\ Goto(Daemon, At("repair"))
  BY AtOK DEF Restart, Resting
<1>2. StampInv'
  BY <1>1, DaemonStamps DEF Restart, counters
<1>3. StoreMove
  BY NoWriteMove DEF Restart, NoWrite
<1>4. FilesOK' /\ SupervisorsOK' /\ SweepOK' /\ CountersOK'
  BY DEF Restart, TypeInv, FilesOK, SupervisorsOK, SweepOK, CountersOK, files, counters
<1>5. IndexRepaired' => IndexRepaired
  BY <1>1, DaemonGoto DEF Restart, IndexRepaired, counters
<1> QED BY <1>1, <1>2, <1>3, <1>4, <1>5, DaemonGoto DEF TypeInv, IndexInv, StoreMove, Kept

-----------------------------------------------------------------------------
\* The supervisors

\* A supervisor at work goes on, with its job and stamp.
LEMMA SupervisorGoto ==
    ASSUME TypeInv, NEW p \in Pids, Used(p), NEW s \in Supervisor, s.pc # "free",
           s.pc \in {"ended", "finish"} => s.out \in Outcomes,
           s.job = sup[p].job, s.born = sup[p].born, sup' = [sup EXCEPT ![p] = s]
    PROVE  SupervisorMove
<1>1. SupervisorOK(s)
  BY DEF TypeInv, SupervisorsOK, SupervisorOK, Used
<1> QED BY <1>1, OneSupervisorMove

LEMMA SupervisorTyped ==
    ASSUME TypeInv, NEW p \in Pids
    PROVE  /\ SupervisorOK(sup[p]) /\ sup[p] \in Supervisor
           /\ Used(p) => sup[p].job \in Jobs
BY DEF TypeInv, SupervisorsOK, SupervisorOK, Used

\* A step of a supervisor leaves the calls alone.
LEMMA SupervisorStep ==
    ASSUME Inv, StoreMove, SupervisorMove, FilesOK', UNCHANGED <<counters, th, sweep, ledger>>
    PROVE  Kept
<1>1. CallMove
  BY NoCallMove DEF Inv, counters
<1>2. SweepOK' /\ CountersOK' /\ claims' = claims
  BY DEF Inv, TypeInv, SweepOK, CountersOK, counters
<1> QED BY <1>1, <1>2, Moves

\* One that only moves: to a place where it needs no outcome, or with one.
LEMMA QuietStep ==
    ASSUME Inv, NEW p \in Pids, Used(p), NEW s \in Supervisor, s.pc # "free",
           s.pc \in {"ended", "finish"} => s.out \in Outcomes,
           s.job = sup[p].job, s.born = sup[p].born, sup' = [sup EXCEPT ![p] = s],
           UNCHANGED <<store, files, counters, th, sweep, ledger>>
    PROVE  Kept
<1>1. StoreMove /\ SupervisorMove
  BY NoWriteMove, SupervisorGoto DEF Inv, NoWrite
<1>2. FilesOK'
  BY DEF Inv, TypeInv, FilesOK, files
<1> QED BY <1>1, <1>2, SupervisorStep

LEMMA BootInv == ASSUME Inv, NEW p \in Pids, Boot(p) PROVE Kept
<1> DEFINE s == [sup[p] EXCEPT !.pc = IF Refuses(p) THEN "gone" ELSE "checked"]
<1>1. Used(p) /\ UNCHANGED <<store, files, counters, th, sweep, ledger>>
      /\ sup' = [sup EXCEPT ![p] = s]
  BY DEF Boot, Used
<1>2. /\ s \in Supervisor /\ s.pc \notin {"free", "ended", "finish"}
      /\ s.job = sup[p].job /\ s.born = sup[p].born
  BY SupervisorTyped DEF Inv, Supervisor, SupervisorPcs
<1> QED BY <1>1, <1>2, QuietStep

LEMMA LaunchInv == ASSUME Inv, NEW p \in Pids, Launch(p) PROVE Kept
<1> DEFINE ran == [sup[p] EXCEPT !.pc = "run", !.ran = TRUE]
           failed == [sup[p] EXCEPT !.pc = "ended", !.out = "failure"]
<1>1. PICK s \in {ran, failed} : sup' = [sup EXCEPT ![p] = s]
  BY DEF Launch
<1>2. Used(p) /\ UNCHANGED <<store, files, counters, th, sweep, ledger>>
  BY DEF Launch, Used
<1>3. /\ s \in Supervisor /\ s.pc # "free" /\ (s.pc \in {"ended", "finish"} => s.out \in Outcomes)
      /\ s.job = sup[p].job /\ s.born = sup[p].born
  BY SupervisorTyped DEF Inv, Supervisor, SupervisorPcs, Outcomes
<1> QED BY <1>1, <1>2, <1>3, QuietStep

\* The child's tree is terminated, or the child ends by itself.
LEMMA EndInv ==
    ASSUME Inv, NEW p \in Pids, Used(p), NEW pc \in {"gone", "ended"}, NEW o \in Outcomes,
           sup' = [sup EXCEPT ![p].pc = pc, ![p].out = o],
           UNCHANGED <<store, files, counters, th, sweep, ledger>>
    PROVE  Kept
<1> DEFINE s == [sup[p] EXCEPT !.pc = pc, !.out = o]
<1>1. sup' = [sup EXCEPT ![p] = s]
  OBVIOUS
<1>2. /\ s \in Supervisor /\ s.pc # "free" /\ s.out = o
      /\ s.job = sup[p].job /\ s.born = sup[p].born
  BY SupervisorTyped DEF Inv, Supervisor, SupervisorPcs
<1> QED BY <1>1, <1>2, QuietStep

LEMMA TerminateInv ==
    ASSUME Inv, NEW p \in Pids, SeeCancel(p) \/ TimeOut(p) \/ ChildExit(p)
    PROVE  Kept
<1>1. Used(p) /\ UNCHANGED <<store, files, counters, th, sweep, ledger>>
  BY DEF SeeCancel, TimeOut, ChildExit, Used
<1>2. PICK pc \in {"gone", "ended"}, o \in Outcomes : sup' = [sup EXCEPT ![p].pc = pc, ![p].out = o]
  BY DEF SeeCancel, TimeOut, ChildExit, Terminate, Outcomes
<1> QED BY <1>1, <1>2, EndInv

LEMMA BeatInv == ASSUME Inv, NEW p \in Pids, Beat(p) PROVE Kept
<1> USE DEF Inv
<1>1. /\ UNCHANGED <<store, counters, res, cancelFile, th, sup, sweep, ledger>>
      /\ hb' = [hb EXCEPT ![sup[p].job] = p] /\ StoreMove /\ SupervisorMove
  BY NoWriteMove, NoSupervisorMove DEF Beat, NoWrite
<1>2. FilesOK'
  BY <1>1 DEF TypeInv, FilesOK
<1> QED BY <1>1, <1>2, SupervisorStep

LEMMA SaveResultInv == ASSUME Inv, NEW p \in Pids, SaveResult(p) PROVE Kept
<1> USE DEF Inv
<1> DEFINE s == [sup[p] EXCEPT !.pc = "finish"]
<1>1. /\ UNCHANGED <<store, counters, hb, cancelFile, th, sweep, ledger>>
      /\ sup' = [sup EXCEPT ![p] = s] /\ StoreMove /\ Used(p)
  BY NoWriteMove DEF SaveResult, NoWrite, Used
<1>2. /\ s \in Supervisor /\ s.pc = "finish" /\ s.out \in Outcomes /\ sup[p].out \in Outcomes
      /\ s.job = sup[p].job /\ s.born = sup[p].born
  BY SupervisorTyped DEF SaveResult, Supervisor, SupervisorOK, SupervisorPcs
<1>3. SupervisorMove
  BY <1>1, <1>2, SupervisorGoto
<1>4. FilesOK'
  BY <1>1, <1>2 DEF SaveResult, TypeInv, FilesOK
<1> QED BY <1>1, <1>3, <1>4, SupervisorStep

\* The supervisor's own updates, which keep a terminal record.
LEMMA StartInv == ASSUME Inv, NEW p \in Pids, Start(p) PROVE Kept
<1> USE DEF Inv
<1> DEFINE j == sup[p].job
           r == IF IsTerminal(j) THEN rec[j]
                ELSE [rec[j] EXCEPT !.state = "running", !.sup = p, !.token = p]
<1>1. Used(p) /\ j \in Jobs /\ UNCHANGED <<counters, files, th, sweep, ledger>>
  BY SupervisorTyped DEF Start, Used
<1>2. PICK pc \in {"gone", "launch"} : sup' = [sup EXCEPT ![p].pc = pc]
  BY DEF Start
<1>3. SupervisorMove
  <2> DEFINE s == [sup[p] EXCEPT !.pc = pc]
  <2>1. sup' = [sup EXCEPT ![p] = s]
    BY <1>2
  <2>2. /\ s \in Supervisor /\ s.pc \notin {"free", "ended", "finish"}
        /\ s.job = sup[p].job /\ s.born = sup[p].born
    BY SupervisorTyped DEF Supervisor, SupervisorPcs
  <2> QED BY <1>1, <2>1, <2>2, SupervisorGoto
<1>4. StoreMove
  <2>1. CASE NoWrite
    BY <2>1, NoWriteMove
  <2>2. ASSUME Present(j), NEW torn \in Torn, Persist(j, r, torn)
        PROVE  StoreMove
    <3>1. r \in Record /\ r.req = rec[j].req /\ (IsTerminal(j) => r.state = rec[j].state)
      BY <1>1, <2>2, PresentOK DEF Record, States, ActiveStates
    <3> QED BY <1>1, <2>2, <3>1, UpdateMove
  <2> QED BY <2>1, <2>2 DEF Start, Accepts
<1>5. FilesOK'
  BY <1>1 DEF TypeInv, FilesOK, files
<1> QED BY <1>1, <1>3, <1>4, <1>5, SupervisorStep

LEMMA FinishInv == ASSUME Inv, NEW p \in Pids, Finish(p) PROVE Kept
<1> USE DEF Inv
<1> DEFINE j == sup[p].job
           r == IF IsTerminal(j) THEN rec[j] ELSE Settle(rec[j], sup[p].out)
           s == [sup[p] EXCEPT !.pc = "gone", !.out = None]
<1>1. /\ Used(p) /\ j \in Jobs /\ sup[p].out \in Outcomes
      /\ UNCHANGED <<counters, files, th, sweep, ledger>> /\ sup' = [sup EXCEPT ![p] = s]
  BY SupervisorTyped DEF Finish, Used, SupervisorOK
<1>2. SupervisorMove
  <2>1. /\ s \in Supervisor /\ s.pc \notin {"free", "ended", "finish"}
        /\ s.job = sup[p].job /\ s.born = sup[p].born
    BY SupervisorTyped DEF Supervisor, SupervisorPcs
  <2> QED BY <1>1, <2>1, SupervisorGoto
<1>3. StoreMove
  <2>1. CASE NoWrite
    BY <2>1, NoWriteMove
  <2>2. ASSUME Present(j), NEW torn \in Torn, Persist(j, r, torn)
        PROVE  StoreMove
    <3>1. r \in Record /\ r.req = rec[j].req /\ (IsTerminal(j) => r.state = rec[j].state)
      BY <1>1, <2>2, PresentOK, SettleOK
    <3> QED BY <1>1, <2>2, <3>1, UpdateMove
  <2> QED BY <2>1, <2>2 DEF Finish, Accepts
<1>4. FilesOK'
  BY <1>1 DEF TypeInv, FilesOK, files
<1> QED BY <1>1, <1>2, <1>3, <1>4, SupervisorStep

LEMMA OrphanExitInv == ASSUME Inv, NEW p \in Pids, OrphanExit(p) PROVE Kept
<1> DEFINE s == [sup[p] EXCEPT !.pc = "gone"]
<1>1. Used(p) /\ UNCHANGED <<store, files, counters, th, sweep, ledger>>
      /\ sup' = [sup EXCEPT ![p] = s]
  BY DEF OrphanExit, Used
<1>2. /\ s \in Supervisor /\ s.pc = "gone" /\ s.job = sup[p].job /\ s.born = sup[p].born
  BY SupervisorTyped DEF Inv, Supervisor, SupervisorPcs
<1> QED BY <1>1, <1>2, QuietStep

-----------------------------------------------------------------------------
\* Deaths

LEMMA CrashMove == ASSUME TypeInv, UNCHANGED <<rec, idx>>, crashes' = crashes + 1 PROVE StoreMove
BY DEF TypeInv, StoreOK, StoreMove, RowsOK, Present, IntentOK, Spared

LEMMA CallCrashInv == ASSUME Inv, NEW t \in Procs, CallCrash(t) PROVE Kept
<1> USE DEF Inv
<1>1. /\ UNCHANGED <<counters, files, sup, sweep, ledger>> /\ StoreMove /\ SupervisorMove
      /\ Goto(t, Dead(t))
  BY CrashMove, NoSupervisorMove DEF CallCrash
<1>2. CallsOK' /\ \A u \in Procs : th'[u] = IF u = t THEN Dead(t) ELSE th[u]
  BY <1>1, DeadOK DEF TypeInv, CallsOK, Goto, CallOK
<1>3. \A u \in Procs : Spawning(u)' => Spawning(u) /\ th[u].born = th'[u].born
  BY <1>2, DeadOK DEF Spawning
<1>4. IndexRepaired' => IndexRepaired
  <2>1. CASE t = Daemon
    <3>1. th'[Daemon].pc = "down"
      BY <1>2, <2>1 DEF Dead, At
    <3> QED BY <1>1, <3>1 DEF IndexRepaired, counters
  <2>2. CASE t # Daemon
    BY <1>1, <1>2, <2>2, Distinct DEF IndexRepaired, counters
  <2> QED BY <2>1, <2>2
<1>5. CallMove
  BY <1>2, <1>3, <1>4 DEF CallMove
<1>6. FilesOK' /\ SweepOK' /\ CountersOK' /\ claims' = claims
  BY <1>1 DEF TypeInv, FilesOK, SweepOK, CountersOK, files, counters
<1> QED BY <1>1, <1>5, <1>6, Moves

LEMMA SupervisorCrashInv == ASSUME Inv, NEW p \in Pids, SupervisorCrash(p) PROVE Kept
<1> USE DEF Inv
<1> DEFINE s == [sup[p] EXCEPT !.pc = IF sup[p].pc = "run" THEN "orphan" ELSE "gone", !.out = None]
<1>1. /\ UNCHANGED <<counters, files, th, sweep, ledger>> /\ StoreMove /\ Used(p)
      /\ sup' = [sup EXCEPT ![p] = s]
  BY CrashMove DEF SupervisorCrash, PidAlive, Used
<1>2. /\ s \in Supervisor /\ s.pc \notin {"free", "ended", "finish"}
      /\ s.job = sup[p].job /\ s.born = sup[p].born
  BY SupervisorTyped DEF Supervisor, SupervisorPcs
<1>3. SupervisorMove
  BY <1>1, <1>2, SupervisorGoto
<1>4. FilesOK'
  BY <1>1 DEF TypeInv, FilesOK, files
<1> QED BY <1>1, <1>3, <1>4, SupervisorStep

-----------------------------------------------------------------------------
\* The theorems

LEMMA InitInv == Init => Inv
<1> SUFFICES ASSUME Init PROVE Inv
  OBVIOUS
<1>1. StoreOK /\ FilesOK /\ SweepOK /\ CountersOK
  BY DEF Init, StoreOK, FilesOK, SweepOK, CountersOK, Present
<1>2. \A p \in Resting : CallOK(At(p)) /\ At(p).pc = p
  BY AtOK
<1>3. CallsOK /\ \A t \in Procs : ~Spawning(t)
  BY <1>2 DEF Init, CallsOK, CallOK, Spawning, Resting
<1>4. SupervisorsOK /\ \A p \in Pids : ~Used(p)
  BY DEF Init, SupervisorsOK, SupervisorOK, Unused, Supervisor, SupervisorPcs, Used
<1>5. StampInv
  BY <1>3, <1>4 DEF StampInv
<1>6. IndexInv
  BY DEF Init, IndexInv, RowsOK
<1> QED BY <1>1, <1>3, <1>4, <1>5, <1>6 DEF Inv, TypeInv

LEMMA StepInv == Inv /\ [Next]_vars => Kept
<1> SUFFICES ASSUME Inv, [Next]_vars PROVE Kept
  OBVIOUS
<1>1. ASSUME NEW t \in Callers, Begin(t) PROVE Kept
  BY <1>1, BeginInv
<1>2. ASSUME NEW t \in Procs, Service(t) PROVE Kept
  <2>1. CASE Submission(t)
    BY <2>1, ClaimInv, SpawnInv, RecordPidInv DEF Submission
  <2>2. CASE Reconciliation(t)
    BY <2>2, ReconcileGetInv, ReconcileResultInv, ReconcileJudgeInv, ReconcileSettleInv
    DEF Reconciliation
  <2>3. CASE Retrying(t)
    BY <2>3, ClaimRetryInv, LookupInv, MarkSpawnedInv DEF Retrying
  <2>4. CASE Cancelling(t)
    BY <2>4, CancelGetInv, CancelFileInv, CancelKillInv, CancelMarkInv DEF Cancelling
  <2> QED BY <1>2, <2>1, <2>2, <2>3, <2>4 DEF Service
<1>3. ASSUME NEW t \in Procs, CallCrash(t) PROVE Kept
  BY <1>3, CallCrashInv
<1>4. CASE Sweeping
  BY <1>4, RepairInv, RetainInv, ListInv, BookInv, MarkInv, RestartInv, VisitInv DEF Sweeping
<1>5. ASSUME NEW p \in Pids, Monitoring(p) PROVE Kept
  BY <1>5, BootInv, StartInv, LaunchInv, TerminateInv, BeatInv, SaveResultInv, FinishInv
  DEF Monitoring
<1>6. ASSUME NEW p \in Pids, ChildEnds(p) PROVE Kept
  BY <1>6, TerminateInv, OrphanExitInv DEF ChildEnds
<1>7. ASSUME NEW p \in Pids, SupervisorCrash(p) PROVE Kept
  BY <1>7, SupervisorCrashInv
<1>8. CASE UNCHANGED vars
  <2>1. StoreMove /\ CallMove /\ SupervisorMove
    BY <1>8, NoWriteMove, NoCallMove, NoSupervisorMove DEF Inv, vars, NoWrite, store
  <2>2. FilesOK' /\ SweepOK' /\ CountersOK' /\ claims' = claims
    BY <1>8 DEF Inv, TypeInv, FilesOK, SweepOK, CountersOK, vars
  <2> QED BY <2>1, <2>2, Moves
<1> QED BY <1>1, <1>2, <1>3, <1>4, <1>5, <1>6, <1>7, <1>8 DEF Next

THEOREM Invariance == Spec => []Inv
<1>1. Inv /\ [Next]_vars => Inv'
  BY StepInv DEF Kept
<1> QED BY <1>1, InitInv, PTL DEF Spec

\* Every variable keeps to its type, for any set of jobs, requests and processes.
THEOREM TypeCorrect == Spec => []TypeOK
<1>1. Inv => TypeOK
  BY DEF Inv, TypeInv, StoreOK, FilesOK, CallsOK, SupervisorsOK, SweepOK, CountersOK, TypeOK
<1> QED BY <1>1, Invariance, PTL

\* However calls, replays, re-drives, retention and deaths interleave, a record
\* never gets a second supervisor.
THEOREM OneSupervisor == Spec => []OneSupervisorPerRecord
<1>1. Inv => OneSupervisorPerRecord
  <2> SUFFICES ASSUME Inv, NEW p \in Pids, NEW q \in Pids, sup[p].job # None,
                      sup[p].job = sup[q].job, sup[p].born = sup[q].born
               PROVE  p = q
    BY DEF OneSupervisorPerRecord
  <2>1. Used(p) /\ Used(q)
    BY SupervisorTyped DEF Inv, SupervisorOK, Used
  <2> QED BY <2>1 DEF Inv, StampInv
<1> QED BY <1>1, Invariance, PTL

\* A row of the index that shows a terminal state belongs to a record in that
\* state, once the daemon has repaired what a death during retention left.
THEOREM IndexTrails == Spec => []IndexNeverAhead
<1>1. Inv => IndexNeverAhead
  BY DEF Inv, IndexInv, RowsOK, IndexNeverAhead
<1> QED BY <1>1, Invariance, PTL

\* Retention decides on index rows that may be stale, and still prunes no job
\* that is active: the only step that removes a record finds it terminal.
THEOREM RetentionSafe == Spec => RetentionSparesActive
<1>1. Inv /\ [Next]_vars
      => [\A j \in Jobs : Present(j) /\ rec'[j] = None => rec[j].state \in Terminal]_vars
  BY StepInv DEF Kept, Spared, Present
<1> QED BY <1>1, Invariance, PTL DEF Spec, RetentionSparesActive

-----------------------------------------------------------------------------
\* Behind the outcomes, the retry fence and the contract, as long as retention
\* has pruned nothing.  (A supervisor that outlives a pruned record goes on with
\* files that the next record of the id takes for its own.)

\* A settled state rests on evidence: OutcomeHasEvidence, for one record.
Evident(j, r) ==
    /\ r.state = "completed" => res[j] = "success"
    /\ r.state = "failed" => r.safe \/ res[j] = "failure"
    /\ r.state = "cancelled" => cancelFile[j]

JobBacked(j) == Present(j) =>
    /\ Evident(j, rec[j])
    /\ res[j] = "cancelled" => cancelFile[j]
    /\ res[j] = "success" => rec[j].state # "queued"

\* What a call has behind it at each of its steps.
TargetOf(c) == IF c.op = "submit" THEN c.job ELSE SuccessorOf(c.job, c.req)
CancelPcs == {"cancelfile", "cancelkill", "cancelmark"}
RetryPcs == {"lookup", "claim", "spawn", "recordpid", "markspawn"}
Quiet(c) == /\ c.op = "submit" => c.job \in Roots
            /\ c.pc \notin CancelPcs \cup RetryPcs
CallBacked(c) ==
    /\ c.op = "submit" => c.job \in Roots
    /\ c.pc = "spawn" => Present(TargetOf(c)) /\ rec[TargetOf(c)].created = c.born
    /\ c.pc \in CancelPcs => Present(c.job)
    /\ c.pc \in {"cancelkill", "cancelmark"} => cancelFile[c.job]
    /\ c.pc \in RetryPcs /\ c.op \in {"retry", "redrive"} => IsTerminal(c.job)

\* A supervisor works for the record it was started for, which is not queued
\* once the supervisor went on to its child.
Launched == {"launch", "run", "orphan", "ended", "finish"}
SupervisorBacked(s) == s.pc # "free" =>
    /\ Present(s.job) /\ rec[s.job].created = s.born
    /\ s.out = "cancelled" => cancelFile[s.job]
    /\ s.pc \in Launched => rec[s.job].state # "queued"
    /\ s.pc = "finish" => res[s.job] = s.out

\* A result is its supervisor's, which is about to go or gone.
Saved(p) == sup[p].pc \in {"finish", "gone"}
ResultOwned(j) == res[j] # None => \E p \in Pids : sup[p].job = j /\ Saved(p)

\* A job that has a successor is settled.
Fenced == \A j \in Jobs, r \in Requests :
    SuccessorOf(j, r) \in Jobs /\ Present(SuccessorOf(j, r)) => IsTerminal(j)

JobsBacked == \A j \in Jobs : JobBacked(j)
ResultsOwned == \A j \in Jobs : ResultOwned(j)
CallsBacked == \A t \in Procs : CallBacked(th[t])
SupervisorsBacked == \A p \in Pids : SupervisorBacked(sup[p])
Backed == JobsBacked /\ ResultsOwned /\ Fenced /\ CallsBacked /\ SupervisorsBacked

\* The inductive invariant, with Inv.
UnprunedInv == prunes = 0 => Backed

\* A step of the contract, or none; what a step of the runtime comes to.
ContractStep == [Contract!Next]_(Contract!vars)
Good == Backed' /\ ContractStep

-----------------------------------------------------------------------------
\* The kinds of moves, again

\* Records stay, with their stamp, their outcome and the mark of a start.
RecMove == \A j \in Jobs : Present(j) =>
    /\ Present(j)' /\ rec'[j].created = rec[j].created
    /\ IsTerminal(j) => rec'[j].state = rec[j].state /\ rec'[j].safe = rec[j].safe
    /\ rec[j].state # "queued" => rec'[j].state # "queued"
NoneNew == \A j \in Jobs : Present(j)' => Present(j)

\* Results and cancellations of a record stay.
FilesMove == \A j \in Jobs :
    Present(j) => (res[j] # None => res'[j] = res[j]) /\ (cancelFile[j] => cancelFile'[j])
NoneSaved == \A j \in Jobs : res'[j] # None => res[j] # None

\* The supervisors' jobs and stamps stay.
SameJobs == \A p \in Pids : sup'[p].job = sup[p].job /\ sup'[p].born = sup[p].born

\* The updates: one that leaves state and intent alone, one that records the
\* intent of a settled job, and a legal transition that has its evidence.
Legal(j, r) ==
    /\ Present(j) /\ r \in Record /\ r.created = rec[j].created
    /\ \/ r.state = rec[j].state /\ r.safe = rec[j].safe /\ r.req = rec[j].req
       \/ /\ r.state = rec[j].state /\ r.safe = rec[j].safe
          /\ IsTerminal(j) /\ rec[j].req = None /\ r.req \in Requests
       \/ r.req = rec[j].req /\ CanMove(rec[j], r.state) /\ Evident(j, r)
StoreStep == \/ UNCHANGED rec
             \/ \E j \in Jobs, r \in Record : Legal(j, r) /\ rec' = [rec EXCEPT ![j] = r]

LEMMA TableOK ==
    ASSUME NEW s \in States, NEW u \in VALID_TRANSITIONS[s]
    PROVE  /\ s \notin Terminal /\ u \in States /\ u # "queued"
           /\ s \in DOMAIN Contract!Next_States /\ u \in Contract!Next_States[s]
<1>1. CASE s = "queued"
  BY <1>1 DEF VALID_TRANSITIONS, States, Terminal, ActiveStates, Contract!Next_States
<1>2. CASE s = "running"
  BY <1>2 DEF VALID_TRANSITIONS, States, Terminal, ActiveStates, Contract!Next_States
<1>3. CASE s = "unknown_recovery"
  BY <1>3 DEF VALID_TRANSITIONS, States, Terminal, ActiveStates, Contract!Next_States
<1>4. CASE s \in Terminal
  BY <1>4 DEF VALID_TRANSITIONS, States, Terminal, ActiveStates
<1> QED BY <1>1, <1>2, <1>3, <1>4 DEF States, ActiveStates

LEMMA StoreMoves ==
    ASSUME Inv, StoreStep
    PROVE  RecMove /\ NoneNew
<1>1. CASE UNCHANGED rec
  BY <1>1 DEF RecMove, NoneNew, Present
<1>2. ASSUME NEW j \in Jobs, NEW r \in Record, Legal(j, r), rec' = [rec EXCEPT ![j] = r]
      PROVE  RecMove /\ NoneNew
  <2>1. rec[j] \in Record /\ Present(j)
    BY <1>2, PresentOK DEF Inv, Legal
  <2>2. r # None /\ r.created = rec[j].created
    BY <1>2, Distinct DEF Legal
  <2>3. IsTerminal(j) => r.state = rec[j].state /\ r.safe = rec[j].safe
    BY <1>2, <2>1, TableOK DEF Legal, CanMove, Record, IsTerminal
  <2>4. rec[j].state # "queued" => r.state # "queued"
    BY <1>2, <2>1, TableOK DEF Legal, CanMove, Record
  <2>5. rec'[j] = r /\ \A k \in Jobs : k # j => rec'[k] = rec[k]
    BY <1>2 DEF Inv, TypeInv, StoreOK
  <2> QED BY <2>1, <2>2, <2>3, <2>4, <2>5 DEF RecMove, NoneNew, Present
<1> QED BY <1>1, <1>2 DEF StoreStep

\* Such an update keeps what a record rests on.
LEMMA StoreBacked ==
    ASSUME Inv, Backed, StoreStep, UNCHANGED <<res, cancelFile>>
    PROVE  JobsBacked'
<1>1. CASE UNCHANGED rec
  BY <1>1 DEF Backed, JobsBacked, JobBacked, Evident, Present
<1>2. ASSUME NEW j \in Jobs, NEW r \in Record, Legal(j, r), rec' = [rec EXCEPT ![j] = r]
      PROVE  JobsBacked'
  <2>1. rec[j] \in Record /\ Present(j) /\ JobBacked(j)
    BY <1>2, PresentOK DEF Inv, Legal, Backed, JobsBacked
  <2>2. Evident(j, r)
    BY <1>2, <2>1 DEF Legal, JobBacked, Evident
  <2>3. rec[j].state # "queued" => r.state # "queued"
    BY <1>2, <2>1, TableOK DEF Legal, CanMove, Record
  <2>4. rec'[j] = r /\ \A k \in Jobs : k # j => rec'[k] = rec[k]
    BY <1>2 DEF Inv, TypeInv, StoreOK
  <2>5. JobBacked(j)'
    BY <2>1, <2>2, <2>3, <2>4 DEF JobBacked, Evident
  <2>6. ASSUME NEW k \in Jobs, k # j PROVE JobBacked(k)'
    BY <2>4, <2>6 DEF Backed, JobsBacked, JobBacked, Evident, Present
  <2> QED BY <2>5, <2>6 DEF JobsBacked
<1> QED BY <1>1, <1>2 DEF StoreStep

LEMMA FenceStays == ASSUME Inv, Backed, RecMove, NoneNew PROVE Fenced'
BY DEF Backed, Fenced, RecMove, NoneNew, IsTerminal

\* The contract's variables, in terms of the runtime's.
Status == [j \in Jobs |-> IF Present(j) THEN rec[j].state ELSE "absent"]
Intent == [j \in Jobs |-> IF Present(j) THEN rec[j].req ELSE None]
HasSupervisor == [j \in Jobs |-> Present(j) /\ \E p \in Pids :
                                    sup[p].job = j /\ sup[p].born = rec[j].created]

LEMMA ContractSame ==
    ASSUME Status' = Status, Intent' = Intent, HasSupervisor' = HasSupervisor
    PROVE  ContractStep
BY DEF ContractStep, Contract!vars, Status, Intent, HasSupervisor

LEMMA UpdateContract ==
    ASSUME Inv, StoreStep, SameJobs
    PROVE  ContractStep
<1>1. CASE UNCHANGED rec
  <2>1. HasSupervisor' = HasSupervisor
    BY <1>1 DEF SameJobs, HasSupervisor, Present
  <2> QED BY <1>1, <2>1, ContractSame DEF Status, Intent, Present
<1>2. ASSUME NEW j \in Jobs, NEW r \in Record, Legal(j, r), rec' = [rec EXCEPT ![j] = r]
      PROVE  ContractStep
  <2>1. rec[j] \in Record /\ Present(j) /\ r.created = rec[j].created /\ r # None
    BY <1>2, PresentOK, Distinct DEF Inv, Legal
  <2>2. rec'[j] = r /\ \A k \in Jobs : k # j => rec'[k] = rec[k]
    BY <1>2 DEF Inv, TypeInv, StoreOK
  <2>3. HasSupervisor' = HasSupervisor
    BY <2>1, <2>2 DEF SameJobs, HasSupervisor, Present
  <2>4. Status' = [Status EXCEPT ![j] = r.state] /\ Status[j] = rec[j].state
    BY <2>1, <2>2 DEF Status, Present
  <2>5. Intent' = [Intent EXCEPT ![j] = r.req] /\ Intent[j] = rec[j].req
    BY <2>1, <2>2 DEF Intent, Present
  <2>6. CASE r.state = rec[j].state /\ r.req = rec[j].req
    <3>1. Status' = Status /\ Intent' = Intent
      BY <2>4, <2>5, <2>6 DEF Status, Intent
    <3> QED BY <2>3, <3>1, ContractSame
  <2>7. CASE /\ r.state = rec[j].state /\ IsTerminal(j) /\ rec[j].req = None /\ r.req \in Requests
    <3>1. Status' = Status
      BY <2>4, <2>7 DEF Status
    <3>2. Contract!Intend(j, r.req)
      BY <2>3, <2>4, <2>5, <2>7, <3>1
      DEF Contract!Intend, Contract!Terminal, Terminal, IsTerminal, Status, Intent, HasSupervisor
    <3> QED BY <2>7, <3>2 DEF ContractStep, Contract!Next
  <2>8. CASE r.req = rec[j].req /\ CanMove(rec[j], r.state)
    <3>1. Intent' = Intent
      BY <2>5, <2>8 DEF Intent
    <3>2. rec[j].state \in DOMAIN Contract!Next_States /\ r.state \in Contract!Next_States[rec[j].state]
      BY <2>1, <2>8, TableOK DEF CanMove, Record
    <3>3. Contract!Move(j)
      BY <2>3, <2>4, <3>1, <3>2 DEF Contract!Move, Status, Intent, HasSupervisor
    <3> QED BY <3>3 DEF ContractStep, Contract!Next
  <2> QED BY <1>2, <2>6, <2>7, <2>8 DEF Legal
<1> QED BY <1>1, <1>2 DEF StoreStep

\* What is behind a call stays there.
LEMMA CallKeeps ==
    ASSUME RecMove, FilesMove, NEW d, CallOK(d), CallBacked(d)
    PROVE  CallBacked(d)'
<1>1. d.pc \in CancelPcs \cup RetryPcs => d.job \in Jobs
  BY DEF CallOK, Resting, CancelPcs, RetryPcs
<1>2. d.pc = "spawn" => TargetOf(d) \in Jobs
  BY <1>1 DEF CallOK, TargetOf, RetryPcs
<1> QED BY <1>1, <1>2
    DEF CallBacked, RecMove, FilesMove, IsTerminal, CancelPcs, RetryPcs, TargetOf, SuccessorOf

\* A call goes on, quietly or with what its new place needs.
LEMMA CallsStay ==
    ASSUME Inv, Inv', Backed, RecMove, FilesMove, NEW t \in Procs, NEW c,
           Quiet(c) \/ CallBacked(c), Goto(t, c)
    PROVE  CallsBacked'
<1> SUFFICES ASSUME NEW u \in Procs PROVE CallBacked(th[u])'
  BY DEF CallsBacked
<1>1. PICK d : d = th'[u]
  OBVIOUS
<1>2. CallOK(d) /\ (Quiet(d) \/ CallBacked(d))
  <2>1. CallOK(d)
    BY <1>1 DEF Inv, TypeInv, CallsOK
  <2>2. CASE u = t
    BY <1>1, <2>2 DEF Inv, TypeInv, CallsOK, Goto
  <2>3. CASE u # t
    BY <1>1, <2>3 DEF Inv, TypeInv, CallsOK, Goto, Backed, CallsBacked
  <2> QED BY <2>1, <2>2, <2>3
<1>3. CASE Quiet(d)
  BY <1>1, <1>3 DEF Quiet, CallBacked, CancelPcs, RetryPcs
<1>4. CASE CallBacked(d)
  <2>1. CallBacked(d)'
    BY <1>2, <1>4, CallKeeps
  <2> QED BY <1>1, <2>1 DEF CallBacked, TargetOf
<1> QED BY <1>2, <1>3, <1>4

LEMMA OtherCallsStay ==
    ASSUME Inv, Backed, RecMove, FilesMove, NEW t, \A u \in Procs : u # t => th'[u] = th[u]
    PROVE  \A u \in Procs : u # t => CallBacked(th[u])'
<1> SUFFICES ASSUME NEW u \in Procs, u # t PROVE CallBacked(th[u])'
  OBVIOUS
<1>1. PICK d : d = th[u]
  OBVIOUS
<1>2. CallBacked(d)'
  BY <1>1, CallKeeps, CallsTyped DEF Inv, Backed, CallsBacked
<1> QED BY <1>1, <1>2 DEF CallBacked, TargetOf

LEMMA NoCallStays ==
    ASSUME Inv, Inv', Backed, RecMove, FilesMove, UNCHANGED th
    PROVE  CallsBacked'
<1>1. None \notin Procs
  BY ConstantsAssumption DEF Procs
<1> QED BY <1>1, OtherCallsStay DEF CallsBacked

\* One supervisor goes on, with what its new place needs.
LEMMA SupervisorStays ==
    ASSUME Inv, Backed, RecMove, FilesMove, NEW p \in Pids, Used(p)
    PROVE  /\ sup[p].job \in Jobs /\ rec'[sup[p].job] # None
           /\ rec'[sup[p].job].created = sup[p].born
           /\ sup[p].out = "cancelled" => cancelFile'[sup[p].job]
           /\ sup[p].pc \in Launched => rec'[sup[p].job].state # "queued"
           /\ sup[p].pc = "finish" => res'[sup[p].job] = sup[p].out
<1>1. sup[p].job \in Jobs /\ SupervisorBacked(sup[p]) /\ SupervisorOK(sup[p])
  BY SupervisorTyped DEF Inv, Backed, SupervisorsBacked
<1>2. sup[p].pc = "finish" => res[sup[p].job] # None
  BY <1>1, Distinct DEF SupervisorBacked, SupervisorOK, Used
<1> QED BY <1>1, <1>2 DEF Used, SupervisorBacked, RecMove, FilesMove, Present

LEMMA SupervisorsStay ==
    ASSUME Inv, Backed, RecMove, FilesMove, NoneSaved, UNCHANGED sup
    PROVE  SupervisorsBacked' /\ ResultsOwned' /\ SameJobs
<1>1. SupervisorsBacked'
  BY SupervisorStays DEF SupervisorsBacked, SupervisorBacked, Used, Present
<1>2. ResultsOwned'
  BY DEF Backed, ResultsOwned, ResultOwned, NoneSaved, Saved
<1> QED BY <1>1, <1>2 DEF SameJobs

LEMMA OneSupervisorStays ==
    ASSUME Inv, Backed, RecMove, FilesMove, NEW q \in Pids, Used(q), NEW s, s.pc # "free",
           s.job = sup[q].job, s.born = sup[q].born, sup' = [sup EXCEPT ![q] = s],
           s.out = "cancelled" => cancelFile[s.job],
           s.pc \in Launched => rec'[s.job].state # "queued",
           s.pc = "finish" => res'[s.job] = s.out,
           Saved(q) => s.pc \in {"finish", "gone"},
           \A j \in Jobs : res'[j] # None => res[j] # None \/ (j = s.job /\ s.pc = "finish")
    PROVE  SupervisorsBacked' /\ ResultsOwned' /\ SameJobs
<1>1. sup'[q] = s /\ \A p \in Pids : p # q => sup'[p] = sup[p]
  BY DEF Inv, TypeInv, SupervisorsOK
<1>2. /\ s.job \in Jobs /\ rec'[s.job] # None /\ rec'[s.job].created = s.born
      /\ cancelFile[s.job] => cancelFile'[s.job]
  <2>1. s.job \in Jobs /\ Present(s.job)
    BY SupervisorTyped DEF Inv, Backed, SupervisorsBacked, SupervisorBacked, Used
  <2> QED BY <2>1, SupervisorStays DEF FilesMove, Present
<1>3. SupervisorsBacked'
  <2> SUFFICES ASSUME NEW p \in Pids PROVE SupervisorBacked(sup[p])'
    BY DEF SupervisorsBacked
  <2>1. CASE p = q
    BY <1>1, <1>2, <2>1 DEF SupervisorBacked, Present
  <2>2. CASE p # q
    BY <1>1, <2>2, SupervisorStays DEF SupervisorBacked, Used, Present
  <2> QED BY <2>1, <2>2
<1>4. ResultsOwned'
  <2> SUFFICES ASSUME NEW j \in Jobs, res'[j] # None
               PROVE  \E p \in Pids : sup'[p].job = j /\ sup'[p].pc \in {"finish", "gone"}
    BY DEF ResultsOwned, ResultOwned, Saved
  <2>1. CASE j = s.job /\ s.pc = "finish"
    BY <1>1, <2>1
  <2>2. CASE res[j] # None
    <3>1. PICK p \in Pids : sup[p].job = j /\ Saved(p)
      BY <2>2 DEF Backed, ResultsOwned, ResultOwned
    <3> QED BY <1>1, <3>1 DEF Saved
  <2> QED BY <2>1, <2>2
<1> QED BY <1>1, <1>3, <1>4 DEF SameJobs

\* A service step that touches one record and its own call.
LEMMA ServiceGood ==
    ASSUME Inv, Inv', Backed, NEW t \in Procs, NEW c, Quiet(c) \/ CallBacked(c), Goto(t, c),
           StoreStep, UNCHANGED <<res, cancelFile, sup>>
    PROVE  Good
<1>1. RecMove /\ NoneNew /\ JobsBacked' /\ FilesMove /\ NoneSaved
  BY StoreMoves, StoreBacked DEF FilesMove, NoneSaved
<1>2. SupervisorsBacked' /\ ResultsOwned' /\ SameJobs /\ CallsBacked' /\ Fenced'
  BY <1>1, SupervisorsStay, CallsStay, FenceStays
<1> QED BY <1>1, <1>2, UpdateContract DEF Good, Backed

LEMMA PersistStep ==
    ASSUME NEW j \in Jobs, NEW r, NEW torn, Persist(j, r, torn), Legal(j, r)
    PROVE  StoreStep
BY DEF Persist, Legal, StoreStep

LEMMA NoWriteStep == ASSUME NoWrite PROVE StoreStep
BY DEF NoWrite, store, StoreStep

LEMMA AtQuiet == ASSUME NEW p, p \notin CancelPcs \cup RetryPcs PROVE Quiet(At(p))
BY Distinct DEF At, Quiet, Ops

LEMMA DeadQuiet == ASSUME NEW t PROVE Quiet(Dead(t))
BY AtQuiet DEF Dead, CancelPcs, RetryPcs

\* A call that goes on where it needs nothing.
LEMMA StepQuiet ==
    ASSUME TypeInv, Backed, NEW t \in Procs, NEW c, c.op = th[t].op, c.job = th[t].job,
           c.pc \notin CancelPcs \cup RetryPcs
    PROVE  Quiet(c)
BY DEF Backed, CallsBacked, CallBacked, Quiet

LEMMA DoneQuiet == ASSUME TypeInv, Backed, NEW t \in Procs PROVE Quiet(Done(t))
<1>1. CASE Done(t) = At("idle") \/ Done(t) = At("visit")
  BY <1>1, AtQuiet DEF CancelPcs, RetryPcs
<1>2. CASE Done(t) = [th[t] EXCEPT !.pc = "book"]
  BY <1>2, CallsTyped, StepQuiet DEF Call, CancelPcs, RetryPcs
<1> QED BY <1>1, <1>2 DEF Done

LEMMA ReconciledQuiet ==
    ASSUME TypeInv, Backed, NEW t \in Procs, NEW r PROVE Quiet(Reconciled(t, r))
<1>1. CASE Reconciled(t, r) = At("idle") \/ Reconciled(t, r) = At("visit")
  BY <1>1, AtQuiet DEF CancelPcs, RetryPcs
<1>2. CASE \E p \in {"claimretry", "book"} :
             Reconciled(t, r) = [th[t] EXCEPT !.snap = r, !.verdict = None, !.pc = p]
  BY <1>2, CallsTyped, StepQuiet DEF Call, CancelPcs, RetryPcs
<1> QED BY <1>1, <1>2 DEF Reconciled

-----------------------------------------------------------------------------
\* The calls, again

LEMMA BeginGood == ASSUME Inv, Inv', Backed, NEW t \in Callers, Begin(t) PROVE Good
<1>1. t \in Procs /\ UNCHANGED <<res, cancelFile, sup>> /\ StoreStep
  BY DEF Procs, Begin, files, store, StoreStep
<1>2. PICK c : (Quiet(c) \/ CallBacked(c)) /\ Goto(t, c)
  <2>1. PICK op \in CallerOps, j \in Jobs :
          \/ op = "submit" /\ j \in Roots /\ Goto(t, [At("claim") EXCEPT !.op = op, !.job = j])
          \/ op = "reconcile" /\ Goto(t, [At("recon") EXCEPT !.op = op, !.job = j])
          \/ op = "cancel" /\ Present(j) /\ Goto(t, [At("cancelget") EXCEPT !.op = op, !.job = j])
          \/ \E r \in Requests :
                op = "retry" /\ Goto(t, [At("recon") EXCEPT !.op = op, !.job = j, !.req = r])
    BY DEF Begin
  <2>2. CASE op = "submit" /\ j \in Roots /\ Goto(t, [At("claim") EXCEPT !.op = op, !.job = j])
    <3>1. CallBacked([At("claim") EXCEPT !.op = op, !.job = j])
      BY <2>2 DEF At, CallBacked, CancelPcs, RetryPcs
    <3> QED BY <2>2, <3>1
  <2>3. CASE op = "reconcile" /\ Goto(t, [At("recon") EXCEPT !.op = op, !.job = j])
    <3>1. Quiet([At("recon") EXCEPT !.op = op, !.job = j])
      BY <2>3 DEF At, Quiet, CancelPcs, RetryPcs
    <3> QED BY <2>3, <3>1
  <2>4. CASE op = "cancel" /\ Goto(t, [At("cancelget") EXCEPT !.op = op, !.job = j])
    <3>1. Quiet([At("cancelget") EXCEPT !.op = op, !.job = j])
      BY <2>4 DEF At, Quiet, CancelPcs, RetryPcs
    <3> QED BY <2>4, <3>1
  <2>5. ASSUME NEW r \in Requests, op = "retry",
               Goto(t, [At("recon") EXCEPT !.op = op, !.job = j, !.req = r])
        PROVE  \E c : (Quiet(c) \/ CallBacked(c)) /\ Goto(t, c)
    <3>1. Quiet([At("recon") EXCEPT !.op = op, !.job = j, !.req = r])
      BY <2>5 DEF At, Quiet, CancelPcs, RetryPcs
    <3> QED BY <2>5, <3>1
  <2> QED BY <2>1, <2>2, <2>3, <2>4, <2>5
<1> QED BY <1>1, <1>2, ServiceGood

LEMMA BackedCall ==
    ASSUME Backed, NEW t \in Procs PROVE CallBacked(th[t])
BY DEF Backed, CallsBacked

\* The record a call is about to create has left no result and no successor.
LEMMA Fresh ==
    ASSUME Inv, Backed, NEW j \in Jobs, ~Present(j)
    PROVE  res[j] = None /\ \A p \in Pids : sup[p].job # j
<1>1. ASSUME NEW p \in Pids, sup[p].job = j PROVE FALSE
  BY <1>1, SupervisorTyped, Distinct
  DEF Inv, SupervisorOK, Used, Backed, SupervisorsBacked, SupervisorBacked
<1>2. res[j] = None
  BY <1>1 DEF Backed, ResultsOwned, ResultOwned
<1> QED BY <1>1, <1>2

LEMMA NewRecordOK ==
    ASSUME NEW n \in Nat
    PROVE  /\ NewRecord(n) \in Record /\ NewRecord(n) # None /\ NewRecord(n).state = "queued"
           /\ NewRecord(n).req = None /\ NewRecord(n).created = n
<1>1. NewRecord(n) \in Record
  BY DEF NewRecord, Record, States, ActiveStates
<1>2. /\ NewRecord(n).state = "queued"
      /\ NewRecord(n).req = None /\ NewRecord(n).created = n
  BY DEF NewRecord
<1> QED BY <1>1, <1>2, Distinct

LEMMA NewContract ==
    ASSUME Inv, Inv', Backed, NEW j \in Jobs, ~Present(j), UNCHANGED sup,
           rec' = [rec EXCEPT ![j] = NewRecord(claims + 1)]
    PROVE  ContractStep
<1>1. rec'[j] = NewRecord(claims + 1) /\ \A k \in Jobs : k # j => rec'[k] = rec[k]
  BY DEF Inv, TypeInv, StoreOK
<1>2. rec'[j] # None /\ rec'[j].state = "queued" /\ rec'[j].req = None
  BY <1>1, NewRecordOK DEF Inv, TypeInv, CountersOK
<1>3. HasSupervisor' = HasSupervisor
  BY <1>1, Fresh DEF HasSupervisor, Present
<1>4. Status' = [Status EXCEPT ![j] = "queued"] /\ Status[j] = "absent" /\ Intent' = Intent
  <2>1. Status'[j] = "queued" /\ Status[j] = "absent" /\ Intent'[j] = Intent[j]
    BY <1>2 DEF Status, Intent, Present
  <2>2. \A k \in Jobs : k # j => Status'[k] = Status[k] /\ Intent'[k] = Intent[k]
    BY <1>1 DEF Status, Intent, Present
  <2> QED BY <2>1, <2>2 DEF Status, Intent
<1>5. Contract!Create(j)
  BY <1>3, <1>4 DEF Contract!Create, Status, Intent, HasSupervisor
<1> QED BY <1>5 DEF ContractStep, Contract!Next

LEMMA ClaimGood == ASSUME Inv, Inv', Backed, NEW t \in Procs, Claim(t) PROVE Good
<1> DEFINE j == Target(t)
<1>1. /\ th[t].pc = "claim" /\ j \in Jobs /\ CallBacked(th[t]) /\ CallOK(th[t]) /\ th[t] \in Call
      /\ th[t].job \in Jobs /\ j = TargetOf(th[t])
      /\ UNCHANGED <<res, cancelFile, sup>>
  BY CallsTyped, TargetOK, BackedCall DEF Inv, Claim, CallOK, Resting, files, Target, TargetOf
<1>2. CASE NoWrite /\ Goto(t, Found(t))
  <2>1. Quiet(Found(t)) \/ CallBacked(Found(t))
    <3>1. CASE th[t].op = "submit"
      BY <3>1, DoneQuiet DEF Found, Inv
    <3>2. CASE th[t].op # "submit"
      BY <1>1, <3>2 DEF Found, CallBacked, Call, CancelPcs, RetryPcs, ServicePcs
    <3> QED BY <3>1, <3>2
  <2> QED BY <1>1, <1>2, <2>1, NoWriteStep, ServiceGood
<1>3. CASE NoWrite /\ Goto(t, Done(t))
  BY <1>1, <1>3, DoneQuiet, NoWriteStep, ServiceGood DEF Inv
<1>4. ASSUME NEW torn \in Torn, ~Present(j), Persist(j, NewRecord(claims + 1), torn),
             Goto(t, IF torn THEN Dead(t) ELSE [th[t] EXCEPT !.pc = "spawn", !.born = claims + 1])
      PROVE  Good
  <2>1. rec' = [rec EXCEPT ![j] = NewRecord(claims + 1)]
    BY <1>4 DEF Persist
  <2>2. ContractStep
    BY <1>1, <1>4, <2>1, NewContract
  <2>3. rec'[j] = NewRecord(claims + 1) /\ \A k \in Jobs : k # j => rec'[k] = rec[k]
    BY <1>1, <2>1 DEF Inv, TypeInv, StoreOK
  <2>4. rec'[j] # None /\ rec'[j].state = "queued" /\ rec'[j].created = claims + 1
    BY <2>3, NewRecordOK DEF Inv, TypeInv, CountersOK
  <2>5. RecMove /\ FilesMove /\ NoneSaved
    BY <1>1, <1>4, <2>3 DEF RecMove, FilesMove, NoneSaved, Present
  <2>6. SupervisorsBacked' /\ ResultsOwned'
    BY <1>1, <2>5, SupervisorsStay
  <2>7. JobsBacked'
    <3> SUFFICES ASSUME NEW k \in Jobs PROVE JobBacked(k)'
      BY DEF JobsBacked
    <3>1. CASE k = j
      BY <1>1, <1>4, <2>4, <3>1, Fresh, Distinct DEF JobBacked, Evident, Outcomes
    <3>2. CASE k # j
      BY <1>1, <2>3, <3>2 DEF Backed, JobsBacked, JobBacked, Evident, Present
    <3> QED BY <3>1, <3>2
  <2>8. Fenced'
    <3> SUFFICES ASSUME NEW k \in Jobs, NEW r \in Requests,
                        SuccessorOf(k, r) \in Jobs, rec'[SuccessorOf(k, r)] # None
                 PROVE  IsTerminal(k)'
      BY DEF Fenced, Present, SuccessorOf
    <3>1. CASE SuccessorOf(k, r) # j
      <4>1. IsTerminal(k)
        BY <2>3, <3>1 DEF Backed, Fenced, Present
      <4> QED BY <1>4, <2>3, <4>1 DEF IsTerminal, Present
    <3>2. CASE SuccessorOf(k, r) = j
      <4>1. th[t].op # "submit"
        BY <1>1, <3>2, SuccessorAssumption DEF CallBacked, TargetOf, SuccessorOf
      <4>2. th[t].op \in {"retry", "redrive"} /\ th[t].req \in Requests
        BY <1>1, <4>1 DEF CallOK
      <4>3. k = th[t].job
        BY <1>1, <3>2, <4>1, <4>2, SuccessorAssumption, Distinct DEF TargetOf, SuccessorOf
      <4>4. IsTerminal(k)
        BY <1>1, <4>2, <4>3 DEF CallBacked, RetryPcs
      <4> QED BY <1>4, <2>3, <4>4 DEF IsTerminal, Present
    <3> QED BY <3>1, <3>2
  <2>9. CallsBacked'
    <3>1. CASE torn
      BY <1>4, <2>5, <3>1, DeadQuiet, CallsStay
    <3>2. CASE ~torn
      <4> DEFINE d == [th[t] EXCEPT !.pc = "spawn", !.born = claims + 1]
      <4>1. /\ d.pc = "spawn" /\ d.born = claims + 1 /\ d.op = th[t].op /\ d.job = th[t].job
            /\ d.req = th[t].req
        BY <1>1 DEF Call
      <4>2. \A u \in Procs : th'[u] = IF u = t THEN d ELSE th[u]
        BY <1>4, <3>2 DEF Goto, Inv, TypeInv, CallsOK
      <4> HIDE DEF d
      <4>3. PICK e : e = d
        OBVIOUS
      <4>4. th[t].op \in {"retry", "redrive"} => IsTerminal(th[t].job)
        BY <1>1 DEF CallBacked, RetryPcs
      <4>5. e.op \in {"retry", "redrive"} => IsTerminal(e.job)'
        <5>1. e.op = th[t].op /\ e.job = th[t].job /\ e.job \in Jobs
          BY <1>1, <4>1, <4>3
        <5> QED BY <4>4, <5>1, <2>5 DEF RecMove, IsTerminal
      <4>6. e.pc = "spawn" /\ TargetOf(e) = j /\ (e.op = "submit" => e.job \in Roots) /\ e.born = claims + 1
        BY <1>1, <4>1, <4>3 DEF TargetOf, CallBacked
      <4>7. CallBacked(e)'
        <5>1. TargetOf(e)' = TargetOf(e)
          BY DEF TargetOf, SuccessorOf
        <5>2. rec'[TargetOf(e)] # None /\ rec'[TargetOf(e)].created = e.born
          BY <2>3, <2>4, <4>6
        <5> QED BY <4>5, <4>6, <5>1, <5>2 DEF CallBacked, CancelPcs, RetryPcs, Present
      <4>8. \A u \in Procs : u # t => CallBacked(th[u])'
        BY <2>5, <4>2, OtherCallsStay
      <4> QED BY <4>2, <4>3, <4>7, <4>8 DEF CallsBacked, CallBacked, TargetOf
    <3> QED BY <3>1, <3>2
  <2> QED BY <2>2, <2>6, <2>7, <2>8, <2>9 DEF Good, Backed
<1> QED BY <1>2, <1>3, <1>4 DEF Claim

LEMMA LaunchStep == ASSUME NEW j \in Jobs, Contract!Launch(j) PROVE ContractStep
BY DEF ContractStep, Contract!Next

\* The stamp that passes to the supervisor is that of the record it is for.
LEMMA SpawnGood == ASSUME Inv, Inv', Backed, NEW t \in Procs, Spawn(t) PROVE Good
<1> DEFINE j == Target(t)
<1>1. /\ th[t].pc = "spawn" /\ j \in Jobs /\ CallBacked(th[t]) /\ j = TargetOf(th[t])
      /\ UNCHANGED <<rec, res, cancelFile>>
  BY CallsTyped, TargetOK, BackedCall DEF Inv, Spawn, CallOK, Resting, files, store, Target, TargetOf
<1>2. Present(j) /\ rec[j].created = th[t].born
  BY <1>1 DEF CallBacked
<1>3. CASE Goto(t, Done(t)) /\ UNCHANGED sup
  BY <1>1, <1>3, DoneQuiet, ServiceGood DEF Inv, StoreStep
<1>4. ASSUME NEW p \in Pids, sup[p].pc = "free",
             sup' = [sup EXCEPT ![p] = [Unused EXCEPT !.pc = "boot", !.job = Target(t), !.born = th[t].born]],
             Goto(t, [th[t] EXCEPT !.pc = "recordpid", !.pid = p])
      PROVE  Good
  <2> DEFINE c == [th[t] EXCEPT !.pc = "recordpid", !.pid = p]
             s == [Unused EXCEPT !.pc = "boot", !.job = Target(t), !.born = th[t].born]
  <2>1. CallBacked(c)
    <3>1. c.pc = "recordpid" /\ c.op = th[t].op /\ c.job = th[t].job
      BY CallsTyped DEF Inv, Call
    <3> QED BY <1>1, <3>1 DEF CallBacked, CancelPcs, RetryPcs
  <2>2. RecMove /\ NoneNew /\ FilesMove /\ JobsBacked'
    BY <1>1, StoreMoves, StoreBacked DEF StoreStep, FilesMove
  <2>3. CallsBacked' /\ Fenced'
    BY <1>4, <2>1, <2>2, CallsStay, FenceStays
  <2>4. s.pc = "boot" /\ s.job = j /\ s.born = th[t].born /\ s.out = None
    BY DEF Unused
  <2>5. sup'[p] = s /\ \A q \in Pids : q # p => sup'[q] = sup[q]
    BY <1>4 DEF Inv, TypeInv, SupervisorsOK
  <2> HIDE DEF s
  <2>6. SupervisorsBacked'
    <3> SUFFICES ASSUME NEW q \in Pids PROVE SupervisorBacked(sup[q])'
      BY DEF SupervisorsBacked
    <3>1. CASE q = p
      BY <1>1, <1>2, <2>4, <2>5, <3>1, Distinct DEF SupervisorBacked, Present, Launched, Outcomes
    <3>2. CASE q # p
      BY <2>2, <2>5, <3>2, SupervisorStays DEF SupervisorBacked, Used, Present
    <3> QED BY <3>1, <3>2
  <2>7. sup[p].job = None
    BY <1>4, SupervisorTyped DEF Inv, SupervisorOK
  <2>8. ResultsOwned'
    <3> SUFFICES ASSUME NEW k \in Jobs, res'[k] # None
                 PROVE  \E q \in Pids : sup'[q].job = k /\ sup'[q].pc \in {"finish", "gone"}
      BY DEF ResultsOwned, ResultOwned, Saved
    <3>1. PICK q \in Pids : sup[q].job = k /\ Saved(q)
      BY <1>1 DEF Backed, ResultsOwned, ResultOwned
    <3> QED BY <1>4, <2>5, <3>1 DEF Saved
  <2>9. ContractStep
    <3>1. \A q \in Pids : ~(sup[q].job = j /\ sup[q].born = rec[j].created)
      BY <1>1, <1>2, SupervisorTyped, Distinct DEF Inv, StampInv, Spawning, Used, SupervisorOK
    <3>2. Status' = Status /\ Intent' = Intent /\ Status[j] # "absent" /\ ~HasSupervisor[j]
      <4>1. Status' = Status /\ Intent' = Intent /\ ~HasSupervisor[j]
        BY <1>1, <3>1 DEF Status, Intent, HasSupervisor, Present
      <4>2. rec[j].state \in States
        BY <1>1, <1>2, PresentOK DEF Inv, Record
      <4> QED BY <1>1, <1>2, <4>1, <4>2 DEF Status, States, Terminal, ActiveStates
    <3>3. HasSupervisor' = [HasSupervisor EXCEPT ![j] = TRUE]
      <4>1. HasSupervisor'[j] = TRUE
        BY <1>1, <1>2, <2>4, <2>5 DEF HasSupervisor, Present
      <4>2. ASSUME NEW k \in Jobs, k # j PROVE HasSupervisor'[k] = HasSupervisor[k]
        <5>1. \A q \in Pids : sup'[q].job = k /\ sup'[q].born = rec[k].created
                              <=> sup[q].job = k /\ sup[q].born = rec[k].created
          BY <2>4, <2>5, <2>7, <4>2, Distinct
        <5> QED BY <1>1, <5>1 DEF HasSupervisor, Present
      <4> QED BY <4>1, <4>2 DEF HasSupervisor
    <3>4. PICK k \in Jobs : k = j
      BY <1>1
    <3>5. Contract!Launch(k)
      BY <3>2, <3>3, <3>4 DEF Contract!Launch, Status, Intent, HasSupervisor
    <3> QED BY <3>5, LaunchStep
  <2> QED BY <2>2, <2>3, <2>6, <2>8, <2>9 DEF Good, Backed
<1> QED BY <1>3, <1>4 DEF Spawn

\* Updates that are not about the state.
LEMMA SameState ==
    ASSUME NEW j \in Jobs, Present(j), NEW r \in Record, r.created = rec[j].created,
           r.state = rec[j].state, r.safe = rec[j].safe, r.req = rec[j].req
    PROVE  Legal(j, r)
BY DEF Legal

\* A transition to a settled state, on its evidence.
LEMMA SettleLegal ==
    ASSUME Inv, NEW j \in Jobs, Present(j), NEW o \in Outcomes, CanMove(rec[j], FinalState(o)),
           o \in {"success", "failure"} => res[j] = o, o = "cancelled" => cancelFile[j]
    PROVE  Legal(j, Settle(rec[j], o))
<1> DEFINE r == Settle(rec[j], o)
<1>1. rec[j] \in Record /\ r \in Record /\ r.req = rec[j].req
  BY PresentOK, SettleOK DEF Inv
<1>2. r.state = FinalState(o) /\ r.created = rec[j].created
  BY <1>1 DEF Settle, Record
<1>3. Evident(j, r)
  BY <1>2 DEF Evident, FinalState, Outcomes
<1> QED BY <1>1, <1>2, <1>3 DEF Legal

\* Settling as it is saved: a settled record is kept.
LEMMA SettleOrKeep ==
    ASSUME Inv, NEW j \in Jobs, Present(j), NEW o \in Outcomes,
           ~IsTerminal(j) => CanMove(rec[j], FinalState(o)),
           o \in {"success", "failure"} => res[j] = o, o = "cancelled" => cancelFile[j]
    PROVE  Legal(j, IF IsTerminal(j) THEN rec[j] ELSE Settle(rec[j], o))
<1>1. rec[j] \in Record
  BY PresentOK DEF Inv
<1> QED BY <1>1, SameState, SettleLegal

\* An active record can be failed or cancelled, and completed once it ran.
LEMMA CanSettle ==
    ASSUME Inv, NEW j \in Jobs, Present(j), ~IsTerminal(j), NEW o \in Outcomes,
           o = "success" => rec[j].state # "queued"
    PROVE  CanMove(rec[j], FinalState(o))
<1>1. rec[j].state \in ActiveStates
  BY PresentOK DEF Inv, Record, States, IsTerminal
<1>2. CASE rec[j].state = "queued"
  BY <1>2 DEF CanMove, VALID_TRANSITIONS, States, ActiveStates, FinalState, Outcomes
<1>3. CASE rec[j].state = "running"
  BY <1>3 DEF CanMove, VALID_TRANSITIONS, States, ActiveStates, FinalState, Outcomes
<1>4. CASE rec[j].state = "unknown_recovery"
  BY <1>4 DEF CanMove, VALID_TRANSITIONS, States, ActiveStates, FinalState, Outcomes
<1> QED BY <1>1, <1>2, <1>3, <1>4 DEF ActiveStates

LEMMA RecordPidGood == ASSUME Inv, Inv', Backed, NEW t \in Procs, RecordPid(t) PROVE Good
<1> DEFINE j == Target(t)
           r == [rec[j] EXCEPT !.sup = th[t].pid]
           c == [th[t] EXCEPT !.pc = "markspawn"]
<1>1. /\ th[t].pc = "recordpid" /\ j \in Jobs /\ CallBacked(th[t])
      /\ UNCHANGED <<res, cancelFile, sup>>
  BY CallsTyped, TargetOK, BackedCall DEF Inv, RecordPid, CallOK, Resting, files
<1>2. Quiet(Done(t)) /\ Quiet(Dead(t))
  BY DoneQuiet, DeadQuiet DEF Inv
<1>3. CASE NoWrite /\ Goto(t, Done(t))
  BY <1>1, <1>2, <1>3, NoWriteStep, ServiceGood
<1>4. ASSUME NEW torn \in Torn, Present(j), Persist(j, r, torn),
             Goto(t, CASE torn -> Dead(t)
                       [] ~torn /\ th[t].op = "submit" -> Done(t)
                       [] OTHER -> c)
      PROVE  Good
  <2>1. r \in Record /\ r.req = rec[j].req /\ r.state = rec[j].state /\ r.safe = rec[j].safe
        /\ r.created = rec[j].created
    BY <1>1, <1>4, PresentOK, CallsTyped DEF Inv, Record, Call
  <2>2. StoreStep
    BY <1>1, <1>4, <2>1, SameState, PersistStep
  <2>3. CallBacked(c)
    <3>1. c.pc = "markspawn" /\ c.op = th[t].op /\ c.job = th[t].job
      BY CallsTyped DEF Inv, Call
    <3> QED BY <1>1, <3>1 DEF CallBacked, CancelPcs, RetryPcs
  <2>4. PICK d : d \in {Dead(t), Done(t), c} /\ Goto(t, d)
    BY <1>4 DEF Torn
  <2> QED BY <1>1, <1>2, <2>2, <2>3, <2>4, ServiceGood
<1> QED BY <1>3, <1>4 DEF RecordPid

LEMMA ReconcileGetGood == ASSUME Inv, Inv', Backed, NEW t \in Procs, ReconcileGet(t) PROVE Good
<1> DEFINE c == [th[t] EXCEPT !.pc = "result", !.snap = Snap(rec[th[t].job])]
<1>1. StoreStep /\ UNCHANGED <<res, cancelFile, sup>>
  BY DEF ReconcileGet, store, files, StoreStep
<1>2. Quiet(c)
  BY CallsTyped, StepQuiet DEF Inv, Call, CancelPcs, RetryPcs
<1>3. PICK d : /\ d \in {Done(t), Reconciled(t, Snap(rec[th[t].job])), c}
               /\ Goto(t, d)
  BY DEF ReconcileGet
<1> QED BY <1>1, <1>2, <1>3, DoneQuiet, ReconciledQuiet, ServiceGood DEF Inv

LEMMA ReconcileResultGood ==
    ASSUME Inv, Inv', Backed, NEW t \in Procs, ReconcileResult(t) PROVE Good
<1> DEFINE j == th[t].job
           c == [th[t] EXCEPT !.pc = "judge"]
<1>1. j \in Jobs /\ UNCHANGED <<res, cancelFile, sup>>
  BY CallsTyped DEF Inv, ReconcileResult, Resting, CallOK, files
<1>2. Quiet(c)
  BY CallsTyped, StepQuiet DEF Inv, Call, CancelPcs, RetryPcs
<1>3. CASE NoWrite /\ (Goto(t, c) \/ Goto(t, Done(t)))
  BY <1>1, <1>2, <1>3, DoneQuiet, NoWriteStep, ServiceGood DEF Inv
<1>4. ASSUME Present(j), res[j] # None, NEW torn \in Torn, NEW r,
             r = (IF IsTerminal(j) THEN rec[j] ELSE Settle(rec[j], res[j])),
             Persist(j, r, torn), Goto(t, IF torn THEN Dead(t) ELSE Reconciled(t, Snap(r)))
      PROVE  Good
  <2>1. res[j] \in Outcomes /\ JobBacked(j)
    BY <1>1, <1>4 DEF Inv, TypeInv, FilesOK, Backed, JobsBacked
  <2>2. Legal(j, r)
    BY <1>1, <1>4, <2>1, CanSettle, SettleOrKeep DEF JobBacked
  <2>3. StoreStep
    BY <1>1, <1>4, <2>2, PersistStep
  <2> QED BY <1>1, <1>4, <2>3, DeadQuiet, ReconciledQuiet, ServiceGood DEF Inv, Torn
<1> QED BY <1>3, <1>4 DEF ReconcileResult, GotoPc

LEMMA JudgeQuiet ==
    ASSUME TypeInv, Backed, NEW t \in Procs, NEW r, NEW fresh, Judge(t, r, fresh)
    PROVE  \E c : Quiet(c) /\ Goto(t, c)
<1> DEFINE settle(v) == [th[t] EXCEPT !.pc = "settle", !.verdict = v, !.snap = r]
<1>1. ASSUME NEW v PROVE Quiet(settle(v))
  BY CallsTyped, StepQuiet DEF Call, CancelPcs, RetryPcs
<1>2. CASE Goto(t, Reconciled(t, r))
  BY <1>2, ReconciledQuiet
<1>3. CASE \E v \in Verdicts : Goto(t, settle(v))
  BY <1>1, <1>3
<1> QED BY <1>2, <1>3 DEF Judge, Verdicts

LEMMA ReconcileJudgeGood ==
    ASSUME Inv, Inv', Backed, NEW t \in Procs, ReconcileJudge(t) PROVE Good
<1> DEFINE j == th[t].job
           snap == th[t].snap
           observed == [rec[j] EXCEPT !.observed = TRUE]
           c == [th[t] EXCEPT !.pc = "settle", !.verdict = "mismatch"]
<1>1. j \in Jobs /\ UNCHANGED <<res, cancelFile, sup>>
  BY CallsTyped DEF Inv, ReconcileJudge, Resting, CallOK, files
<1>2. CASE NoWrite /\ Goto(t, c)
  <2>1. Quiet(c)
    BY CallsTyped, StepQuiet DEF Inv, Call, CancelPcs, RetryPcs
  <2> QED BY <1>1, <1>2, <2>1, NoWriteStep, ServiceGood
<1>3. CASE NoWrite /\ Judge(t, snap, ~snap.observed)
  <2>1. PICK d : Quiet(d) /\ Goto(t, d)
    BY <1>3, JudgeQuiet DEF Inv
  <2> QED BY <1>1, <1>3, <2>1, NoWriteStep, ServiceGood
<1>4. ASSUME Present(j), NEW torn \in Torn, Persist(j, observed, torn),
             IF torn THEN Goto(t, Dead(t)) ELSE Judge(t, Snap(observed), TRUE)
      PROVE  Good
  <2>1. /\ observed \in Record /\ observed.req = rec[j].req /\ observed.state = rec[j].state
        /\ observed.safe = rec[j].safe /\ observed.created = rec[j].created
    BY <1>1, <1>4, PresentOK DEF Inv, Record
  <2>2. StoreStep
    BY <1>1, <1>4, <2>1, SameState, PersistStep
  <2>3. PICK d : Quiet(d) /\ Goto(t, d)
    BY <1>4, JudgeQuiet, DeadQuiet DEF Inv
  <2> QED BY <1>1, <2>2, <2>3, ServiceGood
<1> QED BY <1>2, <1>3, <1>4 DEF ReconcileJudge

\* The verdict that a job never started is evidence by itself; the one that its
\* supervisor died settles it by the result that is there.
LEMMA VerdictLegal ==
    ASSUME Inv, NEW j \in Jobs, Present(j), NEW v \in Verdicts, ~VerdictRaises(rec[j], v, res[j]),
           Backed
    PROVE  Legal(j, Verdict(rec[j], v, res[j]))
<1> DEFINE o == res[j]
           r == Verdict(rec[j], v, o)
<1>1. rec[j] \in Record /\ o \in Outcomes \cup {None} /\ JobBacked(j)
  BY PresentOK DEF Inv, TypeInv, FilesOK, Backed, JobsBacked
<1>2. r \in Record /\ r.req = rec[j].req
  BY <1>1, VerdictOK
<1>3. CASE IsTerminal(j)
  BY <1>1, <1>3, SameState DEF Verdict, IsTerminal
<1>4. CASE ~IsTerminal(j) /\ v = "died" /\ o # None
  <2>1. r = Settle(rec[j], o) /\ CanMove(rec[j], FinalState(o))
    BY <1>4 DEF Verdict, VerdictRaises, IsTerminal
  <2> QED BY <1>1, <1>4, <2>1, SettleLegal DEF JobBacked
<1>5. CASE ~IsTerminal(j) /\ v = "never"
  <2>1. r = [rec[j] EXCEPT !.state = "failed", !.safe = TRUE]
    BY <1>5 DEF Verdict, IsTerminal
  <2>2. r.state = "failed" /\ r.safe /\ r.created = rec[j].created
    BY <1>1, <2>1 DEF Record
  <2>3. CanMove(rec[j], "failed")
    BY <1>5, CanSettle DEF FinalState, Outcomes
  <2> QED BY <1>2, <2>2, <2>3 DEF Legal, Evident
<1>6. CASE ~IsTerminal(j) /\ v # "never" /\ ~(v = "died" /\ o # None)
  <2>1. r = [rec[j] EXCEPT !.state = "unknown_recovery", !.safe = FALSE]
        /\ CanMove(rec[j], "unknown_recovery")
    BY <1>6 DEF Verdict, VerdictRaises, IsTerminal
  <2>2. r.state = "unknown_recovery" /\ r.created = rec[j].created
    BY <1>1, <2>1 DEF Record
  <2> QED BY <1>2, <2>1, <2>2 DEF Legal, Evident
<1> QED BY <1>3, <1>4, <1>5, <1>6

LEMMA ReconcileSettleGood ==
    ASSUME Inv, Inv', Backed, NEW t \in Procs, ReconcileSettle(t) PROVE Good
<1> DEFINE j == th[t].job
           v == th[t].verdict
           r == Verdict(rec[j], v, res[j])
<1>1. j \in Jobs /\ v \in Verdicts /\ UNCHANGED <<res, cancelFile, sup>>
  BY CallsTyped DEF Inv, ReconcileSettle, Resting, CallOK, files
<1>2. CASE NoWrite /\ (Goto(t, Done(t)) \/ Goto(t, Reconciled(t, th[t].snap)))
  BY <1>1, <1>2, DoneQuiet, ReconciledQuiet, NoWriteStep, ServiceGood DEF Inv
<1>3. ASSUME Present(j), ~VerdictRaises(rec[j], v, res[j]), NEW torn \in Torn, Persist(j, r, torn),
             Goto(t, IF torn THEN Dead(t) ELSE Reconciled(t, Snap(r)))
      PROVE  Good
  <2>1. StoreStep
    BY <1>1, <1>3, VerdictLegal, PersistStep
  <2> QED BY <1>1, <1>3, <2>1, DeadQuiet, ReconciledQuiet, ServiceGood DEF Inv, Torn
<1> QED BY <1>2, <1>3 DEF ReconcileSettle

-----------------------------------------------------------------------------
\* retry and cancel, again

LEMMA ClaimRetryGood == ASSUME Inv, Inv', Backed, NEW t \in Procs, ClaimRetry(t) PROVE Good
<1> DEFINE j == th[t].job
           r == [rec[j] EXCEPT !.req = th[t].req]
           c(p) == [th[t] EXCEPT !.pc = p]
<1>1. /\ j \in Jobs /\ th[t].req \in Requests /\ UNCHANGED <<res, cancelFile, sup>>
      /\ CallBacked(th[t])
  BY CallsTyped, BackedCall DEF Inv, ClaimRetry, Resting, CallOK, files
<1>2. CASE NoWrite /\ Goto(t, Done(t))
  BY <1>1, <1>2, DoneQuiet, NoWriteStep, ServiceGood DEF Inv
<1>3. ASSUME IsTerminal(j), NEW p \in {"lookup", "claim"} PROVE CallBacked(c(p))
  <2>1. c(p).pc = p /\ c(p).op = th[t].op /\ c(p).job = th[t].job
    BY CallsTyped DEF Inv, Call
  <2> QED BY <1>1, <1>3, <2>1 DEF CallBacked, CancelPcs
<1>4. CASE IsTerminal(j) /\ NoWrite /\ Goto(t, c("lookup"))
  BY <1>1, <1>3, <1>4, NoWriteStep, ServiceGood
<1>5. ASSUME IsTerminal(j), rec[j].req = None, NEW torn \in Torn, Persist(j, r, torn),
             Goto(t, IF torn THEN Dead(t) ELSE c("claim"))
      PROVE  Good
  <2>1. Present(j) /\ rec[j] \in Record
    BY <1>1, <1>5, PresentOK DEF Inv, IsTerminal
  <2>2. /\ r \in Record /\ r.req = th[t].req /\ r.state = rec[j].state
        /\ r.safe = rec[j].safe /\ r.created = rec[j].created
    BY <1>1, <2>1 DEF Record
  <2>3. StoreStep
    BY <1>1, <1>5, <2>1, <2>2, PersistStep DEF Legal
  <2> QED BY <1>1, <1>3, <1>5, <2>3, DeadQuiet, ServiceGood DEF Torn
<1> QED BY <1>2, <1>4, <1>5 DEF ClaimRetry, Conflicts, GotoPc, IsTerminal

LEMMA LookupGood == ASSUME Inv, Inv', Backed, NEW t \in Procs, Lookup(t) PROVE Good
<1> DEFINE c == [th[t] EXCEPT !.pc = "claim"]
<1>1. /\ th[t].pc = "lookup" /\ CallBacked(th[t])
      /\ StoreStep /\ UNCHANGED <<res, cancelFile, sup>>
  BY BackedCall DEF Lookup, store, files, StoreStep
<1>2. CallBacked(c)
  <2>1. c.pc = "claim" /\ c.op = th[t].op /\ c.job = th[t].job
    BY CallsTyped DEF Inv, Call
  <2> QED BY <1>1, <2>1 DEF CallBacked, CancelPcs, RetryPcs
<1>3. Goto(t, Done(t)) \/ Goto(t, c)
  BY DEF Lookup, GotoPc
<1> QED BY <1>1, <1>2, <1>3, DoneQuiet, ServiceGood DEF Inv

LEMMA MarkSpawnedGood == ASSUME Inv, Inv', Backed, NEW t \in Procs, MarkSpawned(t) PROVE Good
<1> DEFINE j == th[t].job
           r == [rec[j] EXCEPT !.spawned = TRUE]
<1>1. j \in Jobs /\ UNCHANGED <<res, cancelFile, sup>>
  BY CallsTyped DEF Inv, MarkSpawned, Resting, CallOK, files
<1>2. CASE NoWrite /\ Goto(t, Done(t))
  BY <1>1, <1>2, DoneQuiet, NoWriteStep, ServiceGood DEF Inv
<1>3. ASSUME Present(j), NEW torn \in Torn, Persist(j, r, torn), Goto(t, IF torn THEN Dead(t) ELSE Done(t))
      PROVE  Good
  <2>1. /\ r \in Record /\ r.req = rec[j].req /\ r.state = rec[j].state
        /\ r.safe = rec[j].safe /\ r.created = rec[j].created
    BY <1>1, <1>3, PresentOK DEF Inv, Record
  <2>2. StoreStep
    BY <1>1, <1>3, <2>1, SameState, PersistStep
  <2> QED BY <1>1, <1>3, <2>2, DoneQuiet, DeadQuiet, ServiceGood DEF Inv, Torn
<1> QED BY <1>2, <1>3 DEF MarkSpawned

LEMMA CancelGetGood == ASSUME Inv, Inv', Backed, NEW t \in Procs, CancelGet(t) PROVE Good
<1> DEFINE c == [th[t] EXCEPT !.pc = "cancelfile"]
<1>1. StoreStep /\ UNCHANGED <<res, cancelFile, sup>> /\ CallBacked(th[t])
  BY BackedCall DEF CancelGet, store, files, StoreStep
<1>2. ASSUME Present(th[t].job) PROVE CallBacked(c)
  <2>1. c.pc = "cancelfile" /\ c.op = th[t].op /\ c.job = th[t].job
    BY CallsTyped DEF Inv, Call
  <2> QED BY <1>1, <1>2, <2>1 DEF CallBacked, RetryPcs
<1>3. Goto(t, Done(t)) \/ (Present(th[t].job) /\ Goto(t, c))
  BY DEF CancelGet, GotoPc
<1> QED BY <1>1, <1>2, <1>3, DoneQuiet, ServiceGood DEF Inv

\* A step that changes no record but may add cancellations, or clear away what
\* belongs to no record.
LEMMA FilesBacked ==
    ASSUME Backed, UNCHANGED rec,
           \A j \in Jobs : Present(j) => res'[j] = res[j] /\ (cancelFile[j] => cancelFile'[j])
    PROVE  JobsBacked'
BY DEF Backed, JobsBacked, JobBacked, Evident, Present

LEMMA CancelFileGood == ASSUME Inv, Inv', Backed, NEW t \in Procs, CancelFile(t) PROVE Good
<1> DEFINE c == [th[t] EXCEPT !.pc = "cancelkill"]
<1>1. /\ th[t].pc = "cancelfile" /\ th[t].job \in Jobs /\ CallBacked(th[t])
      /\ UNCHANGED <<rec, res, sup>> /\ Goto(t, c)
      /\ cancelFile' = [cancelFile EXCEPT ![th[t].job] = TRUE]
  BY CallsTyped, BackedCall DEF Inv, CancelFile, Resting, CallOK, store, GotoPc
<1>2. cancelFile'[th[t].job] /\ \A j \in Jobs : cancelFile[j] => cancelFile'[j]
  BY <1>1 DEF Inv, TypeInv, FilesOK
<1>3. RecMove /\ NoneNew /\ FilesMove /\ NoneSaved /\ JobsBacked' /\ StoreStep
  BY <1>1, <1>2, StoreMoves, FilesBacked DEF StoreStep, FilesMove, NoneSaved
<1>4. CallsBacked'
  <2>1. c.pc = "cancelkill" /\ c.op = th[t].op /\ c.job = th[t].job
    BY CallsTyped DEF Inv, Call
  <2>2. \A u \in Procs : th'[u] = IF u = t THEN c ELSE th[u]
    BY <1>1 DEF Goto, Inv, TypeInv, CallsOK
  <2>3. PICK e : e = c
    OBVIOUS
  <2>4. CallBacked(e)'
    BY <1>1, <1>2, <2>1, <2>3 DEF CallBacked, CancelPcs, RetryPcs, Present
  <2> HIDE DEF c
  <2>5. \A u \in Procs : u # t => CallBacked(th[u])'
    BY <1>3, <2>2, OtherCallsStay
  <2> QED BY <2>2, <2>3, <2>4, <2>5 DEF CallsBacked, CallBacked, TargetOf
<1>5. SupervisorsBacked' /\ ResultsOwned' /\ SameJobs /\ Fenced'
  BY <1>1, <1>3, SupervisorsStay, FenceStays
<1> QED BY <1>3, <1>4, <1>5, UpdateContract DEF Good, Backed

LEMMA CancelKillGood == ASSUME Inv, Inv', Backed, NEW t \in Procs, CancelKill(t) PROVE Good
<1> DEFINE c == [th[t] EXCEPT !.pc = "cancelmark"]
<1>1. /\ th[t].pc = "cancelkill" /\ th[t].job \in Jobs /\ CallBacked(th[t])
      /\ UNCHANGED <<rec, res, cancelFile>> /\ Goto(t, c)
  BY CallsTyped, BackedCall DEF Inv, CancelKill, Resting, CallOK, store, files, GotoPc
<1>2. CallBacked(c)
  <2>1. c.pc = "cancelmark" /\ c.op = th[t].op /\ c.job = th[t].job
    BY CallsTyped DEF Inv, Call
  <2> QED BY <1>1, <2>1 DEF CallBacked, RetryPcs, CancelPcs
<1>3. CASE UNCHANGED sup
  BY <1>1, <1>2, <1>3, ServiceGood DEF StoreStep
<1>4. ASSUME NEW p, PidAlive(p), sup' = [sup EXCEPT ![p].pc = "gone", ![p].out = None]
      PROVE  Good
  <2> DEFINE s == [sup[p] EXCEPT !.pc = "gone", !.out = None]
  <2>1. p \in Pids /\ Used(p) /\ sup[p] \in Supervisor /\ sup' = [sup EXCEPT ![p] = s]
    BY <1>4, SupervisorTyped DEF Inv, PidAlive, Used
  <2>2. s.pc = "gone" /\ s.out = None /\ s.job = sup[p].job /\ s.born = sup[p].born
    BY <2>1 DEF Supervisor
  <2>3. RecMove /\ NoneNew /\ FilesMove /\ NoneSaved /\ JobsBacked' /\ StoreStep
    BY <1>1, StoreMoves, FilesBacked DEF StoreStep, FilesMove, NoneSaved
  <2>4. s.out # "cancelled" /\ s.pc \notin Launched
    BY <2>2, Distinct DEF Outcomes, Launched
  <2> HIDE DEF s
  <2>5. SupervisorsBacked' /\ ResultsOwned' /\ SameJobs
    BY <2>1, <2>2, <2>3, <2>4, OneSupervisorStays DEF NoneSaved, Launched
  <2>6. CallsBacked' /\ Fenced'
    BY <1>1, <1>2, <2>3, CallsStay, FenceStays
  <2> QED BY <2>3, <2>5, <2>6, UpdateContract DEF Good, Backed
<1> QED BY <1>3, <1>4 DEF CancelKill

LEMMA CancelMarkGood == ASSUME Inv, Inv', Backed, NEW t \in Procs, CancelMark(t) PROVE Good
<1> DEFINE j == th[t].job
           r == Settle(rec[j], "cancelled")
<1>1. /\ j \in Jobs /\ cancelFile[j] /\ UNCHANGED <<res, cancelFile, sup>>
  BY CallsTyped, BackedCall DEF Inv, CancelMark, Resting, CallOK, files, CallBacked
<1>2. CASE NoWrite /\ Goto(t, Done(t))
  BY <1>1, <1>2, DoneQuiet, NoWriteStep, ServiceGood DEF Inv
<1>3. ASSUME Present(j), ~IsTerminal(j), NEW torn \in Torn, Persist(j, r, torn),
             Goto(t, IF torn THEN Dead(t) ELSE Done(t))
      PROVE  Good
  <2>1. StoreStep
    BY <1>1, <1>3, CanSettle, SettleLegal, PersistStep DEF Outcomes
  <2> QED BY <1>1, <1>3, <2>1, DoneQuiet, DeadQuiet, ServiceGood DEF Inv, Torn
<1> QED BY <1>2, <1>3 DEF CancelMark

-----------------------------------------------------------------------------
\* The daemon, again: its sweep changes no record but what it books

LEMMA RepairGood == ASSUME Inv, Inv', Backed, Repair PROVE Good
<1>1. /\ UNCHANGED <<rec, sup>> /\ Goto(Daemon, At("retain")) /\ Quiet(At("retain"))
      /\ Daemon \in Procs
  BY AtQuiet, Distinct DEF Repair, CancelPcs, RetryPcs
<1>2. \A j \in Jobs : /\ Present(j) => res'[j] = res[j] /\ (cancelFile[j] => cancelFile'[j])
                      /\ res'[j] # None => res[j] # None
  BY DEF Repair
<1>3. RecMove /\ NoneNew /\ FilesMove /\ NoneSaved /\ JobsBacked' /\ StoreStep
  BY <1>1, <1>2, StoreMoves, FilesBacked DEF StoreStep, FilesMove, NoneSaved
<1>4. CallsBacked' /\ Fenced' /\ SupervisorsBacked' /\ ResultsOwned' /\ SameJobs
  BY <1>1, <1>3, CallsStay, FenceStays, SupervisorsStay
<1> QED BY <1>3, <1>4, UpdateContract DEF Good, Backed

\* Retention that prunes nothing.
LEMMA RetainGood ==
    ASSUME Inv, Inv', Backed, Retain, prunes = 0, prunes' = 0 PROVE Good
<1>1. PICK P \in SUBSET Prunable, torn \in Torn :
        /\ prunes' = prunes + Cardinality(P)
        /\ rec' = [j \in Jobs |-> IF j \in P THEN None ELSE rec[j]]
        /\ res' = [j \in Jobs |-> IF j \in P THEN None ELSE res[j]]
        /\ cancelFile' = [j \in Jobs |-> j \notin P /\ cancelFile[j]]
        /\ Goto(Daemon, IF torn THEN Dead(Daemon) ELSE At("list"))
  BY DEF Retain
<1>2. P = {}
  <2>1. IsFiniteSet(P)
    BY Distinct, FS_Subset DEF Prunable
  <2>2. Cardinality(P) \in Nat /\ 0 = 0 + Cardinality(P)
    BY <1>1, <2>1, FS_CardinalityType
  <2>3. Cardinality(P) = 0
    BY <2>2
  <2> QED BY <2>1, <2>3, FS_EmptySet
<1>3. UNCHANGED <<rec, res, cancelFile>>
  <2>1. \A j \in Jobs : rec'[j] = rec[j] /\ res'[j] = res[j]
    BY <1>1, <1>2
  <2>2. rec' = rec
    BY <1>1, <2>1 DEF Inv, TypeInv, StoreOK
  <2>3. res' = res
    BY <1>1, <2>1 DEF Inv, TypeInv, FilesOK
  <2>4. cancelFile' = cancelFile
    <3>1. cancelFile' = [j \in Jobs |-> cancelFile[j]]
      <4>1. \A j \in Jobs : cancelFile[j] \in BOOLEAN
        BY DEF Inv, TypeInv, FilesOK
      <4>2. \A j \in Jobs : (j \notin P /\ cancelFile[j]) = cancelFile[j]
        BY <1>2, <4>1
      <4> QED BY <1>1, <4>2, Zenon
    <3>2. cancelFile = [j \in Jobs |-> cancelFile[j]]
      BY DEF Inv, TypeInv, FilesOK
    <3> QED BY <3>1, <3>2
  <2> QED BY <2>2, <2>3, <2>4
<1>4. UNCHANGED sup /\ Quiet(Dead(Daemon)) /\ Quiet(At("list")) /\ Daemon \in Procs
  BY AtQuiet, DeadQuiet, Distinct DEF Retain, CancelPcs, RetryPcs
<1> QED BY <1>1, <1>3, <1>4, ServiceGood DEF StoreStep, Torn

LEMMA ListGood == ASSUME Inv, Inv', Backed, List PROVE Good
<1>1. /\ UNCHANGED <<res, cancelFile, sup>> /\ StoreStep /\ Goto(Daemon, At("visit"))
      /\ Quiet(At("visit")) /\ Daemon \in Procs
  BY AtQuiet, Distinct DEF List, store, files, StoreStep, CancelPcs, RetryPcs
<1> QED BY <1>1, ServiceGood

LEMMA RestartGood == ASSUME Inv, Inv', Backed, Restart PROVE Good
<1>1. /\ UNCHANGED <<res, cancelFile, sup>> /\ StoreStep /\ Goto(Daemon, At("repair"))
      /\ Quiet(At("repair")) /\ Daemon \in Procs
  BY AtQuiet, Distinct DEF Restart, store, files, StoreStep, CancelPcs, RetryPcs
<1> QED BY <1>1, ServiceGood

LEMMA BookGood == ASSUME Inv, Inv', Backed, Book PROVE Good
<1> DEFINE c == [th[Daemon] EXCEPT !.pc = "mark"]
<1>1. /\ UNCHANGED <<res, cancelFile, sup>> /\ StoreStep /\ Goto(Daemon, c) /\ Daemon \in Procs
  BY Distinct DEF Book, store, files, StoreStep, GotoPc
<1>2. Quiet(c)
  BY <1>1, CallsTyped, StepQuiet DEF Inv, Call, CancelPcs, RetryPcs
<1> QED BY <1>1, <1>2, ServiceGood

\* A step that leaves calls and supervisors alone.
LEMMA IdleGood ==
    ASSUME Inv, Inv', Backed, StoreStep, UNCHANGED <<res, cancelFile, sup, th>>
    PROVE  Good
<1>1. RecMove /\ NoneNew /\ JobsBacked' /\ FilesMove /\ NoneSaved
  BY StoreMoves, StoreBacked DEF FilesMove, NoneSaved
<1>2. SupervisorsBacked' /\ ResultsOwned' /\ SameJobs /\ CallsBacked' /\ Fenced'
  BY <1>1, SupervisorsStay, NoCallStays, FenceStays
<1> QED BY <1>1, <1>2, UpdateContract DEF Good, Backed

LEMMA VisitGood == ASSUME Inv, Inv', Backed, NEW j \in Jobs, Visit(j) PROVE Good
<1>1. UNCHANGED <<res, cancelFile, sup>> /\ StoreStep /\ Daemon \in Procs
  BY Distinct DEF Visit, store, files, StoreStep
<1>2. CASE UNCHANGED th
  BY <1>1, <1>2, IdleGood
<1>3. CASE Goto(Daemon, [At("recon") EXCEPT !.op = "redrive", !.job = j,
                         !.req = rec[j].req, !.snap = Snap(rec[j])])
  <2>1. Quiet([At("recon") EXCEPT !.op = "redrive", !.job = j,
                         !.req = rec[j].req, !.snap = Snap(rec[j])])
    BY DEF At, Quiet, CancelPcs, RetryPcs
  <2> QED BY <1>1, <1>3, <2>1, ServiceGood
<1>4. ASSUME NEW p \in {"book", "recon"},
             Goto(Daemon, [At(p) EXCEPT !.op = "sweep", !.job = j, !.snap = Snap(rec[j])])
      PROVE  Good
  <2>1. Quiet([At(p) EXCEPT !.op = "sweep", !.job = j, !.snap = Snap(rec[j])])
    BY <1>4 DEF At, Quiet, CancelPcs, RetryPcs
  <2> QED BY <1>1, <1>4, <2>1, ServiceGood
<1>5. \/ UNCHANGED th
      \/ Goto(Daemon, [At("recon") EXCEPT !.op = "redrive", !.job = j,
                       !.req = rec[j].req, !.snap = Snap(rec[j])])
      \/ \E p \in {"book", "recon"} :
            Goto(Daemon, [At(p) EXCEPT !.op = "sweep", !.job = j, !.snap = Snap(rec[j])])
  BY DEF Visit
<1> QED BY <1>2, <1>3, <1>4, <1>5

LEMMA MarkGood == ASSUME Inv, Inv', Backed, Mark PROVE Good
<1> DEFINE j == th[Daemon].job
           r == [rec[j] EXCEPT !.booked = TRUE]
<1>1. /\ j \in Jobs /\ UNCHANGED <<res, cancelFile, sup>> /\ Daemon \in Procs
  BY CallsTyped, Distinct DEF Inv, Mark, Resting, CallOK, files
<1>2. Quiet(At("visit")) /\ Quiet(Dead(Daemon))
  BY AtQuiet, DeadQuiet DEF CancelPcs, RetryPcs
<1>3. CASE NoWrite /\ Goto(Daemon, At("visit"))
  BY <1>1, <1>2, <1>3, NoWriteStep, ServiceGood
<1>4. ASSUME Present(j), NEW torn \in Torn, Persist(j, r, torn),
             Goto(Daemon, IF torn THEN Dead(Daemon) ELSE At("visit"))
      PROVE  Good
  <2>1. /\ r \in Record /\ r.req = rec[j].req /\ r.state = rec[j].state
        /\ r.safe = rec[j].safe /\ r.created = rec[j].created
    BY <1>1, <1>4, PresentOK DEF Inv, Record
  <2>2. StoreStep
    BY <1>1, <1>4, <2>1, SameState, PersistStep
  <2> QED BY <1>1, <1>2, <1>4, <2>2, ServiceGood DEF Torn
<1> QED BY <1>3, <1>4 DEF Mark

-----------------------------------------------------------------------------
\* The supervisors, again

LEMMA SupervisorGood ==
    ASSUME Inv, Inv', Backed, StoreStep, UNCHANGED <<res, cancelFile, th>>,
           NEW q \in Pids, Used(q), NEW s, s.pc # "free",
           s.job = sup[q].job, s.born = sup[q].born, sup' = [sup EXCEPT ![q] = s],
           s.out = "cancelled" => cancelFile[s.job],
           s.pc \in Launched => rec'[s.job].state # "queued",
           s.pc # "finish", Saved(q) => s.pc = "gone"
    PROVE  Good
<1>1. RecMove /\ NoneNew /\ JobsBacked' /\ FilesMove /\ NoneSaved
  BY StoreMoves, StoreBacked DEF FilesMove, NoneSaved
<1>2. SupervisorsBacked' /\ ResultsOwned' /\ SameJobs
  BY <1>1, OneSupervisorStays DEF NoneSaved
<1>3. CallsBacked' /\ Fenced'
  BY <1>1, NoCallStays, FenceStays
<1> QED BY <1>1, <1>2, <1>3, UpdateContract DEF Good, Backed

LEMMA BackedSupervisor ==
    ASSUME Inv, Backed, NEW p \in Pids, Used(p)
    PROVE  /\ sup[p] \in Supervisor /\ SupervisorOK(sup[p]) /\ sup[p].job \in Jobs
           /\ Present(sup[p].job) /\ SupervisorBacked(sup[p])
BY SupervisorTyped DEF Inv, Backed, SupervisorsBacked, SupervisorBacked, Used

LEMMA BootGood == ASSUME Inv, Inv', Backed, NEW p \in Pids, Boot(p) PROVE Good
<1> DEFINE s == [sup[p] EXCEPT !.pc = IF Refuses(p) THEN "gone" ELSE "checked"]
<1>1. /\ Used(p) /\ ~Saved(p) /\ StoreStep /\ UNCHANGED <<res, cancelFile, th>>
      /\ sup' = [sup EXCEPT ![p] = s]
  BY DEF Boot, Used, Saved, store, files, StoreStep
<1>2. /\ s.pc \in {"gone", "checked"} /\ s.job = sup[p].job /\ s.born = sup[p].born
      /\ s.out = sup[p].out
  BY <1>1, BackedSupervisor DEF Supervisor
<1>3. s.out = "cancelled" => cancelFile[s.job]
  BY <1>1, <1>2, BackedSupervisor DEF SupervisorBacked, Used
<1> HIDE DEF s
<1> QED BY <1>1, <1>2, <1>3, SupervisorGood DEF Launched

LEMMA StartGood == ASSUME Inv, Inv', Backed, NEW p \in Pids, Start(p) PROVE Good
<1> DEFINE j == sup[p].job
           started == [rec[j] EXCEPT !.state = "running", !.sup = p, !.token = p]
           r == IF IsTerminal(j) THEN rec[j] ELSE started
<1>1. /\ Used(p) /\ ~Saved(p) /\ UNCHANGED <<res, cancelFile, th>> /\ j \in Jobs
      /\ rec[j] \in Record /\ Present(j)
  BY BackedSupervisor, PresentOK DEF Inv, Start, Used, Saved, files
<1>2. PICK pc \in {"gone", "launch"} :
        /\ sup' = [sup EXCEPT ![p].pc = pc]
        /\ \/ NoWrite /\ pc = "gone"
           \/ Accepts(j, "running") /\ \E torn \in Torn : Persist(j, r, torn)
  BY DEF Start
<1> DEFINE s == [sup[p] EXCEPT !.pc = pc]
<1>3. /\ sup' = [sup EXCEPT ![p] = s] /\ s.pc = pc /\ s.job = j /\ s.born = sup[p].born
      /\ s.out = sup[p].out
  BY <1>1, <1>2, BackedSupervisor DEF Supervisor
<1>4. s.out = "cancelled" => cancelFile[s.job]
  BY <1>1, <1>3, BackedSupervisor DEF SupervisorBacked, Used
<1>5. StoreStep /\ (pc = "launch" => rec'[j].state # "queued")
  <2>1. CASE NoWrite /\ pc = "gone"
    BY <2>1, NoWriteStep
  <2>2. ASSUME Accepts(j, "running"), NEW torn \in Torn, Persist(j, r, torn)
        PROVE  StoreStep /\ rec'[j].state # "queued"
    <3>1. CASE IsTerminal(j)
      <4>1. Legal(j, rec[j]) /\ r = rec[j]
        BY <1>1, <3>1, SameState
      <4>2. rec'[j] = rec[j]
        BY <1>1, <2>2, <4>1 DEF Persist, Inv, TypeInv, StoreOK
      <4> QED BY <1>1, <2>2, <3>1, <4>1, <4>2, PersistStep DEF IsTerminal, Terminal
    <3>2. CASE ~IsTerminal(j)
      <4>1. started \in Record /\ started.state = "running" /\ started.req = rec[j].req
            /\ started.created = rec[j].created /\ r = started
        BY <1>1, <3>2 DEF Record, States, ActiveStates
      <4>2. CanMove(rec[j], "running")
        BY <1>1, <2>2, <3>2 DEF Accepts, IsTerminal
      <4>3. Legal(j, r)
        BY <1>1, <4>1, <4>2 DEF Legal, Evident
      <4>4. rec'[j] = r
        BY <1>1, <2>2 DEF Persist, Inv, TypeInv, StoreOK
      <4> QED BY <1>1, <2>2, <4>1, <4>3, <4>4, PersistStep
    <3> QED BY <3>1, <3>2
  <2> QED BY <1>2, <2>1, <2>2
<1> HIDE DEF s
<1> QED BY <1>1, <1>2, <1>3, <1>4, <1>5, SupervisorGood DEF Launched

LEMMA LaunchGood == ASSUME Inv, Inv', Backed, NEW p \in Pids, Launch(p) PROVE Good
<1> DEFINE ran == [sup[p] EXCEPT !.pc = "run", !.ran = TRUE]
           failed == [sup[p] EXCEPT !.pc = "ended", !.out = "failure"]
<1>1. /\ Used(p) /\ ~Saved(p) /\ StoreStep /\ UNCHANGED <<rec, res, cancelFile, th>>
  BY DEF Launch, Used, Saved, store, files, StoreStep
<1>2. PICK s \in {ran, failed} : sup' = [sup EXCEPT ![p] = s]
  BY DEF Launch
<1>3. /\ s.pc \in {"run", "ended"} /\ s.job = sup[p].job /\ s.born = sup[p].born
      /\ s.out \in {sup[p].out, "failure"}
  BY <1>1, BackedSupervisor DEF Supervisor
<1>4. (s.out = "cancelled" => cancelFile[s.job]) /\ rec'[s.job].state # "queued"
  BY <1>1, <1>3, BackedSupervisor DEF Launch, SupervisorBacked, Used, Launched
<1> QED BY <1>1, <1>2, <1>3, <1>4, SupervisorGood

LEMMA TerminateGood ==
    ASSUME Inv, Inv', Backed, NEW p \in Pids, SeeCancel(p) \/ TimeOut(p) \/ ChildExit(p)
    PROVE  Good
<1>1. /\ Used(p) /\ ~Saved(p) /\ StoreStep /\ UNCHANGED <<rec, res, cancelFile, th>>
      /\ sup[p].pc = "run"
  BY DEF SeeCancel, TimeOut, ChildExit, Used, Saved, store, files, StoreStep
<1>2. PICK pc \in {"gone", "ended"}, o \in Outcomes :
        sup' = [sup EXCEPT ![p].pc = pc, ![p].out = o] /\ (o = "cancelled" => cancelFile[sup[p].job])
  BY DEF SeeCancel, TimeOut, ChildExit, Terminate, Outcomes
<1> DEFINE s == [sup[p] EXCEPT !.pc = pc, !.out = o]
<1>3. /\ sup' = [sup EXCEPT ![p] = s] /\ s.pc = pc /\ s.out = o
      /\ s.job = sup[p].job /\ s.born = sup[p].born
  BY <1>1, <1>2, BackedSupervisor DEF Supervisor
<1>4. rec'[s.job].state # "queued"
  BY <1>1, <1>3, BackedSupervisor DEF SupervisorBacked, Launched
<1> HIDE DEF s
<1> QED BY <1>1, <1>2, <1>3, <1>4, SupervisorGood

LEMMA BeatGood == ASSUME Inv, Inv', Backed, NEW p \in Pids, Beat(p) PROVE Good
<1>1. StoreStep /\ UNCHANGED <<res, cancelFile, sup, th>>
  BY DEF Beat, store, StoreStep
<1> QED BY <1>1, IdleGood

\* One supervisor per record, one record per job: one supervisor per job.
LEMMA OnePerJob ==
    ASSUME Inv, Backed, NEW p \in Pids, NEW q \in Pids, Used(p), sup[p].job = sup[q].job
    PROVE  p = q
<1>1. Used(q)
  BY SupervisorTyped, Distinct DEF Inv, SupervisorOK, Used
<1>2. sup[p].born = sup[q].born
  BY <1>1, BackedSupervisor DEF SupervisorBacked, Used
<1> QED BY <1>1, <1>2 DEF Inv, StampInv

\* The result a supervisor saves is the first of its job.
LEMMA NoResultYet ==
    ASSUME Inv, Backed, NEW p \in Pids, Used(p), ~Saved(p)
    PROVE  res[sup[p].job] = None
<1> SUFFICES ASSUME res[sup[p].job] # None PROVE FALSE
  OBVIOUS
<1>1. PICK q \in Pids : sup[q].job = sup[p].job /\ Saved(q)
  BY BackedSupervisor DEF Backed, ResultsOwned, ResultOwned
<1> QED BY <1>1, OnePerJob

LEMMA SaveResultGood == ASSUME Inv, Inv', Backed, NEW p \in Pids, SaveResult(p) PROVE Good
<1> DEFINE j == sup[p].job
           s == [sup[p] EXCEPT !.pc = "finish"]
<1>1. /\ sup[p].pc = "ended" /\ Used(p) /\ ~Saved(p) /\ UNCHANGED <<rec, cancelFile, th>>
      /\ j \in Jobs /\ Present(j) /\ SupervisorBacked(sup[p]) /\ sup[p].out \in Outcomes
  BY BackedSupervisor DEF SaveResult, store, Used, Saved, SupervisorOK
<1>2. res[j] = None
  BY <1>1, NoResultYet
<1>3. res' = [res EXCEPT ![j] = sup[p].out]
  BY <1>2 DEF SaveResult
<1>4. res'[j] = sup[p].out /\ \A k \in Jobs : k # j => res'[k] = res[k]
  BY <1>1, <1>3 DEF Inv, TypeInv, FilesOK
<1>5. /\ sup' = [sup EXCEPT ![p] = s] /\ s.pc = "finish" /\ s.out = sup[p].out
      /\ s.job = j /\ s.born = sup[p].born
  BY <1>1, BackedSupervisor DEF SaveResult, Supervisor
<1>6. StoreStep /\ RecMove /\ NoneNew
  BY <1>1, StoreMoves DEF StoreStep
<1>7. FilesMove
  BY <1>1, <1>2, <1>4 DEF FilesMove
<1>8. JobsBacked'
  <2> SUFFICES ASSUME NEW k \in Jobs PROVE JobBacked(k)'
    BY DEF JobsBacked
  <2>1. CASE k = j
    <3>1. JobBacked(j) /\ rec[j].state # "queued" /\ (sup[p].out = "cancelled" => cancelFile[j])
      BY <1>1 DEF Backed, JobsBacked, SupervisorBacked, Launched
    <3>2. Evident(j, rec[j])
      BY <1>1, <3>1 DEF JobBacked
    <3>3. rec[j].state # "completed" /\ (rec[j].state = "failed" => rec[j].safe)
          /\ (rec[j].state = "cancelled" => cancelFile[j])
      BY <1>2, <3>2, Distinct DEF Evident, Outcomes
    <3> QED BY <1>1, <1>4, <2>1, <3>1, <3>3 DEF JobBacked, Evident
  <2>2. CASE k # j
    BY <1>1, <1>4, <2>2 DEF Backed, JobsBacked, JobBacked, Evident, Present
  <2> QED BY <2>1, <2>2
<1>9. SupervisorsBacked' /\ ResultsOwned' /\ SameJobs
  <2>1. rec'[s.job].state # "queued" /\ (s.out = "cancelled" => cancelFile[s.job])
        /\ res'[s.job] = s.out
    BY <1>1, <1>4, <1>5 DEF SupervisorBacked, Launched
  <2>2. \A k \in Jobs : res'[k] # None => res[k] # None \/ (k = s.job /\ s.pc = "finish")
    BY <1>4, <1>5
  <2> HIDE DEF s
  <2> QED BY <1>1, <1>5, <1>6, <1>7, <2>1, <2>2, OneSupervisorStays
<1>10. CallsBacked' /\ Fenced'
  BY <1>1, <1>6, <1>7, NoCallStays, FenceStays
<1> QED BY <1>6, <1>8, <1>9, <1>10, UpdateContract DEF Good, Backed

LEMMA FinishGood == ASSUME Inv, Inv', Backed, NEW p \in Pids, Finish(p) PROVE Good
<1> DEFINE j == sup[p].job
           o == sup[p].out
           r == IF IsTerminal(j) THEN rec[j] ELSE Settle(rec[j], o)
           s == [sup[p] EXCEPT !.pc = "gone", !.out = None]
<1>1. /\ sup[p].pc = "finish" /\ Used(p) /\ UNCHANGED <<res, cancelFile, th>>
      /\ j \in Jobs /\ Present(j) /\ o \in Outcomes
      /\ res[j] = o /\ (o = "cancelled" => cancelFile[j])
  BY BackedSupervisor DEF Finish, Used, SupervisorOK, SupervisorBacked, files
<1>2. /\ sup' = [sup EXCEPT ![p] = s] /\ s.pc = "gone" /\ s.out = None
      /\ s.job = j /\ s.born = sup[p].born
  BY <1>1, BackedSupervisor DEF Finish, Supervisor
<1>3. StoreStep
  <2>1. CASE NoWrite
    BY <2>1, NoWriteStep
  <2>2. ASSUME Accepts(j, FinalState(o)), NEW torn \in Torn, Persist(j, r, torn)
        PROVE  StoreStep
    <3>1. Legal(j, r)
      BY <1>1, <2>2, SettleOrKeep DEF Accepts, IsTerminal
    <3> QED BY <1>1, <2>2, <3>1, PersistStep
  <2> QED BY <2>1, <2>2 DEF Finish
<1>4. s.out # "cancelled" /\ s.pc \notin Launched
  BY <1>2, Distinct DEF Outcomes, Launched
<1> HIDE DEF s
<1> QED BY <1>1, <1>2, <1>3, <1>4, SupervisorGood

LEMMA OrphanExitGood == ASSUME Inv, Inv', Backed, NEW p \in Pids, OrphanExit(p) PROVE Good
<1> DEFINE s == [sup[p] EXCEPT !.pc = "gone"]
<1>1. /\ Used(p) /\ StoreStep /\ UNCHANGED <<res, cancelFile, th>>
      /\ sup' = [sup EXCEPT ![p] = s]
  BY DEF OrphanExit, Used, store, files, StoreStep
<1>2. /\ s.pc = "gone" /\ s.job = sup[p].job /\ s.born = sup[p].born /\ s.out = sup[p].out
  BY <1>1, BackedSupervisor DEF Supervisor
<1>3. (s.out = "cancelled" => cancelFile[s.job]) /\ s.pc \notin Launched
  BY <1>1, <1>2, BackedSupervisor DEF SupervisorBacked, Used, Launched
<1> HIDE DEF s
<1> QED BY <1>1, <1>2, <1>3, SupervisorGood

LEMMA CallCrashGood == ASSUME Inv, Inv', Backed, NEW t \in Procs, CallCrash(t) PROVE Good
<1>1. StoreStep /\ UNCHANGED <<res, cancelFile, sup>> /\ Goto(t, Dead(t)) /\ Quiet(Dead(t))
  BY DeadQuiet DEF CallCrash, files, StoreStep
<1> QED BY <1>1, ServiceGood

LEMMA SupervisorCrashGood ==
    ASSUME Inv, Inv', Backed, NEW p \in Pids, SupervisorCrash(p) PROVE Good
<1> DEFINE s == [sup[p] EXCEPT !.pc = IF sup[p].pc = "run" THEN "orphan" ELSE "gone", !.out = None]
<1>1. /\ Used(p) /\ StoreStep /\ UNCHANGED <<rec, res, cancelFile, th>>
      /\ sup' = [sup EXCEPT ![p] = s]
  BY DEF SupervisorCrash, PidAlive, Used, files, StoreStep
<1>2. /\ s.pc \in {"gone", "orphan"} /\ s.job = sup[p].job /\ s.born = sup[p].born /\ s.out = None
      /\ s.pc = "orphan" <=> sup[p].pc = "run"
  BY <1>1, BackedSupervisor DEF Supervisor
<1>3. s.out # "cancelled"
  BY <1>2, Distinct DEF Outcomes
<1>4. s.pc \in Launched => rec'[s.job].state # "queued"
  BY <1>1, <1>2, BackedSupervisor DEF SupervisorBacked, Used, Launched
<1>5. Saved(p) => s.pc = "gone"
  BY <1>2 DEF Saved
<1> HIDE DEF s
<1> QED BY <1>1, <1>2, <1>3, <1>4, <1>5, SupervisorGood

-----------------------------------------------------------------------------
\* The theorems about jobs that retention spared

LEMMA InitBacked == Init => Backed /\ Contract!Init
<1> SUFFICES ASSUME Init PROVE Backed /\ Contract!Init
  OBVIOUS
<1>1. JobsBacked /\ ResultsOwned /\ Fenced
  BY DEF Init, JobsBacked, JobBacked, ResultsOwned, ResultOwned, Fenced, Present
<1>2. CallsBacked
  <2>1. \A p \in Resting : Quiet(At(p))
    BY AtQuiet DEF Resting, CancelPcs, RetryPcs
  <2>2. \A t \in Procs : Quiet(th[t])
    BY <2>1 DEF Init, Resting
  <2> QED BY <2>2 DEF CallsBacked, CallBacked, Quiet, CancelPcs, RetryPcs
<1>3. SupervisorsBacked
  BY DEF Init, SupervisorsBacked, SupervisorBacked, Unused
<1>4. Contract!Init
  BY DEF Init, Contract!Init, Present
<1> QED BY <1>1, <1>2, <1>3, <1>4 DEF Backed

LEMMA StepGood == Inv /\ Inv' /\ Backed /\ prunes = 0 /\ prunes' = 0 /\ [Next]_vars => Good
<1> SUFFICES ASSUME Inv, Inv', Backed, prunes = 0, prunes' = 0, [Next]_vars PROVE Good
  OBVIOUS
<1>1. ASSUME NEW t \in Callers, Begin(t) PROVE Good
  BY <1>1, BeginGood
<1>2. ASSUME NEW t \in Procs, Service(t) PROVE Good
  <2>1. CASE Submission(t)
    BY <2>1, ClaimGood, SpawnGood, RecordPidGood DEF Submission
  <2>2. CASE Reconciliation(t)
    BY <2>2, ReconcileGetGood, ReconcileResultGood, ReconcileJudgeGood, ReconcileSettleGood
    DEF Reconciliation
  <2>3. CASE Retrying(t)
    BY <2>3, ClaimRetryGood, LookupGood, MarkSpawnedGood DEF Retrying
  <2>4. CASE Cancelling(t)
    BY <2>4, CancelGetGood, CancelFileGood, CancelKillGood, CancelMarkGood DEF Cancelling
  <2> QED BY <1>2, <2>1, <2>2, <2>3, <2>4 DEF Service
<1>3. ASSUME NEW t \in Procs, CallCrash(t) PROVE Good
  BY <1>3, CallCrashGood
<1>4. CASE Sweeping
  BY <1>4, RepairGood, RetainGood, ListGood, BookGood, MarkGood, RestartGood, VisitGood
  DEF Sweeping
<1>5. ASSUME NEW p \in Pids, Monitoring(p) PROVE Good
  BY <1>5, BootGood, StartGood, LaunchGood, TerminateGood, BeatGood, SaveResultGood, FinishGood
  DEF Monitoring
<1>6. ASSUME NEW p \in Pids, ChildEnds(p) PROVE Good
  BY <1>6, TerminateGood, OrphanExitGood DEF ChildEnds
<1>7. ASSUME NEW p \in Pids, SupervisorCrash(p) PROVE Good
  BY <1>7, SupervisorCrashGood
<1>8. CASE UNCHANGED vars
  BY <1>8, IdleGood DEF vars, StoreStep
<1> QED BY <1>1, <1>2, <1>3, <1>4, <1>5, <1>6, <1>7, <1>8 DEF Next

\* What is pruned stays counted.
LEMMA PrunesGrow == Inv /\ [Next]_vars => (prunes' = 0 => prunes = 0)
<1> SUFFICES ASSUME Inv, [Next]_vars, prunes' = 0 PROVE prunes = 0
  OBVIOUS
<1>1. CASE UNCHANGED prunes
  BY <1>1
<1>2. CASE Retain
  <2>1. PICK P \in SUBSET Prunable : prunes' = prunes + Cardinality(P)
    BY <1>2 DEF Retain
  <2>2. Cardinality(P) \in Nat /\ prunes \in Nat
    BY Distinct, FS_Subset, FS_CardinalityType DEF Prunable, Inv, TypeInv, CountersOK
  <2> QED BY <2>1, <2>2
<1>3. ASSUME NEW t \in Procs, Service(t) PROVE UNCHANGED prunes
  BY <1>3 DEF Service, Submission, Reconciliation, Retrying, Cancelling, Claim, Spawn, RecordPid,
     ReconcileGet, ReconcileResult, ReconcileJudge, ReconcileSettle, ClaimRetry, Lookup,
     MarkSpawned, CancelGet, CancelFile, CancelKill, CancelMark, counters
<1>4. ASSUME NEW p \in Pids, Monitoring(p) \/ ChildEnds(p) \/ SupervisorCrash(p)
      PROVE  UNCHANGED prunes
  BY <1>4 DEF Monitoring, ChildEnds, SupervisorCrash, Boot, Start, Launch, SeeCancel, TimeOut,
     Beat, ChildExit, SaveResult, Finish, OrphanExit, counters
<1>5. ASSUME Sweeping PROVE Retain \/ UNCHANGED prunes
  BY <1>5 DEF Sweeping, Repair, List, Visit, Book, Mark, Restart, counters
<1>6. ASSUME NEW t, Begin(t) \/ CallCrash(t) PROVE UNCHANGED prunes
  BY <1>6 DEF Begin, CallCrash, counters
<1> QED BY <1>1, <1>2, <1>3, <1>4, <1>5, <1>6 DEF Next, vars

LEMMA UnprunedInvariance == Spec => []UnprunedInv
<1>1. Init => UnprunedInv
  BY InitBacked DEF UnprunedInv
<1>2. Inv /\ Inv' /\ UnprunedInv /\ [Next]_vars => UnprunedInv'
  BY StepGood, PrunesGrow DEF UnprunedInv, Good
<1> QED BY <1>1, <1>2, Invariance, PTL DEF Spec

\* Whoever settles a record, the supervisor, a reconcile, a cancel or the sweep,
\* and whatever it knew when it decided, its state rests on what is on disk: the
\* result, the cancel request, or the verdict that nothing was started.  Until
\* retention has pruned a job, whose id may then be claimed again.
THEOREM EvidenceFound == Spec => [](prunes = 0 => OutcomeHasEvidence)
<1>1. Inv /\ UnprunedInv => (prunes = 0 => OutcomeHasEvidence)
  <2> SUFFICES ASSUME Backed, NEW j \in Jobs, IsTerminal(j)
               PROVE  CASE rec[j].state = "completed" -> res[j] = "success"
                        [] rec[j].state = "failed" -> rec[j].safe \/ res[j] = "failure"
                        [] rec[j].state = "cancelled" -> cancelFile[j]
    BY DEF OutcomeHasEvidence, UnprunedInv
  <2>1. Evident(j, rec[j]) /\ rec[j].state \in Terminal
    BY DEF Backed, JobsBacked, JobBacked, IsTerminal
  <2> QED BY <2>1 DEF Evident, Terminal
<1> QED BY <1>1, Invariance, UnprunedInvariance, PTL

\* Children of a job and of its retry's successor are alive together only after
\* a cancel request for the first or the verdict that it never started: the
\* retry's claim found it settled, and a result would mean that its supervisor
\* had seen its child end.
THEOREM RetryFence == Spec => [](prunes = 0 => OverlapNeedsCancel)
<1>1. Inv /\ UnprunedInv => (prunes = 0 => OverlapNeedsCancel)
  <2> SUFFICES ASSUME Inv, Backed, NEW p \in Pids, NEW q \in Pids, NEW r \in Requests,
                      ChildAlive(p), ChildAlive(q), sup[q].job = SuccessorOf(sup[p].job, r)
               PROVE  Present(sup[p].job) /\ (cancelFile[sup[p].job] \/ rec[sup[p].job].safe)
    BY DEF OverlapNeedsCancel, UnprunedInv
  <2>1. Used(p) /\ Used(q) /\ ~Saved(p)
    BY DEF ChildAlive, Used, Saved
  <2>2. IsTerminal(sup[p].job)
    BY <2>1, BackedSupervisor DEF Backed, Fenced
  <2>3. Evident(sup[p].job, rec[sup[p].job]) /\ res[sup[p].job] = None
    BY <2>1, <2>2, BackedSupervisor, NoResultYet DEF Backed, JobsBacked, JobBacked
  <2> QED BY <2>2, <2>3, Distinct DEF Evident, IsTerminal, Terminal, Outcomes
<1> QED BY <1>1, Invariance, UnprunedInvariance, PTL

\* As long as retention prunes nothing the runtime implements its contract: each
\* step of each process is one creation, one launch, one move along the table or
\* one intent, or leaves the clients' view alone.
THEOREM ContractKept == Spec /\ [](prunes = 0) => ImplementsContract
<1>1. Init => Contract!Init
  BY InitBacked
<1>2. Inv /\ Inv' /\ UnprunedInv /\ prunes = 0 /\ (prunes = 0)' /\ [Next]_vars
      => [Contract!Next]_(Contract!vars)
  BY StepGood DEF UnprunedInv, Good, ContractStep
<1> QED BY <1>1, <1>2, Invariance, UnprunedInvariance, PTL DEF Spec, ImplementsContract, Contract!Spec
=============================================================================
