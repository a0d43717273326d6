---------------------------- MODULE IncidentStore -----------------------------
(* incidents/store.py: families, candidates and recovery attempts live in one *)
(* index file; a transaction journals its intent, rewrites its side files and *)
(* replaces the index, all under a file lock that a death releases.  Whoever  *)
(* takes the lock next first settles the intents it finds.  The index may be  *)
(* damaged from outside: whoever loads it then, lock or no lock, moves it out *)
(* of the way and writes a fence that only the owner removes.                 *)
EXTENDS Naturals, FiniteSets

CONSTANTS Procs,        \* processes (daemon, CLI, tests) with the store open
          Attempts,     \* recovery-attempts/<id>.json
          Candidates,   \* candidates/<id>/regression_candidate.json
          MaxTxns,      \* bound: transactions that change something
          MaxDeaths,    \* bound: processes that die, or writes that fail
          MaxBlinks,    \* bound: reads of the index that fail for a moment
          MaxDamage,    \* bound: damage to the index or an intent from outside
          MaxIntents,   \* max_journal_intents
          None

ASSUME BoundsAreNat == {MaxTxns, MaxDeaths, MaxBlinks, MaxDamage, MaxIntents} \subseteq Nat

Txns  == 1..MaxTxns
Files == Txns \cup Attempts \cup Candidates   \* packets/<id>.json: named by its transaction
Torn  == 0                                    \* neither the old bytes nor the new

\* Side files of different kinds lie in different directories.
ASSUME NamesAssumption == /\ Txns \cap (Attempts \cup Candidates) = {}
                          /\ None \notin Procs /\ None \notin Txns

Indexes == [st : {"ok", "absent", "corrupt"}, rev : Nat, last : Txns \cup {None},
            refs : [Files -> Txns \cup {None}]]
Intents == [txn : Txns, prior : Nat, files : SUBSET Files, index : Indexes, readable : BOOLEAN]

VARIABLES index,     \* index.json
          fence,     \* corruption-fence.json exists
          journal,   \* journal/<txn>.json
          disk,      \* each side file: the transaction whose bytes it holds
          orphans,   \* what was moved to orphans/
          holder,    \* who holds incidents.lock
          proc,      \* what each process is doing
          used,      \* transactions begun
          faults,    \* how often each kind of trouble has happened
          done, acked,  \* history: transactions that took effect, that returned so
          lost       \* history: transactions begun when the index was last removed

store == <<index, fence, journal, disk, orphans>>
past  == <<done, acked, lost>>
vars  == <<store, holder, proc, used, faults, past>>

Idle  == [pc |-> "idle", live |-> None, todo |-> {}, cur |-> None, left |-> {}, back |-> "idle"]
_empty_index == [st |-> "absent", rev |-> 0, last |-> None, refs |-> [f \in Files |-> None]]

Init ==
    /\ index = _empty_index /\ fence = FALSE /\ journal = {}
    /\ disk = [f \in Files |-> None] /\ orphans = {}
    /\ holder = None /\ proc = [p \in Procs |-> Idle] /\ used = 0
    /\ faults = [deaths |-> 0, blinks |-> 0, damage |-> 0]
    /\ done = {} /\ acked = {} /\ lost = 0

At(p, pc)    == proc[p].pc = pc
Goes(p, r)   == proc' = [proc EXCEPT ![p] = r]
Moves(p, pc) == Goes(p, [proc[p] EXCEPT !.pc = pc])
Returns(p)   == Goes(p, Idle) /\ holder' = IF holder = p THEN None ELSE holder

Healthy == ~fence /\ index.st # "corrupt"
Blink   == /\ faults.blinks < MaxBlinks /\ index.st # "absent"
           /\ faults' = [faults EXCEPT !.blinks = @ + 1]

--------------------------------------------------------------------------------
(* Settling what a dead process left behind. *)

\* mutant: the lock is not waited for
AcquireAnyway(p) ==
    /\ At(p, "idle") /\ holder' = p
    /\ Goes(p, [Idle EXCEPT !.todo = journal, !.pc = IF journal = {} THEN "load" ELSE "reconcile"])
    /\ UNCHANGED <<store, used, faults, past>>
\* mutant: a transaction does not settle what it finds
AcquireUnsettled(p) ==
    /\ At(p, "idle") /\ holder = None /\ holder' = p
    /\ Goes(p, [Idle EXCEPT !.pc = "load"])
    /\ UNCHANGED <<store, used, faults, past>>

\* execute_txn takes the lock; reconcile_journal lists the intents before it loads.
Acquire(p) ==
    /\ At(p, "idle") /\ holder = None /\ holder' = p
    /\ Goes(p, [Idle EXCEPT !.todo = journal, !.pc = IF journal = {} THEN "load" ELSE "reconcile"])
    /\ UNCHANGED <<store, used, faults, past>>

\* reconcile_journal's load: a degraded index leaves the intents for another time.
ReconcileLoad(p) ==
    /\ At(p, "reconcile")
    /\ \/ fence /\ Moves(p, "load") /\ UNCHANGED faults
       \/ ~fence /\ Blink /\ Moves(p, "load")
       \/ /\ ~fence /\ index.st = "corrupt" /\ UNCHANGED faults
          /\ Goes(p, [proc[p] EXCEPT !.pc = "unlink", !.back = "load"])
       \/ /\ Healthy /\ UNCHANGED faults
          /\ Goes(p, [proc[p] EXCEPT !.pc = "settle", !.live = index])
    /\ UNCHANGED <<store, holder, used, past>>

\* The index of a committed row names the packet and the candidate; nothing in it
\* spells the path of a recovery attempt.
AttemptsOnly(idx, f) == f \in Attempts /\ idx.refs[f] # None   \* mutant: tells the wrong files apart
_is_referenced_by_index(idx, f) == f \in Txns \cup Candidates /\ idx.refs[f] # None

\* Only an intent made on the live revision may still be applied.
OnTopOrLater(live, i) == live.rev >= i.prior      \* mutant: an overtaken intent is applied
OnTop(live, i) == live.rev = i.prior

Verified(i) == \A f \in i.files : disk[f] = i.txn

Drop(p, i) == /\ journal' = journal \ {i}
              /\ Goes(p, [proc[p] EXCEPT !.pc = "settle", !.todo = @ \ {i}, !.cur = None])

ToOrphans(p, i, F) == Goes(p, [proc[p] EXCEPT !.pc = "orphan", !.cur = i, !.left = F])

\* One intent of reconcile_journal's loop; names are random, so any order.
Settle(p) ==
    /\ At(p, "settle")
    /\ \E i \in proc[p].todo :
         LET live == proc[p].live IN
         \/ /\ ~i.readable \/ live.last = i.txn
            /\ Drop(p, i) /\ UNCHANGED <<index, done>>
         \/ /\ i.readable /\ live.last # i.txn /\ OnTop(live, i) /\ Verified(i)
            /\ index' = i.index /\ done' = done \cup {i.txn}
            /\ Goes(p, [proc[p] EXCEPT !.pc = "reapplied", !.cur = i, !.live = i.index])
            /\ UNCHANGED journal
         \/ /\ i.readable /\ live.last # i.txn /\ OnTop(live, i) /\ ~Verified(i)
            /\ ToOrphans(p, i, i.files) /\ UNCHANGED <<index, journal, done>>
         \/ /\ i.readable /\ live.last # i.txn /\ ~OnTop(live, i)
            /\ ToOrphans(p, i, {f \in i.files : ~_is_referenced_by_index(live, f)})
            /\ UNCHANGED <<index, journal, done>>
    /\ UNCHANGED <<fence, disk, orphans, holder, used, faults, acked, lost>>

SettledAll(p) ==
    /\ At(p, "settle") /\ proc[p].todo = {} /\ Moves(p, "load")
    /\ UNCHANGED <<store, holder, used, faults, past>>

\* The index is replaced; only then is the intent removed.
Reapplied(p) ==
    /\ At(p, "reapplied") /\ Drop(p, proc[p].cur)
    /\ UNCHANGED <<index, fence, disk, orphans, holder, used, faults, past>>

Orphan(p) ==
    /\ At(p, "orphan")
    /\ \/ \E f \in proc[p].left :
            /\ orphans' = orphans \cup (IF disk[f] = None THEN {} ELSE {<<f, disk[f]>>})
            /\ disk' = [disk EXCEPT ![f] = None]
            /\ Goes(p, [proc[p] EXCEPT !.left = @ \ {f}])
            /\ UNCHANGED journal
       \/ /\ proc[p].left = {} /\ Drop(p, proc[p].cur)
          /\ UNCHANGED <<disk, orphans>>
    /\ UNCHANGED <<index, fence, holder, used, faults, past>>

--------------------------------------------------------------------------------
(* A transaction of one's own. *)

\* What the mutators write: nothing but the index (compaction, a known family),
\* a new packet, a packet with its candidate, or one record under its own name.
Payloads(t) == {{}, {t}} \cup {{t, c} : c \in Candidates} \cup {{r} : r \in Attempts \cup Candidates}

\* The intent a mutator's result is journalled as.
Intent(t, F) ==
    [txn |-> t, prior |-> index.rev, files |-> F, readable |-> TRUE,
     index |-> [st |-> "ok", rev |-> index.rev + 1, last |-> t,
                refs |-> [f \in Files |-> IF f \in F THEN t ELSE index.refs[f]]]]

\* Full journal, fence, unreadable index, or a mutator that refuses or changes nothing.
Declines(p) ==
    /\ At(p, "load")
    /\ (~fence /\ Blink) \/ ((fence \/ index.st # "corrupt") /\ UNCHANGED faults)
    /\ Returns(p)
    /\ UNCHANGED <<store, used, past>>

Journals(p) ==
    /\ At(p, "load") /\ Healthy /\ Cardinality(journal) < MaxIntents /\ used < MaxTxns
    /\ used' = used + 1
    /\ \E F \in Payloads(used') :
         LET i == Intent(used', F) IN
         /\ journal' = journal \cup {i}
         /\ Goes(p, [proc[p] EXCEPT !.pc = "write", !.cur = i, !.left = F])
    /\ UNCHANGED <<index, fence, disk, orphans, holder, faults, past>>

\* Side files are rewritten in place.
WriteSide(p) ==
    /\ At(p, "write")
    /\ \E f \in proc[p].left :
         /\ disk' = [disk EXCEPT ![f] = proc[p].cur.txn]
         /\ Goes(p, [proc[p] EXCEPT !.left = @ \ {f}])
    /\ UNCHANGED <<index, fence, journal, orphans, holder, used, faults, past>>

\* os.replace of the index: the transaction has taken effect.
Replaces(p) ==
    /\ At(p, "write") /\ proc[p].left = {}
    /\ index' = proc[p].cur.index /\ done' = done \cup {proc[p].cur.txn}
    /\ Moves(p, "committed")
    /\ UNCHANGED <<fence, journal, disk, orphans, holder, used, faults, acked, lost>>

Acks(p) ==
    /\ At(p, "committed")
    /\ journal' = journal \ {proc[p].cur}
    /\ acked' = acked \cup {proc[p].cur.txn}
    /\ Returns(p)
    /\ UNCHANGED <<index, fence, disk, orphans, used, faults, done, lost>>

--------------------------------------------------------------------------------
(* Damage, quarantine and the owner. *)

Damage ==
    /\ faults.damage < MaxDamage
    /\ faults' = [faults EXCEPT !.damage = @ + 1]
    /\ \/ /\ index.st = "ok" /\ index' = [index EXCEPT !.st = "corrupt"]
          /\ UNCHANGED journal
       \/ /\ \E i \in journal :
               i.readable /\ journal' = (journal \ {i}) \cup {[i EXCEPT !.readable = FALSE]}
          /\ holder = None /\ UNCHANGED index
    /\ UNCHANGED <<fence, disk, orphans, holder, proc, used, past>>

\* Anybody who opens the store loads the index, without the lock.
Read(p) ==
    /\ At(p, "idle") /\ ~fence /\ index.st = "corrupt"
    /\ Goes(p, [Idle EXCEPT !.pc = "unlink"])
    /\ UNCHANGED <<store, holder, used, faults, past>>

\* execute_txn's own load.
CorruptLoad(p) ==
    /\ At(p, "load") /\ ~fence /\ index.st = "corrupt"
    /\ Goes(p, [proc[p] EXCEPT !.pc = "unlink", !.back = "idle"])
    /\ UNCHANGED <<store, holder, used, faults, past>>

\* _quarantine_index, after it has kept the text: first the index goes,
Unlink(p) ==
    /\ At(p, "unlink") /\ index' = _empty_index /\ lost' = used /\ Moves(p, "fence")
    /\ UNCHANGED <<fence, journal, disk, orphans, holder, used, faults, done, acked>>

\* then the fence is written, or cannot be, which is not reported.
Fence(p) ==
    /\ At(p, "fence")
    /\ \/ fence' = TRUE /\ UNCHANGED faults
       \/ /\ faults.deaths < MaxDeaths /\ UNCHANGED fence
          /\ faults' = [faults EXCEPT !.deaths = @ + 1]
    /\ IF proc[p].back = "idle" THEN Returns(p) ELSE Moves(p, "load") /\ UNCHANGED holder
    /\ UNCHANGED <<index, journal, disk, orphans, used, past>>

\* The owner has looked at the quarantined index and removes the fence.
OwnerClears ==
    /\ fence /\ fence' = FALSE
    /\ UNCHANGED <<index, journal, disk, orphans, holder, proc, used, faults, past>>

\* A death, or an exception out of any of the calls: the lock is released; a side
\* file being rewritten may be torn.
Dies(p) ==
    /\ proc[p].pc # "idle" /\ faults.deaths < MaxDeaths
    /\ faults' = [faults EXCEPT !.deaths = @ + 1]
    /\ Returns(p)
    /\ \/ UNCHANGED disk
       \/ At(p, "write") /\ \E f \in proc[p].left : disk' = [disk EXCEPT ![f] = Torn]
    /\ UNCHANGED <<index, fence, journal, orphans, used, past>>

Step(p) == \/ ReconcileLoad(p) \/ Settle(p) \/ SettledAll(p) \/ Reapplied(p) \/ Orphan(p)
           \/ Declines(p) \/ Journals(p) \/ WriteSide(p) \/ Replaces(p) \/ Acks(p)
           \/ CorruptLoad(p) \/ Unlink(p) \/ Fence(p)

Next == Damage \/ OwnerClears \/ \E p \in Procs : Acquire(p) \/ Step(p) \/ Read(p) \/ Dies(p)

\* A process inside a call keeps running, and the store keeps being called.
Fairness == WF_vars(\E p \in Procs : Acquire(p)) /\ \A p \in Procs : WF_vars(Step(p))

Spec     == Init /\ [][Next]_vars
FairSpec == Spec /\ Fairness

--------------------------------------------------------------------------------
(* Properties *)

\* The types of the variables; a process in the middle of a transaction of its own
\* holds the lock and its intent is in the journal (execute_txn).
TypeOK ==
    /\ index \in Indexes /\ fence \in BOOLEAN /\ \A i \in journal : i \in Intents
    /\ disk \in [Files -> Txns \cup {None, Torn}]
    /\ orphans \subseteq Files \X (Txns \cup {Torn})
    /\ holder \in Procs \cup {None} /\ used \in 0..MaxTxns
    /\ \A p \in Procs : proc[p].pc \in {"write", "committed"} =>
                          holder = p /\ \E i \in journal : i.txn = proc[p].cur.txn

\* A packet that the index names is on disk, whole: whatever a crash, a retry or a
\* superseded intent makes reconcile_journal move to orphans/ (store.py:317-349).  Only
\* packets of before the index was removed are excepted: their intents are still in the
\* journal, and the revisions of the new index start over at zero.
PacketKept == \A t \in Txns : t > lost /\ index.refs[t] # None => disk[t] = t

\* Until it is removed, the index is one line of revisions: each transaction takes
\* effect whole, at most once and on the revision before it, also when it is a dead
\* process's intent that somebody else applies; what was acknowledged stays.
Contract == INSTANCE IncidentContract WITH
    head <- [rev |-> index.rev, last |-> index.last, refs |-> index.refs], hurt <- lost > 0
OneLineOfRevisions == Contract!Spec

\* What a dead process left in the journal is settled, or the store is fenced.
IntentSettles == \A t \in Txns : (\E i \in journal : i.txn = t) ~> (fence \/ ~\E i \in journal : i.txn = t)

===============================================================================
