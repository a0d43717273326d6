----------------------------- MODULE WriteStaging -----------------------------
(***************************************************************************)
(* Staged content and compare-and-swap file writes                         *)
(* (src/dev_orchestrator/transport/write_store.py): clients upload content *)
(* by its digest, apply a write under the lock of its target path, replay  *)
(* or reconcile a write whose process died, while a collector removes      *)
(* expired content and other programs edit the same files.                 *)
(*                                                                         *)
(* Contents stand for their digests.  What one call reads and writes of    *)
(* different files in a row is split where another process can tell.       *)
(***************************************************************************)
EXTENDS Integers

CONSTANTS
    Clients,    \* processes that call apply_file_write and reconcile_file_write
    Keys,       \* idempotency keys of one project
    Paths,      \* canonical target paths
    Contents,   \* file contents, by digest
    Requests,   \* the write requests the clients make
    None,       \* Python's None, an absent file or an absent intent
    MaxCalls,   \* bound: calls of the clients
    MaxCrashes, \* bound: deaths of a client within a call
    MaxEdits    \* bound: edits of the files by other programs

\* A request to put content at path; pre is expected_sha256, None for if_absent.
Request == [key : Keys, path : Paths, content : Contents, pre : Contents \cup {None}]

States == {"claimed", "applied", "failed", "ambiguous_requires_human"}

\* write-intents/<write_id>.json; its pre_digest is the request's precondition,
\* which held when the intent was claimed.
Intent == [req : Request, state : States]

ASSUME WritesAssumption ==
    /\ Requests \subseteq Request
    /\ None \notin Clients /\ None \notin Contents /\ None \notin Intent
    /\ MaxCalls \in Nat /\ MaxCrashes \in Nat /\ MaxEdits \in Nat

\* A call waits for the lock of its path, then goes through its steps.
Unlocked == {"idle", "lock"}
WriteSteps == {"intent", "resume", "staged", "claim", "replace", "verify"}
ReconcileSteps == {"read", "settle"}
Call == [pc : Unlocked \cup WriteSteps \cup ReconcileSteps, op : {"write", "reconcile", None},
         req : Requests \cup {None}, seen : Intent \cup {None}]
Idle == [pc |-> "idle", op |-> None, req |-> None, seen |-> None]

VARIABLES
    file,    \* content of each target path, None when absent
    blob,    \* staged content: "none", "fresh" or "expired"
    intent,  \* the intent recorded for each key, None when absent
    lock,    \* holder of the lock of each path
    call,    \* the call each client is in
    refs,    \* contents the collector found referenced, None when it does not run
    swaps,   \* how often each key's content was put at its path
    calls, crashes, edits

disk == <<file, blob, intent, swaps>>
bounds == <<calls, crashes, edits>>
vars == <<file, blob, intent, lock, call, refs, swaps, calls, crashes, edits>>

TypeOK ==
    /\ file \in [Paths -> Contents \cup {None}]
    /\ blob \in [Contents -> {"none", "fresh", "expired"}]
    /\ intent \in [Keys -> Intent \cup {None}]
    /\ lock \in [Paths -> Clients \cup {None}]
    /\ call \in [Clients -> Call]
    /\ refs \in (SUBSET Contents) \cup {None}
    /\ swaps \in [Keys -> Nat]
    /\ calls \in Nat /\ crashes \in Nat /\ edits \in Nat

Init ==
    /\ file \in [Paths -> Contents \cup {None}]
    /\ blob = [d \in Contents |-> "none"]
    /\ intent = [k \in Keys |-> None]
    /\ lock = [p \in Paths |-> None]
    /\ call = [c \in Clients |-> Idle]
    /\ refs = None
    /\ swaps = [k \in Keys |-> 0]
    /\ calls = 0 /\ crashes = 0 /\ edits = 0

-----------------------------------------------------------------------------
\* Helpers

Goto(c, pc) == call' = [call EXCEPT ![c].pc = pc]
See(c, pc, i) == call' = [call EXCEPT ![c].pc = pc, ![c].seen = i]

\* A call that returns or raises leaves the lock.
Return(c) ==
    /\ call' = [call EXCEPT ![c] = Idle]
    /\ lock' = [lock EXCEPT ![call[c].req.path] = None]

\* The intent file is replaced as a whole.
Record(r, s) == intent' = [intent EXCEPT ![r.key] = [req |-> r, state |-> s]]

-----------------------------------------------------------------------------
\* A client calls apply_file_write, or reconcile_file_write for a key that has an
\* intent, whose path it reads without the lock.
Begin(c) ==
    /\ call[c].pc = "idle"
    /\ calls < MaxCalls /\ calls' = calls + 1
    /\ \/ \E r \in Requests :
             call' = [call EXCEPT ![c] = [pc |-> "lock", op |-> "write", req |-> r, seen |-> None]]
       \/ \E k \in Keys :
             /\ intent[k] # None
             /\ call' = [call EXCEPT ![c] = [pc |-> "lock", op |-> "reconcile",
                                             req |-> intent[k].req, seen |-> intent[k]]]
    /\ UNCHANGED <<disk, lock, refs, crashes, edits>>

Acquire(c) ==
    LET p == call[c].req.path IN
    /\ call[c].pc = "lock"
    /\ lock[p] = None
    /\ lock' = [lock EXCEPT ![p] = c]
    /\ Goto(c, IF call[c].op = "write" THEN "intent" ELSE "read")
    /\ UNCHANGED <<disk, refs, bounds>>

\* InterProcessFileLock raises when the lock is not free for too long.
LockTimesOut(c) ==
    /\ call[c].pc = "lock" /\ lock[call[c].req.path] # None
    /\ call' = [call EXCEPT ![c] = Idle]
    /\ UNCHANGED <<disk, lock, refs, bounds>>

\* Mutants: a claimed intent is written again as if it were not there; a
\* recorded result is not looked at.
ClaimsAnew(c) ==
    LET i == intent[call[c].req.key] IN
    /\ call[c].pc = "intent"
    /\ IF i = None \/ i = [req |-> call[c].req, state |-> "claimed"]
       THEN Goto(c, "staged") /\ UNCHANGED lock
       ELSE Return(c)
    /\ UNCHANGED <<disk, refs, bounds>>
ForgetsResult(c) ==
    LET i == intent[call[c].req.key] IN
    /\ call[c].pc = "intent"
    /\ \/ i = None /\ Goto(c, "staged") /\ UNCHANGED lock
       \/ i # None /\ i.req # call[c].req /\ Return(c)
       \/ i # None /\ i.req = call[c].req /\ See(c, "resume", i) /\ UNCHANGED lock
    /\ UNCHANGED <<disk, refs, bounds>>

\* The intent on record: another request under the key is a conflict, a settled
\* one is answered from the record, a claimed one is taken up again.
ReadIntent(c) ==
    LET i == intent[call[c].req.key] IN
    /\ call[c].pc = "intent"
    /\ \/ i = None /\ Goto(c, "staged") /\ UNCHANGED lock
       \/ /\ i # None /\ (i.req # call[c].req \/ i.state # "claimed")
          /\ Return(c)
       \/ /\ i # None /\ i.req = call[c].req /\ i.state = "claimed"
          /\ See(c, "resume", i) /\ UNCHANGED lock
    /\ UNCHANGED <<disk, refs, bounds>>

\* Mutant: a claimed write is repeated without a look at its target.
ResumesBlindly(c) ==
    /\ call[c].pc = "resume"
    /\ Goto(c, "staged") /\ UNCHANGED <<disk, lock, refs, bounds>>

\* A claimed write is settled by what its target holds now.
Resume(c) ==
    LET r == call[c].req  current == file[r.path] IN
    /\ call[c].pc = "resume"
    /\ \/ /\ current = r.content
          /\ Record(r, "applied") /\ Return(c)
       \/ /\ current # r.content /\ current = r.pre
          /\ Goto(c, "staged") /\ UNCHANGED <<intent, lock>>
       \/ /\ current \notin {r.content, r.pre}
          /\ Record(r, "ambiguous_requires_human") /\ Return(c)
    /\ UNCHANGED <<file, blob, swaps, refs, bounds>>

\* get_staged_bytes: without the content the call is rejected.
ReadStaged(c) ==
    /\ call[c].pc = "staged"
    /\ \/ blob[call[c].req.content] = "none" /\ Return(c)
       \/ blob[call[c].req.content] # "none" /\ Goto(c, "claim") /\ UNCHANGED lock
    /\ UNCHANGED <<disk, refs, bounds>>

\* The precondition, and the claim.  A write taken up again with a recorded
\* pre_digest does not evaluate the precondition a second time.
Claim(c) ==
    LET r == call[c].req
        recorded == call[c].seen # None /\ r.pre # None
    IN
    /\ call[c].pc = "claim"
    /\ \/ /\ recorded \/ file[r.path] = r.pre
          /\ Record(r, "claimed") /\ Goto(c, "replace") /\ UNCHANGED lock
       \/ /\ ~recorded /\ file[r.path] # r.pre
          /\ Record(r, "failed") /\ Return(c)
    /\ UNCHANGED <<file, blob, swaps, refs, bounds>>

Replace(c) ==
    LET r == call[c].req IN
    /\ call[c].pc = "replace"
    /\ file' = [file EXCEPT ![r.path] = r.content]
    /\ swaps' = [swaps EXCEPT ![r.key] = @ + 1]
    /\ Goto(c, "verify")
    /\ UNCHANGED <<blob, intent, lock, refs, bounds>>

\* The target is read back, and the outcome recorded.
Verify(c) ==
    LET r == call[c].req IN
    /\ call[c].pc = "verify"
    /\ Record(r, IF file[r.path] = r.content THEN "applied" ELSE "ambiguous_requires_human")
    /\ Return(c)
    /\ UNCHANGED <<file, blob, swaps, refs, bounds>>

-----------------------------------------------------------------------------
\* Mutant: the intent read before the lock was taken is settled.
ReadsBeforeLock(c) ==
    LET i == call[c].seen IN
    /\ call[c].pc = "read"
    /\ \/ i.state \in {"applied", "failed"} /\ Return(c)
       \/ i.state \notin {"applied", "failed"} /\ See(c, "settle", i) /\ UNCHANGED lock
    /\ UNCHANGED <<disk, refs, bounds>>

\* reconcile_file_write reads the intent again under the lock of the path it
\* named before.
ReadLocked(c) ==
    LET i == intent[call[c].req.key] IN
    /\ call[c].pc = "read"
    /\ \/ /\ i.req.path # call[c].req.path \/ i.state \in {"applied", "failed"}
          /\ Return(c)
       \/ /\ i.req.path = call[c].req.path /\ i.state \notin {"applied", "failed"}
          /\ See(c, "settle", i) /\ UNCHANGED lock
    /\ UNCHANGED <<disk, refs, bounds>>

\* A target that still holds the old content leaves the intent as it is: the
\* caller is told that it is safe to retry.
SettleIntent(c) ==
    LET r == call[c].seen.req  current == file[r.path] IN
    /\ call[c].pc = "settle"
    /\ \/ current = r.content /\ Record(r, "applied")
       \/ current # r.content /\ current = r.pre /\ UNCHANGED intent
       \/ current \notin {r.content, r.pre} /\ Record(r, "ambiguous_requires_human")
    /\ Return(c)
    /\ UNCHANGED <<file, blob, swaps, refs, bounds>>

-----------------------------------------------------------------------------
\* stage_content: content that is there is not written again, and keeps its expiry.
Stage(d) ==
    /\ blob[d] = "none"
    /\ blob' = [blob EXCEPT ![d] = "fresh"]
    /\ UNCHANGED <<file, intent, swaps, lock, call, refs, bounds>>

Expire(d) ==
    /\ blob[d] = "fresh"
    /\ blob' = [blob EXCEPT ![d] = "expired"]
    /\ UNCHANGED <<file, intent, swaps, lock, call, refs, bounds>>

\* collect_expired_staged_content: first the references of intents that are not
\* settled, then, without a lock, the expired content not among them.
Referenced == {intent[k].req.content : k \in {x \in Keys : intent[x] # None /\ intent[x].state = "claimed"}}

Scan ==
    /\ refs = None
    /\ refs' = Referenced
    /\ UNCHANGED <<disk, lock, call, bounds>>

Delete(d) ==
    /\ refs # None /\ d \notin refs /\ blob[d] = "expired"
    /\ blob' = [blob EXCEPT ![d] = "none"]
    /\ UNCHANGED <<file, intent, swaps, lock, call, refs, bounds>>

EndCollection ==
    /\ refs # None /\ refs' = None
    /\ UNCHANGED <<disk, lock, call, bounds>>

-----------------------------------------------------------------------------
\* A client dies within a call: the operating system frees its lock.
Crash(c) ==
    /\ crashes < MaxCrashes /\ crashes' = crashes + 1
    /\ call[c].pc # "idle"
    /\ IF call[c].pc = "lock" THEN call' = [call EXCEPT ![c] = Idle] /\ UNCHANGED lock
       ELSE Return(c)
    /\ UNCHANGED <<disk, refs, calls, edits>>

\* Another program writes or removes the file; it knows nothing of the locks.
Edit(p) ==
    /\ edits < MaxEdits /\ edits' = edits + 1
    /\ \E d \in Contents \cup {None} :
          d # file[p] /\ file' = [file EXCEPT ![p] = d]
    /\ UNCHANGED <<blob, intent, swaps, lock, call, refs, calls, crashes>>

Writing(c) == \/ Begin(c) \/ Acquire(c) \/ LockTimesOut(c) \/ ReadIntent(c) \/ Resume(c)
              \/ ReadStaged(c) \/ Claim(c) \/ Replace(c) \/ Verify(c)
Reconciling(c) == ReadLocked(c) \/ SettleIntent(c)
Staging == \/ Scan \/ EndCollection
           \/ \E d \in Contents : Stage(d) \/ Expire(d) \/ Delete(d)

Next == \/ \E c \in Clients : Writing(c) \/ Reconciling(c) \/ Crash(c)
        \/ Staging
        \/ \E p \in Paths : Edit(p)

Spec == Init /\ [][Next]_vars

-----------------------------------------------------------------------------
\* Safety

\* Compare and swap (apply_file_write): while only the store writes the files, a
\* write about to replace its target finds there what its request names, also
\* one that was taken up again after a death.
ComparesBeforeSwap ==
    edits = 0 => \A c \in Clients : LET r == call[c].req IN
        call[c].pc = "replace" => file[r.path] = r.pre

\* A key whose requests all name one path: the lock of that path guards its intent.
OnePath(k) == \A r, s \in Requests : r.key = k /\ s.key = k => r.path = s.path

\* A request answered as failed (apply_file_write's precondition_failed) has not
\* touched its target, whoever made it before and died.
FailedNeverWrote ==
    edits = 0 => \A k \in Keys :
        OnePath(k) /\ intent[k] # None /\ intent[k].state = "failed" => swaps[k] = 0

\* A key's content is put in place again only after a death between the replace
\* and its record: replays of apply_file_write alone never repeat it.
RewrittenAfterDeath == \A k \in Keys : OnePath(k) => swaps[k] <= 1 + crashes

\* An intent keeps its request, and once it is applied or failed its outcome,
\* against replays and against a reconcile_file_write that looked at it earlier.
OutcomeFinal ==
    [][\A k \in Keys : OnePath(k) /\ intent[k] # None =>
          /\ intent'[k].req = intent[k].req
          /\ intent[k].state \in {"applied", "failed"} => intent'[k] = intent[k]]_vars

=============================================================================
