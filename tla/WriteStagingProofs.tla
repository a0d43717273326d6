-------------------------- MODULE WriteStagingProofs --------------------------
(***************************************************************************)
(* Of compare-and-swap writes, for any clients, keys, paths, contents and  *)
(* numbers of calls, deaths and edits: a write replaces only what its      *)
(* request names, a failed one wrote nothing, an outcome stays, and a      *)
(* content is put in place again only after a death.                       *)
(*                                                                         *)
(* The lock is of the path and the intent of the key.  What a call saw of  *)
(* its target therefore lasts until it returns; what it saw of its intent  *)
(* lasts only for a key whose requests name one path.                      *)
(***************************************************************************)
EXTENDS WriteStaging, TLAPS

Busy(c)    == call[c].pc \notin Unlocked
Claimed(r) == [req |-> r, state |-> "claimed"]

\* An intent is of a request under its key.
Named == \A k \in Keys : intent[k] # None => intent[k].req \in Requests /\ intent[k].req.key = k

\* What a call has in its hands: its request, the lock of its path and, once it
\* has read it, the intent.
Holds(c) ==
    /\ call[c].pc # "idle" => call[c].req \in Requests
    /\ Busy(c) => lock[call[c].req.path] = c
    /\ call[c].pc = "intent" \/ (call[c].pc = "lock" /\ call[c].op = "write") => call[c].seen = None
    /\ call[c].pc \in {"staged", "claim"} /\ call[c].seen # None => call[c].seen = Claimed(call[c].req)
    /\ call[c].pc = "resume" => call[c].seen = Claimed(call[c].req)
    /\ call[c].pc \in {"read", "settle"} \/ (call[c].pc = "lock" /\ call[c].op # "write") =>
           /\ call[c].seen # None /\ call[c].seen.req \in Requests /\ call[c].seen.req.key = call[c].req.key
           /\ intent[call[c].req.key] # None
    /\ call[c].pc = "settle" => /\ call[c].seen.req.path = call[c].req.path
                                /\ call[c].seen.state \notin {"applied", "failed"}

\* The intent is still what the call saw or wrote.
Sees(c) ==
    call[c].pc # "idle" /\ OnePath(call[c].req.key) =>
        /\ call[c].pc \in {"staged", "claim", "resume", "settle"} => intent[call[c].req.key] = call[c].seen
        /\ call[c].pc \in {"replace", "verify"} => intent[call[c].req.key] = Claimed(call[c].req)

\* The target is still what the precondition asks for, unless another program wrote it.
Compares(c) ==
    edits = 0 =>
        /\ call[c].pc = "replace" => file[call[c].req.path] = call[c].req.pre
        /\ call[c].pc \in {"staged", "claim"} /\ call[c].seen # None => file[call[c].req.path] = call[c].req.pre

Well(c) == Holds(c) /\ Sees(c) /\ Compares(c)

\* How often a key's content was put in place, by what its intent says.
Replaced(k) == \E c \in Clients : call[c].pc = "verify" /\ call[c].req.key = k
Counts(k) ==
    OnePath(k) =>
        /\ intent[k] = None => swaps[k] = 0
        /\ swaps[k] <= 1 + crashes
        /\ intent[k] # None /\ intent[k].state = "claimed" /\ ~Replaced(k) => swaps[k] <= crashes
        /\ intent[k] # None /\ intent[k].state = "failed" /\ edits = 0 => swaps[k] = 0

IInv == TypeOK /\ Named /\ (\A c \in Clients : Well(c)) /\ (\A k \in Keys : Counts(k))

-----------------------------------------------------------------------------
(* Types. *)

LEMMA CallTypes ==
    /\ Idle \in Call
    /\ \A r \in Requests : r \in Request /\ r.path \in Paths /\ r.key \in Keys /\ r.content \in Contents
    /\ \A r \in Requests, s \in States : [req |-> r, state |-> s] \in Intent
    BY WritesAssumption DEF Idle, Call, Request, Intent, Unlocked

\* What a step does to the call it belongs to.
LEMMA Moves ==
    ASSUME TypeOK, NEW c \in Clients, NEW s \in Unlocked \cup WriteSteps \cup ReconcileSteps, Goto(c, s)
    PROVE  /\ call' \in [Clients -> Call]
           /\ \A d \in Clients : d # c => call'[d] = call[d]
           /\ call'[c].pc = s /\ call'[c].op = call[c].op /\ call'[c].req = call[c].req
           /\ call'[c].seen = call[c].seen
    BY DEF TypeOK, Goto, Call

LEMMA MovesSeeing ==
    ASSUME TypeOK, NEW c \in Clients, NEW s \in Unlocked \cup WriteSteps \cup ReconcileSteps,
           NEW i \in Intent, See(c, s, i)
    PROVE  /\ call' \in [Clients -> Call]
           /\ \A d \in Clients : d # c => call'[d] = call[d]
           /\ call'[c].pc = s /\ call'[c].op = call[c].op /\ call'[c].req = call[c].req
           /\ call'[c].seen = i
    BY DEF TypeOK, See, Call

LEMMA Returns ==
    ASSUME TypeOK, NEW c \in Clients, call[c].req \in Requests, Return(c)
    PROVE  /\ call' \in [Clients -> Call] /\ lock' \in [Paths -> Clients \cup {None}]
           /\ \A d \in Clients : d # c => call'[d] = call[d]
           /\ call'[c] = Idle
           /\ \A p \in Paths : p # call[c].req.path => lock'[p] = lock[p]
    BY CallTypes DEF TypeOK, Return

LEMMA Records ==
    ASSUME TypeOK, NEW r \in Requests, NEW s \in States, Record(r, s)
    PROVE  /\ intent' \in [Keys -> Intent \cup {None}]
           /\ \A k \in Keys : k # r.key => intent'[k] = intent[k]
           /\ intent'[r.key] = [req |-> r, state |-> s] /\ intent'[r.key] # None
    BY CallTypes, WritesAssumption DEF TypeOK, Record

LEMMA InitIInv == Init => IInv
<1> SUFFICES ASSUME Init PROVE IInv
    OBVIOUS
<1>1. TypeOK
    BY CallTypes DEF Init, TypeOK
<1>2. Named /\ (\A k \in Keys : Counts(k))
    BY WritesAssumption DEF Init, Named, Counts
<1>3. \A c \in Clients : call[c] = Idle
    BY DEF Init
<1>4. \A c \in Clients : call[c].pc = "idle"
    <2>1. Idle.pc = "idle"
        BY DEF Idle
    <2> QED BY <1>3, <2>1
<1>5. \A c \in Clients : Well(c)
    BY <1>4 DEF Well, Holds, Sees, Compares, Busy, Unlocked
<1> QED BY <1>1, <1>2, <1>5 DEF IInv

-----------------------------------------------------------------------------
(* What a step leaves alone. *)

\* Two calls that have locks work on two paths, and a key with one path on one.
LEMMA Alone ==
    ASSUME IInv, NEW c \in Clients, NEW d \in Clients, Busy(c), Busy(d),
           call[c].req.path = call[d].req.path \/ (call[c].req.key = call[d].req.key /\ OnePath(call[c].req.key))
    PROVE  c = d
<1>1. call[c].req \in Requests /\ call[d].req \in Requests
    BY DEF IInv, Well, Holds, Busy, Unlocked
<1>2. call[c].req.path = call[d].req.path
    BY <1>1 DEF OnePath
<1> QED BY <1>2 DEF IInv, Well, Holds

\* A step of a call that has the lock of a path, or takes it, disturbs no other call.
LEMMA OthersStay ==
    ASSUME IInv, NEW c \in Clients, NEW r \in Requests, lock[r.path] \in {c, None},
           \A p \in Paths : p # r.path => file'[p] = file[p] /\ lock'[p] = lock[p],
           \A k \in Keys : k # r.key => intent'[k] = intent[k],
           \A k \in Keys : intent[k] # None => intent'[k] # None,
           edits' = edits,
           NEW d \in Clients, d # c, call'[d] = call[d]
    PROVE  Well(d)'
<1>1. call[d].pc # "idle" => call[d].req \in Requests /\ call[d].req.path \in Paths /\ call[d].req.key \in Keys
    BY CallTypes DEF IInv, Well, Holds
<1>2. Busy(d) => call[d].pc # "idle" /\ call[d].req.path # r.path
    BY WritesAssumption DEF IInv, Well, Holds, Busy, Unlocked
<1>3. Holds(d)'
    BY <1>1, <1>2 DEF IInv, Well, Holds, Busy, Unlocked, Claimed
<1>4. Busy(d) /\ OnePath(call[d].req.key) => call[d].req.key # r.key
    BY <1>1, <1>2 DEF OnePath
<1>5. Sees(d)'
    BY <1>1, <1>4 DEF IInv, Well, Sees, Busy, Unlocked, Claimed, OnePath
<1>6. Compares(d)'
    BY <1>1, <1>2 DEF IInv, Well, Compares, Busy, Unlocked
<1> QED BY <1>3, <1>5, <1>6 DEF Well

\* So does a step that changes no file and no lock, whatever it does to the call of c.
LEMMA OthersUnmoved ==
    ASSUME IInv, UNCHANGED <<file, intent, lock>>, edits' = 0 => edits = 0,
           NEW d \in Clients, call'[d] = call[d]
    PROVE  Well(d)'
    BY DEF IInv, Well, Holds, Sees, Compares, Busy, Claimed, OnePath

\* A call that has returned has nothing in its hands.
LEMMA IdleWell ==
    ASSUME NEW c \in Clients, call'[c] = Idle
    PROVE  Well(c)'
<1>1. call'[c].pc = "idle"
    BY DEF Idle
<1> QED BY <1>1 DEF Well, Holds, Sees, Compares, Busy, Unlocked

\* A key whose intent and count stay keeps its count's meaning, unless a call leaves the
\* step after the replace.
LEMMA CountStays ==
    ASSUME IInv, NEW k \in Keys, swaps'[k] = swaps[k], intent'[k] = intent[k], crashes' = crashes,
           edits' = 0 => edits = 0, Replaced(k) => Replaced(k)'
    PROVE  Counts(k)'
    BY DEF IInv, Counts, OnePath

LEMMA ReplacedStays ==
    ASSUME NEW c \in Clients, NEW k \in Keys, call[c].pc # "verify" \/ call[c].req.key # k,
           \A d \in Clients : d # c => call'[d] = call[d]
    PROVE  Replaced(k) => Replaced(k)'
    BY DEF Replaced

-----------------------------------------------------------------------------
(* Steps of a call.  Each lemma says what one does to its own call and key;  *)
(* the others follow from the lemmas above.                                  *)

\* A call begins, waits no longer or gives up waiting.
LEMMA BeginKeeps ==
    ASSUME IInv, NEW c \in Clients, Begin(c)
    PROVE  IInv'
<1>1. call[c].pc = "idle" /\ UNCHANGED <<file, blob, intent, swaps, lock, refs, crashes, edits>> /\ calls' \in Nat
    BY DEF Begin, disk, IInv, TypeOK
<1> DEFINE Waiting(x) == /\ x.pc = "lock" /\ x.req \in Requests
                         /\ \/ x.op = "write" /\ x.seen = None
                            \/ /\ x.op = "reconcile" /\ x.seen # None /\ x.seen.req \in Requests
                               /\ x.seen.req.key = x.req.key /\ intent[x.req.key] # None
<1>2. PICK x \in Call : call' = [call EXCEPT ![c] = x] /\ Waiting(x)
  <2>1. ASSUME NEW r \in Requests,
               call' = [call EXCEPT ![c] = [pc |-> "lock", op |-> "write", req |-> r, seen |-> None]]
        PROVE  \E x \in Call : call' = [call EXCEPT ![c] = x] /\ Waiting(x)
    <3>1. [pc |-> "lock", op |-> "write", req |-> r, seen |-> None] \in Call
      BY DEF Call, Unlocked
    <3> QED BY <2>1, <3>1
  <2>2. ASSUME NEW k \in Keys, intent[k] # None,
               call' = [call EXCEPT ![c] = [pc |-> "lock", op |-> "reconcile",
                                            req |-> intent[k].req, seen |-> intent[k]]]
        PROVE  \E x \in Call : call' = [call EXCEPT ![c] = x] /\ Waiting(x)
    <3>1. intent[k].req \in Requests /\ intent[k].req.key = k /\ intent[k] \in Intent
      BY <2>2 DEF IInv, Named, TypeOK
    <3>2. [pc |-> "lock", op |-> "reconcile", req |-> intent[k].req, seen |-> intent[k]] \in Call
      BY <3>1 DEF Call, Unlocked
    <3> QED BY <2>2, <3>1, <3>2
  <2> QED BY <2>1, <2>2 DEF Begin
<1>3. call' \in [Clients -> Call] /\ call'[c] = x /\ \A d \in Clients : d # c => call'[d] = call[d]
    BY <1>2 DEF IInv, TypeOK
<1>4. TypeOK' /\ Named'
    BY <1>1, <1>3 DEF IInv, TypeOK, Named
<1>5. Well(c)'
    BY <1>1, <1>2, <1>3 DEF Well, Holds, Sees, Compares, Busy, Unlocked
<1>6. \A d \in Clients : Well(d)'
    BY <1>1, <1>3, <1>5, OthersUnmoved
<1>7. \A k \in Keys : Counts(k)'
  <2> TAKE k \in Keys
  <2>1. Replaced(k) => Replaced(k)'
    BY <1>1, <1>3, ReplacedStays
  <2> QED BY <1>1, <2>1, CountStays
<1> QED BY <1>4, <1>6, <1>7 DEF IInv

LEMMA AcquireKeeps ==
    ASSUME IInv, NEW c \in Clients, Acquire(c)
    PROVE  IInv'
<1> DEFINE r == call[c].req
<1>1. r \in Requests /\ r.path \in Paths /\ r.key \in Keys
    BY CallTypes DEF Acquire, IInv, Well, Holds
<1>2. /\ call[c].pc = "lock" /\ lock[r.path] = None /\ lock' = [lock EXCEPT ![r.path] = c]
      /\ UNCHANGED <<file, blob, intent, swaps, refs, calls, crashes, edits>>
    BY DEF Acquire, disk, bounds
<1>3. PICK s \in {"intent", "read"} : Goto(c, s) /\ (s = "intent") = (call[c].op = "write")
    BY DEF Acquire
<1>4. /\ call' \in [Clients -> Call] /\ \A d \in Clients : d # c => call'[d] = call[d]
      /\ call'[c].pc = s /\ call'[c].op = call[c].op /\ call'[c].req = r /\ call'[c].seen = call[c].seen
    BY <1>3, Moves DEF IInv, WriteSteps, ReconcileSteps
<1>5. TypeOK' /\ Named'
    BY <1>1, <1>2, <1>4 DEF IInv, TypeOK, Named
<1>6. lock'[r.path] = c
    BY <1>1, <1>2 DEF IInv, TypeOK
<1>7. Well(c)'
    BY <1>1, <1>2, <1>3, <1>4, <1>6 DEF IInv, Well, Holds, Sees, Compares, Busy, Unlocked
<1>8. \A d \in Clients : Well(d)'
    BY <1>1, <1>2, <1>4, <1>7, OthersStay DEF IInv, TypeOK
<1>9. \A k \in Keys : Counts(k)'
  <2> TAKE k \in Keys
  <2>1. Replaced(k) => Replaced(k)'
    BY <1>2, <1>4, ReplacedStays
  <2> QED BY <1>2, <2>1, CountStays
<1> QED BY <1>5, <1>8, <1>9 DEF IInv

LEMMA TimeoutKeeps ==
    ASSUME IInv, NEW c \in Clients, LockTimesOut(c)
    PROVE  IInv'
<1>1. call[c].pc = "lock" /\ UNCHANGED <<file, blob, intent, swaps, lock, refs, calls, crashes, edits>>
    BY DEF LockTimesOut, disk, bounds
<1>2. call' \in [Clients -> Call] /\ call'[c] = Idle /\ \A d \in Clients : d # c => call'[d] = call[d]
    BY CallTypes DEF LockTimesOut, IInv, TypeOK
<1>3. TypeOK' /\ Named'
    BY <1>1, <1>2 DEF IInv, TypeOK, Named
<1>4. \A d \in Clients : Well(d)'
    BY <1>1, <1>2, IdleWell, OthersUnmoved
<1>5. \A k \in Keys : Counts(k)'
  <2> TAKE k \in Keys
  <2>1. Replaced(k) => Replaced(k)'
    BY <1>1, <1>2, ReplacedStays
  <2> QED BY <1>1, <2>1, CountStays
<1> QED BY <1>3, <1>4, <1>5 DEF IInv

\* A call moves on and touches nothing else.
LEMMA MoveKeeps ==
    ASSUME IInv, NEW c \in Clients, call[c].pc # "verify",
           UNCHANGED <<file, blob, intent, swaps, lock, refs, calls, crashes, edits>>,
           call' \in [Clients -> Call], \A d \in Clients : d # c => call'[d] = call[d],
           Well(c)'
    PROVE  IInv'
<1>1. TypeOK' /\ Named'
    BY DEF IInv, TypeOK, Named
<1>2. \A d \in Clients : Well(d)'
    BY OthersUnmoved
<1>3. \A k \in Keys : Counts(k)'
  <2> TAKE k \in Keys
  <2>1. Replaced(k) => Replaced(k)'
    BY ReplacedStays
  <2> QED BY <2>1, CountStays
<1> QED BY <1>1, <1>2, <1>3 DEF IInv

\* A call returns and has changed nothing.
LEMMA ReturnKeeps ==
    ASSUME IInv, NEW c \in Clients, Busy(c), call[c].pc # "verify", Return(c),
           UNCHANGED <<file, blob, intent, swaps, refs, calls, crashes, edits>>
    PROVE  IInv'
<1>1. call[c].req \in Requests /\ lock[call[c].req.path] = c
    BY DEF IInv, Well, Holds, Busy, Unlocked
<1>2. /\ call' \in [Clients -> Call] /\ lock' \in [Paths -> Clients \cup {None}]
      /\ \A d \in Clients : d # c => call'[d] = call[d]
      /\ call'[c] = Idle
      /\ \A p \in Paths : p # call[c].req.path => lock'[p] = lock[p]
    BY <1>1, Returns DEF IInv
<1>3. TypeOK' /\ Named'
    BY <1>2 DEF IInv, TypeOK, Named
<1>4. \A d \in Clients : Well(d)'
    BY <1>1, <1>2, IdleWell, OthersStay
<1>5. \A k \in Keys : Counts(k)'
  <2> TAKE k \in Keys
  <2>1. Replaced(k) => Replaced(k)'
    BY <1>2, ReplacedStays
  <2> QED BY <2>1, CountStays
<1> QED BY <1>3, <1>4, <1>5 DEF IInv

\* A call records an outcome and returns.
LEMMA SettleKeeps ==
    ASSUME IInv, NEW c \in Clients, Busy(c), NEW r \in Requests,
           r.key = call[c].req.key, r.path = call[c].req.path,
           NEW s \in {"applied", "ambiguous_requires_human", "failed"}, Record(r, s), Return(c),
           OnePath(r.key) /\ s = "failed" /\ edits = 0 => swaps[r.key] = 0,
           UNCHANGED <<file, blob, swaps, refs, calls, crashes, edits>>
    PROVE  IInv'
<1>1. call[c].req \in Requests /\ lock[call[c].req.path] = c /\ r.key \in Keys
    BY CallTypes DEF IInv, Well, Holds, Busy, Unlocked
<1>2. /\ call' \in [Clients -> Call] /\ lock' \in [Paths -> Clients \cup {None}]
      /\ \A d \in Clients : d # c => call'[d] = call[d]
      /\ call'[c] = Idle
      /\ \A p \in Paths : p # call[c].req.path => lock'[p] = lock[p]
    BY <1>1, Returns DEF IInv
<1>3. /\ intent' \in [Keys -> Intent \cup {None}]
      /\ \A k \in Keys : k # r.key => intent'[k] = intent[k]
      /\ intent'[r.key] = [req |-> r, state |-> s] /\ intent'[r.key] # None
    BY Records DEF IInv, States
<1>4. TypeOK' /\ Named'
    BY <1>1, <1>2, <1>3 DEF IInv, TypeOK, Named
<1>5. \A d \in Clients : d # c => Well(d)'
    BY <1>1, <1>2, <1>3, OthersStay
<1>6. \A d \in Clients : Well(d)'
    BY <1>2, <1>5, IdleWell
<1>7. \A k \in Keys : Counts(k)'
  <2> TAKE k \in Keys
  <2>1. CASE k # r.key
    <3>1. Replaced(k) => Replaced(k)'
      BY <1>2, <2>1, ReplacedStays
    <3> QED BY <1>3, <2>1, <3>1, CountStays
  <2>2. CASE k = r.key
    <3>1. intent'[k] # None /\ intent'[k].state = s
      BY <1>3, <2>2
    <3> QED BY <2>2, <3>1 DEF IInv, Counts, OnePath
  <2> QED BY <2>1, <2>2
<1> QED BY <1>4, <1>6, <1>7 DEF IInv

LEMMA ReadIntentKeeps ==
    ASSUME IInv, NEW c \in Clients, ReadIntent(c)
    PROVE  IInv'
<1> DEFINE r == call[c].req
           i == intent[r.key]
<1>1. /\ call[c].pc = "intent" /\ Busy(c)
      /\ UNCHANGED <<file, blob, intent, swaps, refs, calls, crashes, edits>>
    BY DEF ReadIntent, disk, bounds, Busy, Unlocked
<1>2. r \in Requests /\ r.key \in Keys /\ call[c].seen = None /\ lock[r.path] = c
    BY <1>1, CallTypes DEF IInv, Well, Holds
<1>3. CASE i = None /\ Goto(c, "staged") /\ UNCHANGED lock
  <2>1. /\ call' \in [Clients -> Call] /\ \A d \in Clients : d # c => call'[d] = call[d]
        /\ call'[c].pc = "staged" /\ call'[c].op = call[c].op /\ call'[c].req = r /\ call'[c].seen = None
    BY <1>2, <1>3, Moves DEF IInv, WriteSteps
  <2>2. Well(c)'
    BY <1>1, <1>2, <1>3, <2>1 DEF Well, Holds, Sees, Compares
  <2> QED BY <1>1, <1>3, <2>1, <2>2, MoveKeeps
<1>4. CASE Return(c)
    BY <1>1, <1>4, ReturnKeeps
<1>5. CASE i # None /\ i.req = r /\ i.state = "claimed" /\ See(c, "resume", i) /\ UNCHANGED lock
  <2>1. i \in Intent /\ i = Claimed(r)
    BY <1>2, <1>5 DEF IInv, TypeOK, Intent, Claimed
  <2>2. /\ call' \in [Clients -> Call] /\ \A d \in Clients : d # c => call'[d] = call[d]
        /\ call'[c].pc = "resume" /\ call'[c].op = call[c].op /\ call'[c].req = r /\ call'[c].seen = i
    BY <1>5, <2>1, MovesSeeing DEF IInv, WriteSteps
  <2>3. Well(c)'
    BY <1>1, <1>2, <1>5, <2>1, <2>2 DEF Well, Holds, Sees, Compares, Claimed
  <2> QED BY <1>1, <1>5, <2>2, <2>3, MoveKeeps
<1> QED BY <1>3, <1>4, <1>5 DEF ReadIntent

LEMMA ResumeKeeps ==
    ASSUME IInv, NEW c \in Clients, Resume(c)
    PROVE  IInv'
<1> DEFINE r == call[c].req
<1>1. /\ call[c].pc = "resume" /\ Busy(c)
      /\ UNCHANGED <<file, blob, swaps, refs, calls, crashes, edits>>
    BY DEF Resume, bounds, Busy, Unlocked
<1>2. r \in Requests /\ call[c].seen = Claimed(r) /\ lock[r.path] = c
    BY <1>1 DEF IInv, Well, Holds
<1>3. ASSUME NEW s \in {"applied", "ambiguous_requires_human"}, Record(r, s), Return(c)
      PROVE  IInv'
    BY <1>1, <1>2, <1>3, SettleKeeps
<1>4. CASE file[r.path] = r.pre /\ Goto(c, "staged") /\ UNCHANGED <<intent, lock>>
  <2>1. /\ call' \in [Clients -> Call] /\ \A d \in Clients : d # c => call'[d] = call[d]
        /\ call'[c].pc = "staged" /\ call'[c].op = call[c].op /\ call'[c].req = r
        /\ call'[c].seen = call[c].seen
    BY <1>4, Moves DEF IInv, WriteSteps
  <2>2. Well(c)'
    BY <1>1, <1>2, <1>4, <2>1 DEF IInv, Well, Holds, Sees, Compares, Claimed
  <2> QED BY <1>1, <1>4, <2>1, <2>2, MoveKeeps
<1> QED BY <1>3, <1>4 DEF Resume

LEMMA ReadStagedKeeps ==
    ASSUME IInv, NEW c \in Clients, ReadStaged(c)
    PROVE  IInv'
<1>1. /\ call[c].pc = "staged" /\ Busy(c)
      /\ UNCHANGED <<file, blob, intent, swaps, refs, calls, crashes, edits>>
    BY DEF ReadStaged, disk, bounds, Busy, Unlocked
<1>2. CASE Return(c)
    BY <1>1, <1>2, ReturnKeeps
<1>3. CASE Goto(c, "claim") /\ UNCHANGED lock
  <2>1. /\ call' \in [Clients -> Call] /\ \A d \in Clients : d # c => call'[d] = call[d]
        /\ call'[c].pc = "claim" /\ call'[c].op = call[c].op /\ call'[c].req = call[c].req
        /\ call'[c].seen = call[c].seen
    BY <1>3, Moves DEF IInv, WriteSteps
  <2>2. Well(c)'
    BY <1>1, <1>3, <2>1 DEF IInv, Well, Holds, Sees, Compares, Claimed, Busy, Unlocked
  <2> QED BY <1>1, <1>3, <2>1, <2>2, MoveKeeps
<1> QED BY <1>2, <1>3 DEF ReadStaged

\* The claim: a precondition that fails was never followed by a write, because a
\* write taken up again had found the old content.
LEMMA ClaimKeeps ==
    ASSUME IInv, NEW c \in Clients, Claim(c)
    PROVE  IInv'
<1> DEFINE r == call[c].req
           recorded == call[c].seen # None /\ r.pre # None
<1>1. /\ call[c].pc = "claim" /\ Busy(c)
      /\ UNCHANGED <<file, blob, swaps, refs, calls, crashes, edits>>
    BY DEF Claim, bounds, Busy, Unlocked
<1>2. r \in Requests /\ r.key \in Keys /\ r.path \in Paths /\ lock[r.path] = c
    BY <1>1, CallTypes DEF IInv, Well, Holds
<1>3. OnePath(r.key) => intent[r.key] = call[c].seen
    BY <1>1 DEF IInv, Well, Sees
<1>4. call[c].seen # None => call[c].seen = Claimed(r) /\ (edits = 0 => file[r.path] = r.pre)
    BY <1>1 DEF IInv, Well, Holds, Compares
<1>5. CASE ~recorded /\ file[r.path] # r.pre /\ Record(r, "failed") /\ Return(c)
  <2>1. OnePath(r.key) /\ edits = 0 => swaps[r.key] = 0
    BY <1>2, <1>3, <1>4, <1>5 DEF IInv, Counts
  <2> QED BY <1>1, <1>2, <1>5, <2>1, SettleKeeps
<1>6. CASE (recorded \/ file[r.path] = r.pre) /\ Record(r, "claimed") /\ Goto(c, "replace") /\ UNCHANGED lock
  <2>1. /\ call' \in [Clients -> Call] /\ \A d \in Clients : d # c => call'[d] = call[d]
        /\ call'[c].pc = "replace" /\ call'[c].op = call[c].op /\ call'[c].req = r
        /\ call'[c].seen = call[c].seen
    BY <1>6, Moves DEF IInv, WriteSteps
  <2>2. /\ intent' \in [Keys -> Intent \cup {None}]
        /\ \A k \in Keys : k # r.key => intent'[k] = intent[k]
        /\ intent'[r.key] = Claimed(r) /\ intent'[r.key] # None
    BY <1>2, <1>6, Records DEF IInv, States, Claimed
  <2>3. TypeOK' /\ Named'
    BY <1>1, <1>2, <1>6, <2>1, <2>2 DEF IInv, TypeOK, Named, Claimed
  <2>4. Well(c)'
    BY <1>1, <1>2, <1>4, <1>6, <2>1, <2>2 DEF IInv, Well, Holds, Sees, Compares, Claimed
  <2>5. \A d \in Clients : Well(d)'
    BY <1>1, <1>2, <1>6, <2>1, <2>2, <2>4, OthersStay
  <2>6. ASSUME NEW k \in Keys PROVE Counts(k)'
    <3>1. Replaced(k) => Replaced(k)'
      BY <1>1, <2>1, ReplacedStays
    <3>2. CASE k # r.key
      BY <1>1, <2>2, <3>1, <3>2, CountStays
    <3>3. CASE k = r.key /\ OnePath(k)
      <4>1. intent[k] = None \/ (intent[k] # None /\ intent[k].state = "claimed")
        BY <1>3, <1>4, <3>3 DEF Claimed
      <4>2. ~Replaced(k)' => swaps[k] <= crashes
        BY <3>1, <3>3, <4>1 DEF IInv, Counts, TypeOK
      <4>3. intent'[k].state = "claimed"
        BY <2>2, <3>3 DEF Claimed
      <4> QED BY <1>1, <2>2, <3>3, <4>2, <4>3 DEF IInv, Counts
    <3> QED BY <3>2, <3>3 DEF Counts, OnePath
  <2> QED BY <2>3, <2>5, <2>6 DEF IInv
<1> QED BY <1>5, <1>6 DEF Claim

LEMMA ReplaceKeeps ==
    ASSUME IInv, NEW c \in Clients, Replace(c)
    PROVE  IInv'
<1> DEFINE r == call[c].req
<1>1. /\ call[c].pc = "replace" /\ Busy(c) /\ Goto(c, "verify")
      /\ file' = [file EXCEPT ![r.path] = r.content] /\ swaps' = [swaps EXCEPT ![r.key] = @ + 1]
      /\ UNCHANGED <<blob, intent, lock, refs, calls, crashes, edits>>
    BY DEF Replace, bounds, Busy, Unlocked
<1>2. /\ r \in Requests /\ r.key \in Keys /\ r.path \in Paths /\ r.content \in Contents
      /\ lock[r.path] = c /\ (OnePath(r.key) => intent[r.key] = Claimed(r))
    BY <1>1, CallTypes DEF IInv, Well, Holds, Sees
<1>3. /\ call' \in [Clients -> Call] /\ \A d \in Clients : d # c => call'[d] = call[d]
      /\ call'[c].pc = "verify" /\ call'[c].op = call[c].op /\ call'[c].req = r
      /\ call'[c].seen = call[c].seen
    BY <1>1, Moves DEF IInv, WriteSteps
<1>4. /\ file' \in [Paths -> Contents \cup {None}] /\ \A p \in Paths : p # r.path => file'[p] = file[p]
      /\ swaps' \in [Keys -> Nat] /\ swaps'[r.key] = swaps[r.key] + 1
      /\ \A k \in Keys : k # r.key => swaps'[k] = swaps[k]
    BY <1>1, <1>2 DEF IInv, TypeOK
<1>5. TypeOK' /\ Named'
    BY <1>1, <1>3, <1>4 DEF IInv, TypeOK, Named
<1>6. Well(c)'
    BY <1>1, <1>2, <1>3 DEF IInv, Well, Holds, Sees, Compares, Claimed, Busy, Unlocked
<1>7. \A d \in Clients : Well(d)'
    BY <1>1, <1>2, <1>3, <1>4, <1>6, OthersStay
<1>8. ASSUME NEW k \in Keys PROVE Counts(k)'
  <2>1. CASE k # r.key
    <3>1. Replaced(k) => Replaced(k)'
      BY <1>3, <2>1, ReplacedStays
    <3> QED BY <1>1, <1>4, <2>1, <3>1, CountStays
  <2>2. CASE k = r.key /\ OnePath(k)
    <3>1. intent[k] # None /\ intent[k].state = "claimed"
      <4>1. intent[k] = Claimed(r)
        BY <1>2, <2>2
      <4>2. Claimed(r) \in Intent /\ Claimed(r).state = "claimed"
        BY <1>2, CallTypes DEF Claimed, States
      <4> QED BY <4>1, <4>2, WritesAssumption
    <3>2. ~Replaced(k)
      <4> SUFFICES ASSUME NEW d \in Clients, call[d].pc = "verify", call[d].req.key = k
                   PROVE  FALSE
        BY DEF Replaced
      <4>1. c = d
        BY <1>1, <2>2, Alone DEF Busy, Unlocked
      <4> QED BY <1>1, <4>1
    <3>3. swaps[k] <= crashes /\ swaps[k] \in Nat /\ crashes \in Nat
      BY <2>2, <3>1, <3>2 DEF IInv, Counts, TypeOK
    <3>4. Replaced(k)'
      BY <1>3, <2>2 DEF Replaced
    <3>5. swaps'[k] <= 1 + crashes'
      BY <1>1, <1>4, <2>2, <3>3
    <3> QED BY <1>1, <3>1, <3>4, <3>5 DEF Counts
  <2> QED BY <2>1, <2>2 DEF Counts, OnePath
<1> QED BY <1>5, <1>7, <1>8 DEF IInv

LEMMA VerifyKeeps ==
    ASSUME IInv, NEW c \in Clients, Verify(c)
    PROVE  IInv'
<1>1. /\ call[c].pc = "verify" /\ Busy(c) /\ Return(c)
      /\ UNCHANGED <<file, blob, swaps, refs, calls, crashes, edits>>
    BY DEF Verify, bounds, Busy, Unlocked
<1>2. call[c].req \in Requests
    BY <1>1 DEF IInv, Well, Holds
<1>3. PICK s \in {"applied", "ambiguous_requires_human"} : Record(call[c].req, s)
    BY DEF Verify
<1> QED BY <1>1, <1>2, <1>3, SettleKeeps

LEMMA ReadLockedKeeps ==
    ASSUME IInv, NEW c \in Clients, ReadLocked(c)
    PROVE  IInv'
<1> DEFINE r == call[c].req
           i == intent[r.key]
<1>1. /\ call[c].pc = "read" /\ Busy(c)
      /\ UNCHANGED <<file, blob, intent, swaps, refs, calls, crashes, edits>>
    BY DEF ReadLocked, disk, bounds, Busy, Unlocked
<1>2. r \in Requests /\ r.key \in Keys /\ i # None /\ lock[r.path] = c
    BY <1>1, CallTypes DEF IInv, Well, Holds
<1>3. CASE Return(c)
    BY <1>1, <1>3, ReturnKeeps
<1>4. CASE i.req.path = r.path /\ i.state \notin {"applied", "failed"} /\ See(c, "settle", i) /\ UNCHANGED lock
  <2>1. i \in Intent /\ i.req \in Requests /\ i.req.key = r.key
    BY <1>2 DEF IInv, TypeOK, Named
  <2>2. /\ call' \in [Clients -> Call] /\ \A d \in Clients : d # c => call'[d] = call[d]
        /\ call'[c].pc = "settle" /\ call'[c].op = call[c].op /\ call'[c].req = r /\ call'[c].seen = i
    BY <1>4, <2>1, MovesSeeing DEF IInv, ReconcileSteps
  <2>3. Well(c)'
    BY <1>1, <1>2, <1>4, <2>1, <2>2 DEF Well, Holds, Sees, Compares
  <2> QED BY <1>1, <1>4, <2>2, <2>3, MoveKeeps
<1> QED BY <1>3, <1>4 DEF ReadLocked

LEMMA SettleIntentKeeps ==
    ASSUME IInv, NEW c \in Clients, SettleIntent(c)
    PROVE  IInv'
<1> DEFINE r == call[c].seen.req
<1>1. /\ call[c].pc = "settle" /\ Busy(c) /\ Return(c)
      /\ UNCHANGED <<file, blob, swaps, refs, calls, crashes, edits>>
    BY DEF SettleIntent, bounds, Busy, Unlocked
<1>2. r \in Requests /\ r.key = call[c].req.key /\ r.path = call[c].req.path
    BY <1>1 DEF IInv, Well, Holds
<1>3. CASE UNCHANGED intent
    BY <1>1, <1>3, ReturnKeeps
<1>4. ASSUME NEW s \in {"applied", "ambiguous_requires_human"}, Record(r, s)
      PROVE  IInv'
    BY <1>1, <1>2, <1>4, SettleKeeps
<1> QED BY <1>3, <1>4 DEF SettleIntent

-----------------------------------------------------------------------------
(* Deaths, other programs and the collector. *)

\* A death leaves no more to be repaired than one replaced file per key.
LEMMA CrashKeeps ==
    ASSUME IInv, NEW c \in Clients, Crash(c)
    PROVE  IInv'
<1>1. /\ call[c].pc # "idle" /\ crashes' = crashes + 1 /\ crashes \in Nat
      /\ UNCHANGED <<file, blob, intent, swaps, refs, calls, edits>>
    BY DEF Crash, disk, IInv, TypeOK
<1>2. call[c].req \in Requests
    BY <1>1 DEF IInv, Well, Holds
<1>3. /\ call' \in [Clients -> Call] /\ lock' \in [Paths -> Clients \cup {None}]
      /\ call'[c] = Idle /\ \A d \in Clients : d # c => call'[d] = call[d]
      /\ \A d \in Clients : d # c => Well(d)'
  <2>1. CASE call[c].pc = "lock" /\ call' = [call EXCEPT ![c] = Idle] /\ UNCHANGED lock
    <3>1. call' \in [Clients -> Call] /\ call'[c] = Idle /\ \A d \in Clients : d # c => call'[d] = call[d]
      BY <2>1, CallTypes DEF IInv, TypeOK
    <3> QED BY <1>1, <2>1, <3>1, OthersUnmoved DEF IInv, TypeOK
  <2>2. CASE call[c].pc # "lock" /\ Return(c)
    <3>1. lock[call[c].req.path] = c
      BY <1>1, <2>2 DEF IInv, Well, Holds, Busy, Unlocked
    <3>2. /\ call' \in [Clients -> Call] /\ lock' \in [Paths -> Clients \cup {None}]
          /\ \A d \in Clients : d # c => call'[d] = call[d]
          /\ call'[c] = Idle
          /\ \A p \in Paths : p # call[c].req.path => lock'[p] = lock[p]
      BY <1>2, <2>2, Returns DEF IInv
    <3> QED BY <1>1, <1>2, <3>1, <3>2, OthersStay
  <2> QED BY <2>1, <2>2 DEF Crash
<1>4. TypeOK' /\ Named'
    BY <1>1, <1>3 DEF IInv, TypeOK, Named
<1>5. \A d \in Clients : Well(d)'
    BY <1>3, IdleWell
<1>6. ASSUME NEW k \in Keys PROVE Counts(k)'
  <2>1. OnePath(k) => swaps[k] \in Nat /\ swaps[k] <= crashes'
    BY <1>1 DEF IInv, TypeOK, Counts
  <2>2. crashes' \in Nat /\ swaps'[k] = swaps[k] /\ intent'[k] = intent[k] /\ edits' = edits
    BY <1>1
  <2>3. OnePath(k) => /\ intent[k] = None => swaps[k] = 0
                      /\ intent[k] # None /\ intent[k].state = "failed" /\ edits = 0 => swaps[k] = 0
    BY DEF IInv, Counts
  <2>4. OnePath(k) => swaps'[k] <= 1 + crashes' /\ swaps'[k] <= crashes'
    BY <2>1, <2>2
  <2> QED BY <2>2, <2>3, <2>4 DEF Counts, OnePath
<1> QED BY <1>4, <1>5, <1>6 DEF IInv

LEMMA EditKeeps ==
    ASSUME IInv, NEW p \in Paths, Edit(p)
    PROVE  IInv'
<1>1. /\ edits' = edits + 1 /\ edits' \in Nat /\ edits' # 0
      /\ UNCHANGED <<blob, intent, swaps, lock, call, refs, calls, crashes>>
    BY DEF Edit, IInv, TypeOK
<1>2. TypeOK' /\ Named'
    BY <1>1 DEF Edit, IInv, TypeOK, Named
<1>3. \A d \in Clients : Well(d)'
    BY <1>1 DEF IInv, Well, Holds, Sees, Compares, Busy, Claimed, OnePath
<1>4. \A k \in Keys : Counts(k)'
    BY <1>1 DEF IInv, Counts, Replaced, OnePath
<1> QED BY <1>2, <1>3, <1>4 DEF IInv

LEMMA StagingKeeps ==
    ASSUME IInv, Staging \/ UNCHANGED vars
    PROVE  IInv'
<1>1. UNCHANGED <<file, intent, swaps, lock, call, calls, crashes, edits>>
    BY DEF Staging, Scan, EndCollection, Stage, Expire, Delete, disk, bounds, vars
<1>2. blob' \in [Contents -> {"none", "fresh", "expired"}]
    BY DEF Staging, Scan, EndCollection, Stage, Expire, Delete, disk, vars, IInv, TypeOK
<1>3. Referenced \subseteq Contents
    BY CallTypes DEF Referenced, IInv, Named
<1>4. refs' \in (SUBSET Contents) \cup {None}
    BY <1>3 DEF Staging, Scan, EndCollection, Stage, Expire, Delete, vars, IInv, TypeOK
<1>5. TypeOK' /\ Named'
    BY <1>1, <1>2, <1>4 DEF IInv, TypeOK, Named
<1>6. \A d \in Clients : Well(d)'
    BY <1>1, OthersUnmoved
<1>7. \A k \in Keys : Counts(k)'
    BY <1>1 DEF IInv, Counts, Replaced, OnePath
<1> QED BY <1>5, <1>6, <1>7 DEF IInv

LEMMA StepKeeps == IInv /\ [Next]_vars => IInv'
<1> SUFFICES ASSUME IInv, [Next]_vars PROVE IInv'
    OBVIOUS
<1>1. ASSUME NEW c \in Clients, Writing(c) PROVE IInv'
    BY <1>1, BeginKeeps, AcquireKeeps, TimeoutKeeps, ReadIntentKeeps, ResumeKeeps, ReadStagedKeeps,
       ClaimKeeps, ReplaceKeeps, VerifyKeeps DEF Writing
<1>2. ASSUME NEW c \in Clients, Reconciling(c) PROVE IInv'
    BY <1>2, ReadLockedKeeps, SettleIntentKeeps DEF Reconciling
<1>3. ASSUME NEW c \in Clients, Crash(c) PROVE IInv'
    BY <1>3, CrashKeeps
<1>4. ASSUME NEW p \in Paths, Edit(p) PROVE IInv'
    BY <1>4, EditKeeps
<1> QED BY <1>1, <1>2, <1>3, <1>4, StagingKeeps DEF Next

-----------------------------------------------------------------------------
(* What follows. *)

\* Calls, intents, locks and targets agree in every reachable state, wherever a
\* client dies and whatever another program or the collector does (write_store.py).
THEOREM Invariance == Spec => []IInv
<1> QED BY InitIInv, StepKeeps, PTL DEF Spec

\* Targets, blobs, intents, locks and calls keep to their types through replays, deaths and the
\* collection of the staged content.
THEOREM TypeCorrect == Spec => []TypeOK
<1>1. IInv => TypeOK
    BY DEF IInv
<1> QED BY <1>1, Invariance, PTL

\* While only the store writes the files, apply_file_write replaces what its request
\* names, also when it takes a dead process's write up again.
THEOREM ComparesFirst == Spec => []ComparesBeforeSwap
<1>1. IInv => ComparesBeforeSwap
    BY DEF IInv, Well, Compares, ComparesBeforeSwap
<1> QED BY <1>1, Invariance, PTL

\* A request answered with precondition_failed has not touched its target.
THEOREM FailedWroteNothing == Spec => []FailedNeverWrote
<1>1. IInv => FailedNeverWrote
    BY DEF IInv, Counts, FailedNeverWrote
<1> QED BY <1>1, Invariance, PTL

\* Replays put a content in place again only after a death between the replace and
\* its record.
THEOREM RewritesNeedDeaths == Spec => []RewrittenAfterDeath
<1>1. IInv => RewrittenAfterDeath
    BY DEF IInv, Counts, RewrittenAfterDeath
<1> QED BY <1>1, Invariance, PTL

\* An intent keeps its request, and its outcome once it is applied or failed, whatever
\* replays and reconciliations looked at it before.
THEOREM OutcomesFinal == Spec => OutcomeFinal
<1> DEFINE Stays(k) == /\ intent'[k].req = intent[k].req
                       /\ intent[k].state \in {"applied", "failed"} => intent'[k] = intent[k]
<1>1. ASSUME IInv, [Next]_vars, NEW k \in Keys, OnePath(k), intent[k] # None, intent'[k] # intent[k]
      PROVE  Stays(k)
  <2>1. PICK c \in Clients : Resume(c) \/ Claim(c) \/ Verify(c) \/ SettleIntent(c)
    BY <1>1 DEF Next, Writing, Reconciling, Staging, Begin, Acquire, LockTimesOut, ReadIntent, ReadStaged,
       Replace, ReadLocked, Scan, EndCollection, Stage, Expire, Delete, Crash, Edit, disk, vars
  <2>2. CASE Resume(c) \/ Claim(c) \/ Verify(c)
    <3>1. /\ call[c].pc \in {"resume", "claim", "verify"} /\ call[c].req \in Requests
          /\ \E s \in States : Record(call[c].req, s)
      BY <1>1, <2>2 DEF Resume, Claim, Verify, States, IInv, Well, Holds
    <3>2. k = call[c].req.key /\ intent'[k].req = call[c].req
      <4>1. PICK s \in States : Record(call[c].req, s)
        BY <3>1
      <4>2. /\ \A x \in Keys : x # call[c].req.key => intent'[x] = intent[x]
            /\ intent'[call[c].req.key] = [req |-> call[c].req, state |-> s]
        BY <1>1, <3>1, <4>1, Records DEF IInv
      <4> QED BY <1>1, <4>2
    <3>3. intent[k] = Claimed(call[c].req)
      BY <1>1, <3>1, <3>2 DEF IInv, Well, Holds, Sees
    <3> QED BY <3>2, <3>3 DEF Claimed
  <2>3. CASE SettleIntent(c)
    <3>1. /\ call[c].pc = "settle" /\ call[c].seen.req \in Requests /\ call[c].seen.req.key = call[c].req.key
          /\ \E s \in States : Record(call[c].seen.req, s)
      BY <1>1, <2>3 DEF SettleIntent, States, IInv, Well, Holds
    <3>2. k = call[c].req.key /\ intent'[k].req = call[c].seen.req
      <4> DEFINE r == call[c].seen.req
      <4>1. PICK s \in States : Record(r, s)
        BY <3>1
      <4>2. \A x \in Keys : x # r.key => intent'[x] = intent[x]
        BY <1>1, <3>1, <4>1, Records DEF IInv
      <4>3. intent'[r.key] = [req |-> r, state |-> s]
        BY <1>1, <3>1, <4>1, Records DEF IInv
      <4>4. k = r.key
        BY <1>1, <4>2
      <4> QED BY <3>1, <4>3, <4>4
    <3>3. intent[k] = call[c].seen /\ call[c].seen.state \notin {"applied", "failed"}
      BY <1>1, <3>1, <3>2 DEF IInv, Well, Holds, Sees
    <3> QED BY <3>2, <3>3
  <2> QED BY <2>1, <2>2, <2>3
<1>2. ASSUME IInv, [Next]_vars
      PROVE  \A k \in Keys : OnePath(k) /\ intent[k] # None => Stays(k)
    BY <1>1, <1>2
<1> QED BY Invariance, <1>2, PTL DEF Spec, OutcomeFinal
=============================================================================
