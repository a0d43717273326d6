-------------------------- MODULE IncidentStoreProofs --------------------------
(* For any processes, records, bounds and faults: the index names only packets *)
(* that are there, and is one line of revisions until it is removed.           *)
EXTENDS IncidentStore, TLAPS

PCs == {"idle", "reconcile", "load", "settle", "reapplied", "orphan", "write", "committed",
        "unlink", "fence"}
ProcType == [pc : PCs, live : Indexes \cup {None}, todo : SUBSET Intents,
             cur : Intents \cup {None}, left : SUBSET Files, back : {"idle", "load"}]

\* Types; what is idle does not hold the lock, and what works on the store does.  Only a
\* reader, which is on its way to remove the index, does without.
Working(r) == \/ r.pc \notin {"idle", "unlink", "fence"}
              \/ r.pc # "idle" /\ r.back = "load"
Typed ==
    /\ index \in Indexes /\ fence \in BOOLEAN /\ journal \subseteq Intents
    /\ disk \in [Files -> Txns \cup {None, Torn}]
    /\ orphans \subseteq Files \X (Txns \cup {Torn})
    /\ holder \in Procs \cup {None} /\ used \in 0..MaxTxns
    /\ proc \in [Procs -> ProcType]
    /\ done \subseteq 1..used /\ lost \in 0..used
Locked == \A p \in Procs : /\ Working(proc[p]) => holder = p
                           /\ proc[p].pc = "idle" => holder # p

\* A packet is named by its transaction, and an index names only what took effect.
Named(refs, T) == \A f \in Files : /\ refs[f] # None => refs[f] \in T
                                   /\ f \in Txns => refs[f] \in {f, None}
IndexWell == /\ Named(index.refs, done)
             /\ index.st # "absent" => used > 0

\* An intent is an index of its own revision, which differs from one that took effect in
\* the files of the transaction.
IntentWell(i) ==
    /\ i.txn <= used
    /\ i.index.st = "ok" /\ i.index.rev = i.prior + 1 /\ i.index.last = i.txn
    /\ \A f \in Files : f \in i.files => i.index.refs[f] = i.txn
    /\ \A f \in Files : f \notin i.files /\ i.index.refs[f] # None =>
                          i.index.refs[f] \in done /\ i.index.refs[f] < i.txn
    /\ \A t \in Txns : t \in i.files => t = i.txn
    /\ \A t \in Txns : i.index.refs[t] \in {t, None}
\* Since the index was last removed its revisions only grow: an intent begun since then
\* is overtaken or on top, and on top it has not taken effect and differs from the index
\* in nothing but its files.
OnLine(i) ==
    i.txn > lost =>
      /\ i.prior <= index.rev
      /\ i.prior = index.rev =>
           /\ i.txn \notin done
           /\ \A f \in Files : f \notin i.files => i.index.refs[f] = index.refs[f]
JournalWell == /\ \A i \in journal : IntentWell(i) /\ OnLine(i)
               /\ \A i, j \in journal : i.txn = j.txn => i = j

\* What a process has in its hands.  All of it may be of an index that a reader has
\* removed in the meantime; but then nothing has begun since.
Same(live) == used > lost => live.rev = index.rev /\ live.refs = index.refs
Settling(r) == /\ r.todo \subseteq journal /\ r.live \in Indexes /\ Same(r.live)
Has(r) == r.cur \in journal
ProcWell(r) ==
    /\ r.pc = "reconcile" => r.todo \subseteq journal
    /\ r.pc \in {"settle", "reapplied", "orphan"} => Settling(r)
    /\ r.pc \in {"reapplied", "orphan", "write", "committed"} => Has(r)
    /\ r.pc = "orphan" => \A t \in Txns : t \in r.left /\ t > lost => index.refs[t] = None
    /\ r.pc \in {"write", "committed"} => r.cur.txn = used
    /\ r.pc = "committed" => used \in done
    /\ r.pc = "write" => /\ used \notin done /\ r.left \subseteq r.cur.files
                         /\ \A f \in r.cur.files \ r.left : disk[f] = used
                         /\ used > lost => r.cur.prior = index.rev
    /\ r.pc \in {"unlink", "fence"} => used > 0

IInv == /\ Typed /\ Locked /\ IndexWell /\ JournalWell
        /\ \A p \in Procs : ProcWell(proc[p])
        /\ PacketKept

-------------------------------------------------------------------------------
(* Lemmas *)

\* What the state of one process says of its fields.
LEMMA ProcFields ==
  ASSUME NEW r \in ProcType
  PROVE  /\ r.pc \in PCs /\ r.live \in Indexes \cup {None} /\ r.todo \subseteq Intents
         /\ r.cur \in Intents \cup {None} /\ r.left \subseteq Files /\ r.back \in {"idle", "load"}
BY DEF ProcType

\* A process that goes on, or returns, leaves the others where they are.
LEMMA OneGoes ==
  ASSUME Typed, NEW p \in Procs, NEW r \in ProcType, Goes(p, r)
  PROVE  /\ proc' \in [Procs -> ProcType] /\ proc'[p] = r
         /\ \A q \in Procs : q # p => proc'[q] = proc[q]
BY DEF Typed, Goes

LEMMA IdleFits == /\ Idle \in ProcType /\ Idle.pc = "idle" /\ Idle.back = "idle"
                  /\ ~Working(Idle)
BY DEF Idle, ProcType, PCs, Working

\* The index of an intent and the empty one are indexes.
LEMMA EmptyFits == /\ _empty_index \in Indexes /\ _empty_index.st = "absent"
                   /\ _empty_index.rev = 0
                   /\ \A f \in Files : _empty_index.refs[f] = None
BY DEF _empty_index, Indexes

LEMMA InitIInv == Init => IInv
<1> SUFFICES ASSUME Init PROVE IInv
  OBVIOUS
<1>0. /\ Idle \in ProcType /\ Idle.pc = "idle" /\ MaxTxns \in Nat
  BY IdleFits, BoundsAreNat
<1>1. Typed
  <2>1. used \in 0..MaxTxns /\ done \subseteq 1..used /\ lost \in 0..used
    BY <1>0 DEF Init
  <2>2. proc \in [Procs -> ProcType] /\ disk \in [Files -> Txns \cup {None, Torn}]
    BY <1>0 DEF Init
  <2> QED
    BY <2>1, <2>2, EmptyFits DEF Init, Typed
<1>2. \A p \in Procs : proc[p].pc = "idle"
  BY <1>0 DEF Init
<1>3. Locked
  BY <1>2, NamesAssumption DEF Init, Locked, Working
<1>4. IndexWell /\ JournalWell /\ PacketKept
  BY EmptyFits DEF Init, IndexWell, Named, JournalWell, PacketKept, Files
<1>5. \A p \in Procs : ProcWell(proc[p])
  BY <1>2 DEF ProcWell
<1> QED
  BY <1>1, <1>3, <1>4, <1>5 DEF IInv

-------------------------------------------------------------------------------
(* Steps that change neither store nor history *)

View == <<index, journal, disk, done, used, lost>>

LEMMA QuietKeeps ==
  ASSUME IInv, UNCHANGED View, fence' \in BOOLEAN, orphans' = orphans,
         holder' \in Procs \cup {None}, proc' \in [Procs -> ProcType], Locked',
         \A q \in Procs : proc'[q] = proc[q] \/ ProcWell(proc'[q])
  PROVE  IInv'
<1>1. Typed'
  BY DEF IInv, Typed, View
<1>2. IndexWell' /\ JournalWell' /\ PacketKept'
  BY DEF IInv, View, IndexWell, Named, JournalWell, IntentWell, OnLine, PacketKept
<1>3. ASSUME NEW q \in Procs PROVE ProcWell(proc'[q])
  BY DEF IInv
<1>4. \A q \in Procs : ProcWell(proc[q])'
  BY <1>3 DEF View, ProcWell, Settling, Same, Has
<1> QED
  BY <1>1, <1>2, <1>4 DEF IInv

\* The lock, when its holder goes on and when a process returns.
LEMMA HolderGoes ==
  ASSUME Locked, NEW p \in Procs, holder = p, holder' = holder, proc'[p].pc # "idle",
         \A q \in Procs : q # p => proc'[q] = proc[q]
  PROVE  Locked'
BY DEF Locked, Working

LEMMA ProcReturns ==
  ASSUME Locked, Typed, NEW p \in Procs, Returns(p)
  PROVE  /\ proc' \in [Procs -> ProcType] /\ proc'[p] = Idle
         /\ \A q \in Procs : q # p => proc'[q] = proc[q]
         /\ holder' \in Procs \cup {None} /\ Locked'
<1>1. /\ proc' \in [Procs -> ProcType] /\ proc'[p] = Idle
      /\ \A q \in Procs : q # p => proc'[q] = proc[q]
  BY OneGoes, IdleFits DEF Returns
<1>2. holder' = IF holder = p THEN None ELSE holder
  BY DEF Returns
<1>3. Locked'
  BY <1>1, <1>2, IdleFits, NamesAssumption DEF Locked, Working
<1> QED
  BY <1>1, <1>2, <1>3 DEF Typed

LEMMA IdleWell == ASSUME NEW r, r.pc = "idle" PROVE ProcWell(r)
BY DEF ProcWell

LEMMA AcquireKeeps ==
  ASSUME IInv, NEW p \in Procs, Acquire(p)
  PROVE  IInv'
<1> DEFINE r == [Idle EXCEPT !.todo = journal,
                             !.pc = IF journal = {} THEN "load" ELSE "reconcile"]
<1>1. r \in ProcType /\ r.pc \in {"load", "reconcile"} /\ r.todo = journal
  BY IdleFits DEF IInv, Typed, ProcType, PCs, Idle
<1>2. /\ proc' \in [Procs -> ProcType] /\ proc'[p] = r
      /\ \A q \in Procs : q # p => proc'[q] = proc[q]
  <2> HIDE DEF r
  <2>1. Goes(p, r)
    BY DEF Acquire, r
  <2> QED
    BY <1>1, <2>1, OneGoes DEF IInv
<1> HIDE DEF r
<1>3. holder = None /\ holder' = p /\ UNCHANGED <<View, fence, orphans>>
  BY DEF Acquire, View, store, past
<1>4. Locked'
  BY <1>1, <1>2, <1>3, NamesAssumption DEF IInv, Locked, Working
<1>5. ProcWell(proc'[p])
  BY <1>1, <1>2 DEF ProcWell
<1> QED
  BY <1>2, <1>3, <1>4, <1>5, QuietKeeps DEF IInv, Typed

\* A process that holds the lock and goes on without touching the store.
LEMMA HolderQuiet ==
  ASSUME IInv, NEW p \in Procs, NEW r \in ProcType, Goes(p, r), holder = p, r.pc # "idle",
         ProcWell(r), UNCHANGED <<View, fence, orphans, holder>>
  PROVE  IInv'
<1>1. /\ proc' \in [Procs -> ProcType] /\ proc'[p] = r
      /\ \A q \in Procs : q # p => proc'[q] = proc[q]
  BY OneGoes DEF IInv
<1>2. Locked'
  BY <1>1, HolderGoes DEF IInv
<1> QED
  BY <1>1, <1>2, QuietKeeps DEF IInv, Typed

LEMMA Holds ==
  ASSUME IInv, NEW p \in Procs
  PROVE  /\ proc[p] \in ProcType /\ ProcWell(proc[p])
         /\ Working(proc[p]) => holder = p
BY DEF IInv, Typed, Locked

LEMMA ReconcileLoadKeeps ==
  ASSUME IInv, NEW p \in Procs, ReconcileLoad(p)
  PROVE  IInv'
<1>1. /\ proc[p] \in ProcType /\ proc[p].pc = "reconcile" /\ proc[p].todo \subseteq journal
      /\ holder = p /\ index \in Indexes /\ (index.st # "absent" => used > 0)
  BY Holds DEF ReconcileLoad, At, Working, ProcWell, IInv, Typed, IndexWell
<1>2. UNCHANGED <<View, fence, orphans, holder>>
  BY DEF ReconcileLoad, View, store, past
<1>3. CASE Moves(p, "load")
  <2> DEFINE r == [proc[p] EXCEPT !.pc = "load"]
  <2>1. r \in ProcType /\ r.pc = "load"
    BY <1>1 DEF ProcType, PCs
  <2>2. Goes(p, r)
    BY <1>3 DEF Moves
  <2>3. ProcWell(r)
    BY <2>1 DEF ProcWell
  <2> HIDE DEF r
  <2> QED
    BY <1>1, <1>2, <2>1, <2>2, <2>3, HolderQuiet
<1>4. CASE index.st = "corrupt" /\ Goes(p, [proc[p] EXCEPT !.pc = "unlink", !.back = "load"])
  <2> DEFINE r == [proc[p] EXCEPT !.pc = "unlink", !.back = "load"]
  <2>1. r \in ProcType /\ r.pc = "unlink"
    BY <1>1 DEF ProcType, PCs
  <2>2. Goes(p, r)
    BY <1>4
  <2>3. ProcWell(r)
    BY <1>1, <1>4, <2>1 DEF ProcWell
  <2> HIDE DEF r
  <2> QED
    BY <1>1, <1>2, <2>1, <2>2, <2>3, HolderQuiet
<1>5. CASE Goes(p, [proc[p] EXCEPT !.pc = "settle", !.live = index])
  <2> DEFINE r == [proc[p] EXCEPT !.pc = "settle", !.live = index]
  <2>1. r \in ProcType /\ r.pc = "settle" /\ r.live = index /\ r.todo = proc[p].todo
    BY <1>1 DEF ProcType, PCs
  <2>2. Goes(p, r)
    BY <1>5
  <2> HIDE DEF r
  <2>3. ProcWell(r)
    BY <1>1, <2>1 DEF ProcWell, Settling, Same
  <2> QED
    BY <1>1, <1>2, <2>1, <2>2, <2>3, HolderQuiet
<1> QED
  BY <1>3, <1>4, <1>5 DEF ReconcileLoad

LEMMA SettledAllKeeps ==
  ASSUME IInv, NEW p \in Procs, SettledAll(p)
  PROVE  IInv'
<1> DEFINE r == [proc[p] EXCEPT !.pc = "load"]
<1>1. proc[p] \in ProcType /\ proc[p].pc = "settle" /\ holder = p
  BY Holds DEF SettledAll, At, Working
<1>2. UNCHANGED <<View, fence, orphans, holder>> /\ Goes(p, r)
  BY DEF SettledAll, View, store, past, Moves
<1>3. r \in ProcType /\ r.pc = "load"
  BY <1>1 DEF ProcType, PCs
<1>4. ProcWell(r)
  BY <1>3 DEF ProcWell
<1> HIDE DEF r
<1> QED
  BY <1>1, <1>2, <1>3, <1>4, HolderQuiet

\* A process that returns and leaves the store as it is.
LEMMA ReturnKeeps ==
  ASSUME IInv, NEW p \in Procs, Returns(p), UNCHANGED <<View, orphans>>, fence' \in BOOLEAN
  PROVE  IInv'
<1>1. /\ proc' \in [Procs -> ProcType] /\ proc'[p] = Idle
      /\ \A q \in Procs : q # p => proc'[q] = proc[q]
      /\ holder' \in Procs \cup {None} /\ Locked'
  BY ProcReturns DEF IInv
<1>2. ProcWell(proc'[p])
  BY <1>1, IdleFits, IdleWell
<1> QED
  BY <1>1, <1>2, QuietKeeps

LEMMA DeclinesKeeps ==
  ASSUME IInv, NEW p \in Procs, Declines(p)
  PROVE  IInv'
<1>1. Returns(p) /\ UNCHANGED <<View, orphans, fence>>
  BY DEF Declines, View, store, past
<1> QED
  BY <1>1, ReturnKeeps DEF IInv, Typed

LEMMA CorruptLoadKeeps ==
  ASSUME IInv, NEW p \in Procs, CorruptLoad(p)
  PROVE  IInv'
<1> DEFINE r == [proc[p] EXCEPT !.pc = "unlink", !.back = "idle"]
<1>1. /\ proc[p] \in ProcType /\ proc[p].pc = "load" /\ holder = p
      /\ index \in Indexes /\ used > 0
  BY Holds DEF CorruptLoad, At, Working, IInv, Typed, IndexWell
<1>2. UNCHANGED <<View, fence, orphans, holder>> /\ Goes(p, r)
  BY DEF CorruptLoad, View, store, past
<1>3. r \in ProcType /\ r.pc = "unlink"
  BY <1>1 DEF ProcType, PCs
<1>4. ProcWell(r)
  BY <1>1, <1>3 DEF ProcWell
<1> HIDE DEF r
<1> QED
  BY <1>1, <1>2, <1>3, <1>4, HolderQuiet

LEMMA ReadKeeps ==
  ASSUME IInv, NEW p \in Procs, Read(p)
  PROVE  IInv'
<1> DEFINE r == [Idle EXCEPT !.pc = "unlink"]
<1>1. r \in ProcType /\ r.pc = "unlink" /\ r.back = "idle"
  BY IdleFits DEF Idle, ProcType, PCs
<1>2. /\ UNCHANGED <<View, fence, orphans, holder>> /\ Goes(p, r)
      /\ proc[p].pc = "idle" /\ used > 0
  BY DEF Read, View, store, past, At, IInv, Typed, IndexWell
<1> HIDE DEF r
<1>3. /\ proc' \in [Procs -> ProcType] /\ proc'[p] = r
      /\ \A q \in Procs : q # p => proc'[q] = proc[q]
  BY <1>1, <1>2, OneGoes DEF IInv
<1>4. Locked'
  BY <1>1, <1>2, <1>3 DEF IInv, Locked, Working
<1>5. ProcWell(proc'[p])
  BY <1>1, <1>2, <1>3 DEF ProcWell
<1> QED
  BY <1>2, <1>3, <1>4, <1>5, QuietKeeps DEF IInv, Typed

LEMMA FenceKeeps ==
  ASSUME IInv, NEW p \in Procs, Fence(p)
  PROVE  IInv'
<1>1. /\ UNCHANGED <<View, orphans>> /\ fence' \in BOOLEAN
      /\ proc[p] \in ProcType /\ proc[p].pc = "fence"
  BY Holds DEF Fence, View, past, At, IInv, Typed
<1>2. CASE proc[p].back = "idle"
  BY <1>1, <1>2, ReturnKeeps DEF Fence
<1>3. CASE proc[p].back # "idle"
  <2> DEFINE r == [proc[p] EXCEPT !.pc = "load"]
  <2>1. r \in ProcType /\ r.pc = "load"
    BY <1>1 DEF ProcType, PCs
  <2>2. Goes(p, r) /\ holder' = holder
    BY <1>3 DEF Fence, Moves
  <2>3. holder = p
    BY <1>1, <1>3, ProcFields, Holds DEF Working
  <2> HIDE DEF r
  <2>4. /\ proc' \in [Procs -> ProcType] /\ proc'[p] = r
        /\ \A q \in Procs : q # p => proc'[q] = proc[q]
    BY <2>1, <2>2, OneGoes DEF IInv
  <2>5. Locked'
    BY <2>1, <2>2, <2>3, <2>4, HolderGoes DEF IInv
  <2>6. ProcWell(proc'[p])
    BY <2>1, <2>4 DEF ProcWell
  <2> QED
    BY <1>1, <2>2, <2>4, <2>5, <2>6, QuietKeeps DEF IInv, Typed
<1> QED
  BY <1>2, <1>3

LEMMA OwnerClearsKeeps == ASSUME IInv, OwnerClears PROVE IInv'
<1>1. UNCHANGED <<View, orphans, holder, proc>> /\ fence' \in BOOLEAN
  BY DEF OwnerClears, View, past
<1>2. Locked'
  BY <1>1 DEF IInv, Locked
<1> QED
  BY <1>1, <1>2, QuietKeeps DEF IInv, Typed

-------------------------------------------------------------------------------
(* Steps from outside the lock *)

\* Whoever removes the index ends its line: nothing has begun on the new one.
LEMMA UnlinkKeeps ==
  ASSUME IInv, NEW p \in Procs, Unlink(p)
  PROVE  IInv'
<1> DEFINE r == [proc[p] EXCEPT !.pc = "fence"]
<1>1. proc[p] \in ProcType /\ proc[p].pc = "unlink" /\ used \in 1..MaxTxns
  BY Holds DEF Unlink, At, ProcWell, IInv, Typed
<1>2. /\ index' = _empty_index /\ lost' = used /\ Goes(p, r)
      /\ UNCHANGED <<fence, journal, disk, orphans, holder, used, done>>
  BY DEF Unlink, Moves
<1>3. r \in ProcType /\ r.pc = "fence" /\ r.back = proc[p].back
  BY <1>1 DEF ProcType, PCs
<1> HIDE DEF r
<1>4. /\ proc' \in [Procs -> ProcType] /\ proc'[p] = r
      /\ \A q \in Procs : q # p => proc'[q] = proc[q]
  BY <1>2, <1>3, OneGoes DEF IInv
<1>5. Typed'
  BY <1>1, <1>2, <1>4, EmptyFits DEF IInv, Typed
<1>6. Locked'
  BY <1>1, <1>2, <1>3, <1>4 DEF IInv, Locked, Working
<1>7. IndexWell' /\ PacketKept'
  BY <1>2, EmptyFits DEF IndexWell, Named, PacketKept, Files
<1>8. JournalWell'
  <2>1. ASSUME NEW i \in journal PROVE IntentWell(i)' /\ i.txn <= used /\ i \in Intents
    BY <1>2 DEF IInv, Typed, JournalWell, IntentWell
  <2>2. ASSUME NEW i \in journal PROVE OnLine(i)'
    BY <1>1, <1>2, <2>1 DEF OnLine, Intents, Txns
  <2> QED
    BY <1>2, <2>1, <2>2 DEF IInv, JournalWell
<1>9. ASSUME NEW q \in Procs PROVE ProcWell(proc[q])'
  <2>1. ~(used' > lost') /\ used' = used
    BY <1>1, <1>2
  <2>2. ProcWell(proc[q]) /\ proc[q] \in ProcType
    BY Holds
  <2>3. CASE q = p
    BY <1>1, <1>2, <1>3, <1>4, <2>3 DEF ProcWell
  <2>4. CASE q # p
    <3>1. proc'[q] = proc[q]
      BY <1>4, <2>4
    <3>2. \A t \in Txns : index'.refs[t] = None
      BY <1>2, EmptyFits DEF Files
    <3> QED
      BY <1>2, <2>1, <2>2, <3>1, <3>2 DEF ProcWell, Settling, Same, Has
  <2> QED
    BY <2>3, <2>4
<1> QED
  BY <1>5, <1>6, <1>7, <1>8, <1>9 DEF IInv

\* Damage to the index: it still has its revision and its rows, for nobody to read.
LEMMA IndexDamageKeeps ==
  ASSUME IInv, index.st = "ok", index' = [index EXCEPT !.st = "corrupt"],
         UNCHANGED <<fence, journal, disk, orphans, holder, proc, used, done, lost>>
  PROVE  IInv'
<1>1. index \in Indexes /\ used > 0
  BY DEF IInv, Typed, IndexWell, Indexes
<1>2. /\ index' \in Indexes /\ index'.rev = index.rev /\ index'.last = index.last
      /\ index'.refs = index.refs
  BY <1>1 DEF Indexes
<1>3. Typed' /\ Locked'
  BY <1>2 DEF IInv, Typed, Locked
<1>4. IndexWell' /\ JournalWell' /\ PacketKept'
  BY <1>1, <1>2 DEF IInv, IndexWell, Named, JournalWell, IntentWell, OnLine, PacketKept
<1>5. ASSUME NEW q \in Procs PROVE ProcWell(proc[q])'
  <2>1. ProcWell(proc[q])
    BY Holds
  <2> QED
    BY <1>2, <2>1 DEF ProcWell, Settling, Same, Has
<1> QED
  BY <1>3, <1>4, <1>5 DEF IInv

\* Damage to an intent nobody is at work on.
LEMMA IntentDamageKeeps ==
  ASSUME IInv, NEW i \in journal, holder = None,
         journal' = (journal \ {i}) \cup {[i EXCEPT !.readable = FALSE]},
         UNCHANGED <<index, fence, disk, orphans, holder, proc, used, done, lost>>
  PROVE  IInv'
<1> DEFINE j == [i EXCEPT !.readable = FALSE]
<1>1. i \in Intents /\ IntentWell(i) /\ OnLine(i)
  BY DEF IInv, Typed, JournalWell
<1>2. /\ j \in Intents /\ j.txn = i.txn /\ j.prior = i.prior /\ j.files = i.files
      /\ j.index = i.index
  BY <1>1 DEF Intents
<1>3. journal' = (journal \ {i}) \cup {j}
  OBVIOUS
<1> HIDE DEF j
<1>4. Typed' /\ Locked'
  BY <1>2, <1>3 DEF IInv, Typed, Locked
<1>5. IndexWell' /\ PacketKept'
  BY DEF IInv, IndexWell, Named, PacketKept
<1>6. JournalWell'
  <2>1. ASSUME NEW k \in journal' PROVE IntentWell(k)' /\ OnLine(k)'
    <3>1. CASE k = j
      BY <1>1, <1>2, <3>1 DEF IntentWell, OnLine
    <3>2. CASE k \in journal
      BY <3>2 DEF IInv, JournalWell, IntentWell, OnLine
    <3> QED
      BY <1>3, <3>1, <3>2
  <2>2. ASSUME NEW k \in journal', NEW m \in journal', k.txn = m.txn PROVE k = m
    BY <1>2, <1>3, <2>2 DEF IInv, JournalWell
  <2> QED
    BY <2>1, <2>2 DEF JournalWell
<1>7. ASSUME NEW q \in Procs PROVE ProcWell(proc[q])'
  <2>1. ProcWell(proc[q]) /\ ~Working(proc[q]) /\ proc[q] \in ProcType
    BY Holds, NamesAssumption
  <2>2. proc[q].pc \in {"idle", "unlink", "fence"}
    BY <2>1 DEF Working
  <2> QED
    BY <2>1, <2>2 DEF ProcWell
<1> QED
  BY <1>4, <1>5, <1>6, <1>7 DEF IInv

LEMMA DamageKeeps == ASSUME IInv, Damage PROVE IInv'
<1>1. CASE index.st = "ok" /\ index' = [index EXCEPT !.st = "corrupt"] /\ UNCHANGED journal
  BY <1>1, IndexDamageKeeps DEF Damage, past
<1>2. CASE /\ \E i \in journal : i.readable
                 /\ journal' = (journal \ {i}) \cup {[i EXCEPT !.readable = FALSE]}
           /\ holder = None /\ UNCHANGED index
  <2>1. PICK i \in journal : journal' = (journal \ {i}) \cup {[i EXCEPT !.readable = FALSE]}
    BY <1>2
  <2>2. UNCHANGED <<index, fence, disk, orphans, holder, proc, used, done, lost>>
    BY <1>2 DEF Damage, past
  <2> QED
    BY <1>2, <2>1, <2>2, IntentDamageKeeps
<1> QED
  BY <1>1, <1>2 DEF Damage

-------------------------------------------------------------------------------
(* Steps of the holder of the lock that change the store *)

\* Nobody else is in the middle of anything.
LEMMA HolderActs ==
  ASSUME IInv, NEW p \in Procs, holder = p,
         \A q \in Procs : q # p => proc'[q] = proc[q],
         used' \in Nat, used' >= used,
         Typed', Locked', IndexWell', JournalWell', PacketKept', ProcWell(proc[p])'
  PROVE  IInv'
<1>1. ASSUME NEW q \in Procs, q # p PROVE ProcWell(proc[q])'
  <2>1. proc'[q] = proc[q] /\ ProcWell(proc[q]) /\ proc[q] \in ProcType /\ ~Working(proc[q])
    BY <1>1, Holds
  <2>2. proc[q].pc \in {"idle", "unlink", "fence"} /\ used \in Nat
    BY <2>1 DEF Working, IInv, Typed
  <2> QED
    BY <2>1, <2>2 DEF ProcWell
<1> QED
  BY <1>1 DEF IInv

\* Dropping an intent that has been settled.
LEMMA DropKeeps ==
  ASSUME IInv, NEW p \in Procs, NEW i \in journal, Drop(p, i), holder = p,
         proc[p].pc \in {"settle", "reapplied", "orphan"},
         UNCHANGED <<index, fence, disk, orphans, holder, used, done, lost>>
  PROVE  IInv'
<1> DEFINE r == [proc[p] EXCEPT !.pc = "settle", !.todo = @ \ {i}, !.cur = None]
<1>1. proc[p] \in ProcType /\ Settling(proc[p])
  BY Holds DEF ProcWell
<1>2. /\ r \in ProcType /\ r.pc = "settle" /\ r.todo = proc[p].todo \ {i}
      /\ r.live = proc[p].live
  BY <1>1 DEF ProcType, PCs
<1>3. Goes(p, r) /\ journal' = journal \ {i}
  BY DEF Drop
<1> HIDE DEF r
<1>4. /\ proc' \in [Procs -> ProcType] /\ proc'[p] = r
      /\ \A q \in Procs : q # p => proc'[q] = proc[q]
  BY <1>2, <1>3, OneGoes DEF IInv
<1>5. Typed' /\ used' \in Nat
  BY <1>3, <1>4 DEF IInv, Typed
<1>6. Locked'
  BY <1>2, <1>4, HolderGoes DEF IInv
<1>7. IndexWell' /\ PacketKept' /\ JournalWell'
  BY <1>3 DEF IInv, IndexWell, Named, PacketKept, JournalWell, IntentWell, OnLine
<1>8. ProcWell(proc[p])'
  BY <1>1, <1>2, <1>3, <1>4 DEF ProcWell, Settling, Same
<1> QED
  BY <1>4, <1>5, <1>6, <1>7, <1>8, HolderActs DEF IInv, Typed

\* An intent's index takes effect, whether its own process puts it in place or another
\* one that found it on top.
LEMMA TakesEffect ==
  ASSUME IInv, NEW i \in journal, index' = i.index, done' = done \cup {i.txn},
         UNCHANGED <<journal, disk, used, lost>>,
         used > lost => i.prior = index.rev,
         \A f \in i.files : disk[f] = i.txn
  PROVE  /\ index' \in Indexes /\ done' \subseteq 1..used
         /\ IndexWell' /\ JournalWell' /\ PacketKept'
<1>1. i \in Intents /\ IntentWell(i) /\ OnLine(i)
  BY DEF IInv, Typed, JournalWell
<1>2. /\ i.txn \in Txns /\ i.txn \in 1..used /\ i.index \in Indexes /\ i.prior \in Nat
      /\ used \in Nat /\ lost \in Nat
  BY <1>1 DEF IInv, Typed, IntentWell, Intents, Txns
<1>3. IndexWell'
  BY <1>1, <1>2 DEF IndexWell, Named, IntentWell, Files
<1>4. JournalWell'
  <2>1. ASSUME NEW j \in journal PROVE IntentWell(j)'
    BY DEF IInv, JournalWell, IntentWell
  <2>2. ASSUME NEW j \in journal PROVE OnLine(j)'
    <3>1. SUFFICES ASSUME j.txn > lost
                   PROVE  j.prior <= index'.rev /\ j.prior # index'.rev
      BY DEF OnLine
    <3>2. j \in Intents /\ IntentWell(j) /\ OnLine(j)
      BY DEF IInv, Typed, JournalWell
    <3>3. j.prior <= index.rev /\ used > lost /\ j.prior \in Nat
      BY <1>2, <3>1, <3>2 DEF OnLine, IntentWell, Intents, Txns
    <3>4. index'.rev = index.rev + 1 /\ index.rev \in Nat
      BY <1>1, <3>3 DEF IntentWell, IInv, Typed, Indexes
    <3> QED
      BY <3>3, <3>4
  <2> QED
    BY <2>1, <2>2 DEF IInv, JournalWell
<1>5. PacketKept'
  <2>1. SUFFICES ASSUME NEW t \in Txns, t > lost, i.index.refs[t] # None
                 PROVE  disk[t] = t
    BY DEF PacketKept
  <2>2. CASE t \in i.files
    BY <1>1, <2>2 DEF IntentWell
  <2>3. CASE t \notin i.files
    <3>1. t \in Files /\ i.index.refs[t] = t
      BY <1>1, <2>1 DEF IntentWell, Files
    <3>2. t < i.txn
      BY <1>1, <2>1, <2>3, <3>1 DEF IntentWell
    <3>3. i.txn > lost /\ used > lost
      BY <1>2, <2>1, <3>2 DEF Txns
    <3>4. i.index.refs[t] = index.refs[t]
      BY <1>1, <2>3, <3>1, <3>3 DEF OnLine
    <3> QED
      BY <2>1, <3>4 DEF IInv, PacketKept
  <2> QED
    BY <2>2, <2>3
<1> QED
  BY <1>2, <1>3, <1>4, <1>5 DEF IInv, Typed

\* What an orphaned intent leaves in place: no packet that the index names is moved.
LEMMA OrphanSpares ==
  ASSUME IInv, NEW i \in journal, NEW live \in Indexes, Same(live), NEW t \in Txns,
         t \in i.files, t > lost, OnTop(live, i) \/ ~_is_referenced_by_index(live, t)
  PROVE  index.refs[t] = None
<1>1. i \in Intents /\ IntentWell(i) /\ OnLine(i) /\ t = i.txn /\ used > lost
  BY DEF IInv, Typed, JournalWell, IntentWell, Txns
<1>2. live.rev = index.rev /\ live.refs = index.refs
  BY <1>1 DEF Same
<1>3. CASE OnTop(live, i)
  <2>1. t \notin done
    BY <1>1, <1>2, <1>3 DEF OnTop, OnLine
  <2> QED
    BY <2>1 DEF IInv, IndexWell, Named, Files
<1>4. CASE ~_is_referenced_by_index(live, t)
  BY <1>2, <1>4 DEF _is_referenced_by_index
<1> QED
  BY <1>3, <1>4

LEMMA ToOrphansKeeps ==
  ASSUME IInv, NEW p \in Procs, NEW i \in journal, NEW F, ToOrphans(p, i, F), holder = p,
         proc[p].pc = "settle", F \subseteq i.files,
         \A f \in F : OnTop(proc[p].live, i) \/ ~_is_referenced_by_index(proc[p].live, f),
         UNCHANGED <<View, fence, orphans, holder>>
  PROVE  IInv'
<1> DEFINE r == [proc[p] EXCEPT !.pc = "orphan", !.cur = i, !.left = F]
<1>1. proc[p] \in ProcType /\ Settling(proc[p]) /\ i \in Intents
  BY Holds DEF ProcWell, IInv, Typed
<1>2. /\ r \in ProcType /\ r.pc = "orphan" /\ r.todo = proc[p].todo
      /\ r.live = proc[p].live /\ r.cur = i /\ r.left = F
  BY <1>1 DEF ProcType, PCs, Intents
<1>3. Goes(p, r)
  BY DEF ToOrphans
<1> HIDE DEF r
<1>4. ASSUME NEW t \in Txns, t \in F, t > lost PROVE index.refs[t] = None
  BY <1>1, <1>4, OrphanSpares DEF Settling
<1>5. ProcWell(r)
  BY <1>1, <1>2, <1>4 DEF ProcWell, Settling, Has
<1> QED
  BY <1>2, <1>3, <1>5, HolderQuiet

LEMMA SettleKeeps ==
  ASSUME IInv, NEW p \in Procs, Settle(p)
  PROVE  IInv'
<1>1. /\ proc[p] \in ProcType /\ proc[p].pc = "settle" /\ Settling(proc[p]) /\ holder = p
  BY Holds DEF Settle, At, Working, ProcWell
<1> DEFINE live == proc[p].live
<1>2. PICK i \in proc[p].todo :
         \/ Drop(p, i) /\ UNCHANGED <<index, done>>
         \/ /\ OnTop(live, i) /\ Verified(i)
            /\ index' = i.index /\ done' = done \cup {i.txn}
            /\ Goes(p, [proc[p] EXCEPT !.pc = "reapplied", !.cur = i, !.live = i.index])
            /\ UNCHANGED journal
         \/ /\ OnTop(live, i)
            /\ ToOrphans(p, i, i.files) /\ UNCHANGED <<index, journal, done>>
         \/ /\ ToOrphans(p, i, {f \in i.files : ~_is_referenced_by_index(live, f)})
            /\ UNCHANGED <<index, journal, done>>
  BY DEF Settle
<1>3. i \in journal /\ UNCHANGED <<fence, disk, orphans, holder, used, lost>>
  BY <1>1 DEF Settling, Settle
<1>4. CASE Drop(p, i) /\ UNCHANGED <<index, done>>
  BY <1>1, <1>3, <1>4, DropKeeps
<1>5. CASE /\ OnTop(live, i) /\ Verified(i)
           /\ index' = i.index /\ done' = done \cup {i.txn}
           /\ Goes(p, [proc[p] EXCEPT !.pc = "reapplied", !.cur = i, !.live = i.index])
           /\ UNCHANGED journal
  <2> DEFINE r == [proc[p] EXCEPT !.pc = "reapplied", !.cur = i, !.live = i.index]
  <2>1. i \in Intents
    BY <1>3 DEF IInv, Typed
  <2>2. /\ r \in ProcType /\ r.pc = "reapplied" /\ r.todo = proc[p].todo
        /\ r.live = i.index /\ r.cur = i /\ i.index \in Indexes
    BY <1>1, <2>1 DEF ProcType, PCs, Intents
  <2>3. Goes(p, r)
    BY <1>5
  <2> HIDE DEF r
  <2>4. /\ proc' \in [Procs -> ProcType] /\ proc'[p] = r
        /\ \A q \in Procs : q # p => proc'[q] = proc[q]
    BY <2>2, <2>3, OneGoes DEF IInv
  <2>5. used > lost => i.prior = index.rev
    BY <1>1, <1>5 DEF Settling, Same, OnTop
  <2>6. /\ index' \in Indexes /\ done' \subseteq 1..used
        /\ IndexWell' /\ JournalWell' /\ PacketKept'
    BY <1>3, <1>5, <2>5, TakesEffect DEF Verified
  <2>7. Typed' /\ used' \in Nat /\ used' >= used
    BY <1>3, <1>5, <2>4, <2>6 DEF IInv, Typed
  <2>8. Locked'
    BY <1>1, <1>3, <2>2, <2>4, HolderGoes DEF IInv
  <2>9. ProcWell(proc[p])'
    BY <1>1, <1>3, <1>5, <2>2, <2>4 DEF ProcWell, Settling, Same, Has
  <2> QED
    BY <1>1, <2>4, <2>6, <2>7, <2>8, <2>9, HolderActs
<1>6. CASE /\ OnTop(live, i)
           /\ ToOrphans(p, i, i.files) /\ UNCHANGED <<index, journal, done>>
  BY <1>1, <1>3, <1>6, ToOrphansKeeps DEF View
<1>7. CASE /\ ToOrphans(p, i, {f \in i.files : ~_is_referenced_by_index(live, f)})
           /\ UNCHANGED <<index, journal, done>>
  <2> DEFINE F == {f \in i.files : ~_is_referenced_by_index(live, f)}
  <2>1. F \subseteq i.files /\ \A f \in F : ~_is_referenced_by_index(live, f)
    OBVIOUS
  <2>2. ToOrphans(p, i, F)
    BY <1>7
  <2> HIDE DEF F
  <2> QED
    BY <1>1, <1>3, <1>7, <2>1, <2>2, ToOrphansKeeps DEF View
<1> QED
  BY <1>2, <1>4, <1>5, <1>6, <1>7

LEMMA ReappliedKeeps ==
  ASSUME IInv, NEW p \in Procs, Reapplied(p)
  PROVE  IInv'
<1>1. proc[p].pc = "reapplied" /\ holder = p /\ proc[p].cur \in journal
  BY Holds DEF Reapplied, At, Working, ProcWell, Has
<1> QED
  BY <1>1, DropKeeps DEF Reapplied, past

LEMMA OrphanKeeps ==
  ASSUME IInv, NEW p \in Procs, Orphan(p)
  PROVE  IInv'
<1>1. /\ proc[p] \in ProcType /\ proc[p].pc = "orphan" /\ ProcWell(proc[p]) /\ holder = p
      /\ proc[p].cur \in journal /\ proc[p].left \subseteq Files
  BY Holds, ProcFields DEF Orphan, At, Working, ProcWell, Has
<1>2. CASE Drop(p, proc[p].cur) /\ UNCHANGED <<disk, orphans>>
  BY <1>1, <1>2, DropKeeps DEF Orphan, past
<1>3. CASE \E f \in proc[p].left :
             /\ orphans' = orphans \cup (IF disk[f] = None THEN {} ELSE {<<f, disk[f]>>})
             /\ disk' = [disk EXCEPT ![f] = None]
             /\ Goes(p, [proc[p] EXCEPT !.left = @ \ {f}])
             /\ UNCHANGED journal
  <2>1. PICK f \in proc[p].left :
             /\ orphans' = orphans \cup (IF disk[f] = None THEN {} ELSE {<<f, disk[f]>>})
             /\ disk' = [disk EXCEPT ![f] = None]
             /\ Goes(p, [proc[p] EXCEPT !.left = @ \ {f}])
             /\ UNCHANGED journal
    BY <1>3
  <2> DEFINE r == [proc[p] EXCEPT !.left = @ \ {f}]
  <2>2. /\ r \in ProcType /\ r.pc = "orphan" /\ r.todo = proc[p].todo /\ r.live = proc[p].live
        /\ r.cur = proc[p].cur /\ r.left = proc[p].left \ {f}
    BY <1>1 DEF ProcType, PCs
  <2>3. Goes(p, r)
    BY <2>1
  <2> HIDE DEF r
  <2>4. /\ proc' \in [Procs -> ProcType] /\ proc'[p] = r
        /\ \A q \in Procs : q # p => proc'[q] = proc[q]
    BY <2>2, <2>3, OneGoes DEF IInv
  <2>5. UNCHANGED <<index, fence, journal, holder, used, done, lost>>
    BY <2>1 DEF Orphan, past
  <2>6. /\ disk' \in [Files -> Txns \cup {None, Torn}] /\ orphans' \subseteq Files \X (Txns \cup {Torn})
        /\ \A g \in Files : g # f => disk'[g] = disk[g]
    BY <1>1, <2>1 DEF IInv, Typed
  <2>7. Typed' /\ used' \in Nat /\ used' >= used
    BY <2>4, <2>5, <2>6 DEF IInv, Typed
  <2>8. Locked'
    BY <1>1, <2>2, <2>4, <2>5, HolderGoes DEF IInv
  <2>9. IndexWell' /\ JournalWell'
    BY <2>5 DEF IInv, IndexWell, Named, JournalWell, IntentWell, OnLine
  <2>10. PacketKept'
    <3>1. SUFFICES ASSUME NEW t \in Txns, t > lost, index.refs[t] # None PROVE disk'[t] = t
      BY <2>5 DEF PacketKept
    <3>2. t # f /\ t \in Files
      BY <1>1, <2>1, <3>1 DEF ProcWell, Files
    <3> QED
      BY <2>6, <3>1, <3>2 DEF IInv, PacketKept
  <2>11. ProcWell(proc[p])'
    BY <1>1, <2>2, <2>4, <2>5 DEF ProcWell, Settling, Same, Has
  <2> QED
    BY <1>1, <2>4, <2>7, <2>8, <2>9, <2>10, <2>11, HolderActs
<1> QED
  BY <1>2, <1>3 DEF Orphan

\* A payload names no packet but its own.
LEMMA PayloadFits ==
  ASSUME NEW t \in Txns, NEW F \in Payloads(t)
  PROVE  F \subseteq Files /\ \A u \in Txns : u \in F => u = t
BY NamesAssumption DEF Payloads, Files

\* The intent of a new transaction.
LEMMA IntentFits ==
  ASSUME IInv, used < MaxTxns, NEW F \in Payloads(used + 1)
  PROVE  LET i == Intent(used + 1, F) IN
         /\ used + 1 \in Txns /\ F \subseteq Files
         /\ i \in Intents /\ i.txn = used + 1 /\ i.prior = index.rev /\ i.files = F
         /\ i.index.st = "ok" /\ i.index.rev = index.rev + 1 /\ i.index.last = used + 1
         /\ \A f \in Files : i.index.refs[f] = IF f \in F THEN used + 1 ELSE index.refs[f]
<1>1. index \in Indexes /\ used + 1 \in Txns
  BY BoundsAreNat DEF IInv, Typed, Txns
<1>2. F \subseteq Files
  BY <1>1, PayloadFits
<1>3. /\ index.rev + 1 \in Nat /\ index.rev \in Nat
      /\ [f \in Files |-> IF f \in F THEN used + 1 ELSE index.refs[f]] \in [Files -> Txns \cup {None}]
  BY <1>1 DEF Indexes
<1> QED
  BY <1>1, <1>2, <1>3 DEF Intent, Intents, Indexes

LEMMA JournalsKeeps ==
  ASSUME IInv, NEW p \in Procs, Journals(p)
  PROVE  IInv'
<1>1. /\ proc[p] \in ProcType /\ holder = p /\ used < MaxTxns /\ used' = used + 1
      /\ used \in Nat /\ lost \in 0..used /\ done \subseteq 1..used
      /\ UNCHANGED <<index, fence, disk, orphans, holder, done, lost>>
  BY Holds DEF Journals, At, Working, past, IInv, Typed
<1>2. PICK F \in Payloads(used + 1) :
        LET i == Intent(used + 1, F) IN
        /\ journal' = journal \cup {i}
        /\ Goes(p, [proc[p] EXCEPT !.pc = "write", !.cur = i, !.left = F])
  BY <1>1 DEF Journals
<1>intent. PICK i : i = Intent(used + 1, F)
  OBVIOUS
<1> DEFINE r == [proc[p] EXCEPT !.pc = "write", !.cur = i, !.left = F]
<1>3. /\ used + 1 \in Txns /\ F \subseteq Files
      /\ i \in Intents /\ i.txn = used + 1 /\ i.prior = index.rev /\ i.files = F
      /\ i.index.st = "ok" /\ i.index.rev = index.rev + 1 /\ i.index.last = used + 1
      /\ \A f \in Files : i.index.refs[f] = IF f \in F THEN used + 1 ELSE index.refs[f]
  BY <1>1, <1>intent, IntentFits
<1>4. journal' = journal \cup {i} /\ Goes(p, r)
  BY <1>2, <1>intent
<1>5. r \in ProcType /\ r.pc = "write" /\ r.cur = i /\ r.left = F
  BY <1>1, <1>3 DEF ProcType, PCs
<1> HIDE DEF r
<1>6. /\ proc' \in [Procs -> ProcType] /\ proc'[p] = r
      /\ \A q \in Procs : q # p => proc'[q] = proc[q]
  BY <1>4, <1>5, OneGoes DEF IInv
<1>7. Typed' /\ used' \in Nat /\ used' >= used
  BY <1>1, <1>3, <1>4, <1>6, BoundsAreNat DEF IInv, Typed
<1>8. Locked'
  BY <1>1, <1>5, <1>6, HolderGoes DEF IInv
<1>9. IndexWell' /\ PacketKept'
  BY <1>1 DEF IInv, IndexWell, Named, PacketKept
<1>10. JournalWell'
  <2>1. IntentWell(i)'
    <3>1. \A f \in Files : f \notin F /\ index.refs[f] # None =>
             index.refs[f] \in done /\ index.refs[f] < used + 1
      <4>1. \A t \in done : t < used + 1
        BY <1>1
      <4> QED
        BY <4>1 DEF IInv, IndexWell, Named
    <3>2. \A t \in Txns : t \in F => t = used + 1
      BY <1>3, PayloadFits
    <3>3. \A t \in Txns : i.index.refs[t] \in {t, None}
      BY <1>3, <3>2 DEF IInv, IndexWell, Named, Files
    <3> QED
      BY <1>1, <1>3, <3>1, <3>2, <3>3 DEF IntentWell
  <2>2. OnLine(i)'
    <3>1. used + 1 \notin done /\ index.rev \in Nat
      BY <1>1 DEF IInv, Typed, Indexes
    <3> QED
      BY <1>1, <1>3, <3>1 DEF OnLine
  <2>3. ASSUME NEW j \in journal PROVE IntentWell(j)' /\ OnLine(j)' /\ j.txn # i.txn
    <3>1. IntentWell(j) /\ OnLine(j) /\ j \in Intents
      BY DEF IInv, JournalWell, Typed
    <3> QED
      BY <1>1, <1>3, <3>1 DEF IntentWell, OnLine, Intents, Txns
  <2> QED
    BY <1>4, <2>1, <2>2, <2>3 DEF IInv, JournalWell
<1>11. ProcWell(proc[p])'
  <2>1. used + 1 \notin done
    BY <1>1
  <2> QED
    BY <1>1, <1>3, <1>4, <1>5, <1>6, <2>1 DEF ProcWell, Has
<1> QED
  BY <1>1, <1>6, <1>7, <1>8, <1>9, <1>10, <1>11, HolderActs

\* What a transaction rewrites, wholly or halfway, no index names as a packet yet.
LEMMA RewritesOwn ==
  ASSUME IInv, NEW p \in Procs, proc[p].pc = "write", NEW f \in proc[p].left, NEW v,
         disk' = [disk EXCEPT ![f] = v], v \in Txns \cup {Torn},
         UNCHANGED <<index, journal, used, done, lost>>
  PROVE  /\ f \in Files /\ IndexWell' /\ JournalWell' /\ PacketKept'
         /\ disk' \in [Files -> Txns \cup {None, Torn}]
         /\ disk'[f] = v /\ \A g \in Files : g # f => disk'[g] = disk[g]
<1>1. /\ proc[p] \in ProcType /\ ProcWell(proc[p])
      /\ proc[p].cur \in journal /\ proc[p].left \subseteq Files
  BY Holds, ProcFields DEF ProcWell, Has
<1>2. /\ f \in Files /\ f \in proc[p].cur.files /\ proc[p].cur.txn = used /\ used \notin done
      /\ IntentWell(proc[p].cur)
  BY <1>1 DEF ProcWell, IInv, JournalWell
<1>3. /\ disk' \in [Files -> Txns \cup {None, Torn}] /\ disk'[f] = v
      /\ \A g \in Files : g # f => disk'[g] = disk[g]
  BY <1>2 DEF IInv, Typed
<1>4. IndexWell' /\ JournalWell'
  BY DEF IInv, IndexWell, Named, JournalWell, IntentWell, OnLine
<1>5. PacketKept'
  <2>1. SUFFICES ASSUME NEW t \in Txns, t > lost, index.refs[t] # None PROVE disk'[t] = t
    BY DEF PacketKept
  <2>2. t \in Files /\ t \in done
    BY <2>1 DEF IInv, IndexWell, Named, Files
  <2>3. t # f
    BY <1>2, <2>2 DEF IntentWell
  <2> QED
    BY <1>3, <2>1, <2>2, <2>3 DEF IInv, PacketKept
<1> QED
  BY <1>2, <1>3, <1>4, <1>5

LEMMA WriteSideKeeps ==
  ASSUME IInv, NEW p \in Procs, WriteSide(p)
  PROVE  IInv'
<1>1. PICK f \in proc[p].left : /\ disk' = [disk EXCEPT ![f] = proc[p].cur.txn]
                                /\ Goes(p, [proc[p] EXCEPT !.left = @ \ {f}])
  BY DEF WriteSide
<1>2. /\ proc[p] \in ProcType /\ proc[p].pc = "write" /\ ProcWell(proc[p]) /\ holder = p
      /\ UNCHANGED <<index, fence, journal, orphans, holder, used, done, lost>>
      /\ proc[p].cur.txn = used /\ proc[p].cur \in Intents
  BY Holds DEF WriteSide, At, Working, past, ProcWell, Has, IInv, Typed
<1>3. /\ f \in Files /\ IndexWell' /\ JournalWell' /\ PacketKept'
      /\ disk' \in [Files -> Txns \cup {None, Torn}]
      /\ disk'[f] = used /\ \A g \in Files : g # f => disk'[g] = disk[g]
  <2>1. used \in Txns
    BY <1>2 DEF Intents
  <2> QED
    BY <1>1, <1>2, <2>1, RewritesOwn
<1> DEFINE r == [proc[p] EXCEPT !.left = @ \ {f}]
<1>4. /\ r \in ProcType /\ r.pc = "write" /\ r.cur = proc[p].cur /\ r.left = proc[p].left \ {f}
  BY <1>2 DEF ProcType, PCs
<1>5. Goes(p, r)
  BY <1>1
<1> HIDE DEF r
<1>6. /\ proc' \in [Procs -> ProcType] /\ proc'[p] = r
      /\ \A q \in Procs : q # p => proc'[q] = proc[q]
  BY <1>4, <1>5, OneGoes DEF IInv
<1>7. Typed' /\ used' \in Nat /\ used' >= used
  BY <1>2, <1>3, <1>6 DEF IInv, Typed
<1>8. Locked'
  BY <1>2, <1>4, <1>6, HolderGoes DEF IInv
<1>9. ProcWell(proc[p])'
  <2>1. proc[p].cur.files \subseteq Files
    BY <1>2 DEF Intents
  <2>2. \A g \in proc[p].cur.files \ (proc[p].left \ {f}) : disk'[g] = used
    BY <1>2, <1>3, <2>1 DEF ProcWell
  <2> QED
    BY <1>2, <1>4, <1>6, <2>2 DEF ProcWell, Has
<1> QED
  BY <1>2, <1>3, <1>6, <1>7, <1>8, <1>9, HolderActs

LEMMA ReplacesKeeps ==
  ASSUME IInv, NEW p \in Procs, Replaces(p)
  PROVE  IInv'
<1> DEFINE r == [proc[p] EXCEPT !.pc = "committed"]
<1>1. /\ proc[p] \in ProcType /\ proc[p].pc = "write" /\ ProcWell(proc[p]) /\ holder = p
      /\ proc[p].cur \in journal /\ proc[p].cur.txn = used /\ proc[p].left = {}
      /\ index' = proc[p].cur.index /\ done' = done \cup {used}
      /\ Goes(p, r)
      /\ UNCHANGED <<fence, journal, disk, orphans, holder, used, lost>>
  BY Holds DEF Replaces, At, Working, ProcWell, Has, Moves
<1>2. /\ r \in ProcType /\ r.pc = "committed" /\ r.cur = proc[p].cur
  BY <1>1 DEF ProcType, PCs
<1> HIDE DEF r
<1>3. /\ proc' \in [Procs -> ProcType] /\ proc'[p] = r
      /\ \A q \in Procs : q # p => proc'[q] = proc[q]
  BY <1>1, <1>2, OneGoes DEF IInv
<1>4. /\ index' \in Indexes /\ done' \subseteq 1..used
      /\ IndexWell' /\ JournalWell' /\ PacketKept'
  <2>1. \A f \in proc[p].cur.files : disk[f] = used
    BY <1>1 DEF ProcWell
  <2>2. used > lost => proc[p].cur.prior = index.rev
    BY <1>1 DEF ProcWell
  <2> QED
    BY <1>1, <2>1, <2>2, TakesEffect
<1>5. Typed' /\ used' \in Nat /\ used' >= used
  BY <1>1, <1>3, <1>4 DEF IInv, Typed
<1>6. Locked'
  BY <1>1, <1>2, <1>3, HolderGoes DEF IInv
<1>7. ProcWell(proc[p])'
  BY <1>1, <1>2, <1>3 DEF ProcWell, Has
<1> QED
  BY <1>1, <1>3, <1>4, <1>5, <1>6, <1>7, HolderActs

LEMMA AcksKeeps ==
  ASSUME IInv, NEW p \in Procs, Acks(p)
  PROVE  IInv'
<1>1. /\ proc[p].pc = "committed" /\ holder = p /\ Returns(p)
      /\ journal' = journal \ {proc[p].cur}
      /\ UNCHANGED <<index, fence, disk, orphans, used, done, lost>>
  BY Holds DEF Acks, At, Working
<1>2. /\ proc' \in [Procs -> ProcType] /\ proc'[p] = Idle
      /\ \A q \in Procs : q # p => proc'[q] = proc[q]
      /\ holder' \in Procs \cup {None} /\ Locked'
  BY <1>1, ProcReturns DEF IInv
<1>3. Typed' /\ used' \in Nat /\ used' >= used
  BY <1>1, <1>2 DEF IInv, Typed
<1>4. IndexWell' /\ PacketKept' /\ JournalWell'
  BY <1>1 DEF IInv, IndexWell, Named, PacketKept, JournalWell, IntentWell, OnLine
<1>5. ProcWell(proc[p])'
  BY <1>2, IdleFits DEF ProcWell
<1> QED
  BY <1>1, <1>2, <1>3, <1>4, <1>5, HolderActs

LEMMA DiesKeeps ==
  ASSUME IInv, NEW p \in Procs, Dies(p)
  PROVE  IInv'
<1>1. /\ Returns(p) /\ UNCHANGED <<index, fence, journal, orphans, used, done, lost>>
      /\ \/ UNCHANGED disk
         \/ At(p, "write") /\ \E f \in proc[p].left : disk' = [disk EXCEPT ![f] = Torn]
  BY DEF Dies, past
<1>2. CASE UNCHANGED disk
  BY <1>1, <1>2, ReturnKeeps DEF View, IInv, Typed
<1>3. CASE At(p, "write") /\ \E f \in proc[p].left : disk' = [disk EXCEPT ![f] = Torn]
  <2>1. PICK f \in proc[p].left : disk' = [disk EXCEPT ![f] = Torn]
    BY <1>3
  <2>2. proc[p].pc = "write" /\ holder = p
    BY <1>3, Holds DEF At, Working
  <2>3. /\ IndexWell' /\ JournalWell' /\ PacketKept'
        /\ disk' \in [Files -> Txns \cup {None, Torn}]
    BY <1>1, <2>1, <2>2, RewritesOwn
  <2>4. /\ proc' \in [Procs -> ProcType] /\ proc'[p] = Idle
        /\ \A q \in Procs : q # p => proc'[q] = proc[q]
        /\ holder' \in Procs \cup {None} /\ Locked'
    BY <1>1, ProcReturns DEF IInv
  <2>5. Typed' /\ used' \in Nat /\ used' >= used
    BY <1>1, <2>3, <2>4 DEF IInv, Typed
  <2>6. ProcWell(proc[p])'
    BY <2>4, IdleFits DEF ProcWell
  <2> QED
    BY <2>2, <2>3, <2>4, <2>5, <2>6, HolderActs
<1> QED
  BY <1>1, <1>2, <1>3

LEMMA StepKeeps == IInv /\ [Next]_vars => IInv'
<1> SUFFICES ASSUME IInv, [Next]_vars PROVE IInv'
  OBVIOUS
<1>1. CASE UNCHANGED vars
  <2>1. UNCHANGED <<View, fence, orphans, holder, proc>>
    BY <1>1 DEF vars, store, past, View
  <2>2. Locked'
    BY <2>1 DEF IInv, Locked
  <2> QED
    BY <2>1, <2>2, QuietKeeps DEF IInv, Typed
<1>2. CASE Damage
  BY <1>2, DamageKeeps
<1>3. CASE OwnerClears
  BY <1>3, OwnerClearsKeeps
<1>4. CASE \E p \in Procs : Acquire(p) \/ Step(p) \/ Read(p) \/ Dies(p)
  <2>1. PICK p \in Procs : Acquire(p) \/ Step(p) \/ Read(p) \/ Dies(p)
    BY <1>4
  <2>2. CASE Step(p)
    BY <2>2, ReconcileLoadKeeps, SettleKeeps, SettledAllKeeps, ReappliedKeeps, OrphanKeeps,
       DeclinesKeeps, JournalsKeeps, WriteSideKeeps, ReplacesKeeps, AcksKeeps,
       CorruptLoadKeeps, UnlinkKeeps, FenceKeeps DEF Step
  <2> QED
    BY <2>1, <2>2, AcquireKeeps, ReadKeeps, DiesKeeps
<1> QED
  BY <1>1, <1>2, <1>3, <1>4 DEF Next

--------------------------------------------------------------------------------
(* Theorems *)

\* Types, the lock, the rows of the index, the intents of the journal and what each
\* process has in its hands agree in every reachable state.
THEOREM Invariance == Spec => []IInv
<1> QED
  BY InitIInv, StepKeeps, PTL DEF Spec

\* The variables keep to their types, and a transaction between journalling and removing
\* its intent holds the lock and has it in the journal (execute_txn).
THEOREM TypeCorrect == Spec => []TypeOK
<1>1. IInv => TypeOK
  <2> SUFFICES ASSUME IInv PROVE TypeOK
    OBVIOUS
  <2>1. ASSUME NEW p \in Procs, proc[p].pc \in {"write", "committed"}
        PROVE  holder = p /\ \E i \in journal : i.txn = proc[p].cur.txn
    BY <2>1, Holds DEF Working, ProcWell, Has
  <2> QED
    BY <2>1 DEF IInv, Typed, TypeOK
<1> QED
  BY <1>1, Invariance, PTL

\* A packet that the index names, of a transaction begun since the index was last removed,
\* is on disk and whole (reconcile_journal's moves to orphans/).
THEOREM PacketsKept == Spec => []PacketKept
<1>1. IInv => PacketKept
  BY DEF IInv
<1> QED
  BY <1>1, Invariance, PTL

--------------------------------------------------------------------------------
(* The store implements its contract *)

\* What takes effect on a line that was never removed commits.
LEMMA EffectCommits ==
  ASSUME IInv, NEW i \in journal, index' = i.index, done' = done \cup {i.txn},
         lost = 0, UNCHANGED <<acked, lost>>, i.prior = index.rev
  PROVE  \E t \in Txns : Contract!Commit(t)
<1>1. i \in Intents /\ IntentWell(i) /\ OnLine(i) /\ index \in Indexes
  BY DEF IInv, Typed, JournalWell
<1>2. i.txn \in Txns /\ i.txn > lost /\ i.files \subseteq Files
  BY <1>1 DEF Intents, Txns
<1>3. i.txn \notin done /\ \A f \in Files : f \notin i.files => i.index.refs[f] = index.refs[f]
  BY <1>1, <1>2 DEF OnLine
<1>4. i.index.refs = [f \in Files |-> IF f \in i.files THEN i.txn ELSE index.refs[f]]
  <2>1. i.index.refs \in [Files -> Txns \cup {None}]
    BY <1>1 DEF Intents, Indexes
  <2> QED
    BY <1>1, <1>3, <2>1 DEF IntentWell
<1>5. i.index.rev = index.rev + 1 /\ i.index.last = i.txn
  BY <1>1 DEF IntentWell
<1>6. Contract!Commit(i.txn)
  BY <1>2, <1>3, <1>4, <1>5 DEF Contract!Commit
<1> QED
  BY <1>2, <1>6

LEMMA StepRefines == IInv /\ IInv' /\ [Next]_vars => [Contract!Next]_Contract!cvars
<1> SUFFICES ASSUME IInv, IInv', [Next]_vars
             PROVE  Contract!Next \/ UNCHANGED Contract!cvars
  OBVIOUS
<1>1. /\ used \in Nat /\ used' \in Nat /\ lost \in Nat /\ lost' \in Nat
  BY DEF IInv, Typed
<1>2. CASE lost' > 0
  BY <1>2 DEF Contract!Next, Contract!Hurt
<1>3. CASE ~(lost' > 0)
  <2>1. lost' = 0
    BY <1>1, <1>3
  <2>2. CASE UNCHANGED <<index, done, acked, lost>>
    BY <2>2 DEF Contract!cvars
  <2>3. CASE Damage
    <3>1. UNCHANGED <<done, acked, lost>> /\ index'.rev = index.rev /\ index'.last = index.last
          /\ index'.refs = index.refs
      BY <2>3 DEF Damage, past, IInv, Typed, Indexes
    <3> QED
      BY <3>1 DEF Contract!cvars
  <2>4. ASSUME NEW p \in Procs, Settle(p) PROVE Contract!Next \/ UNCHANGED Contract!cvars
    <3>1. /\ proc[p].pc = "settle" /\ Settling(proc[p]) /\ UNCHANGED <<acked, lost>>
      BY <2>4, Holds DEF Settle, At, ProcWell
    <3>2. CASE UNCHANGED <<index, done>>
      BY <3>1, <3>2 DEF Contract!cvars
    <3>3. CASE \E i \in proc[p].todo : /\ OnTop(proc[p].live, i)
                                       /\ index' = i.index /\ done' = done \cup {i.txn}
      <4>1. PICK i \in proc[p].todo : /\ OnTop(proc[p].live, i)
                                      /\ index' = i.index /\ done' = done \cup {i.txn}
        BY <3>3
      <4>2. i \in journal /\ used > lost
        BY <1>1, <2>1, <3>1 DEF Settling, IInv, Typed, JournalWell, IntentWell, Intents, Txns
      <4>3. i.prior = index.rev
        BY <3>1, <4>1, <4>2 DEF Settling, Same, OnTop
      <4>4. \E t \in Txns : Contract!Commit(t)
        BY <2>1, <3>1, <4>1, <4>2, <4>3, EffectCommits
      <4> QED
        BY <4>4 DEF Contract!Next
    <3> QED
      BY <2>4, <3>2, <3>3 DEF Settle, Drop, ToOrphans
  <2>5. ASSUME NEW p \in Procs, Replaces(p) PROVE Contract!Next \/ UNCHANGED Contract!cvars
    <3>1. /\ proc[p].cur \in journal /\ proc[p].cur.txn = used
          /\ index' = proc[p].cur.index /\ done' = done \cup {proc[p].cur.txn}
          /\ UNCHANGED <<acked, lost>> /\ (used > lost => proc[p].cur.prior = index.rev)
      BY <2>5, Holds DEF Replaces, At, ProcWell, Has
    <3>2. used > lost
      BY <1>1, <2>1, <3>1 DEF IInv, Typed, Intents, Txns
    <3>3. \E t \in Txns : Contract!Commit(t)
      BY <2>1, <3>1, <3>2, EffectCommits
    <3> QED
      BY <3>3 DEF Contract!Next
  <2>6. ASSUME NEW p \in Procs, Acks(p) PROVE Contract!Next \/ UNCHANGED Contract!cvars
    <3>1. /\ proc[p].cur \in journal /\ proc[p].cur.txn \in done
          /\ acked' = acked \cup {proc[p].cur.txn} /\ UNCHANGED <<index, done, lost>>
      BY <2>6, Holds DEF Acks, At, ProcWell, Has
    <3>2. proc[p].cur.txn \in Txns
      BY <3>1 DEF IInv, Typed, Intents
    <3>3. Contract!Acknowledge(proc[p].cur.txn)
      BY <3>1 DEF Contract!Acknowledge
    <3> QED
      BY <3>2, <3>3 DEF Contract!Next
  <2>7. ASSUME NEW p \in Procs, Unlink(p) PROVE FALSE
    BY <1>1, <2>1, <2>7, Holds DEF Unlink, At, ProcWell
  <2>8. CASE UNCHANGED vars
    BY <2>2, <2>8 DEF vars, store, past
  <2>9. CASE OwnerClears
    BY <2>2, <2>9 DEF OwnerClears, past
  <2>10. ASSUME NEW p \in Procs, Acquire(p) \/ Read(p) \/ Dies(p) \/ ReconcileLoad(p)
                  \/ SettledAll(p) \/ Reapplied(p) \/ Orphan(p) \/ Declines(p) \/ Journals(p)
                  \/ WriteSide(p) \/ CorruptLoad(p) \/ Fence(p)
         PROVE  UNCHANGED <<index, done, acked, lost>>
    BY <2>10 DEF Acquire, Read, Dies, ReconcileLoad, SettledAll, Reapplied, Orphan, Declines,
                 Journals, WriteSide, CorruptLoad, Fence, store, past
  <2> QED
    BY <2>2, <2>3, <2>4, <2>5, <2>6, <2>7, <2>8, <2>9, <2>10 DEF Next, Step
<1> QED
  BY <1>2, <1>3

\* Until somebody removes the index, every step of every process is a transaction taking
\* effect whole and once on the revision before it, its caller being told, or nothing.
THEOREM Refinement == Spec => OneLineOfRevisions
<1>1. Init => Contract!Init
  BY DEF Init, Contract!Init, _empty_index
<1> QED
  BY <1>1, Invariance, StepRefines, PTL DEF Spec, OneLineOfRevisions, Contract!Spec
===============================================================================
