---------------------------- MODULE Publication ----------------------------
(* How an analytics projection of one account becomes visible.  Two SQLite   *)
(* files are involved and no transaction spans them: projections.sqlite3     *)
(* holds the generation rows, canonical.sqlite3 the witness of each          *)
(* activation and the publication epochs.  A store object (one process, one  *)
(* build owner, one scheduler epoch) stages a generation, reserves a witness,*)
(* marks the row pending, completes the witness and activates the row.  Any  *)
(* other store that starts meanwhile reconciles every row it finds.          *)
(*                                                                           *)
(* A step is one transaction of one of the two files, with the reads that    *)
(* lead to it.  Digests and rows are abstracted: a generation is its         *)
(* canonical revision, the generation it expects to replace and its owner.   *)
EXTENDS Naturals, Sequences, FiniteSets, TLC

CONSTANTS
    Stores,        \* store objects, each in a process of its own
    Gens,          \* generation ids
    NoGen,         \* no generation
    MaxRev,        \* bound: canonical revisions
    Retention      \* retired generations the collector keeps

ASSUME PublicationAssumption ==
    /\ NoGen \notin Gens
    /\ MaxRev \in Nat
    /\ Retention \in Nat

VARIABLES
    canon,     \* canonical revision of the account (canonical.sqlite3)
    wit,       \* generation -> state of its activation witness (canonical)
    cepoch,    \* store -> its publication epoch in canonical.sqlite3
    lepoch,    \* store -> its publication epoch in projections.sqlite3
    status,    \* generation -> status of its row (projections.sqlite3)
    ident,     \* generation -> immutable identity of row and witness
    lease,     \* generations whose lease has not expired
    retired,   \* retired rows, oldest first
    pc,        \* store -> where its publishing or opening thread stands
    cur,       \* store -> generation that thread works on
    snap,      \* store -> rows reconcile_startup read first
    todo,      \* store -> rows of that snapshot it has not handled yet
    fenced,    \* stores whose scheduler closed: epoch fenced in memory
    gone,      \* stores whose process the OS reports dead
    seen       \* history: the processes already dead when a store opened

canonical == <<canon, wit, cepoch>>
rows == <<lepoch, status, ident, lease, retired>>
opening == <<snap, todo, seen>>
vars == <<canon, wit, cepoch, lepoch, status, ident, lease, retired, pc, cur,
          snap, todo, fenced, gone, seen>>

Inactive == {"building", "validated", "pending"}
Statuses == Inactive \cup {"absent", "active", "retired", "gone"}
Identities == [rev : 0..MaxRev, prev : Gens \cup {NoGen}, owner : Stores]
NoIdentity == [rev |-> 0, prev |-> NoGen, owner |-> NoGen]
OffLine == {"down", "dead"}
Opening == {"reconcile", "attach", "complete", "check", "activate", "cancel",
            "uncomplete", "retire"}
Publishing == {"building", "validated", "entered", "reserved", "pending",
               "completed", "cleared", "undo", "undoRetire", "discard",
               "discardRetire"}

Owner(g) == ident[g].owner
Live(s) == pc[s] \notin OffLine
ActiveIs(p) == IF p = NoGen THEN \A g \in Gens : status[g] # "active"
               ELSE status[p] = "active"

(* What get() serves: the row is active, its witness completed, and the      *)
(* canonical identity has not moved.                                         *)
Served(g) == status[g] = "active" /\ wit[g] = "completed" /\ ident[g].rev = canon

NoRows == [st |-> [g \in Gens |-> "absent"], leased |-> {}]

EpochOpen(s) == cepoch[s] = "open"
SameRevision(g) == ident[g].rev = canon

-----------------------------------------------------------------------------
(* Rows: retirement and the bounded garbage collection.                      *)

(* collect_garbage keeps the newest Retention retired rows.                  *)
Kept(seq) == IF Len(seq) <= Retention THEN seq
             ELSE SubSeq(seq, Len(seq) - Retention + 1, Len(seq))
Collected(seq) == {seq[i] : i \in 1..(Len(seq) - Retention)}

Collect(st, seq) ==
    /\ retired' = Kept(seq)
    /\ status' = [g \in Gens |-> IF g \in Collected(seq) THEN "gone" ELSE st[g]]

(* One UPDATE ... SET status='retired' WHERE status IN from.                 *)
Retire(g, from) ==
    IF status[g] \in from
    THEN /\ status' = [status EXCEPT ![g] = "retired"]
         /\ retired' = Append(retired, g)
    ELSE UNCHANGED <<status, retired>>

Go(s, label) == pc' = [pc EXCEPT ![s] = label]
Rest(s) == /\ pc' = [pc EXCEPT ![s] = "idle"]
           /\ cur' = [cur EXCEPT ![s] = NoGen]

-----------------------------------------------------------------------------
Init ==
    /\ canon = 0
    /\ wit = [g \in Gens |-> "none"]
    /\ cepoch = [s \in Stores |-> "none"]
    /\ lepoch = [s \in Stores |-> "none"]
    /\ status = [g \in Gens |-> "absent"]
    /\ ident = [g \in Gens |-> NoIdentity]
    /\ lease = {}
    /\ retired = <<>>
    /\ pc = [s \in Stores |-> "down"]
    /\ cur = [s \in Stores |-> NoGen]
    /\ snap = [s \in Stores |-> NoRows]
    /\ todo = [s \in Stores |-> {}]
    /\ fenced = {}
    /\ gone = {}
    /\ seen = [s \in Stores |-> {}]

-----------------------------------------------------------------------------
(* The environment: ingestion moves the canonical identity on; a lease runs  *)
(* out while its owner is suspended; a store object is lost, because its     *)
(* process dies or because the lazy store drops it after a storage failure.  *)
(* The OS reports the dead process only while its pid is not in use.         *)
Ingest ==
    /\ canon < MaxRev
    /\ canon' = canon + 1
    /\ UNCHANGED <<wit, cepoch, rows, opening, pc, cur, fenced, gone>>

LeaseExpires(g) ==
    /\ g \in lease
    /\ lease' = lease \ {g}
    /\ UNCHANGED <<canonical, lepoch, status, ident, retired, opening, pc, cur,
                   fenced, gone>>

Lose(s) ==
    /\ Live(s)
    /\ Go(s, "dead")
    /\ gone' \in {gone, gone \cup {s}}
    /\ cur' = [cur EXCEPT ![s] = NoGen]
    /\ snap' = [snap EXCEPT ![s] = NoRows]
    /\ todo' = [todo EXCEPT ![s] = {}]
    /\ UNCHANGED <<canonical, rows, fenced, seen>>

-----------------------------------------------------------------------------
(* The scheduler's publication epoch.  Closing fences it in memory, then     *)
(* revokes it in the canonical file, then in the projection file; a thread   *)
(* that is publishing keeps running meanwhile.                               *)
OpenEpoch(s) ==
    /\ pc[s] = "idle" /\ cepoch[s] = "none" /\ s \notin fenced
    /\ cepoch' = [cepoch EXCEPT ![s] = "open"]
    /\ lepoch' = [lepoch EXCEPT ![s] = "open"]
    /\ UNCHANGED <<canon, wit, status, ident, lease, retired, opening, pc, cur,
                   fenced, gone>>

Fence(s) ==
    /\ Live(s) /\ EpochOpen(s) /\ s \notin fenced
    /\ fenced' = fenced \cup {s}
    /\ UNCHANGED <<canonical, rows, opening, pc, cur, gone>>

RevokeCanonical(s) ==
    /\ Live(s) /\ s \in fenced /\ EpochOpen(s)
    /\ cepoch' = [cepoch EXCEPT ![s] = "revoked"]
    /\ UNCHANGED <<canon, wit, rows, opening, pc, cur, fenced, gone>>

RevokeLocal(s) ==
    /\ Live(s) /\ cepoch[s] = "revoked" /\ lepoch[s] = "open"
    /\ lepoch' = [lepoch EXCEPT ![s] = "revoked"]
    /\ UNCHANGED <<canonical, status, ident, lease, retired, opening, pc, cur,
                   fenced, gone>>

-----------------------------------------------------------------------------
(* Publishing.                                                               *)

(* Staging records the generation that is active now as the one to replace.  *)
Stage(s, g) ==
    /\ pc[s] = "idle" /\ EpochOpen(s) /\ s \notin fenced
    /\ status[g] = "absent"
    /\ \A h \in Gens : ~Served(h)
    /\ \E p \in Gens \cup {NoGen} :
          /\ ActiveIs(p)
          /\ ident' = [ident EXCEPT ![g] =
                          [rev |-> canon, prev |-> p, owner |-> s]]
    /\ status' = [status EXCEPT ![g] = "building"]
    /\ lease' = lease \cup {g}
    /\ Go(s, "building")
    /\ cur' = [cur EXCEPT ![s] = g]
    /\ UNCHANGED <<canonical, lepoch, retired, opening, fenced, gone>>

Validate(s) ==
    /\ pc[s] = "building"
    /\ IF status[cur[s]] = "building"
       THEN /\ status' = [status EXCEPT ![cur[s]] = "validated"]
            /\ lease' = lease \cup {cur[s]}
            /\ Go(s, "validated")
            /\ UNCHANGED cur
       ELSE Rest(s) /\ UNCHANGED <<status, lease>>
    /\ UNCHANGED <<canonical, lepoch, ident, retired, opening, fenced, gone>>

(* A cancelled build leaves its row to whoever reclaims it.                  *)
AbandonBuild(s) ==
    /\ pc[s] = "building"
    /\ Rest(s)
    /\ UNCHANGED <<canonical, rows, opening, fenced, gone>>

(* The coordinator coalesces or cancels a candidate, or lets it publish.     *)
Enter(s) ==
    /\ pc[s] = "validated"
    /\ \/ Go(s, "discard")
       \/ s \notin fenced /\ status[cur[s]] # "gone" /\ Go(s, "entered")
    /\ UNCHANGED <<canonical, rows, opening, cur, fenced, gone>>

(* A retired row is not refused here: only a missing or an active one is.    *)
MayReserve(s, g) ==
    status[g] \notin {"gone", "active"} /\ SameRevision(g) /\ lepoch[s] = "open"

(* reserve(): the first compare-and-set of the canonical file admits one     *)
(* reservation of the account at a time.                                     *)
Reserve(s) ==
    /\ pc[s] = "entered"
    /\ IF /\ MayReserve(s, cur[s])
          /\ EpochOpen(s)
          /\ wit[cur[s]] = "none"
          /\ \A h \in Gens : wit[h] # "reserved"
       THEN wit' = [wit EXCEPT ![cur[s]] = "reserved"] /\ Go(s, "reserved")
       ELSE Go(s, "discard") /\ UNCHANGED wit
    /\ UNCHANGED <<canon, cepoch, rows, opening, cur, fenced, gone>>

Pend(s) ==
    /\ pc[s] = "reserved"
    /\ IF status[cur[s]] = "validated"
       THEN /\ status' = [status EXCEPT ![cur[s]] = "pending"]
            /\ lease' = lease \cup {cur[s]}
            /\ Go(s, "pending")
       ELSE Go(s, "discard") /\ UNCHANGED <<status, lease>>
    /\ UNCHANGED <<canonical, lepoch, ident, retired, opening, cur, fenced, gone>>

(* complete(): the second compare-and-set of the canonical file; a witness   *)
(* whose identity or epoch no longer stands is cancelled in it.              *)
Complete(s, next, failed) ==
    LET g == cur[s] IN
    /\ IF wit[g] = "reserved"
       THEN IF SameRevision(g) /\ EpochOpen(Owner(g))
            THEN wit' = [wit EXCEPT ![g] = "completed"] /\ Go(s, next)
            ELSE wit' = [wit EXCEPT ![g] = "cancelled"] /\ Go(s, failed)
       ELSE /\ Go(s, IF wit[g] = "completed" THEN next ELSE failed)
            /\ UNCHANGED wit
    /\ UNCHANGED <<canon, cepoch, rows, opening, cur, fenced, gone>>

CompleteOwn(s) ==
    /\ pc[s] = "pending" /\ status[cur[s]] # "gone"
    /\ Complete(s, "completed", "discard")

(* The row vanished under its owner: the reservation is cancelled.           *)
LostPending(s) ==
    /\ pc[s] = "pending" /\ status[cur[s]] = "gone"
    /\ wit' = [wit EXCEPT ![cur[s]] = IF @ = "reserved" THEN "cancelled" ELSE @]
    /\ Go(s, "discard")
    /\ UNCHANGED <<canon, cepoch, rows, opening, cur, fenced, gone>>

(* What is read again before the activation's transaction.                   *)
Witnessed(g) ==
    /\ status[g] # "gone" /\ wit[g] = "completed"
    /\ EpochOpen(Owner(g)) /\ SameRevision(g)

Clear(s) ==
    /\ pc[s] = "completed"
    /\ Go(s, IF Witnessed(cur[s]) THEN "cleared" ELSE "undo")
    /\ UNCHANGED <<canonical, rows, opening, cur, fenced, gone>>

(* The activation's transaction: the row is still pending, the generation it *)
(* expects to replace is still the active one, and its epoch stands in this  *)
(* file and in this store's memory.                                          *)
\* Mutant: the epoch fenced in memory is not looked at.
MayActivateFenced(s, g) ==
    status[g] = "pending" /\ ActiveIs(ident[g].prev) /\ lepoch[Owner(g)] = "open"

\* Mutant: the active generation is not compared with the expected one.
MayActivateOverAny(s, g) ==
    /\ status[g] = "pending"
    /\ lepoch[Owner(g)] = "open"
    /\ ~(s = Owner(g) /\ s \in fenced)

MayActivate(s, g) ==
    /\ status[g] = "pending"
    /\ ActiveIs(ident[g].prev)
    /\ lepoch[Owner(g)] = "open"
    /\ ~(s = Owner(g) /\ s \in fenced)

Activated(g) ==
    [h \in Gens |-> IF h = g THEN "active"
                    ELSE IF status[h] = "active" THEN "retired" ELSE status[h]]
WithReplaced(g) == IF ident[g].prev = NoGen THEN retired
                   ELSE Append(retired, ident[g].prev)

Activate(s) ==
    /\ pc[s] = "cleared"
    /\ IF MayActivate(s, cur[s])
       THEN Collect(Activated(cur[s]), WithReplaced(cur[s])) /\ Rest(s)
       ELSE Go(s, "undo") /\ UNCHANGED <<status, retired, cur>>
    /\ UNCHANGED <<canonical, lepoch, ident, lease, opening, fenced, gone>>

(* A failed activation withdraws the witness, then the row, whatever became  *)
(* of them meanwhile.                                                        *)
Withdraw(s, next) ==
    /\ wit' = [wit EXCEPT ![cur[s]] = IF @ = "completed" THEN "cancelled" ELSE @]
    /\ Go(s, next)
    /\ UNCHANGED <<canon, cepoch, rows, opening, cur, fenced, gone>>

Undo(s) == pc[s] = "undo" /\ Withdraw(s, "undoRetire")

UndoRetire(s) ==
    /\ pc[s] = "undoRetire"
    /\ Retire(cur[s], Inactive \cup {"active"})
    /\ Go(s, "discard")
    /\ UNCHANGED <<canonical, lepoch, ident, lease, opening, cur, fenced, gone>>

(* discard_generation returns at once for a row that is missing or retired,  *)
(* refuses an active one, and else cancels the reservation before the row.   *)
Discard(s) ==
    /\ pc[s] = "discard"
    /\ IF status[cur[s]] \in Inactive
       THEN /\ wit' = [wit EXCEPT ![cur[s]] =
                          IF @ = "reserved" THEN "cancelled" ELSE @]
            /\ Go(s, "discardRetire")
            /\ UNCHANGED cur
       ELSE Rest(s) /\ UNCHANGED wit
    /\ UNCHANGED <<canon, cepoch, rows, opening, fenced, gone>>

DiscardRetire(s) ==
    /\ pc[s] = "discardRetire"
    /\ IF status[cur[s]] \in Inactive
       THEN Collect([status EXCEPT ![cur[s]] = "retired"], Append(retired, cur[s]))
       ELSE UNCHANGED <<status, retired>>
    /\ Rest(s)
    /\ UNCHANGED <<canonical, lepoch, ident, lease, opening, fenced, gone>>

-----------------------------------------------------------------------------
(* Opening a store: reconcile_startup over a snapshot of the rows.           *)

Present(st) == {g \in Gens : st[g] \notin {"absent", "gone"}}

Open(s) ==
    /\ pc[s] = "down"
    /\ Go(s, "reconcile")
    /\ snap' = [snap EXCEPT ![s] = [st |-> status, leased |-> lease]]
    /\ todo' = [todo EXCEPT ![s] = {g \in Present(status) : status[g] # "retired"}]
    /\ seen' = [seen EXCEPT ![s] = gone]
    /\ UNCHANGED <<canonical, rows, cur, fenced, gone>>

(* A projection file that failed is moved aside first; no other store may    *)
(* have it open.                                                             *)
OpenRecreated(s) ==
    /\ pc[s] = "down" /\ \A t \in Stores : ~Live(t)
    /\ Go(s, "reconcile")
    /\ status' = [g \in Gens |-> IF status[g] = "absent" THEN "absent" ELSE "gone"]
    /\ lepoch' = [t \in Stores |-> "none"]
    /\ retired' = <<>> /\ lease' = {}
    /\ seen' = [seen EXCEPT ![s] = gone]
    /\ UNCHANGED <<canonical, ident, snap, todo, cur, fenced, gone>>

Handled(s, g) == todo' = [todo EXCEPT ![s] = @ \ {g}]
Begin(s, g, label) == Go(s, label) /\ cur' = [cur EXCEPT ![s] = g]
Skip(s, g) == Handled(s, g) /\ UNCHANGED <<pc, cur>>

(* The witness is withdrawn according to the state it was read in.           *)
WithdrawRead(s, g) ==
    Begin(s, g, IF wit[g] = "reserved" THEN "cancel"
                ELSE IF wit[g] = "completed" THEN "uncomplete" ELSE "retire")

\* Mutant: only an expired lease makes a row reclaimable.
ReclaimableExpired(s, g) == g \notin snap[s].leased

Reclaimable(s, g) == g \notin snap[s].leased \/ Owner(g) \in gone

\* Mutant: an active row is trusted only while its lease runs.
TrustedLeased(g) == wit[g] = "completed" /\ SameRevision(g) /\ g \in lease

(* Active rows come first and are never trusted for being active.            *)
Trusted(g) == wit[g] = "completed" /\ SameRevision(g)

ReconcileActive(s, g) ==
    /\ pc[s] = "reconcile" /\ g \in todo[s] /\ snap[s].st[g] = "active"
    /\ IF Trusted(g)
       THEN Skip(s, g)
       ELSE WithdrawRead(s, g) /\ UNCHANGED todo
    /\ UNCHANGED <<canonical, rows, snap, seen, fenced, gone>>

NoActiveLeft(s) == \A h \in todo[s] : snap[s].st[h] # "active"

ReconcileBuilding(s, g) ==
    /\ pc[s] = "reconcile" /\ g \in todo[s] /\ NoActiveLeft(s)
    /\ snap[s].st[g] = "building"
    /\ IF Reclaimable(s, g) /\ (g \notin lease \/ Owner(g) \in gone)
       THEN Retire(g, {"building"})
       ELSE UNCHANGED <<status, retired>>
    /\ Skip(s, g)
    /\ UNCHANGED <<canonical, lepoch, ident, lease, snap, seen, fenced, gone>>

ReconcilePending(s, g) ==
    /\ pc[s] = "reconcile" /\ g \in todo[s] /\ NoActiveLeft(s)
    /\ snap[s].st[g] \in {"validated", "pending"}
    /\ IF wit[g] = "none"
       THEN IF Reclaimable(s, g) THEN Begin(s, g, "retire") /\ UNCHANGED todo
            ELSE Skip(s, g)
       ELSE IF ~SameRevision(g) \/ lepoch[Owner(g)] # "open" \/ ~EpochOpen(Owner(g))
       THEN WithdrawRead(s, g) /\ UNCHANGED todo
       ELSE IF Reclaimable(s, g)
       THEN /\ Begin(s, g, IF wit[g] = "cancelled" THEN "retire"
                           ELSE IF snap[s].st[g] = "validated" THEN "attach"
                           ELSE "complete")
            /\ UNCHANGED todo
       ELSE Skip(s, g)
    /\ UNCHANGED <<canonical, rows, snap, seen, fenced, gone>>

\* Mutant: the recovered row is activated without completing its witness.
RecAttachOnly(s) ==
    /\ pc[s] = "attach"
    /\ status' = [status EXCEPT ![cur[s]] = IF @ = "validated" THEN "pending" ELSE @]
    /\ Go(s, "activate")
    /\ UNCHANGED <<canonical, lepoch, ident, lease, retired, opening, cur, fenced, gone>>

RecAttach(s) ==
    /\ pc[s] = "attach"
    /\ status' = [status EXCEPT ![cur[s]] = IF @ = "validated" THEN "pending" ELSE @]
    /\ Go(s, "complete")
    /\ UNCHANGED <<canonical, lepoch, ident, lease, retired, opening, cur, fenced, gone>>

RecComplete(s) == pc[s] = "complete" /\ Complete(s, "check", "retire")

RecCheck(s) ==
    /\ pc[s] = "check"
    /\ Go(s, IF Witnessed(cur[s]) THEN "activate" ELSE "uncomplete")
    /\ UNCHANGED <<canonical, rows, opening, cur, fenced, gone>>

Resume(s) == /\ Go(s, "reconcile")
             /\ cur' = [cur EXCEPT ![s] = NoGen]
             /\ Handled(s, cur[s])

RecActivate(s) ==
    /\ pc[s] = "activate"
    /\ IF MayActivate(s, cur[s])
       THEN /\ status' = Activated(cur[s])
            /\ retired' = WithReplaced(cur[s])
            /\ Resume(s)
       ELSE Go(s, "uncomplete") /\ UNCHANGED <<status, retired, cur, todo>>
    /\ UNCHANGED <<canonical, lepoch, ident, lease, snap, seen, fenced, gone>>

(* cancel() of a witness completed meanwhile is refused and passed over.     *)
RecCancel(s) ==
    /\ pc[s] = "cancel"
    /\ wit' = [wit EXCEPT ![cur[s]] = IF @ = "reserved" THEN "cancelled" ELSE @]
    /\ Go(s, "retire")
    /\ UNCHANGED <<canon, cepoch, rows, opening, cur, fenced, gone>>

RecUncomplete(s) == pc[s] = "uncomplete" /\ Withdraw(s, "retire")

RecRetire(s) ==
    /\ pc[s] = "retire"
    /\ Retire(cur[s], IF snap[s].st[cur[s]] = "active"
                      THEN Inactive \cup {"active"} ELSE Inactive)
    /\ Resume(s)
    /\ UNCHANGED <<canonical, lepoch, ident, lease, snap, seen, fenced, gone>>

(* Reservations of generations this file does not know are cancelled last.   *)
FinishOpening(s) ==
    /\ pc[s] = "reconcile" /\ todo[s] = {}
    /\ wit' = [g \in Gens |-> IF wit[g] = "reserved" /\ g \notin Present(snap[s].st)
                              THEN "cancelled" ELSE wit[g]]
    /\ IF Present(snap[s].st) = {} THEN UNCHANGED <<status, retired>>
       ELSE Collect(status, retired)
    /\ snap' = [snap EXCEPT ![s] = NoRows]
    /\ Rest(s)
    /\ UNCHANGED <<canon, cepoch, lepoch, ident, lease, todo, seen, fenced, gone>>

-----------------------------------------------------------------------------
Scheduling(s) == OpenEpoch(s) \/ Fence(s) \/ RevokeCanonical(s) \/ RevokeLocal(s)

Publish(s) ==
    \/ \E g \in Gens : Stage(s, g)
    \/ Validate(s) \/ AbandonBuild(s) \/ Enter(s) \/ Reserve(s) \/ Pend(s)
    \/ CompleteOwn(s) \/ LostPending(s) \/ Clear(s) \/ Activate(s)
    \/ Undo(s) \/ UndoRetire(s) \/ Discard(s) \/ DiscardRetire(s)

Reconcile(s) ==
    \/ Open(s) \/ OpenRecreated(s)
    \/ \E g \in Gens : ReconcileActive(s, g) \/ ReconcileBuilding(s, g)
                        \/ ReconcilePending(s, g)
    \/ RecAttach(s) \/ RecComplete(s) \/ RecCheck(s) \/ RecActivate(s)
    \/ RecCancel(s) \/ RecUncomplete(s) \/ RecRetire(s) \/ FinishOpening(s)

Next ==
    \/ Ingest
    \/ \E g \in Gens : LeaseExpires(g)
    \/ \E s \in Stores : Lose(s) \/ Scheduling(s) \/ Publish(s) \/ Reconcile(s)

Spec == Init /\ [][Next]_vars

Symmetry == Permutations(Gens) \cup Permutations(Stores)

-----------------------------------------------------------------------------
PublicationTypeOK ==
    /\ canon \in 0..MaxRev
    /\ wit \in [Gens -> {"none", "reserved", "completed", "cancelled"}]
    /\ cepoch \in [Stores -> {"none", "open", "revoked"}]
    /\ lepoch \in [Stores -> {"none", "open", "revoked"}]
    /\ status \in [Gens -> Statuses]
    /\ ident \in [Gens -> Identities \cup {NoIdentity}]
    /\ lease \subseteq Gens
    /\ retired \in Seq(Gens)
    /\ pc \in [Stores -> OffLine \cup Opening \cup Publishing \cup {"idle"}]
    /\ cur \in [Stores -> Gens \cup {NoGen}]
    /\ snap \in [Stores -> [st : [Gens -> Statuses], leased : SUBSET Gens]]
    /\ todo \in [Stores -> SUBSET Gens]
    /\ fenced \subseteq Stores /\ gone \subseteq Stores
    /\ seen \in [Stores -> SUBSET Stores]

(* A row is active only if its witness was completed first, although the two *)
(* are in different files and either process may die between the two writes: *)
(* a recovered row, an undone one or one taken over is no exception.  The    *)
(* witness may have been withdrawn since, and then nothing serves the row.   *)
ActiveWasWitnessed ==
    \A g \in Gens : status[g] = "active" => wit[g] \in {"completed", "cancelled"}

(* Once a store's epoch is revoked in canonical.sqlite3 its own publishing   *)
(* thread, which close() does not wait for, activates nothing any more; only *)
(* a store that had checked the epoch before still may (it took the expired  *)
(* lease over).                                                              *)
ClosedStoreNeverActivates ==
    [][\A g \in Gens :
         (/\ status[g] # "active" /\ status'[g] = "active"
          /\ cepoch[Owner(g)] = "revoked")
         => \E t \in Stores \ {Owner(g)} : pc[t] = "activate" /\ cur[t] = g]_vars

(* What a reader is served is withdrawn only when the account moves on, when *)
(* a later generation replaces it, when the file is recreated, or when its   *)
(* live owner, or a second store recovering it, finds that another one had   *)
(* taken its expired lease over and undoes the activation.                   *)
ServedUntilSuperseded ==
    [][\A g \in Gens :
         Served(g) /\ ~Served(g)' =>
           \/ canon' # canon
           \/ \E h \in Gens : status[h] # "active" /\ status'[h] = "active"
           \/ status'[g] = "gone"
           \/ pc[Owner(g)] = "undo" /\ cur[Owner(g)] = g
           \/ \E t \in Stores : /\ pc[t] = "uncomplete" /\ cur[t] = g
                               /\ snap[t].st[g] # "active"]_vars

(* A store that has finished opening leaves nothing undecided of a process   *)
(* that was dead when it began: no inactive row and no reservation for one.  *)
StartupResolvesTheDead ==
    [][\A s \in Stores : pc[s] = "reconcile" /\ pc'[s] = "idle" =>
         \A g \in Present(snap[s].st) :
           Owner(g) \in seen[s] /\ snap[s].st[g] \in Inactive
           => status'[g] \notin Inactive /\ wit'[g] # "reserved"]_vars

(* The revision of the active row never goes back, whichever of the delayed  *)
(* publications and recoveries of several stores comes last.                 *)
ActiveNeverGoesBack ==
    [][\A g, h \in Gens :
         status[g] = "active" /\ status'[h] = "active" =>
           ident[g].rev <= ident'[h].rev]_vars
=============================================================================
