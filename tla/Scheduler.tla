----------------------------- MODULE Scheduler -----------------------------
(* The in-process analytics scheduler: it coalesces the revisions asked of   *)
(* each account, builds and publishes them with a fixed number of workers,   *)
(* and repairs the disposable projection file when it is lost.  Tasks run on *)
(* one event loop, so a step lasts from one await to the next; the calls     *)
(* they await run on executor threads and are steps of their own, and a      *)
(* storage failure noticed by any of them changes the scheduler's state.     *)
(*                                                                           *)
(* Publishing is one step here (module Publication opens it up); a candidate *)
(* is the revision it was built from and the publication epoch it carries.   *)
EXTENDS Integers, Sequences, FiniteSets, TLC

CONSTANTS
    Accounts,
    Busy,          \* accounts that get commits while the scheduler runs
    Workers,       \* worker_count tasks
    Capacity,      \* queue_capacity
    Retained,      \* failure_state_capacity
    MaxRev,        \* bound: canonical revisions
    MaxAsks,       \* bound: recovery requests
    MaxFaults      \* bound: lost files, failing calls, a saturated executor

ASSUME SchedulerAssumption ==
    /\ IsFiniteSet(Accounts) /\ Busy \subseteq Accounts
    /\ Capacity \in Nat \ {0} /\ Retained \in Nat \ {0}
    /\ MaxRev \in Nat /\ MaxAsks \in Nat /\ MaxFaults \in Nat

VARIABLES
    canon,      \* canonical revision of each account
    file,       \* the projection file: activated revision, rows, epochs known
    disk,       \* does the path still hold the file the store opened
    store,      \* the lazy store: "none", "open", "closed"
    needs,      \* the store asks for its file to be quarantined first
    notified,   \* the failure callback was called since the last opening
    backoff,    \* the last repair failed and its delay has not passed
    faults,     \* faults that happened
    reported,   \* history: the scheduler was told of a storage failure
    moved,      \* the storage failure serial moved since the holder read it
    epoch,      \* its publication epoch, 0 when it has none
    epochs,     \* epochs opened so far
    fenced,     \* epochs fenced by close()
    lock,       \* holder of the epoch lock
    work,       \* account -> the work admitted for it
    pending,    \* queue of admitted accounts
    failures,   \* account -> revision whose attempt failed
    available,  \* account -> revision recorded as available
    asks,       \* recovery requests made
    requests,   \* account -> revision of its queued recovery request
    closed,     \* close() or abort() was called
    pc,         \* task -> where it stands
    acct,       \* worker -> account it drains
    cand,       \* worker -> candidate it holds
    failed,     \* workers whose attempt failed
    batch,      \* requests the recovery task took: account -> revision
    sweep,      \* what the startup sweep has left: account -> revision
    owed,       \* history: revision asked for and not settled yet
    escaped     \* history: accounts whose drain ended in an uncaught error

noticing == <<faults, store, needs, notified, reported, moved, epoch, available>>
disks == <<file, disk, backoff>>
storage == <<noticing, disks>>
lazy == <<faults, store, needs, notified, reported, moved, epoch, disks>>
epochLock == <<epochs, lock>>
admission == <<work, pending, failures>>
asking == <<asks, requests, batch, sweep, owed>>
holding == <<acct, cand, failed>>
vars == <<canon, file, disk, store, needs, notified, backoff, faults, reported,
          moved, epoch, epochs, fenced, lock, work, pending, failures, available,
          asks, requests, closed, pc, acct, cand, failed, batch, sweep,
          owed, escaped>>

NoRev == -1
NoAccount == "none"
Nobody == "none"
Recovery == "recovery"
Starter == "starter"
Tasks == Workers \cup {Recovery, Starter}

ASSUME TasksAssumption == Workers \cap {Nobody, Recovery, Starter} = {}

Revs == 0..MaxRev
NoWork == [req |-> NoRev, att |-> NoRev]
NoCand == [rev |-> NoRev, epoch |-> 0, staged |-> FALSE]
NewFile == [active |-> [a \in Accounts |-> NoRev], rows |-> {}, known |-> {}]

MaxOf(x, y) == IF x >= y THEN x ELSE y
Row(w) == [acct |-> acct[w], rev |-> cand[w].rev, epoch |-> cand[w].epoch]
Current(a) == file.active[a] = canon[a]
HasWork(a) == work[a] # NoWork
Go(x, label) == pc' = [pc EXCEPT ![x] = label]

Init ==
    /\ canon = [a \in Accounts |-> 0]
    /\ file \in [active : [Accounts -> {NoRev, 0}], rows : {{}}, known : {{}}]
    /\ disk = "good" /\ store = "none"
    /\ needs = FALSE /\ notified = FALSE /\ backoff = FALSE
    /\ faults = 0 /\ reported = FALSE /\ moved = FALSE
    /\ epoch = 0 /\ epochs = 0 /\ fenced = {}
    /\ lock = Nobody
    /\ work = [a \in Accounts |-> NoWork]
    /\ pending = <<>>
    /\ failures = [a \in Accounts |-> NoRev]
    /\ available = [a \in Accounts |-> NoRev]
    /\ asks = 0
    /\ requests = [a \in Accounts |-> NoRev]
    /\ closed = FALSE
    /\ pc = [x \in Tasks |-> IF x = Starter THEN "storage" ELSE "off"]
    /\ acct = [x \in Workers \cup {Starter} |-> NoAccount]
    /\ cand = [w \in Workers |-> NoCand]
    /\ failed = {}
    /\ batch = [a \in Accounts |-> NoRev]
    /\ sweep = [a \in Accounts |-> NoRev]
    /\ owed = [a \in Accounts |-> NoRev]
    /\ escaped = {}

-----------------------------------------------------------------------------
(* The lazy store.  Every operation first checks that its file is in place;  *)
(* a failing one drops the store and, once per opening, tells the scheduler, *)
(* which forgets its epoch and what it held available.                       *)

Reachable == store = "open" /\ disk = "good"
Faulty == faults < MaxFaults /\ faults' = faults + 1

MarkFailed(scope) ==
    /\ store' = IF store = "closed" THEN "closed" ELSE "none"
    /\ needs' = TRUE /\ notified' = TRUE
    /\ IF notified THEN UNCHANGED <<reported, moved, epoch, available>>
       ELSE /\ reported' = TRUE /\ moved' = TRUE
            /\ epoch' = 0
            /\ available' = [a \in Accounts |-> IF scope \in {a, NoAccount}
                                                THEN NoRev ELSE available[a]]

Reached == Reachable /\ UNCHANGED noticing
Unreached(scope) ==
    /\ \/ ~Reachable /\ UNCHANGED faults
       \/ Reachable /\ Faulty
    /\ MarkFailed(scope)

(* The file is deleted or replaced under the open store.                     *)
Damage ==
    /\ store = "open" /\ disk = "good" /\ Faulty
    /\ disk' = "gone"
    /\ UNCHANGED <<canon, file, store, needs, notified, backoff, reported, moved, epoch,
                   available, epochLock, fenced, admission, asking, closed, pc,
                   holding, escaped>>

BackoffEnds ==
    /\ backoff /\ backoff' = FALSE
    /\ UNCHANGED <<canon, noticing, file, disk, epochLock, fenced, admission,
                   asking, closed, pc, holding, escaped>>

(* A task whose awaited call failed: an attempt is over, the recovery task   *)
(* waits and begins again, the startup task ends.                            *)
Fails(x) ==
    /\ Go(x, CASE x = Recovery -> "top" [] x = Starter -> "off" [] OTHER -> "settle")
    /\ failed' = IF x \in Workers THEN failed \cup {x} ELSE failed

(* The executor has no slot left for the call.                               *)
Refused(x) ==
    /\ Faulty
    /\ \/ pc[x] \in {"storage", "build", "list", "sweep"}
       \/ pc[x] = "epoch" /\ epoch = 0
    /\ Fails(x)
    /\ lock' = IF lock = x THEN Nobody ELSE lock
    /\ UNCHANGED <<canon, store, needs, notified, reported, moved, epoch, available, disks,
                   epochs, fenced, admission, asking, closed, acct, cand,
                   escaped>>

(* ensure_ready: an unchanged file is kept, a lost or failed one is replaced *)
(* by an empty one.  The scheduler is not told of what is found here; a file *)
(* replaced under the open store is marked as if it was, a deleted one not.  *)
EnsureReady(x) ==
    /\ pc[x] = "storage"
    /\ \/ /\ Reachable
          /\ Go(x, "epoch")
          /\ UNCHANGED <<storage, failed>>
       \/ /\ ~Reachable /\ store # "closed" /\ ~backoff
          /\ \/ file' = (IF needs \/ store = "open" THEN NewFile ELSE file)
                /\ UNCHANGED faults
             \/ ~needs /\ store = "none" /\ file' = NewFile /\ Faulty
          /\ store' = "open" /\ disk' = "good"
          /\ needs' = FALSE /\ notified' = FALSE
          /\ Go(x, "epoch")
          /\ UNCHANGED <<backoff, reported, moved, epoch, available, failed>>
       \/ /\ ~Reachable /\ store # "closed" /\ ~backoff
          /\ Faulty
          /\ store' = "none" /\ needs' = TRUE /\ backoff' = TRUE
          /\ notified' \in {notified, notified \/ store = "open"}
          /\ Fails(x)
          /\ UNCHANGED <<file, disk, reported, moved, epoch, available>>
       \/ /\ ~Reachable /\ (store = "closed" \/ backoff)
          /\ Fails(x)
          /\ UNCHANGED storage
    /\ UNCHANGED <<canon, epochLock, fenced, admission, asking, closed, acct, cand,
                   escaped>>

-----------------------------------------------------------------------------
(* The publication epoch, opened by one task at a time.  A storage failure   *)
(* reported while it is being opened makes the task open another.            *)

AfterEpoch(x) == IF x = Recovery THEN "admit" ELSE IF x = Starter THEN "list" ELSE "build"

EpochTaken(x, e) ==
    /\ Go(x, AfterEpoch(x)) /\ lock' = Nobody
    /\ cand' = IF x \in Workers THEN [cand EXCEPT ![x].epoch = e] ELSE cand

EpochCheck(x) ==
    /\ pc[x] = "epoch" /\ lock \in {Nobody, x}
    /\ IF epoch # 0
       THEN EpochTaken(x, epoch) /\ UNCHANGED moved
       ELSE Go(x, "opening") /\ lock' = x /\ moved' = FALSE /\ UNCHANGED cand
    /\ UNCHANGED <<canon, faults, store, needs, notified, reported, epoch, available,
                   disks, epochs, fenced, admission, asking, closed, acct, failed,
                   escaped>>

EpochOpen(x) ==
    /\ pc[x] = "opening"
    /\ \/ /\ Reached
          /\ epochs' = epochs + 1
          /\ file' = [file EXCEPT !.known = @ \cup {epochs'}]
          /\ Go(x, "opened")
          /\ UNCHANGED <<lock, failed>>
       \/ /\ Unreached(NoAccount)
          /\ Fails(x)
          /\ lock' = Nobody
          /\ UNCHANGED <<epochs, file>>
    /\ UNCHANGED <<canon, disk, backoff, fenced, admission, asking, closed,
                   acct, cand, escaped>>

EpochTake(x) ==
    /\ pc[x] = "opened"
    /\ IF moved
       THEN Go(x, "epoch") /\ UNCHANGED <<epoch, lock, cand>>
       ELSE epoch' = epochs /\ EpochTaken(x, epochs)
    /\ UNCHANGED <<canon, faults, store, needs, notified, reported, moved, available,
                   disks, epochs, fenced, admission, asking, closed, acct, failed,
                   escaped>>

-----------------------------------------------------------------------------
(* Admission.                                                                *)

\* Mutant: one worker too few is started.
LaunchedLess(at, queue) ==
    LET off == {w \in Workers : at[w] = "off"}
    IN  {[x \in Tasks |-> IF x \in L THEN "take" ELSE at[x]] :
            L \in {M \in SUBSET off :
                     \/ Cardinality(M) = Len(queue) - 1
                     \/ Cardinality(M) < Len(queue) - 1 /\ M = off}}

(* Workers are started for the queue, up to worker_count.                    *)
Launched(at, queue) ==
    LET off == {w \in Workers : at[w] = "off"}
    IN  {[x \in Tasks |-> IF x \in L THEN "take" ELSE at[x]] :
            L \in {M \in SUBSET off :
                     \/ Cardinality(M) = Len(queue)
                     \/ Cardinality(M) < Len(queue) /\ M = off}}

Coalesce(a, r) == work' = [work EXCEPT ![a].req = MaxOf(@, r)]

Known(a, r) == ~HasWork(a) /\ available[a] >= r

(* schedule(retry_failed=True) of a task that goes on at label next.         *)
Schedule(x, a, r, next) ==
    \/ /\ HasWork(a)
       /\ Coalesce(a, r)
       /\ Go(x, next)
       /\ UNCHANGED <<pending, failures, available>>
    \/ /\ Known(a, r)
       /\ Go(x, next)
       /\ UNCHANGED <<admission, available>>
    \/ /\ ~HasWork(a) /\ available[a] < r /\ Len(pending) < Capacity
       /\ failures' = [failures EXCEPT ![a] = NoRev]
       /\ available' = [available EXCEPT ![a] = NoRev]
       /\ work' = [work EXCEPT ![a] = [req |-> r, att |-> NoRev]]
       /\ pending' = Append(pending, a)
       /\ pc' \in Launched([pc EXCEPT ![x] = next], pending')

Full(a, r) == ~HasWork(a) /\ available[a] < r /\ Len(pending) >= Capacity

Owes(a, r) == owed' = [owed EXCEPT ![a] = MaxOf(@, r)]
Settled(a, r) == owed' = [owed EXCEPT ![a] = IF @ <= r THEN NoRev ELSE @]

Commit(a) ==
    /\ a \in Busy /\ canon[a] < MaxRev
    /\ canon' = [canon EXCEPT ![a] = @ + 1]
    /\ UNCHANGED <<storage, epochLock, fenced, admission, asking, closed, pc, holding,
                   escaped>>

(* A read that finds the storage failed.                                     *)
Read(a) ==
    /\ ~closed
    /\ Unreached(a)
    /\ UNCHANGED <<canon, disks, epochLock, fenced, admission, asking, closed, pc,
                   holding, escaped>>

(* A commit or a failed read asks for its account's recovery, with the       *)
(* canonical revision it read some time before.                              *)
RequestRecovery(a, r) ==
    /\ asks < MaxAsks /\ asks' = asks + 1
    /\ r <= canon[a] /\ ~closed
    /\ available' = [available EXCEPT ![a] = NoRev]
    /\ failures' = [failures EXCEPT ![a] = NoRev]
    /\ requests' = [requests EXCEPT ![a] = MaxOf(@, r)]
    /\ Owes(a, r)
    /\ IF pc[Recovery] = "off" THEN Go(Recovery, "top") ELSE UNCHANGED pc
    /\ UNCHANGED <<canon, lazy, epochLock, fenced, work, pending, batch, sweep, closed, holding,
                   escaped>>

-----------------------------------------------------------------------------
(* The recovery task repairs the storage and admits the requests it took.    *)
NoRevs == [a \in Accounts |-> NoRev]

RecoveryTop ==
    /\ pc[Recovery] = "top"
    /\ batch' = requests
    /\ Go(Recovery, IF requests = NoRevs THEN "off" ELSE "storage")
    /\ UNCHANGED <<canon, storage, epochLock, fenced, admission, asks, requests,
                   sweep, owed, closed, holding, escaped>>

(* The code admits its batch in one go; account by account here.             *)
RecoveryAdmit(a) ==
    /\ pc[Recovery] = "admit" /\ batch[a] # NoRev
    /\ batch' = [batch EXCEPT ![a] = NoRev]
    /\ \/ /\ Schedule(Recovery, a, batch[a], "admit")
          /\ requests' = [requests EXCEPT ![a] = IF @ = batch[a] THEN NoRev ELSE @]
          /\ IF Known(a, batch[a]) THEN Settled(a, batch[a]) ELSE UNCHANGED owed
       \/ /\ Full(a, batch[a])
          /\ requests' = [requests EXCEPT ![a] = MaxOf(@, batch[a])]
          /\ UNCHANGED <<admission, available, pc, owed>>
    /\ UNCHANGED <<canon, lazy, epochLock, fenced, asks, sweep, closed, holding, escaped>>

RecoveryAgain ==
    /\ pc[Recovery] = "admit" /\ batch = NoRevs
    /\ Go(Recovery, "top")
    /\ UNCHANGED <<canon, storage, epochLock, fenced, admission, asking, closed,
                   holding, escaped>>

-----------------------------------------------------------------------------
(* start(recover=True): every canonical account without a current projection *)
(* is scheduled; an account is checked on the executor and recorded after.   *)
SweepList ==
    /\ pc[Starter] = "list"
    /\ sweep' = canon
    /\ Go(Starter, "sweep")
    /\ UNCHANGED <<canon, storage, epochLock, fenced, admission, asks, requests,
                   batch, owed, closed, holding, escaped>>

SweepCheck(a) ==
    /\ pc[Starter] = "sweep" /\ sweep[a] # NoRev
    /\ \/ /\ Reached
          /\ acct' = [acct EXCEPT ![Starter] = a]
          /\ Go(Starter, IF Current(a) THEN "current" ELSE "missing")
          /\ UNCHANGED failed
       \/ Unreached(a) /\ Fails(Starter) /\ UNCHANGED acct
    /\ UNCHANGED <<canon, disks, epochLock, fenced, admission, asking, closed, cand,
                   escaped>>

(* The oldest entry is evicted beyond failure_state_capacity; any other here.*)
Recorded(f, a, r) ==
    LET g == [f EXCEPT ![a] = r]
        held == {b \in Accounts : g[b] # NoRev}
    IN  IF Cardinality(held) <= Retained THEN {g}
        ELSE {[g EXCEPT ![v] = NoRev] : v \in held \ {a}}

SweepCurrent ==
    LET a == acct[Starter] IN
    /\ pc[Starter] = "current"
    /\ available' \in Recorded(available, a, sweep[a])
    /\ sweep' = [sweep EXCEPT ![a] = NoRev]
    /\ Go(Starter, "sweep")
    /\ acct' = [acct EXCEPT ![Starter] = NoAccount]
    /\ UNCHANGED <<canon, lazy, epochLock, fenced, admission, asks, requests, batch, owed, closed,
                   cand, failed, escaped>>

SweepAdmit ==
    LET a == acct[Starter] IN
    /\ pc[Starter] = "missing"
    /\ Schedule(Starter, a, sweep[a], "sweep")
    /\ sweep' = [sweep EXCEPT ![a] = NoRev]
    /\ IF Known(a, sweep[a]) THEN UNCHANGED owed ELSE Owes(a, sweep[a])
    /\ acct' = [acct EXCEPT ![Starter] = NoAccount]
    /\ UNCHANGED <<canon, lazy, epochLock, fenced, asks, requests, batch, closed, cand,
                   failed, escaped>>

SweepEnds ==
    /\ pc[Starter] = "sweep" /\ sweep = NoRevs
    /\ Go(Starter, "off")
    /\ UNCHANGED <<canon, storage, epochLock, fenced, admission, asking, closed,
                   holding, escaped>>

-----------------------------------------------------------------------------
(* A worker drains one account at a time.                                    *)

Attempt(w, a) ==
    /\ work' = [work EXCEPT ![a].att = work[a].req]
    /\ cand' = [cand EXCEPT ![w] = NoCand]
    /\ failed' = failed \ {w}
    /\ Go(w, "storage")

\* Mutant: the account a worker takes stays in the queue.
TakePeek(w) ==
    /\ pc[w] = "take" /\ pending # <<>>
    /\ acct' = [acct EXCEPT ![w] = Head(pending)]
    /\ Attempt(w, Head(pending))
    /\ UNCHANGED <<canon, storage, epochLock, fenced, pending, failures, asking, closed,
                   escaped>>

Take(w) ==
    /\ pc[w] = "take"
    /\ IF pending = <<>>
       THEN Go(w, "off") /\ UNCHANGED <<work, pending, holding>>
       ELSE /\ pending' = Tail(pending)
            /\ acct' = [acct EXCEPT ![w] = Head(pending)]
            /\ Attempt(w, Head(pending))
    /\ UNCHANGED <<canon, storage, epochLock, fenced, failures, asking, closed,
                   escaped>>

(* A build reads the canonical revision; a projection that is current needs  *)
(* no publication; one whose revision moved meanwhile is begun again or, on  *)
(* the last of max_revision_retries rounds (not counted here), given up.     *)
BuildRead(w) ==
    LET a == acct[w] IN
    /\ pc[w] = "build"
    /\ \/ /\ Reached
          /\ cand' = [cand EXCEPT ![w] =
                        [@ EXCEPT !.rev = canon[a], !.staged = ~Current(a)]]
          /\ Go(w, IF Current(a) THEN "eligible" ELSE "staging")
          /\ UNCHANGED failed
       \/ Unreached(a) /\ Fails(w) /\ UNCHANGED cand
    /\ UNCHANGED <<canon, disks, epochLock, fenced, admission, asking, closed, acct,
                   escaped>>

BuildStage(w) ==
    LET a == acct[w] IN
    /\ pc[w] = "staging"
    /\ \/ /\ cand[w].rev # canon[a]
          /\ \/ Go(w, "build") /\ cand' = [cand EXCEPT ![w].rev = NoRev] /\ UNCHANGED failed
             \/ Fails(w) /\ cand' = [cand EXCEPT ![w] = NoCand]
          /\ UNCHANGED <<noticing, file>>
       \/ /\ cand[w].rev = canon[a]
          /\ \/ /\ Reached
                /\ file' = [file EXCEPT !.rows = @ \cup {Row(w)}]
                /\ Go(w, "eligible")
                /\ UNCHANGED <<cand, failed>>
             \/ /\ Unreached(a)
                /\ Fails(w)
                /\ cand' = [cand EXCEPT ![w] = NoCand]
                /\ UNCHANGED file
    /\ UNCHANGED <<canon, disk, backoff, epochLock, fenced, admission, asking, closed,
                   acct, escaped>>

(* A candidate older than what was asked meanwhile is discarded.             *)
Eligible(w) ==
    /\ pc[w] = "eligible"
    /\ Go(w, IF cand[w].rev >= work[acct[w]].req THEN "enter" ELSE "discard")
    /\ UNCHANGED <<canon, storage, epochLock, fenced, admission, asking, closed,
                   holding, escaped>>

(* What an unpublished candidate leads to; a detached thread just ends.      *)
Unpublished(w) ==
    IF closed THEN Go(w, "off") /\ UNCHANGED failed
    ELSE Go(w, "discard") /\ failed' = failed \cup {w}

(* The publication's thread checks that its epoch is still the scheduler's,  *)
(* that the canonical revision has not moved and that the file is in place;  *)
(* the executor may refuse it.                                               *)
Enter(w) ==
    /\ pc[w] = "enter"
    /\ \/ /\ cand[w].epoch = epoch /\ cand[w].rev = canon[acct[w]]
          /\ \/ Reached /\ Go(w, "activating") /\ UNCHANGED failed
             \/ Unreached(NoAccount) /\ Unpublished(w)
       \/ /\ cand[w].epoch # epoch \/ cand[w].rev # canon[acct[w]]
          /\ Unpublished(w)
          /\ UNCHANGED noticing
       \/ /\ Faulty
          /\ Unpublished(w)
          /\ UNCHANGED <<store, needs, notified, reported, moved, epoch, available>>
    /\ UNCHANGED <<canon, disks, epochLock, fenced, admission, asking, closed, acct,
                   cand, escaped>>

(* Activation: the row is in the file, its epoch is known there and not      *)
(* fenced, and the canonical revision has not moved.                         *)
\* Mutant: a fenced epoch is not looked at.
MayPublishFenced(w) ==
    /\ cand[w].rev = canon[acct[w]]
    /\ Row(w) \in file.rows /\ cand[w].epoch \in file.known

MayPublish(w) ==
    /\ cand[w].rev = canon[acct[w]]
    /\ IF cand[w].staged
       THEN /\ Row(w) \in file.rows
            /\ cand[w].epoch \in file.known \ fenced
       ELSE Current(acct[w])

Activate(w) ==
    LET a == acct[w] IN
    /\ pc[w] = "activating"
    /\ \/ /\ MayPublish(w)
          /\ file' = [file EXCEPT !.active[a] = cand[w].rev, !.rows = @ \ {Row(w)}]
          /\ Go(w, IF closed THEN "off" ELSE "settle")
          /\ UNCHANGED <<noticing, failed>>
       \/ /\ ~MayPublish(w)
          /\ Unpublished(w)
          /\ UNCHANGED <<noticing, file>>
       \/ /\ Reachable /\ Faulty /\ MarkFailed(NoAccount)
          /\ Unpublished(w)
          /\ UNCHANGED file
    /\ UNCHANGED <<canon, disk, backoff, epochLock, fenced, admission, asking, closed,
                   acct, cand, escaped>>

Dropped(w) == cand' = [cand EXCEPT ![w] = NoCand]
Done(w) == Go(w, "take") /\ Dropped(w) /\ acct' = [acct EXCEPT ![w] = NoAccount]

(* Only a closed or saturated coordinator excuses a failing discard.  A      *)
(* storage failure ends the worker with the account's work still admitted.   *)
Discard(w) ==
    /\ pc[w] = "discard"
    /\ \/ /\ ~cand[w].staged
          /\ Go(w, "settle") /\ Dropped(w)
          /\ UNCHANGED <<noticing, file, failed, acct, escaped>>
       \/ /\ Faulty
          /\ Go(w, "settle") /\ Dropped(w)
          /\ UNCHANGED <<store, needs, notified, reported, moved, epoch, available, file,
                         failed, acct, escaped>>
       \/ /\ cand[w].staged /\ Reached
          /\ file' = [file EXCEPT !.rows = @ \ {Row(w)}]
          /\ Go(w, "settle") /\ Dropped(w)
          /\ UNCHANGED <<failed, acct, escaped>>
       \/ /\ cand[w].staged /\ Unreached(NoAccount)
          /\ escaped' = escaped \cup {acct[w]}
          /\ pc' \in Launched([pc EXCEPT ![w] = "off"], pending)
          /\ Dropped(w)
          /\ acct' = [acct EXCEPT ![w] = NoAccount]
          /\ failed' = failed \ {w}
          /\ UNCHANGED file
    /\ UNCHANGED <<canon, disk, backoff, epochLock, fenced, admission, asking, closed>>

Settle(w) ==
    LET a == acct[w]
        published == cand[w].rev # NoRev /\ w \notin failed IN
    /\ pc[w] = "settle"
    /\ IF published /\ cand[w].rev >= work[a].req
       THEN /\ work' = [work EXCEPT ![a] = NoWork]
            /\ failures' = [failures EXCEPT ![a] = NoRev]
            /\ available' \in Recorded(available, a, cand[w].rev)
            /\ Settled(a, cand[w].rev)
            /\ Done(w)
            /\ UNCHANGED failed
       ELSE IF work[a].req > work[a].att
       THEN Attempt(w, a) /\ UNCHANGED <<failures, available, owed, acct>>
       ELSE /\ work' = [work EXCEPT ![a] = NoWork]
            /\ failures' \in Recorded(failures, a, work[a].att)
            /\ Settled(a, work[a].att)
            /\ Done(w)
            /\ failed' = failed \ {w}
            /\ UNCHANGED available
    /\ UNCHANGED <<canon, lazy, epochLock, fenced, pending, asks, requests, batch, sweep, closed,
                   escaped>>

-----------------------------------------------------------------------------
(* close() and abort(): admission and publication stop at once, tasks are    *)
(* cancelled, a publication already running on its thread is detached.       *)
Detached == {w \in Workers : pc[w] = "activating"}

Close ==
    /\ ~closed /\ closed' = TRUE
    /\ fenced' = IF epoch = 0 THEN fenced ELSE fenced \cup {epoch}
    /\ epoch' = 0
    /\ work' = [a \in Accounts |-> NoWork] /\ pending' = <<>>
    /\ failures' = NoRevs /\ available' = NoRevs /\ requests' = NoRevs
    /\ batch' = NoRevs /\ sweep' = NoRevs
    /\ owed' = NoRevs
    /\ asks' = MaxAsks
    /\ lock' = Nobody
    /\ pc' = [x \in Tasks |-> IF x \in Detached THEN pc[x] ELSE "off"]
    /\ acct' = [x \in DOMAIN acct |-> IF x \in Detached THEN acct[x] ELSE NoAccount]
    /\ cand' = [w \in Workers |-> IF w \in Detached THEN cand[w] ELSE NoCand]
    /\ failed' = {}
    /\ UNCHANGED <<canon, faults, store, needs, notified, reported, moved, disks, epochs,
                   escaped>>

CloseStorage ==
    /\ closed /\ store # "closed"
    /\ store' = "closed"
    /\ UNCHANGED <<canon, faults, needs, notified, reported, moved, epoch, available, disks,
                   epochLock, fenced, admission, asking, closed, pc, holding, escaped>>

-----------------------------------------------------------------------------
Shared(x) == EnsureReady(x) \/ EpochCheck(x) \/ EpochOpen(x) \/ EpochTake(x)

Drain(w) ==
    \/ Shared(w) \/ Take(w) \/ BuildRead(w) \/ BuildStage(w) \/ Eligible(w)
    \/ Enter(w) \/ Activate(w) \/ Discard(w) \/ Settle(w)

Recover ==
    \/ Shared(Recovery) \/ RecoveryTop \/ RecoveryAgain
    \/ \E a \in Accounts : RecoveryAdmit(a)

Start ==
    \/ Shared(Starter) \/ SweepList \/ SweepCurrent \/ SweepAdmit \/ SweepEnds
    \/ \E a \in Accounts : SweepCheck(a)

Request == \E a \in Accounts, r \in Revs : RequestRecovery(a, r)

Next ==
    \/ Damage \/ BackoffEnds \/ Close \/ CloseStorage \/ Request \/ Recover \/ Start
    \/ \E a \in Accounts : Commit(a) \/ Read(a)
    \/ \E x \in Tasks : Refused(x)
    \/ \E w \in Workers : Drain(w)

Fairness ==
    /\ WF_vars(BackoffEnds) /\ WF_vars(Recover) /\ WF_vars(Start)
    /\ \A w \in Workers : WF_vars(Drain(w))

Spec == Init /\ [][Next]_vars

LiveSpec == Spec /\ Fairness

Symmetry == Permutations(Accounts)

-----------------------------------------------------------------------------
SchedulerTypeOK ==
    /\ canon \in [Accounts -> Revs]
    /\ file \in [active : [Accounts -> Revs \cup {NoRev}],
                 rows : SUBSET [acct : Accounts, rev : Revs, epoch : Nat],
                 known : SUBSET Nat]
    /\ disk \in {"good", "gone"} /\ store \in {"none", "open", "closed"}
    /\ needs \in BOOLEAN /\ notified \in BOOLEAN /\ backoff \in BOOLEAN
    /\ faults \in 0..MaxFaults /\ reported \in BOOLEAN /\ moved \in BOOLEAN
    /\ epoch \in 0..epochs /\ epochs \in Nat /\ fenced \subseteq 1..epochs
    /\ lock \in Tasks \cup {Nobody}
    /\ work \in [Accounts -> [req : Revs \cup {NoRev}, att : Revs \cup {NoRev}]]
    /\ Len(pending) <= Capacity /\ pending \in Seq(Accounts)
    /\ {failures, available, requests, batch, sweep, owed}
         \subseteq [Accounts -> Revs \cup {NoRev}]
    /\ Cardinality({a \in Accounts : failures[a] # NoRev}) <= Retained
    /\ Cardinality({a \in Accounts : available[a] # NoRev}) <= Retained
    /\ closed \in BOOLEAN /\ asks \in 0..MaxAsks
    /\ pc \in [Tasks -> {"off", "storage", "epoch", "opening", "opened", "top",
                         "admit", "list", "sweep", "current", "missing", "take",
                         "build", "staging", "eligible", "enter", "activating",
                         "discard", "settle"}]
    /\ acct \in [Workers \cup {Starter} -> Accounts \cup {NoAccount}]
    /\ cand \in [Workers -> [rev : Revs \cup {NoRev}, epoch : Nat, staged : BOOLEAN]]
    /\ failed \subseteq Workers /\ escaped \subseteq Accounts

Draining(w) == pc[w] \notin {"off", "take"}
InQueue(a) == {i \in DOMAIN pending : pending[i] = a}

(* Admitted work is in the queue once or in the hands of one worker, never   *)
(* both, so no account is built twice at a time and none is forgotten; the   *)
(* work of a drain that ended in an uncaught error is the exception.         *)
WorkIsHeld ==
    ~closed => \A a \in Accounts :
        LET holders == {w \in Workers : Draining(w) /\ acct[w] = a} IN
        /\ Cardinality(InQueue(a)) + Cardinality(holders) <= 1
        /\ HasWork(a) <=> (InQueue(a) # {} \/ holders # {} \/ a \in escaped)

(* A revision asked for is on its way, as a request, as admitted work or     *)
(* until its attempt ended, however requests, commits, coalescing, a full    *)
(* queue and storage failures follow one another.                            *)
NoRequestForgotten ==
    ~closed => \A a \in Accounts :
        owed[a] # NoRev =>
            MaxOf(MaxOf(requests[a], batch[a]), work[a].req) >= owed[a]

(* Requests and work are held as told, within the limits of every queue.      *)
RequestsAreHeld == SchedulerTypeOK /\ WorkIsHeld /\ NoRequestForgotten

(* After close() a detached publication changes nothing that is read, unless *)
(* a storage failure had made the scheduler forget the epoch to fence.       *)
ClosedPublishesNothing ==
    [][closed /\ ~reported => file'.active = file.active]_vars

(* The same without exception, as the sources take it: whatever is reported  *)
(* as being built is queued or in the hands of a worker.  The code does not  *)
(* keep it after an uncaught storage error (README, Disagreements).          *)
BuildingIsBuilt ==
    ~closed => \A a \in Accounts :
        HasWork(a) => InQueue(a) # {} \/ \E w \in Workers : Draining(w) /\ acct[w] = a

(* A deleted projection file is rebuilt once its account is asked for; no    *)
(* other fault happens.  The code does not keep this when ensure_ready finds *)
(* the file gone first (README, Disagreements).                              *)
DeletedFileIsRebuilt ==
    \A a \in Accounts :
        disk = "gone" /\ owed[a] = canon[a] ~> (Current(a) \/ closed)

(* Everything asked for settles as published or as failed, unless the        *)
(* scheduler closes or the drain ended in an uncaught error.                 *)
EveryRequestSettles ==
    \A a \in Accounts :
        owed[a] # NoRev ~> (owed[a] = NoRev \/ closed \/ a \in escaped)
=============================================================================
