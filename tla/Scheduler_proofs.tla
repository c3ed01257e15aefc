-------------------------- MODULE Scheduler_proofs --------------------------
(***************************************************************************)
(* Theorems about Scheduler.  Admitted work moves from the queue to one    *)
(* worker's hands and out of them, one account at a time, and nothing else *)
(* changes who holds it (HeldOnce); what is owed to a caller is covered by *)
(* a queued request or by admitted work at every step (OwedIsHeld).        *)
(* Until a storage failure is reported the epoch of a candidate is the     *)
(* scheduler's own, which close() fences (Carried); that needs the epoch   *)
(* lock (OneOpens).                                                        *)
(***************************************************************************)
EXTENDS Scheduler, FiniteSetTheorems, SequenceTheorems, TLAPS

StarterLabels == {"off", "storage", "epoch", "opening", "opened", "list", "sweep",
                  "current", "missing"}
RecoveryLabels == {"off", "storage", "epoch", "opening", "opened", "top", "admit"}
WorkerLabels == {"off", "storage", "epoch", "opening", "opened", "take", "build", "staging",
                 "eligible", "enter", "activating", "discard", "settle"}
LabelsOf(x) == IF x = Recovery THEN RecoveryLabels
               ELSE IF x = Starter THEN StarterLabels ELSE WorkerLabels
Labels == StarterLabels \cup RecoveryLabels \cup WorkerLabels

RevMap == [Accounts -> Revs \cup {NoRev}]
Held(f) == {a \in Accounts : f[a] # NoRev}
FewHeld(f) == Cardinality(Held(f)) <= Retained

\* The type invariant, by the groups of variables that change together.
RestTypes == canon \in [Accounts -> Revs] /\ closed \in BOOLEAN /\ escaped \subseteq Accounts
NoticeTypes ==
    /\ faults \in 0..MaxFaults /\ store \in {"none", "open", "closed"}
    /\ needs \in BOOLEAN /\ notified \in BOOLEAN /\ reported \in BOOLEAN /\ moved \in BOOLEAN
    /\ available \in RevMap /\ FewHeld(available)
FileRows == [acct : Accounts, rev : Revs, epoch : Nat]
Files == [active : [Accounts -> Revs \cup {NoRev}], rows : SUBSET FileRows,
          known : SUBSET Nat]
DiskTypes ==
    /\ file \in Files
    /\ disk \in {"good", "gone"} /\ backoff \in BOOLEAN
EpochTypes ==
    /\ epochs \in Nat /\ epoch \in 0..epochs /\ fenced \subseteq 1..epochs
    /\ lock \in Tasks \cup {Nobody}
Works == [req : Revs \cup {NoRev}, att : Revs \cup {NoRev}]
AdmissionTypes ==
    /\ work \in [Accounts -> Works]
    /\ pending \in Seq(Accounts) /\ Len(pending) <= Capacity
    /\ failures \in RevMap /\ FewHeld(failures)
AskTypes ==
    /\ asks \in 0..MaxAsks
    /\ requests \in RevMap /\ batch \in RevMap /\ sweep \in RevMap /\ owed \in RevMap
Candidates == [rev : Revs \cup {NoRev}, epoch : Nat, staged : BOOLEAN]
HoldTypes ==
    /\ acct \in [Workers \cup {Starter} -> Accounts \cup {NoAccount}]
    /\ cand \in [Workers -> Candidates] /\ failed \subseteq Workers
PcTypes == pc \in [Tasks -> Labels] /\ \A x \in Tasks : pc[x] \in LabelsOf(x)
Types ==
    /\ RestTypes /\ NoticeTypes /\ DiskTypes /\ EpochTypes /\ AdmissionTypes
    /\ AskTypes /\ HoldTypes /\ PcTypes

\* Who drains or checks has an account at hand; nothing but a detached
\* publication goes on after close().
HasAccount ==
    /\ \A w \in Workers : Draining(w) => acct[w] \in Accounts
    /\ pc[Starter] \in {"current", "missing"} => acct[Starter] \in Accounts
Stopped ==
    closed => \A x \in Tasks : pc[x] # "off" => x \in Workers /\ pc[x] = "activating"

\* Admitted work is in one place: once in the queue, in one worker's hands, or
\* left behind by a drain that ended in an uncaught error.
Queued(a) == \E i \in 1..Len(pending) : pending[i] = a
InHand(a) == \E w \in Workers : Draining(w) /\ acct[w] = a
HeldOnce ==
    /\ \A i, j \in 1..Len(pending) : pending[i] = pending[j] => i = j
    /\ \A w, v \in Workers : Draining(w) /\ Draining(v) /\ acct[w] = acct[v] => w = v
    /\ \A a \in Accounts :
         /\ ~(Queued(a) /\ InHand(a))
         /\ a \in escaped => ~Queued(a) /\ ~InHand(a)
         /\ HasWork(a) <=> (Queued(a) \/ InHand(a) \/ a \in escaped)
Holding == ~closed => HeldOnce

WorkIsAsked == \A a \in Accounts : HasWork(a) => work[a].req # NoRev
OwedIsHeld ==
    \A a \in Accounts :
        /\ batch[a] <= requests[a]
        /\ owed[a] <= requests[a] \/ owed[a] <= work[a].req

\* One task opens an epoch at a time, when there is none.
OneOpens ==
    \A x \in Tasks :
        /\ pc[x] \in {"opening", "opened"} => lock = x /\ epoch = 0
        /\ pc[x] = "opened" => epochs # 0

Carrying == {"build", "staging", "eligible", "enter", "activating"}
Carried ==
    ~reported => \A w \in Workers : pc[w] \in Carrying =>
        IF closed THEN cand[w].epoch \in fenced
        ELSE epoch # 0 /\ cand[w].epoch = epoch

SchedulerInv ==
    /\ Types /\ HasAccount /\ Stopped /\ Holding /\ WorkIsAsked /\ OwedIsHeld
    /\ OneOpens /\ Carried

-----------------------------------------------------------------------------
(***************************************************************************)
(* The operators.                                                          *)
(***************************************************************************)
\* The tasks are different from one another.
LEMMA TaskNames ==
    /\ Recovery \in Tasks /\ Starter \in Tasks /\ Recovery # Starter
    /\ \A w \in Workers : w \in Tasks /\ w # Recovery /\ w # Starter
    /\ Nobody \notin Tasks
  BY TasksAssumption DEF Tasks, Recovery, Starter, Nobody

LEMMA Numbers ==
    /\ NoRev = -1 /\ Revs \subseteq Nat /\ Retained \in Nat \ {0} /\ Capacity \in Nat \ {0}
    /\ MaxFaults \in Nat /\ MaxAsks \in Nat /\ NoRev \notin Revs
    /\ \A r \in Revs \cup {NoRev} : r \in Int /\ NoRev <= r /\ (r # NoRev => r \in Revs)
  BY SchedulerAssumption DEF NoRev, Revs

\* The larger of two revisions is one of them, and at least both.
LEMMA MaxOfBounds ==
    ASSUME NEW x \in Revs \cup {NoRev}, NEW y \in Revs \cup {NoRev}
    PROVE  /\ MaxOf(x, y) \in Revs \cup {NoRev} /\ MaxOf(x, y) >= x /\ MaxOf(x, y) >= y
           /\ MaxOf(x, y) = x \/ MaxOf(x, y) = y
           /\ x # NoRev \/ y # NoRev => MaxOf(x, y) # NoRev
  BY Numbers DEF MaxOf

\* What holds no more accounts than something with few of them has few of them.
LEMMA FewerHeld ==
    ASSUME NEW f, NEW g, FewHeld(f), Held(g) \subseteq Held(f)
    PROVE  FewHeld(g)
<1>1. IsFiniteSet(Held(f))
  BY SchedulerAssumption, FS_Subset DEF Held
<1>2. Cardinality(Held(g)) <= Cardinality(Held(f)) /\ IsFiniteSet(Held(g))
  BY <1>1, FS_Subset
<1>3. Cardinality(Held(g)) \in Nat /\ Cardinality(Held(f)) \in Nat
  BY <1>1, <1>2, FS_CardinalityType
<1> QED
  BY <1>2, <1>3, Numbers DEF FewHeld

LEMMA NoneHeld == NoRevs \in RevMap /\ FewHeld(NoRevs)
<1>1. NoRevs \in RevMap
  BY DEF NoRevs, RevMap
<1>2. Held(NoRevs) = {}
  BY DEF NoRevs, Held
<1> QED
  BY <1>1, <1>2, FS_EmptySet, Numbers DEF FewHeld

\* To record a revision, or to drop one, keeps few.
LEMMA DroppedFew ==
    ASSUME NEW f \in RevMap, FewHeld(f), NEW a \in Accounts
    PROVE  [f EXCEPT ![a] = NoRev] \in RevMap /\ FewHeld([f EXCEPT ![a] = NoRev])
<1>1. [f EXCEPT ![a] = NoRev] \in RevMap
  BY DEF RevMap
<1>2. Held([f EXCEPT ![a] = NoRev]) \subseteq Held(f)
  BY DEF RevMap, Held
<1> QED
  BY <1>1, <1>2, FewerHeld

LEMMA RecordedFew ==
    ASSUME NEW f \in RevMap, FewHeld(f), NEW a \in Accounts, NEW r \in Revs \cup {NoRev},
           NEW h \in Recorded(f, a, r)
    PROVE  h \in RevMap /\ FewHeld(h)
<1> DEFINE g == [f EXCEPT ![a] = r]
<1>1. g \in RevMap /\ Held(g) \subseteq Held(f) \cup {a}
  BY DEF RevMap, Held
<1>2. IsFiniteSet(Held(f)) /\ IsFiniteSet(Held(g)) /\ IsFiniteSet(Held(f) \cup {a})
  BY SchedulerAssumption, FS_Subset, FS_AddElement DEF Held
<1>3. CASE Cardinality(Held(g)) <= Retained
  <2>1. h = g
    BY <1>3 DEF Recorded, Held
  <2> QED
    BY <1>1, <1>3, <2>1 DEF FewHeld
<1>4. CASE ~(Cardinality(Held(g)) <= Retained)
  <2>1. PICK v \in Held(g) \ {a} : h = [g EXCEPT ![v] = NoRev]
    BY <1>4 DEF Recorded, Held
  <2> HIDE DEF g
  <2>2. h \in RevMap /\ Held(h) = Held(g) \ {v}
    BY <1>1, <2>1 DEF RevMap, Held
  <2>3. Cardinality(Held(h)) = Cardinality(Held(g)) - 1
    BY <1>2, <2>1, <2>2, FS_RemoveElement
  <2>4. /\ Cardinality(Held(g)) <= Cardinality(Held(f) \cup {a})
        /\ Cardinality(Held(f) \cup {a}) <= Cardinality(Held(f)) + 1
    <3>1. Cardinality(Held(g)) <= Cardinality(Held(f) \cup {a})
      BY <1>1, <1>2, FS_Subset
    <3>2. Cardinality(Held(f) \cup {a}) = IF a \in Held(f) THEN Cardinality(Held(f))
                                          ELSE Cardinality(Held(f)) + 1
      BY <1>2, FS_AddElement
    <3>3. Cardinality(Held(f)) \in Nat
      BY <1>2, FS_CardinalityType
    <3> QED
      BY <3>1, <3>2, <3>3
  <2>5. PICK m \in Nat, n \in Nat, k \in Nat :
            m = Cardinality(Held(f)) /\ n = Cardinality(Held(g))
            /\ k = Cardinality(Held(f) \cup {a})
    BY <1>2, FS_CardinalityType
  <2> QED
    BY <2>2, <2>3, <2>4, <2>5, Numbers DEF FewHeld
<1> QED
  BY <1>3, <1>4

\* A set whose elements are all the same.
LEMMA AtMostOne ==
    ASSUME NEW S, \A x, y \in S : x = y
    PROVE  Cardinality(S) = IF S = {} THEN 0 ELSE 1
<1>1. CASE S = {}
  BY <1>1, FS_EmptySet
<1>2. CASE S # {}
  <2>1. PICK x : x \in S
    BY <1>2
  <2>2. S = {x}
    BY <2>1
  <2> QED
    BY <2>2, FS_Singleton
<1> QED
  BY <1>1, <1>2

\* A task that goes on leaves the others where they are.
LEMMA Goes ==
    ASSUME PcTypes, NEW x \in Tasks, NEW m \in LabelsOf(x), pc' = [pc EXCEPT ![x] = m]
    PROVE  /\ PcTypes' /\ pc'[x] = m
           /\ \A y \in Tasks : y # x => pc'[y] = pc[y]
<1>1. m \in Labels
  BY DEF LabelsOf, Labels
<1>2. pc' \in [Tasks -> Labels] /\ \A y \in Tasks : pc'[y] = IF y = x THEN m ELSE pc[y]
  BY <1>1 DEF PcTypes
<1> QED
  BY <1>2 DEF PcTypes

\* Launching starts workers that had ended, and nothing else.
LEMMA Launches ==
    ASSUME NEW at, NEW queue, NEW p \in Launched(at, queue)
    PROVE  /\ p \in [Tasks -> {p[x] : x \in Tasks}]
           /\ \A x \in Tasks :
                p[x] # at[x] => p[x] = "take" /\ at[x] = "off" /\ x \in Workers
<1>1. PICK L \in SUBSET {w \in Workers : at[w] = "off"} :
        p = [x \in Tasks |-> IF x \in L THEN "take" ELSE at[x]]
  BY DEF Launched
<1> QED
  BY <1>1

\* A call that reaches the store or does not, and what it then reports.
LEMMA Notices ==
    ASSUME NoticeTypes, EpochTypes, NEW scope,
           \/ Reached
           \/ Unreached(scope)
           \/ Faulty /\ MarkFailed(scope)
           \/ Faulty /\ UNCHANGED <<store, needs, notified, reported, moved, epoch, available>>
    PROVE  /\ NoticeTypes' /\ epoch' \in {0, epoch}
           /\ ~reported' => ~reported /\ epoch' = epoch
<1>0. reported \in BOOLEAN /\ faults \in 0..MaxFaults /\ MaxFaults \in Nat
  BY Numbers DEF NoticeTypes
<1>1. CASE UNCHANGED noticing
  BY <1>1 DEF NoticeTypes, noticing, FewHeld, Held
<1>2. faults' \in 0..MaxFaults
  BY <1>0 DEF Reached, Unreached, Faulty, noticing
<1>3. CASE MarkFailed(scope)
  <2>1. /\ store' \in {"none", "open", "closed"} /\ needs' \in BOOLEAN /\ notified' \in BOOLEAN
        /\ reported' \in BOOLEAN /\ moved' \in BOOLEAN
    BY <1>3 DEF MarkFailed, NoticeTypes
  <2>2. available' \in RevMap /\ Held(available') \subseteq Held(available)
    BY <1>3 DEF MarkFailed, NoticeTypes, RevMap, Held
  <2>3. FewHeld(available')
    BY <2>2, FewerHeld DEF NoticeTypes
  <2>4. epoch' \in {0, epoch} /\ (~reported' => ~reported /\ epoch' = epoch)
    BY <1>0, <1>3 DEF MarkFailed
  <2> QED
    BY <1>2, <2>1, <2>2, <2>3, <2>4 DEF NoticeTypes, FewHeld, Held
<1>4. CASE UNCHANGED <<store, needs, notified, reported, moved, epoch, available>>
  BY <1>2, <1>4 DEF NoticeTypes, FewHeld, Held
<1> QED
  BY <1>1, <1>3, <1>4 DEF Reached, Unreached
-----------------------------------------------------------------------------
(***************************************************************************)
(* What a step leaves alone.                                               *)
(***************************************************************************)
\* Nobody but a detached publication is on its way after close().
LEMMA Running ==
    ASSUME SchedulerInv, NEW x \in Tasks, pc[x] \notin {"off", "activating"}
    PROVE  closed = FALSE
  BY DEF SchedulerInv, Stopped, Types, RestTypes

LEMMA HoldingStays ==
    ASSUME Holding, UNCHANGED <<pending, escaped, closed>>,
           \A w \in Workers : /\ Draining(w)' <=> Draining(w)
                              /\ Draining(w) => acct'[w] = acct[w],
           \A a \in Accounts : HasWork(a)' <=> HasWork(a)
    PROVE  Holding'
<1> SUFFICES ASSUME ~closed, HeldOnce PROVE HeldOnce'
  BY DEF Holding
<1>1. \A a \in Accounts : Queued(a)' <=> Queued(a)
  BY DEF Queued
<1>2. \A a \in Accounts : InHand(a)' <=> InHand(a)
  BY DEF InHand
<1>3. \A w, v \in Workers : Draining(w)' /\ Draining(v)' /\ acct'[w] = acct'[v] => w = v
  BY DEF HeldOnce
<1>4. \A i, j \in 1..Len(pending') : pending'[i] = pending'[j] => i = j
  BY DEF HeldOnce
<1> QED
  BY <1>1, <1>2, <1>3, <1>4 DEF HeldOnce

LEMMA OpensStay ==
    ASSUME OneOpens, epoch' \in {0, epoch}, epochs' = epochs,
           \A x \in Tasks : pc'[x] \in {"opening", "opened"} => pc'[x] = pc[x] /\ lock' = lock
    PROVE  OneOpens'
  BY DEF OneOpens

LEMMA CarriesStay ==
    ASSUME Carried, UNCHANGED closed, fenced \subseteq fenced',
           ~reported' => ~reported /\ epoch' = epoch,
           \A w \in Workers : pc'[w] \in Carrying =>
               pc[w] \in Carrying /\ cand'[w].epoch = cand[w].epoch
    PROVE  Carried'
  BY DEF Carried

\* A task that goes on with what it has in hand.
LEMMA TaskMoves ==
    ASSUME SchedulerInv, NEW x \in Tasks, NEW m \in LabelsOf(x),
           pc[x] # "off", pc' = [pc EXCEPT ![x] = m],
           UNCHANGED <<closed, escaped, admission>>,
           closed => m = "off",
           x \in Workers /\ ~closed => pc[x] # "take" /\ m \notin {"off", "take"},
           \A w \in Workers : acct'[w] = acct[w],
           IF x = Starter THEN m \in {"current", "missing"} => acct'[Starter] \in Accounts
                          ELSE acct'[Starter] = acct[Starter]
    PROVE  /\ PcTypes' /\ AdmissionTypes' /\ HasAccount' /\ Stopped' /\ Holding' /\ WorkIsAsked'
           /\ pc'[x] = m /\ \A y \in Tasks : y # x => pc'[y] = pc[y]
<1>1. PcTypes' /\ pc'[x] = m /\ \A y \in Tasks : y # x => pc'[y] = pc[y]
  BY Goes DEF SchedulerInv, Types
<1>2. AdmissionTypes' /\ WorkIsAsked'
  <2>1. AdmissionTypes /\ WorkIsAsked
    BY DEF SchedulerInv, Types
  <2>2. UNCHANGED <<work, pending, failures>>
    BY DEF admission
  <2> QED
    BY <2>1, <2>2 DEF AdmissionTypes, WorkIsAsked, HasWork, FewHeld, Held
<1>3. Stopped'
  BY <1>1 DEF SchedulerInv, Stopped
<1>4. ASSUME NEW w \in Workers, ~closed PROVE Draining(w)' <=> Draining(w)
  BY <1>1, <1>4, TaskNames DEF Draining
<1>5. ASSUME NEW w \in Workers, Draining(w)' PROVE Draining(w)
  BY <1>1, <1>4, <1>5, TaskNames DEF Draining
<1>6. HasAccount'
  <2>1. \A w \in Workers : Draining(w)' => acct'[w] \in Accounts
    BY <1>5 DEF SchedulerInv, HasAccount
  <2>2. pc'[Starter] \in {"current", "missing"} => acct'[Starter] \in Accounts
    BY <1>1, TaskNames DEF SchedulerInv, HasAccount
  <2> QED
    BY <2>1, <2>2 DEF HasAccount
<1>7. Holding'
  <2>1. CASE closed
    BY <2>1 DEF Holding
  <2>2. CASE ~closed
    <3>1. UNCHANGED <<pending, escaped, closed, work>>
      BY DEF admission
    <3>2. Holding /\ \A a \in Accounts : HasWork(a)' <=> HasWork(a)
      BY <3>1 DEF SchedulerInv, HasWork
    <3> QED
      BY <1>4, <2>2, <3>1, <3>2, HoldingStays
  <2> QED
    BY <2>1, <2>2
<1> QED
  BY <1>1, <1>2, <1>3, <1>6, <1>7

\* The requests, the batch and the sweep are as they were.
LEMMA AskingStays ==
    ASSUME AskTypes, OwedIsHeld, UNCHANGED <<asking, work>>
    PROVE  AskTypes' /\ OwedIsHeld'
  BY DEF AskTypes, OwedIsHeld, asking

\* No task moves: the file, the clock, a read or a commit of another part.
LEMMA OutsideKeeps ==
    ASSUME SchedulerInv,
           UNCHANGED <<epochLock, fenced, admission, asking, closed, pc, holding, escaped>>,
           RestTypes', NoticeTypes', DiskTypes', epoch' \in {0, epoch},
           ~reported' => ~reported /\ epoch' = epoch
    PROVE  SchedulerInv'
<1>1. /\ UNCHANGED <<epochs, lock, fenced, work, pending, failures>>
      /\ UNCHANGED <<closed, pc, acct, cand, failed, escaped>>
  BY DEF epochLock, admission, holding
<1>2. /\ AskTypes' /\ OwedIsHeld'
  BY <1>1, AskingStays DEF SchedulerInv, Types
<1>3. AdmissionTypes' /\ HoldTypes' /\ PcTypes'
  BY <1>1 DEF SchedulerInv, Types, AdmissionTypes, HoldTypes, PcTypes, FewHeld, Held
<1>4. EpochTypes'
  BY <1>1 DEF SchedulerInv, Types, EpochTypes
<1>5. HasAccount' /\ Stopped' /\ WorkIsAsked'
  BY <1>1 DEF SchedulerInv, HasAccount, Draining, Stopped, WorkIsAsked, HasWork
<1>6. Holding'
  BY <1>1, HoldingStays DEF SchedulerInv, Draining, HasWork
<1>7. OneOpens'
  BY <1>1, OpensStay DEF SchedulerInv
<1>8. Carried'
  BY <1>1, CarriesStay DEF SchedulerInv
<1> QED
  BY <1>2, <1>3, <1>4, <1>5, <1>6, <1>7, <1>8 DEF SchedulerInv, Types

\* The steps that no task takes.
LEMMA EnvironmentKeeps ==
    ASSUME SchedulerInv,
           \/ Damage \/ BackoffEnds \/ CloseStorage
           \/ \E a \in Accounts : Commit(a) \/ Read(a)
    PROVE  SchedulerInv'
<1> USE DEF SchedulerInv, Types
<1>s. RestTypes /\ NoticeTypes /\ DiskTypes /\ EpochTypes
  OBVIOUS
<1>1. CASE Damage
  <2>1. /\ UNCHANGED <<store, needs, notified, reported, moved, epoch, available>> /\ Faulty
        /\ UNCHANGED <<epochLock, fenced, admission, asking, closed, pc, holding, escaped>>
    BY <1>1 DEF Damage
  <2>2. NoticeTypes'
    BY <1>s, <2>1, Notices
  <2>3. RestTypes' /\ DiskTypes'
    BY <1>1, <1>s DEF Damage, RestTypes, DiskTypes
  <2> QED
    BY <2>1, <2>2, <2>3, OutsideKeeps
<1>2. CASE BackoffEnds
  <2>1. /\ UNCHANGED noticing
        /\ UNCHANGED <<epochLock, fenced, admission, asking, closed, pc, holding, escaped>>
    BY <1>2 DEF BackoffEnds
  <2>2. NoticeTypes' /\ reported' = reported /\ epoch' = epoch
    BY <1>s, <2>1 DEF noticing, NoticeTypes, FewHeld, Held
  <2>3. RestTypes' /\ DiskTypes'
    BY <1>2, <1>s DEF BackoffEnds, RestTypes, DiskTypes
  <2> QED
    BY <2>1, <2>2, <2>3, OutsideKeeps
<1>3. CASE CloseStorage
  <2>1. /\ UNCHANGED <<faults, needs, notified, reported, moved, epoch, available>>
        /\ UNCHANGED <<epochLock, fenced, admission, asking, closed, pc, holding, escaped>>
        /\ store' = "closed" /\ UNCHANGED disks /\ UNCHANGED canon
    BY <1>3 DEF CloseStorage
  <2>2. NoticeTypes'
    BY <1>s, <2>1 DEF NoticeTypes, FewHeld, Held
  <2>3. RestTypes' /\ DiskTypes'
    BY <1>s, <2>1 DEF disks, RestTypes, DiskTypes
  <2> QED
    BY <2>1, <2>2, <2>3, OutsideKeeps
<1>4. ASSUME NEW a \in Accounts, Commit(a) PROVE SchedulerInv'
  <2>1. /\ UNCHANGED storage /\ canon[a] < MaxRev /\ canon' = [canon EXCEPT ![a] = @ + 1]
        /\ UNCHANGED <<epochLock, fenced, admission, asking, closed, pc, holding, escaped>>
    BY <1>4 DEF Commit
  <2>2. NoticeTypes' /\ DiskTypes' /\ reported' = reported /\ epoch' = epoch
    BY <1>s, <2>1 DEF storage, noticing, disks, NoticeTypes, DiskTypes, FewHeld, Held
  <2>3. canon[a] + 1 \in Revs
    BY <1>s, <2>1, SchedulerAssumption DEF RestTypes, Revs
  <2>4. RestTypes'
    BY <1>s, <2>1, <2>3 DEF RestTypes
  <2> QED
    BY <2>1, <2>2, <2>4, OutsideKeeps
<1>5. ASSUME NEW a \in Accounts, Read(a) PROVE SchedulerInv'
  <2>1. /\ Unreached(a) /\ UNCHANGED disks /\ UNCHANGED canon
        /\ UNCHANGED <<epochLock, fenced, admission, asking, closed, pc, holding, escaped>>
    BY <1>5 DEF Read
  <2>2. NoticeTypes' /\ epoch' \in {0, epoch} /\ (~reported' => ~reported /\ epoch' = epoch)
    BY <1>s, <2>1, Notices
  <2>3. RestTypes' /\ DiskTypes'
    BY <1>s, <2>1 DEF disks, RestTypes, DiskTypes
  <2> QED
    BY <2>1, <2>2, <2>3, OutsideKeeps
<1> QED
  BY <1>1, <1>2, <1>3, <1>4, <1>5
\* A task goes on, and neither requests nor admitted work change.
LEMMA QuietMove ==
    ASSUME SchedulerInv, NEW x \in Tasks, NEW m \in LabelsOf(x),
           pc[x] \notin {"off", "activating", "take"}, pc' = [pc EXCEPT ![x] = m],
           UNCHANGED <<canon, closed, escaped, admission, asking, acct>>,
           x \in Workers => m \notin {"off", "take"},
           m \notin {"current", "missing"},
           NoticeTypes', DiskTypes', EpochTypes', HoldTypes', OneOpens', Carried'
    PROVE  SchedulerInv'
<1>1. closed = FALSE /\ UNCHANGED work
  BY Running DEF admission
<1>2. /\ PcTypes' /\ AdmissionTypes' /\ HasAccount' /\ Stopped' /\ Holding' /\ WorkIsAsked'
  BY <1>1, TaskMoves
<1>3. RestTypes' /\ AskTypes' /\ OwedIsHeld'
  BY <1>1, AskingStays DEF SchedulerInv, Types, RestTypes
<1> QED
  BY <1>2, <1>3 DEF SchedulerInv, Types

\* Where a task goes whose call failed.
LEMMA FailsGoes ==
    ASSUME HoldTypes, NEW x \in Tasks, Fails(x)
    PROVE  /\ failed' \subseteq Workers
           /\ \E m \in LabelsOf(x) : /\ pc' = [pc EXCEPT ![x] = m]
                                     /\ m \in {"top", "off", "settle"}
                                     /\ x \in Workers => m = "settle"
<1>1. failed' \subseteq Workers
  BY DEF Fails, HoldTypes
<1>2. CASE x = Recovery
  BY <1>1, <1>2, TaskNames DEF Fails, Go, LabelsOf, RecoveryLabels
<1>3. CASE x = Starter
  BY <1>1, <1>3, TaskNames DEF Fails, Go, LabelsOf, StarterLabels
<1>4. CASE x # Recovery /\ x # Starter
  BY <1>1, <1>4, TaskNames DEF Fails, Go, LabelsOf, WorkerLabels
<1> QED
  BY <1>2, <1>3, <1>4

\* A failed call ends what the task was at; the lock is released if it had it.
LEMMA FailureKeeps ==
    ASSUME SchedulerInv, NEW x \in Tasks, Fails(x),
           pc[x] \notin {"off", "activating", "take"},
           UNCHANGED <<canon, closed, escaped, admission, asking, acct, epochs, fenced>>,
           NoticeTypes', DiskTypes', epoch' \in {0, epoch},
           ~reported' => ~reported /\ epoch' = epoch,
           cand' \in [Workers -> Candidates],
           \A w \in Workers : w # x => cand'[w] = cand[w],
           lock' = (IF lock = x THEN Nobody ELSE lock) \/ lock' = lock
    PROVE  SchedulerInv'
<1>1. PICK m \in LabelsOf(x) :
          /\ failed' \subseteq Workers /\ pc' = [pc EXCEPT ![x] = m]
          /\ m \in {"top", "off", "settle"} /\ (x \in Workers => m = "settle")
  BY FailsGoes DEF SchedulerInv, Types
<1>2. pc'[x] = m /\ \A y \in Tasks : y # x => pc'[y] = pc[y]
  BY <1>1, Goes DEF SchedulerInv, Types
<1>3. HoldTypes'
  BY <1>1 DEF SchedulerInv, Types, HoldTypes
<1>4. EpochTypes'
  BY TaskNames DEF SchedulerInv, Types, EpochTypes
<1>5. \A y \in Tasks : pc'[y] \in {"opening", "opened"} => pc'[y] = pc[y] /\ lock' = lock
  BY <1>1, <1>2 DEF SchedulerInv, OneOpens
<1>6. OneOpens'
  BY <1>5, OpensStay DEF SchedulerInv
<1>7. \A w \in Workers : pc'[w] \in Carrying =>
          pc[w] \in Carrying /\ cand'[w].epoch = cand[w].epoch
  BY <1>1, <1>2, TaskNames DEF Carrying
<1>8. Carried'
  BY <1>7, CarriesStay DEF SchedulerInv
<1> QED
  BY <1>1, <1>3, <1>4, <1>6, <1>8, QuietMove

LEMMA RefusedKeeps ==
    ASSUME SchedulerInv, NEW x \in Tasks, Refused(x)
    PROVE  SchedulerInv'
<1>1. /\ Fails(x) /\ pc[x] \notin {"off", "activating", "take"}
      /\ UNCHANGED <<canon, closed, escaped, admission, asking, acct, cand, epochs, fenced, epoch>>
      /\ UNCHANGED <<store, needs, notified, reported, moved, epoch, available>> /\ Faulty
      /\ UNCHANGED disks
      /\ lock' = (IF lock = x THEN Nobody ELSE lock)
  BY DEF Refused
<1>2. NoticeTypes' /\ DiskTypes'
  BY <1>1, Notices DEF SchedulerInv, Types, DiskTypes, disks
<1>3. cand' \in [Workers -> Candidates]
  BY <1>1 DEF SchedulerInv, Types, HoldTypes
<1> QED
  BY <1>1, <1>2, <1>3, FailureKeeps

LEMMA NewFileTypes == NewFile \in Files
  BY DEF NewFile, Files

LEMMA EnsureReadyKeeps ==
    ASSUME SchedulerInv, NEW x \in Tasks, EnsureReady(x)
    PROVE  SchedulerInv'
<1>1. /\ pc[x] = "storage"
      /\ UNCHANGED <<canon, epochLock, fenced, admission, asking, closed, acct, cand, escaped>>
      /\ UNCHANGED <<epochs, lock, reported, moved, epoch, available>>
  BY DEF EnsureReady, epochLock, storage, noticing
<1>s. NoticeTypes /\ DiskTypes /\ EpochTypes /\ HoldTypes
  BY DEF SchedulerInv, Types
<1>2. NoticeTypes' /\ DiskTypes'
  <2>1. faults' \in 0..MaxFaults
    BY <1>s, Numbers DEF EnsureReady, storage, noticing, Faulty, NoticeTypes
  <2>2. /\ store' \in {"none", "open", "closed"} /\ needs' \in BOOLEAN /\ notified' \in BOOLEAN
    BY <1>s DEF EnsureReady, storage, noticing, NoticeTypes
  <2>3. file' \in {file, NewFile}
    BY DEF EnsureReady, storage, disks
  <2>4. disk' \in {"good", "gone"} /\ backoff' \in BOOLEAN
    BY <1>s DEF EnsureReady, storage, disks, DiskTypes
  <2>5. NoticeTypes'
    BY <1>1, <1>s, <2>1, <2>2 DEF NoticeTypes, FewHeld, Held
  <2> QED
    BY <1>s, <2>3, <2>4, <2>5, NewFileTypes DEF DiskTypes
<1>3. CASE Fails(x)
  BY <1>1, <1>2, <1>3, <1>s, FailureKeeps DEF HoldTypes
<1>4. CASE Go(x, "epoch") /\ UNCHANGED failed
  <2>1. "epoch" \in LabelsOf(x) /\ pc' = [pc EXCEPT ![x] = "epoch"]
    BY <1>4 DEF LabelsOf, RecoveryLabels, StarterLabels, WorkerLabels, Go
  <2>2. pc'[x] = "epoch" /\ \A y \in Tasks : y # x => pc'[y] = pc[y]
    BY <2>1, Goes DEF SchedulerInv, Types
  <2>3. OneOpens'
    BY <1>1, <2>2, OpensStay DEF SchedulerInv
  <2>4. Carried'
    BY <1>1, <2>2, CarriesStay, TaskNames DEF SchedulerInv, Carrying
  <2>5. HoldTypes' /\ EpochTypes'
    BY <1>1, <1>4, <1>s DEF HoldTypes, EpochTypes
  <2> QED
    BY <1>1, <1>2, <2>1, <2>3, <2>4, <2>5, QuietMove
<1> QED
  BY <1>3, <1>4 DEF EnsureReady

-----------------------------------------------------------------------------
(***************************************************************************)
(* The publication epoch.                                                  *)
(***************************************************************************)
\* The epoch is in the task's hands, and, for a worker, with its candidate.
LEMMA EpochTakenKeeps ==
    ASSUME SchedulerInv, NEW x \in Tasks, pc[x] \in {"epoch", "opened"},
           NEW e \in Nat \ {0}, EpochTaken(x, e), epoch' = e,
           e = epoch \/ (epoch = 0 /\ e = epochs),
           \A y \in Tasks : pc[y] \in {"opening", "opened"} => y = x,
           UNCHANGED <<canon, closed, escaped, admission, asking, acct, failed, epochs, fenced,
                       reported>>,
           NoticeTypes', DiskTypes'
    PROVE  SchedulerInv'
<1>1. PICK m \in LabelsOf(x) :
          /\ pc' = [pc EXCEPT ![x] = m] /\ m \in {"admit", "list", "build"}
          /\ x \in Workers => m = "build"
  <2>1. AfterEpoch(x) \in LabelsOf(x) /\ AfterEpoch(x) \in {"admit", "list", "build"}
        /\ (x \in Workers => AfterEpoch(x) = "build")
    BY TaskNames DEF AfterEpoch, LabelsOf, RecoveryLabels, StarterLabels, WorkerLabels
  <2> QED
    BY <2>1 DEF EpochTaken, Go
<1>2. pc'[x] = m /\ \A y \in Tasks : y # x => pc'[y] = pc[y]
  BY <1>1, Goes DEF SchedulerInv, Types
<1>3. /\ cand' \in [Workers -> Candidates]
      /\ \A w \in Workers : w # x => cand'[w] = cand[w]
      /\ x \in Workers => cand'[x].epoch = e
  <2>1. cand \in [Workers -> Candidates]
    BY DEF SchedulerInv, Types, HoldTypes
  <2>2. CASE x \in Workers
    <3>1. cand' = [cand EXCEPT ![x].epoch = e]
      BY <2>2 DEF EpochTaken
    <3>2. [cand[x] EXCEPT !.epoch = e] \in Candidates /\ [cand[x] EXCEPT !.epoch = e].epoch = e
      BY <2>1, <2>2 DEF Candidates
    <3>3. cand' = [cand EXCEPT ![x] = [cand[x] EXCEPT !.epoch = e]]
      BY <3>1
    <3> HIDE DEF Candidates
    <3> QED
      BY <2>1, <2>2, <3>2, <3>3
  <2>3. CASE x \notin Workers
    BY <2>1, <2>3 DEF EpochTaken
  <2> QED
    BY <2>2, <2>3
<1>4. HoldTypes'
  BY <1>3 DEF SchedulerInv, Types, HoldTypes
<1>5. EpochTypes'
  <2>1. epochs \in Nat /\ epoch \in 0..epochs
    BY DEF SchedulerInv, Types, EpochTypes
  <2>2. e \in 0..epochs
    BY <2>1
  <2> QED
    BY <2>2 DEF SchedulerInv, Types, EpochTypes, EpochTaken
<1>6. OneOpens'
  BY <1>1, <1>2 DEF OneOpens
<1>7. Carried'
  <2> SUFFICES ASSUME ~reported, NEW w \in Workers, pc'[w] \in Carrying
               PROVE  cand'[w].epoch = e
    BY Running DEF Carried
  <2>1. CASE w = x
    BY <1>3, <2>1
  <2>2. CASE w # x
    <3>1. pc[w] \in Carrying /\ cand'[w] = cand[w]
      BY <1>2, <1>3, <2>2, TaskNames
    <3>2. epoch # 0 /\ cand[w].epoch = epoch
      BY <3>1, Running DEF SchedulerInv, Carried
    <3> QED
      BY <3>1, <3>2
  <2> QED
    BY <2>1, <2>2
<1> QED
  BY <1>1, <1>4, <1>5, <1>6, <1>7, QuietMove

LEMMA EpochCheckKeeps ==
    ASSUME SchedulerInv, NEW x \in Tasks, EpochCheck(x)
    PROVE  SchedulerInv'
<1>1. /\ pc[x] = "epoch" /\ lock \in {Nobody, x} /\ disks' = disks
      /\ UNCHANGED <<canon, closed, escaped, admission, asking, acct, failed, epochs, fenced,
                     faults, store, needs, notified, reported, epoch, available>>
  BY DEF EpochCheck, epochLock
<1>s. NoticeTypes /\ DiskTypes /\ EpochTypes /\ HoldTypes
  BY DEF SchedulerInv, Types
<1>2. NoticeTypes' /\ DiskTypes'
  <2>1. moved' \in BOOLEAN
    BY <1>s DEF EpochCheck, NoticeTypes
  <2> QED
    BY <1>1, <1>s, <2>1 DEF NoticeTypes, DiskTypes, disks, FewHeld, Held
<1>3. CASE epoch # 0
  <2>1. epoch \in Nat \ {0}
    BY <1>3, <1>s DEF EpochTypes
  <2>2. EpochTaken(x, epoch)
    BY <1>3 DEF EpochCheck
  <2>3. \A y \in Tasks : pc[y] \in {"opening", "opened"} => y = x
    BY <1>3 DEF SchedulerInv, OneOpens
  <2>4. PICK e \in Nat \ {0} : e = epoch
    BY <2>1
  <2>5. EpochTaken(x, e) /\ epoch' = e
    BY <1>1, <2>2, <2>4
  <2>6. pc[x] \in {"epoch", "opened"} /\ UNCHANGED reported
    BY <1>1
  <2> QED
    BY <1>1, <1>2, <2>3, <2>4, <2>5, <2>6, EpochTakenKeeps
<1>4. CASE epoch = 0
  <2>1. pc' = [pc EXCEPT ![x] = "opening"] /\ lock' = x /\ cand' = cand
    BY <1>4 DEF EpochCheck, Go
  <2>2. "opening" \in LabelsOf(x)
    BY DEF LabelsOf, RecoveryLabels, StarterLabels, WorkerLabels
  <2>3. pc'[x] = "opening" /\ \A y \in Tasks : y # x => pc'[y] = pc[y]
    BY <2>1, <2>2, Goes DEF SchedulerInv, Types
  <2>4. \A y \in Tasks : y # x => pc[y] \notin {"opening", "opened"}
    BY <1>1, TaskNames DEF SchedulerInv, OneOpens
  <2>5. OneOpens'
    BY <1>1, <1>4, <2>1, <2>3, <2>4 DEF OneOpens
  <2>6. Carried'
    BY <1>1, <2>1, <2>3, CarriesStay, TaskNames DEF SchedulerInv, Carrying
  <2>7. EpochTypes' /\ HoldTypes'
    BY <1>1, <1>s, <2>1 DEF EpochTypes, HoldTypes
  <2> QED
    BY <1>1, <1>2, <2>1, <2>2, <2>5, <2>6, <2>7, QuietMove
<1> QED
  BY <1>3, <1>4

LEMMA EpochOpenKeeps ==
    ASSUME SchedulerInv, NEW x \in Tasks, EpochOpen(x)
    PROVE  SchedulerInv'
<1>1. /\ pc[x] = "opening" /\ UNCHANGED <<disk, backoff>>
      /\ UNCHANGED <<canon, closed, escaped, admission, asking, acct, cand, fenced>>
  BY DEF EpochOpen
<1>s. NoticeTypes /\ DiskTypes /\ EpochTypes /\ HoldTypes
  BY DEF SchedulerInv, Types
<1>2. lock = x /\ epoch = 0 /\ \A y \in Tasks : y # x => pc[y] \notin {"opening", "opened"}
  BY <1>1 DEF SchedulerInv, OneOpens
<1>3. CASE Unreached(NoAccount) /\ Fails(x) /\ lock' = Nobody /\ UNCHANGED <<epochs, file>>
  <2>1. NoticeTypes' /\ epoch' \in {0, epoch} /\ (~reported' => ~reported /\ epoch' = epoch)
    BY <1>3, <1>s, Notices
  <2>2. DiskTypes'
    BY <1>1, <1>3, <1>s DEF DiskTypes
  <2> QED
    BY <1>1, <1>2, <1>3, <1>s, <2>1, <2>2, FailureKeeps DEF HoldTypes
<1>4. CASE /\ Reached /\ epochs' = epochs + 1
           /\ file' = [file EXCEPT !.known = @ \cup {epochs'}]
           /\ Go(x, "opened") /\ UNCHANGED <<lock, failed>>
  <2>1. "opened" \in LabelsOf(x) /\ pc' = [pc EXCEPT ![x] = "opened"]
    BY <1>4 DEF LabelsOf, RecoveryLabels, StarterLabels, WorkerLabels, Go
  <2>2. pc'[x] = "opened" /\ \A y \in Tasks : y # x => pc'[y] = pc[y]
    BY <2>1, Goes DEF SchedulerInv, Types
  <2>3. UNCHANGED noticing
    BY <1>4 DEF Reached
  <2>4. NoticeTypes' /\ epoch' = epoch /\ reported' = reported
    BY <1>s, <2>3 DEF noticing, NoticeTypes, FewHeld, Held
  <2>5. DiskTypes'
    <3>1. epochs' \in Nat
      BY <1>4, <1>s DEF EpochTypes
    <3> QED
      BY <1>1, <1>4, <1>s, <3>1 DEF DiskTypes, Files
  <2>6. EpochTypes' /\ epochs' # 0
    BY <1>1, <1>2, <1>4, <1>s, <2>4 DEF EpochTypes
  <2>7. OneOpens'
    BY <1>2, <1>4, <2>2, <2>4, <2>6 DEF OneOpens
  <2>8. Carried'
    BY <1>1, <2>2, <2>4, CarriesStay, TaskNames DEF SchedulerInv, Carrying
  <2>9. HoldTypes'
    BY <1>1, <1>4, <1>s DEF HoldTypes
  <2> QED
    BY <1>1, <2>1, <2>4, <2>5, <2>6, <2>7, <2>8, <2>9, QuietMove
<1> QED
  BY <1>3, <1>4 DEF EpochOpen

LEMMA EpochTakeKeeps ==
    ASSUME SchedulerInv, NEW x \in Tasks, EpochTake(x)
    PROVE  SchedulerInv'
<1>1. /\ pc[x] = "opened"
      /\ UNCHANGED <<canon, closed, escaped, admission, asking, acct, failed, epochs, fenced,
                     faults, store, needs, notified, reported, moved, available>>
      /\ UNCHANGED disks
  BY DEF EpochTake
<1>s. NoticeTypes /\ DiskTypes /\ EpochTypes /\ HoldTypes
  BY DEF SchedulerInv, Types
<1>2. NoticeTypes' /\ DiskTypes'
  BY <1>1, <1>s DEF NoticeTypes, DiskTypes, disks, FewHeld, Held
<1>3. epochs # 0 /\ epoch = 0 /\ \A y \in Tasks : pc[y] \in {"opening", "opened"} => y = x
  BY <1>1 DEF SchedulerInv, OneOpens
<1>4. CASE moved
  <2>1. pc' = [pc EXCEPT ![x] = "epoch"] /\ lock' = lock /\ cand' = cand /\ epoch' = epoch
    BY <1>4 DEF EpochTake, Go
  <2>2. "epoch" \in LabelsOf(x)
    BY DEF LabelsOf, RecoveryLabels, StarterLabels, WorkerLabels
  <2>3. pc'[x] = "epoch" /\ \A y \in Tasks : y # x => pc'[y] = pc[y]
    BY <2>1, <2>2, Goes DEF SchedulerInv, Types
  <2>4. OneOpens'
    BY <1>1, <2>1, <2>3, OpensStay DEF SchedulerInv
  <2>5. Carried'
    BY <1>1, <2>1, <2>3, CarriesStay, TaskNames DEF SchedulerInv, Carrying
  <2>6. EpochTypes' /\ HoldTypes'
    BY <1>1, <1>s, <2>1 DEF EpochTypes, HoldTypes
  <2> QED
    BY <1>1, <1>2, <2>1, <2>2, <2>4, <2>5, <2>6, QuietMove
<1>5. CASE ~moved
  <2>1. epoch' = epochs /\ EpochTaken(x, epochs) /\ epochs \in Nat \ {0}
    BY <1>3, <1>5, <1>s DEF EpochTake, EpochTypes
  <2>2. PICK e \in Nat \ {0} : e = epochs
    BY <2>1
  <2>3. EpochTaken(x, e) /\ epoch' = e /\ pc[x] \in {"epoch", "opened"}
    BY <1>1, <2>1, <2>2
  <2> QED
    BY <1>1, <1>2, <1>3, <2>2, <2>3, EpochTakenKeeps
<1> QED
  BY <1>4, <1>5

\* Every task's way to the store and to an epoch.
LEMMA SharedKeeps ==
    ASSUME SchedulerInv, NEW x \in Tasks, Shared(x)
    PROVE  SchedulerInv'
  BY EnsureReadyKeeps, EpochCheckKeeps, EpochOpenKeeps, EpochTakeKeeps DEF Shared
-----------------------------------------------------------------------------
(***************************************************************************)
(* The recovery task and the startup sweep.                                *)
(***************************************************************************)
LEMMA ServiceMove ==
    ASSUME SchedulerInv, NEW x \in {Recovery, Starter}, NEW m \in LabelsOf(x),
           pc[x] # "off", pc' = [pc EXCEPT ![x] = m], m \notin {"opening", "opened"},
           UNCHANGED <<canon, closed, escaped, admission, cand, epochs, lock, fenced>>,
           \A w \in Workers : acct'[w] = acct[w],
           IF x = Starter THEN m \in {"current", "missing"} => acct'[Starter] \in Accounts
                          ELSE acct'[Starter] = acct[Starter],
           NoticeTypes', DiskTypes', HoldTypes', AskTypes', OwedIsHeld',
           epoch' \in {0, epoch}, ~reported' => ~reported /\ epoch' = epoch
    PROVE  SchedulerInv'
<1>1. x \in Tasks /\ x \notin Workers
  BY TaskNames
<1>2. closed = FALSE
  BY <1>1, Running DEF SchedulerInv, Stopped, Types, RestTypes
<1>3. /\ PcTypes' /\ AdmissionTypes' /\ HasAccount' /\ Stopped' /\ Holding' /\ WorkIsAsked'
      /\ pc'[x] = m /\ \A y \in Tasks : y # x => pc'[y] = pc[y]
  BY <1>1, <1>2, TaskMoves
<1>4. RestTypes' /\ EpochTypes'
  BY DEF SchedulerInv, Types, RestTypes, EpochTypes
<1>5. OneOpens'
  BY <1>3, OpensStay DEF SchedulerInv
<1>6. Carried'
  BY <1>1, <1>3, CarriesStay, TaskNames DEF SchedulerInv
<1> QED
  BY <1>3, <1>4, <1>5, <1>6 DEF SchedulerInv, Types

LEMMA SameStorage ==
    ASSUME Types, UNCHANGED storage
    PROVE  NoticeTypes' /\ DiskTypes' /\ epoch' = epoch /\ reported' = reported
<1>1. NoticeTypes /\ DiskTypes /\ UNCHANGED <<noticing, disks>>
  BY DEF Types, storage
<1> QED
  BY <1>1 DEF noticing, disks, NoticeTypes, DiskTypes, FewHeld, Held

LEMMA RecoveryMoves ==
    ASSUME SchedulerInv, RecoveryTop \/ RecoveryAgain
    PROVE  SchedulerInv'
<1>1. /\ UNCHANGED <<canon, closed, escaped, admission, acct, cand, failed, epochs, lock, fenced>>
      /\ UNCHANGED storage /\ UNCHANGED <<requests, sweep, owed, asks>>
      /\ batch' \in {batch, requests} /\ pc[Recovery] \in {"top", "admit"}
      /\ \E m \in {"off", "storage", "top"} : pc' = [pc EXCEPT ![Recovery] = m]
  BY DEF RecoveryTop, RecoveryAgain, holding, epochLock, asking, Go
<1>2. PICK m \in {"off", "storage", "top"} : pc' = [pc EXCEPT ![Recovery] = m]
  BY <1>1
<1>3. m \in LabelsOf(Recovery)
  BY DEF LabelsOf, RecoveryLabels
<1>4. NoticeTypes' /\ DiskTypes' /\ epoch' = epoch /\ reported' = reported
  BY <1>1, SameStorage DEF SchedulerInv
<1>5. HoldTypes' /\ AskTypes'
  BY <1>1 DEF SchedulerInv, Types, HoldTypes, AskTypes
<1>6. OwedIsHeld'
  <2>1. UNCHANGED work
    BY <1>1 DEF admission
  <2>2. \A a \in Accounts : requests[a] <= requests[a]
    <3>1. ASSUME NEW a \in Accounts PROVE requests[a] \in Int
      BY Numbers DEF SchedulerInv, Types, AskTypes, RevMap
    <3> QED
      BY <3>1
  <2> QED
    BY <1>1, <2>1, <2>2 DEF SchedulerInv, OwedIsHeld
<1> QED
  BY <1>1, <1>2, <1>3, <1>4, <1>5, <1>6, ServiceMove, TaskNames

LEMMA SweepMoves ==
    ASSUME SchedulerInv, \/ SweepList \/ SweepCurrent \/ SweepEnds
                         \/ \E a \in Accounts : SweepCheck(a)
    PROVE  SchedulerInv'
<1>s. /\ RestTypes /\ NoticeTypes /\ DiskTypes /\ EpochTypes /\ HoldTypes /\ AskTypes
      /\ OwedIsHeld /\ Types
  BY DEF SchedulerInv, Types
<1>n. Starter \in {Recovery, Starter} /\ \A w \in Workers : w # Starter
  BY TaskNames
<1>1. CASE SweepList \/ SweepEnds
  <2>1. /\ UNCHANGED <<canon, closed, escaped, admission, acct, cand, failed, epochs, lock, fenced>>
        /\ UNCHANGED storage /\ UNCHANGED <<requests, batch, owed, asks, work>>
        /\ sweep' \in {sweep, canon} /\ pc[Starter] \in {"list", "sweep"}
        /\ \E m \in {"off", "sweep"} : pc' = [pc EXCEPT ![Starter] = m]
    BY <1>1 DEF SweepList, SweepEnds, holding, epochLock, asking, admission, Go
  <2>2. PICK m \in {"off", "sweep"} : pc' = [pc EXCEPT ![Starter] = m]
    BY <2>1
  <2>3. m \in LabelsOf(Starter)
    BY TaskNames DEF LabelsOf, StarterLabels
  <2>4. NoticeTypes' /\ DiskTypes' /\ epoch' = epoch /\ reported' = reported
    BY <1>s, <2>1, SameStorage
  <2>5. HoldTypes' /\ AskTypes' /\ OwedIsHeld'
    BY <1>s, <2>1 DEF HoldTypes, AskTypes, RestTypes, RevMap, OwedIsHeld
  <2> QED
    BY <1>n, <2>1, <2>2, <2>3, <2>4, <2>5, ServiceMove
<1>2. ASSUME NEW a \in Accounts, SweepCheck(a) PROVE SchedulerInv'
  <2>1. /\ UNCHANGED <<canon, closed, escaped, admission, cand, epochs, lock, fenced>>
        /\ UNCHANGED <<asking, work>> /\ UNCHANGED disks
        /\ pc[Starter] = "sweep"
    BY <1>2 DEF SweepCheck, epochLock, admission
  <2>2. DiskTypes' /\ AskTypes' /\ OwedIsHeld'
    BY <1>s, <2>1, AskingStays DEF disks, DiskTypes
  <2>3. NoticeTypes' /\ epoch' \in {0, epoch} /\ (~reported' => ~reported /\ epoch' = epoch)
    BY <1>2, <1>s, Notices DEF SweepCheck
  <2>4. CASE /\ acct' = [acct EXCEPT ![Starter] = a] /\ UNCHANGED failed
             /\ Go(Starter, IF Current(a) THEN "current" ELSE "missing")
    <3>1. PICK m \in {"current", "missing"} : pc' = [pc EXCEPT ![Starter] = m]
      BY <2>4 DEF Go
    <3>2. m \in LabelsOf(Starter)
      BY TaskNames DEF LabelsOf, StarterLabels
    <3>3. HoldTypes' /\ acct'[Starter] = a /\ \A w \in Workers : acct'[w] = acct[w]
      BY <1>n, <1>s, <2>1, <2>4 DEF HoldTypes
    <3> QED
      BY <1>n, <2>1, <2>2, <2>3, <3>1, <3>2, <3>3, ServiceMove
  <2>5. CASE Fails(Starter) /\ UNCHANGED acct
    <3>1. epochs' = epochs /\ fenced' = fenced /\ cand' \in [Workers -> Candidates]
      BY <1>s, <2>1 DEF HoldTypes
    <3> QED
      BY <2>1, <2>2, <2>3, <2>5, <3>1, FailureKeeps, TaskNames
  <2> QED
    BY <1>2, <2>4, <2>5 DEF SweepCheck
<1>3. CASE SweepCurrent
  <2>1. PICK a : a = acct[Starter]
    OBVIOUS
  <2>2. /\ UNCHANGED <<canon, closed, escaped, admission, cand, failed, epochs, lock, fenced>>
        /\ UNCHANGED lazy /\ UNCHANGED <<requests, batch, owed, asks, work>>
        /\ pc[Starter] = "current" /\ pc' = [pc EXCEPT ![Starter] = "sweep"]
        /\ sweep' = [sweep EXCEPT ![a] = NoRev]
        /\ available' \in Recorded(available, a, sweep[a])
        /\ acct' = [acct EXCEPT ![Starter] = NoAccount]
    BY <1>3, <2>1 DEF SweepCurrent, epochLock, admission, Go
  <2>3. a \in Accounts /\ sweep[a] \in Revs \cup {NoRev}
    BY <1>s, <2>1, <2>2 DEF SchedulerInv, HasAccount, AskTypes, RevMap
  <2>4. available' \in RevMap /\ FewHeld(available')
    BY <1>s, <2>2, <2>3, RecordedFew DEF NoticeTypes
  <2>5. NoticeTypes' /\ DiskTypes' /\ epoch' = epoch /\ reported' = reported
    BY <1>s, <2>2, <2>4 DEF lazy, disks, NoticeTypes, DiskTypes, FewHeld, Held
  <2>6. HoldTypes' /\ \A w \in Workers : acct'[w] = acct[w]
    BY <1>n, <1>s, <2>2 DEF HoldTypes
  <2>7. AskTypes' /\ OwedIsHeld'
    BY <1>s, <2>2 DEF AskTypes, RevMap, OwedIsHeld
  <2>8. "sweep" \in LabelsOf(Starter)
    BY TaskNames DEF LabelsOf, StarterLabels
  <2> QED
    BY <1>n, <2>2, <2>5, <2>6, <2>7, <2>8, ServiceMove
<1> QED
  BY <1>1, <1>2, <1>3
-----------------------------------------------------------------------------
(***************************************************************************)
(* A worker at its account.                                                *)
(***************************************************************************)
\* A worker goes on with the account it has, or ends after close().
LEMMA WorkerMove ==
    ASSUME SchedulerInv, NEW w \in Workers, NEW m \in WorkerLabels,
           pc[w] \notin {"off", "take"}, pc' = [pc EXCEPT ![w] = m],
           IF closed THEN m = "off" ELSE m \notin {"off", "take", "opening", "opened"},
           UNCHANGED <<canon, closed, escaped, admission, asking, acct, epochs, lock, fenced>>,
           cand' \in [Workers -> Candidates], failed' \subseteq Workers,
           \A v \in Workers : v # w => cand'[v] = cand[v],
           m \in Carrying => pc[w] \in Carrying /\ cand'[w].epoch = cand[w].epoch,
           NoticeTypes', DiskTypes',
           epoch' \in {0, epoch}, ~reported' => ~reported /\ epoch' = epoch
    PROVE  SchedulerInv'
<1>1. w \in Tasks /\ w # Starter /\ m \in LabelsOf(w)
  BY TaskNames DEF LabelsOf
<1>2. /\ PcTypes' /\ AdmissionTypes' /\ HasAccount' /\ Stopped' /\ Holding' /\ WorkIsAsked'
      /\ pc'[w] = m /\ \A y \in Tasks : y # w => pc'[y] = pc[y]
  BY <1>1, TaskMoves
<1>3. UNCHANGED work
  BY DEF admission
<1>4. RestTypes' /\ EpochTypes' /\ AskTypes' /\ OwedIsHeld' /\ HoldTypes'
  BY <1>3, AskingStays DEF SchedulerInv, Types, RestTypes, EpochTypes, HoldTypes
<1>5. m \notin {"opening", "opened"}
  OBVIOUS
<1>6. OneOpens'
  BY <1>2, <1>5, OpensStay DEF SchedulerInv
<1>7. Carried'
  BY <1>1, <1>2, CarriesStay, TaskNames DEF SchedulerInv
<1> QED
  BY <1>2, <1>4, <1>6, <1>7 DEF SchedulerInv, Types

\* Who drains an account before close() has it in hand.
LEMMA AtHand ==
    ASSUME SchedulerInv, NEW w \in Workers, pc[w] \notin {"off", "take"}
    PROVE  /\ acct[w] \in Accounts /\ w \in Tasks /\ cand[w] \in Candidates
           /\ canon[acct[w]] \in Revs
           /\ cand \in [Workers -> Candidates] /\ failed \subseteq Workers
<1>1. acct[w] \in Accounts /\ w \in Tasks
  BY TaskNames DEF SchedulerInv, HasAccount, Draining
<1> QED
  BY <1>1 DEF SchedulerInv, Types, HoldTypes, RestTypes

LEMMA CandidateTypes ==
    /\ NoCand \in Candidates
    /\ \A c \in Candidates, r \in Revs \cup {NoRev}, b \in BOOLEAN :
         /\ [c EXCEPT !.rev = r] \in Candidates
         /\ [[c EXCEPT !.rev = r] EXCEPT !.staged = b] \in Candidates
         /\ [c EXCEPT !.rev = r].epoch = c.epoch
         /\ [[c EXCEPT !.rev = r] EXCEPT !.staged = b].epoch = c.epoch
  BY Numbers DEF Candidates, NoCand

LEMMA BuildKeeps ==
    ASSUME SchedulerInv, NEW w \in Workers, BuildRead(w) \/ BuildStage(w)
    PROVE  SchedulerInv'
<1>1. /\ pc[w] \in {"build", "staging"} /\ UNCHANGED <<disk, backoff>>
      /\ UNCHANGED <<canon, closed, escaped, admission, asking, acct, epochs, lock, fenced>>
  BY DEF BuildRead, BuildStage, epochLock, disks
<1>2. closed = FALSE /\ w \in Tasks
  BY <1>1, Running, TaskNames
<1>s. NoticeTypes /\ DiskTypes /\ EpochTypes
  BY DEF SchedulerInv, Types
<1>h. /\ acct[w] \in Accounts /\ cand[w] \in Candidates /\ canon[acct[w]] \in Revs
      /\ cand \in [Workers -> Candidates] /\ failed \subseteq Workers
  BY <1>1, AtHand
<1>3. /\ NoticeTypes' /\ epoch' \in {0, epoch}
      /\ (~reported' => ~reported /\ epoch' = epoch)
  <2>1. \/ UNCHANGED noticing \/ Reached \/ Unreached(acct[w])
    BY DEF BuildRead, BuildStage
  <2>2. CASE UNCHANGED noticing
    BY <1>s, <2>2 DEF noticing, NoticeTypes, FewHeld, Held
  <2> QED
    BY <1>s, <2>1, <2>2, Notices
<1>4. ASSUME Fails(w), file' = file, cand' = cand \/ cand' = [cand EXCEPT ![w] = NoCand]
      PROVE  SchedulerInv'
  <2>1. DiskTypes'
    BY <1>1, <1>4, <1>s DEF DiskTypes
  <2>2. cand' \in [Workers -> Candidates] /\ \A v \in Workers : v # w => cand'[v] = cand[v]
    BY <1>4, <1>h, CandidateTypes
  <2> QED
    BY <1>1, <1>2, <1>3, <1>4, <2>1, <2>2, FailureKeeps
<1>5. CASE /\ UNCHANGED failed
           /\ \E m \in {"build", "staging", "eligible"} : Go(w, m)
           /\ \/ \E r \in Revs \cup {NoRev}, b \in BOOLEAN :
                   cand' = [cand EXCEPT ![w] = [[cand[w] EXCEPT !.rev = r] EXCEPT !.staged = b]]
              \/ cand' = [cand EXCEPT ![w] = [cand[w] EXCEPT !.rev = NoRev]]
              \/ cand' = cand
           /\ \/ file' = file
              \/ cand[w].rev \in Revs /\ file' = [file EXCEPT !.rows = @ \cup {Row(w)}]
  <2>1. PICK m \in {"build", "staging", "eligible"} : pc' = [pc EXCEPT ![w] = m]
    BY <1>5 DEF Go
  <2>2. m \in WorkerLabels /\ m \notin {"off", "take", "opening", "opened"}
    BY DEF WorkerLabels
  <2>3. /\ cand' \in [Workers -> Candidates] /\ cand'[w].epoch = cand[w].epoch
        /\ \A v \in Workers : v # w => cand'[v] = cand[v]
    <3>1. CASE cand' = cand
      BY <1>h, <3>1
    <3>2. CASE \E c \in Candidates : c.epoch = cand[w].epoch /\ cand' = [cand EXCEPT ![w] = c]
      BY <1>h, <3>2
    <3> QED
      BY <1>5, <1>h, <3>1, <3>2, CandidateTypes, Numbers
  <2>4. DiskTypes'
    <3>1. cand[w].rev \in Revs => {Row(w)} \in SUBSET FileRows
      BY <1>h DEF Row, Candidates, FileRows
    <3>2. cand[w].rev \in Revs => [file EXCEPT !.rows = @ \cup {Row(w)}] \in Files
      BY <1>s, <3>1 DEF DiskTypes, Files
    <3>3. file' \in Files
      BY <1>5, <1>s, <3>2 DEF DiskTypes
    <3> QED
      BY <1>1, <1>s, <3>3 DEF DiskTypes
  <2>5. pc[w] \in Carrying
    BY <1>1 DEF Carrying
  <2> QED
    BY <1>1, <1>2, <1>3, <1>5, <1>h, <2>1, <2>2, <2>3, <2>4, <2>5, WorkerMove
<1>6. CASE BuildRead(w)
  <2>1. \/ /\ cand' = [cand EXCEPT ![w] = [[cand[w] EXCEPT !.rev = canon[acct[w]]]
                                           EXCEPT !.staged = ~Current(acct[w])]]
           /\ Go(w, IF Current(acct[w]) THEN "eligible" ELSE "staging") /\ UNCHANGED failed
        \/ Fails(w) /\ cand' = cand
    BY <1>6 DEF BuildRead
  <2>2. file' = file /\ (~Current(acct[w])) \in BOOLEAN
    BY <1>6 DEF BuildRead, disks
  <2>3. Go(w, IF Current(acct[w]) THEN "eligible" ELSE "staging")
            => Go(w, "eligible") \/ Go(w, "staging")
    OBVIOUS
  <2> QED
    BY <1>4, <1>5, <1>h, <2>1, <2>2, <2>3
<1>7. CASE BuildStage(w)
  <2>1. \/ /\ cand' = [cand EXCEPT ![w] = [cand[w] EXCEPT !.rev = NoRev]]
           /\ Go(w, "build") /\ UNCHANGED <<file, failed>>
        \/ /\ cand[w].rev = canon[acct[w]] /\ cand' = cand /\ Go(w, "eligible")
           /\ file' = [file EXCEPT !.rows = @ \cup {Row(w)}] /\ UNCHANGED failed
        \/ Fails(w) /\ cand' = [cand EXCEPT ![w] = NoCand] /\ file' = file
    BY <1>7 DEF BuildStage
  <2> QED
    BY <1>4, <1>5, <1>h, <2>1
<1> QED
  BY <1>6, <1>7
\* An unpublished candidate ends a detached thread, or is discarded.
LEMMA UnpublishedGoes ==
    ASSUME SchedulerInv, NEW w \in Workers, Unpublished(w)
    PROVE  /\ failed' \subseteq Workers
           /\ \E m \in WorkerLabels : /\ pc' = [pc EXCEPT ![w] = m]
                                      /\ m = IF closed THEN "off" ELSE "discard"
<1>1. failed \subseteq Workers
  BY DEF SchedulerInv, Types, HoldTypes
<1> QED
  BY <1>1 DEF Unpublished, Go, WorkerLabels

LEMMA EnterKeeps ==
    ASSUME SchedulerInv, NEW w \in Workers, Eligible(w) \/ Enter(w)
    PROVE  SchedulerInv'
<1>1. /\ pc[w] \in {"eligible", "enter"} /\ UNCHANGED disks /\ cand' = cand
      /\ UNCHANGED <<canon, closed, escaped, admission, asking, acct, epochs, lock, fenced>>
  BY DEF Eligible, Enter, epochLock, storage, holding
<1>2. closed = FALSE
  BY <1>1, Running, TaskNames
<1>s. NoticeTypes /\ DiskTypes /\ EpochTypes /\ HoldTypes
  BY DEF SchedulerInv, Types
<1>3. /\ NoticeTypes' /\ epoch' \in {0, epoch}
      /\ (~reported' => ~reported /\ epoch' = epoch)
  <2>1. \/ UNCHANGED noticing \/ Reached \/ Unreached(NoAccount)
        \/ Faulty /\ UNCHANGED <<store, needs, notified, reported, moved, epoch, available>>
    BY DEF Eligible, Enter, storage
  <2>2. CASE UNCHANGED noticing
    BY <1>s, <2>2 DEF noticing, NoticeTypes, FewHeld, Held
  <2> QED
    BY <1>s, <2>1, <2>2, Notices
<1>4. DiskTypes'
  BY <1>1, <1>s DEF disks, DiskTypes
<1>5. failed' \subseteq Workers
      /\ \E m \in {"enter", "discard", "activating"} : pc' = [pc EXCEPT ![w] = m]
  <2>1. CASE Unpublished(w)
    BY <1>2, <2>1, UnpublishedGoes
  <2>2. CASE UNCHANGED failed /\ \E m \in {"enter", "discard", "activating"} : Go(w, m)
    BY <1>s, <2>2 DEF HoldTypes, Go
  <2>3. ASSUME Eligible(w)
        PROVE  UNCHANGED failed /\ (Go(w, "enter") \/ Go(w, "discard"))
    BY <2>3 DEF Eligible, holding
  <2>4. ASSUME Enter(w)
        PROVE  Unpublished(w) \/ (UNCHANGED failed /\ Go(w, "activating"))
    BY <2>4 DEF Enter
  <2> QED
    BY <2>1, <2>2, <2>3, <2>4
<1>6. PICK m \in {"enter", "discard", "activating"} : pc' = [pc EXCEPT ![w] = m]
  BY <1>5
<1>7. m \in WorkerLabels /\ m \notin {"off", "take", "opening", "opened"}
  BY DEF WorkerLabels
<1>8. cand' \in [Workers -> Candidates] /\ pc[w] \in Carrying
  BY <1>1, <1>s DEF HoldTypes, Carrying
<1> QED
  BY <1>1, <1>2, <1>3, <1>4, <1>5, <1>6, <1>7, <1>8, WorkerMove

LEMMA ActivateKeeps ==
    ASSUME SchedulerInv, NEW w \in Workers, Activate(w)
    PROVE  SchedulerInv'
<1>1. /\ pc[w] = "activating" /\ UNCHANGED <<disk, backoff>> /\ cand' = cand
      /\ UNCHANGED <<canon, closed, escaped, admission, asking, acct, epochs, lock, fenced>>
  BY DEF Activate, epochLock
<1>s. NoticeTypes /\ DiskTypes /\ EpochTypes /\ HoldTypes /\ closed \in BOOLEAN
  BY DEF SchedulerInv, Types, RestTypes
<1>h. acct[w] \in Accounts /\ cand[w] \in Candidates /\ canon[acct[w]] \in Revs
  BY <1>1, AtHand
<1>3. /\ NoticeTypes' /\ epoch' \in {0, epoch}
      /\ (~reported' => ~reported /\ epoch' = epoch)
  <2>1. UNCHANGED noticing \/ (Faulty /\ MarkFailed(NoAccount))
    BY DEF Activate
  <2>2. CASE UNCHANGED noticing
    BY <1>s, <2>2 DEF noticing, NoticeTypes, FewHeld, Held
  <2> QED
    BY <1>s, <2>1, <2>2, Notices
<1>4. DiskTypes'
  <2>1. file' = file \/ (MayPublish(w) /\ file' = [file EXCEPT !.active[acct[w]] = cand[w].rev,
                                                              !.rows = @ \ {Row(w)}])
    BY DEF Activate
  <2>2. MayPublish(w) => cand[w].rev \in Revs
    BY <1>h DEF MayPublish
  <2>3. file \in Files
    BY <1>s DEF DiskTypes
  <2>4. ASSUME MayPublish(w)
        PROVE  [file EXCEPT !.active[acct[w]] = cand[w].rev, !.rows = @ \ {Row(w)}] \in Files
    <3>1. [file.active EXCEPT ![acct[w]] = cand[w].rev] \in [Accounts -> Revs \cup {NoRev}]
      BY <1>h, <2>2, <2>3, <2>4 DEF Files
    <3> QED
      BY <2>3, <3>1 DEF Files
  <2>5. file' \in Files
    BY <2>1, <2>3, <2>4
  <2> QED
    BY <1>1, <1>s, <2>5 DEF DiskTypes
<1>5. /\ failed' \subseteq Workers
      /\ \E m \in {"off", "settle", "discard"} :
            /\ pc' = [pc EXCEPT ![w] = m] /\ (m = "off" <=> closed)
  <2>1. CASE Unpublished(w)
    BY <1>s, <2>1, UnpublishedGoes
  <2>2. CASE UNCHANGED failed /\ Go(w, IF closed THEN "off" ELSE "settle")
    BY <1>s, <2>2 DEF HoldTypes, Go
  <2> QED
    BY <2>1, <2>2 DEF Activate
<1>6. PICK m \in {"off", "settle", "discard"} : pc' = [pc EXCEPT ![w] = m] /\ (m = "off" <=> closed)
  BY <1>5
<1>7. /\ m \in WorkerLabels /\ m \notin Carrying
      /\ IF closed THEN m = "off" ELSE m \notin {"off", "take", "opening", "opened"}
  BY <1>6 DEF WorkerLabels, Carrying
<1>8. cand' \in [Workers -> Candidates]
  BY <1>1, <1>s DEF HoldTypes
<1> QED
  BY <1>1, <1>3, <1>4, <1>5, <1>6, <1>7, <1>8, WorkerMove

\* A discard that ends, or that nothing excuses.
Discarded(w) ==
    /\ Go(w, "settle") /\ Dropped(w) /\ UNCHANGED <<failed, acct, escaped>>
    /\ \/ file' = file
       \/ cand[w].staged /\ file' = [file EXCEPT !.rows = @ \ {Row(w)}]
Escapes(w) ==
    /\ Unreached(NoAccount) /\ escaped' = escaped \cup {acct[w]}
    /\ pc' \in Launched([pc EXCEPT ![w] = "off"], pending)
    /\ Dropped(w) /\ acct' = [acct EXCEPT ![w] = NoAccount]
    /\ failed' = failed \ {w} /\ file' = file

LEMMA DiscardCases ==
    ASSUME SchedulerInv, NEW w \in Workers, Discard(w)
    PROVE  /\ pc[w] = "discard" /\ closed = FALSE /\ UNCHANGED <<disk, backoff>>
           /\ UNCHANGED <<canon, closed, admission, asking, epochs, lock, fenced>>
           /\ NoticeTypes' /\ epoch' \in {0, epoch}
           /\ ~reported' => ~reported /\ epoch' = epoch
           /\ Discarded(w) \/ Escapes(w)
<1>1. /\ pc[w] = "discard" /\ UNCHANGED <<disk, backoff>>
      /\ UNCHANGED <<canon, closed, admission, asking, epochs, lock, fenced>>
  BY DEF Discard, epochLock
<1>2. closed = FALSE
  BY <1>1, Running, TaskNames
<1>3. NoticeTypes /\ EpochTypes
  BY DEF SchedulerInv, Types
<1>4. CASE ~cand[w].staged /\ UNCHANGED noticing /\ Discarded(w)
  BY <1>1, <1>2, <1>3, <1>4 DEF noticing, NoticeTypes, FewHeld, Held
<1>5. CASE /\ Discarded(w) \/ Escapes(w)
           /\ \/ Faulty /\ UNCHANGED <<store, needs, notified, reported, moved, epoch, available>>
              \/ Reached \/ Unreached(NoAccount)
  <2>1. /\ NoticeTypes' /\ epoch' \in {0, epoch}
        /\ (~reported' => ~reported /\ epoch' = epoch)
    BY <1>3, <1>5, Notices
  <2> QED
    BY <1>1, <1>2, <1>5, <2>1
<1> QED
  BY <1>4, <1>5 DEF Discard, Discarded, Escapes

LEMMA DiscardedKeeps ==
    ASSUME SchedulerInv, NEW w \in Workers, Discard(w), Discarded(w)
    PROVE  SchedulerInv'
<1>1. /\ pc[w] = "discard" /\ closed = FALSE /\ UNCHANGED <<disk, backoff>>
      /\ UNCHANGED <<canon, closed, admission, asking, epochs, lock, fenced>>
      /\ NoticeTypes' /\ epoch' \in {0, epoch}
      /\ (~reported' => ~reported /\ epoch' = epoch)
  BY DiscardCases
<1>h. /\ acct[w] \in Accounts /\ cand[w] \in Candidates
      /\ cand \in [Workers -> Candidates] /\ failed \subseteq Workers
  BY <1>1, AtHand
<1>2. /\ pc' = [pc EXCEPT ![w] = "settle"] /\ cand' = [cand EXCEPT ![w] = NoCand]
      /\ UNCHANGED <<failed, acct, escaped>>
  BY DEF Discarded, Dropped, Go
<1>3. cand' \in [Workers -> Candidates] /\ \A v \in Workers : v # w => cand'[v] = cand[v]
  BY <1>2, <1>h, CandidateTypes
<1>4. DiskTypes'
  <2>1. file \in Files /\ disk \in {"good", "gone"} /\ backoff \in BOOLEAN
    BY DEF SchedulerInv, Types, DiskTypes
  <2>2. file' = file \/ file' = [file EXCEPT !.rows = @ \ {Row(w)}]
    BY DEF Discarded
  <2>3. [file EXCEPT !.rows = @ \ {Row(w)}] \in Files
    BY <2>1 DEF Files
  <2> QED
    BY <1>1, <2>1, <2>2, <2>3 DEF DiskTypes
<1>5. /\ "settle" \in WorkerLabels /\ "settle" \notin Carrying
      /\ "settle" \notin {"off", "take", "opening", "opened"}
  BY DEF WorkerLabels, Carrying
<1>6. failed' \subseteq Workers
  BY <1>2, <1>h
<1> QED
  BY <1>1, <1>2, <1>3, <1>4, <1>5, <1>6, WorkerMove
-----------------------------------------------------------------------------
(***************************************************************************)
(* Admission: work comes into the queue, into a worker's hands and out.    *)
(***************************************************************************)
\* A task goes on, and workers that had ended may have been started.
LEMMA LaunchMoves ==
    ASSUME SchedulerInv, NEW x \in Tasks, NEW m \in LabelsOf(x), NEW queue,
           pc' \in Launched([pc EXCEPT ![x] = m], queue)
    PROVE  /\ PcTypes'
           /\ pc'[x] = m \/ (m = "off" /\ pc'[x] = "take")
           /\ \A y \in Tasks : y # x =>
                pc'[y] = pc[y] \/ (pc[y] = "off" /\ pc'[y] = "take" /\ y \in Workers)
<1>1. PICK at : at = [pc EXCEPT ![x] = m]
  OBVIOUS
<1>2. pc \in [Tasks -> Labels] /\ \A y \in Tasks : pc[y] \in LabelsOf(y)
  BY DEF SchedulerInv, Types, PcTypes
<1>3. at[x] = m /\ \A y \in Tasks : y # x => at[y] = pc[y]
  <2>1. DOMAIN pc = Tasks
    BY <1>2
  <2> QED
    BY <1>1, <2>1
<1>4. /\ pc' \in [Tasks -> {pc'[y] : y \in Tasks}]
      /\ \A y \in Tasks : pc'[y] # at[y] => pc'[y] = "take" /\ at[y] = "off" /\ y \in Workers
  <2>1. PICK p : p = pc'
    OBVIOUS
  <2>2. p \in Launched(at, queue)
    BY <1>1, <2>1
  <2>3. /\ p \in [Tasks -> {p[y] : y \in Tasks}]
        /\ \A y \in Tasks : p[y] # at[y] => p[y] = "take" /\ at[y] = "off" /\ y \in Workers
    BY <2>2, Launches
  <2> QED
    BY <2>1, <2>3
<1>5. ASSUME NEW y \in Tasks PROVE pc'[y] \in LabelsOf(y)
  <2>1. CASE pc'[y] = at[y]
    BY <1>2, <1>3, <2>1
  <2>2. CASE pc'[y] # at[y]
    BY <1>4, <2>2, TaskNames DEF LabelsOf, WorkerLabels
  <2> QED
    BY <2>1, <2>2
<1>6. PcTypes'
  <2>1. \A y \in Tasks : LabelsOf(y) \subseteq Labels
    BY DEF LabelsOf, Labels
  <2>2. pc' \in [Tasks -> Labels]
    BY <1>4, <1>5, <2>1
  <2> QED
    BY <1>5, <2>2 DEF PcTypes
<1> QED
  BY <1>3, <1>4, <1>6

\* A worker that lets its account go has had it alone.
LEMMA LetsGo ==
    ASSUME HeldOnce, NEW w \in Workers, Draining(w), ~Draining(w)',
           \A v \in Workers : v # w => /\ Draining(v)' <=> Draining(v)
                                       /\ acct'[v] = acct[v]
    PROVE  /\ \A a \in Accounts : InHand(a)' <=> InHand(a) /\ a # acct[w]
           /\ \A v, u \in Workers : Draining(v)' /\ Draining(u)' /\ acct'[v] = acct'[u] => v = u
<1>1. ASSUME NEW a \in Accounts, InHand(a)' PROVE InHand(a) /\ a # acct[w]
  <2>1. PICK v \in Workers : Draining(v)' /\ acct'[v] = a
    BY <1>1 DEF InHand
  <2>2. v # w /\ Draining(v) /\ acct[v] = a
    BY <2>1
  <2> QED
    BY <2>2 DEF InHand, HeldOnce
<1>2. ASSUME NEW a \in Accounts, InHand(a), a # acct[w] PROVE InHand(a)'
  <2>1. PICK v \in Workers : Draining(v) /\ acct[v] = a
    BY <1>2 DEF InHand
  <2>2. Draining(v)' /\ acct'[v] = a
    BY <1>2, <2>1
  <2> QED
    BY <2>2 DEF InHand
<1>3. \A v, u \in Workers : Draining(v)' /\ Draining(u)' /\ acct'[v] = acct'[u] => v = u
  BY DEF HeldOnce
<1> QED
  BY <1>1, <1>2, <1>3

\* An uncaught error leaves the work behind, in nobody's hands.
LEMMA EscapeKeeps ==
    ASSUME SchedulerInv, NEW w \in Workers, Discard(w), Escapes(w)
    PROVE  SchedulerInv'
<1>1. /\ pc[w] = "discard" /\ closed = FALSE /\ UNCHANGED <<disk, backoff>>
      /\ UNCHANGED <<canon, closed, admission, asking, epochs, lock, fenced>>
      /\ NoticeTypes' /\ epoch' \in {0, epoch}
      /\ (~reported' => ~reported /\ epoch' = epoch)
  BY DiscardCases
<1>h. /\ acct[w] \in Accounts /\ w \in Tasks /\ w # Starter /\ cand \in [Workers -> Candidates]
      /\ failed \subseteq Workers
  BY <1>1, AtHand, TaskNames
<1>2. /\ cand' = [cand EXCEPT ![w] = NoCand] /\ acct' = [acct EXCEPT ![w] = NoAccount]
      /\ file' = file /\ failed' = failed \ {w} /\ escaped' = escaped \cup {acct[w]}
  BY DEF Escapes, Dropped
<1>3. HoldTypes' /\ DiskTypes' /\ RestTypes' /\ EpochTypes'
  <2>1. cand' \in [Workers -> Candidates] /\ failed' \subseteq Workers
    BY <1>2, <1>h, CandidateTypes
  <2>2. HoldTypes'
    BY <1>2, <2>1 DEF SchedulerInv, Types, HoldTypes
  <2> QED
    BY <1>1, <1>2, <1>h, <2>2 DEF SchedulerInv, Types, DiskTypes, RestTypes, EpochTypes
<1>4. /\ PcTypes' /\ pc'[w] \in {"off", "take"}
      /\ \A y \in Tasks : y # w =>
           pc'[y] = pc[y] \/ (pc[y] = "off" /\ pc'[y] = "take" /\ y \in Workers)
  <2>1. "off" \in LabelsOf(w)
    BY TaskNames DEF LabelsOf, WorkerLabels
  <2> QED
    BY <1>h, <2>1, LaunchMoves DEF Escapes
<1>5. /\ UNCHANGED <<work, pending, failures>> /\ AskTypes' /\ OwedIsHeld'
  BY <1>1, AskingStays DEF SchedulerInv, Types, admission
<1>6. AdmissionTypes' /\ WorkIsAsked' /\ \A a \in Accounts : HasWork(a)' <=> HasWork(a)
  BY <1>5 DEF SchedulerInv, Types, AdmissionTypes, WorkIsAsked, HasWork, FewHeld, Held
<1>7. /\ Draining(w) /\ ~Draining(w)'
      /\ \A v \in Workers : v # w => (Draining(v)' <=> Draining(v)) /\ acct'[v] = acct[v]
  <2>1. Draining(w) /\ ~Draining(w)'
    BY <1>1, <1>4 DEF Draining
  <2>2. \A v \in Workers : v # w => (Draining(v)' <=> Draining(v))
    BY <1>4, TaskNames DEF Draining
  <2> QED
    BY <1>2, <2>1, <2>2 DEF SchedulerInv, Types, HoldTypes
<1>8. HasAccount'
  <2>1. acct'[Starter] = acct[Starter] /\ pc'[Starter] = pc[Starter]
    BY <1>2, <1>4, <1>h, TaskNames DEF SchedulerInv, Types, HoldTypes
  <2> QED
    BY <1>7, <2>1 DEF SchedulerInv, HasAccount
<1>9. Holding'
  <2>1. HeldOnce
    BY <1>1 DEF SchedulerInv, Holding
  <2>2. /\ \A a \in Accounts : InHand(a)' <=> InHand(a) /\ a # acct[w]
        /\ \A v, u \in Workers : Draining(v)' /\ Draining(u)' /\ acct'[v] = acct'[u] => v = u
    BY <1>7, <2>1, LetsGo
  <2>3. \A a \in Accounts : Queued(a)' <=> Queued(a)
    BY <1>5 DEF Queued
  <2>4. InHand(acct[w])
    BY <1>7 DEF InHand
  <2>5. \A a \in Accounts : a \in escaped' <=> a \in escaped \/ a = acct[w]
    BY <1>2
  <2>6. HeldOnce'
    BY <1>5, <1>6, <2>1, <2>2, <2>3, <2>4, <2>5 DEF HeldOnce
  <2> QED
    BY <2>6 DEF Holding
<1>10. Stopped'
  BY <1>1 DEF Stopped
<1>11. OneOpens'
  BY <1>1, <1>4, OpensStay DEF SchedulerInv
<1>12. Carried'
  <2>1. \A v \in Workers : pc'[v] \in Carrying => pc[v] \in Carrying /\ v # w
    BY <1>4, TaskNames DEF Carrying
  <2>2. \A v \in Workers : v # w => cand'[v] = cand[v]
    BY <1>2, <1>h
  <2> QED
    BY <1>1, <2>1, <2>2, CarriesStay DEF SchedulerInv
<1> QED
  BY <1>1, <1>3, <1>4, <1>5, <1>6, <1>8, <1>9, <1>10, <1>11, <1>12 DEF SchedulerInv, Types

\* What schedule() does to the admitted work of its account.
LEMMA ScheduleWork ==
    ASSUME SchedulerInv, NEW x, NEW m, NEW a \in Accounts, NEW r \in Revs \cup {NoRev},
           Schedule(x, a, r, m)
    PROVE  /\ work' \in [Accounts -> Works]
           /\ \A b \in Accounts : b # a => work'[b] = work[b]
           /\ IF Known(a, r) THEN work' = work
              ELSE /\ work'[a].req >= r /\ work'[a].req >= work[a].req
                   /\ work'[a].req # NoRev /\ HasWork(a)'
<1>s. work \in [Accounts -> Works] /\ available[a] \in Revs \cup {NoRev}
  BY DEF SchedulerInv, Types, AdmissionTypes, NoticeTypes, RevMap
<1>w. work[a].req \in Revs \cup {NoRev} /\ (HasWork(a) => work[a].req # NoRev)
  BY <1>s DEF Works, SchedulerInv, WorkIsAsked
<1>i. available[a] \in Int /\ r \in Int /\ NoRev \in Int /\ NoRev <= available[a]
  BY <1>s, Numbers
<1>1. CASE Known(a, r)
  <2>1. ~HasWork(a) /\ ~(available[a] < r)
    BY <1>1, <1>i DEF Known
  <2> QED
    BY <1>1, <1>s, <2>1 DEF Schedule, admission
<1>2. CASE HasWork(a) /\ Coalesce(a, r)
  <2>1. PICK q \in Revs \cup {NoRev} :
            q = MaxOf(work[a].req, r) /\ q >= r /\ q >= work[a].req /\ q # NoRev
    BY <1>2, <1>w, MaxOfBounds
  <2>2. work' = [work EXCEPT ![a] = [work[a] EXCEPT !.req = q]]
    BY <1>2, <2>1 DEF Coalesce
  <2>3. [work[a] EXCEPT !.req = q] \in Works /\ [work[a] EXCEPT !.req = q].req = q
    BY <1>s DEF Works
  <2>4. /\ work' \in [Accounts -> Works] /\ work'[a].req = q
        /\ \A b \in Accounts : b # a => work'[b] = work[b]
    BY <1>s, <2>2, <2>3
  <2>5. HasWork(a)'
    BY <2>1, <2>4 DEF HasWork, NoWork
  <2> QED
    BY <1>2, <2>1, <2>4, <2>5 DEF Known
<1>3. CASE /\ ~HasWork(a) /\ available[a] < r
           /\ work' = [work EXCEPT ![a] = [req |-> r, att |-> NoRev]]
  <2>1. ~Known(a, r) /\ r # NoRev
    BY <1>3, <1>i DEF Known
  <2>2. [req |-> r, att |-> NoRev] \in Works
    BY DEF Works
  <2>3. /\ work' \in [Accounts -> Works] /\ work'[a] = [req |-> r, att |-> NoRev]
        /\ \A b \in Accounts : b # a => work'[b] = work[b]
    BY <1>3, <1>s, <2>2
  <2>4. work[a].req = NoRev
    BY <1>3 DEF HasWork, NoWork
  <2>5. HasWork(a)' /\ work'[a].req = r
    BY <2>1, <2>3 DEF HasWork, NoWork
  <2> QED
    BY <2>1, <2>3, <2>4, <2>5, Numbers
<1> QED
  BY <1>1, <1>2, <1>3 DEF Schedule

\* An account that nobody holds is queued, and workers are started for it.
LEMMA EnqueueHolds ==
    ASSUME SchedulerInv, ~closed, NEW a \in Accounts, ~HasWork(a), HasWork(a)',
           pending' = Append(pending, a), Len(pending) < Capacity,
           \A b \in Accounts : b # a => work'[b] = work[b],
           UNCHANGED <<escaped, closed>>,
           \A w \in Workers : (Draining(w)' <=> Draining(w)) /\ acct'[w] = acct[w]
    PROVE  /\ pending' \in Seq(Accounts) /\ Len(pending') <= Capacity
           /\ Holding'
<1>1. /\ pending' \in Seq(Accounts) /\ Len(pending') = Len(pending) + 1
      /\ Len(pending) \in Nat
      /\ pending'[Len(pending) + 1] = a
      /\ \A i \in 1..Len(pending) : pending'[i] = pending[i]
  BY AppendProperties, LenProperties DEF SchedulerInv, Types, AdmissionTypes
<1>2. Len(pending') <= Capacity
  BY <1>1, Numbers
<1>3. HeldOnce
  BY DEF SchedulerInv, Holding
<1>4. ~Queued(a) /\ ~InHand(a) /\ a \notin escaped
  BY <1>3 DEF HeldOnce
<1>5. \A i \in 1..Len(pending') : i \in 1..Len(pending) \/ i = Len(pending) + 1
  BY <1>1
<1>6. Len(pending) + 1 \in 1..Len(pending')
      /\ \A i \in 1..Len(pending) : i \in 1..Len(pending')
  BY <1>1
<1>7. \A b \in Accounts : Queued(b)' <=> (Queued(b) \/ b = a)
  BY <1>1, <1>5, <1>6 DEF Queued
<1>8. \A i, j \in 1..Len(pending') : pending'[i] = pending'[j] => i = j
  BY <1>1, <1>3, <1>4, <1>5 DEF Queued, HeldOnce
<1>9. \A b \in Accounts : InHand(b)' <=> InHand(b)
  BY DEF InHand
<1>10. \A w, v \in Workers : Draining(w)' /\ Draining(v)' /\ acct'[w] = acct'[v] => w = v
  BY <1>3 DEF HeldOnce
<1>11. \A b \in Accounts : b # a => (HasWork(b)' <=> HasWork(b))
  BY DEF HasWork
<1>12. ASSUME NEW b \in Accounts
       PROVE  /\ ~(Queued(b)' /\ InHand(b)')
              /\ b \in escaped' => ~Queued(b)' /\ ~InHand(b)'
              /\ HasWork(b)' <=> (Queued(b)' \/ InHand(b)' \/ b \in escaped')
  BY <1>3, <1>4, <1>7, <1>9, <1>11 DEF HeldOnce
<1> QED
  BY <1>1, <1>2, <1>8, <1>10, <1>12 DEF Holding, HeldOnce

\* A service task that schedules an account keeps what is admitted in one place.
LEMMA ScheduleKeeps ==
    ASSUME SchedulerInv, NEW x \in {Recovery, Starter}, NEW m \in {"admit", "sweep"},
           m \in LabelsOf(x), NEW a \in Accounts, NEW r \in Revs \cup {NoRev},
           pc[x] # "off", Schedule(x, a, r, m),
           UNCHANGED <<canon, lazy, epochLock, fenced, closed, cand, failed, escaped>>,
           \A w \in Workers : acct'[w] = acct[w],
           x # Starter => acct'[Starter] = acct[Starter],
           HoldTypes', AskTypes', OwedIsHeld'
    PROVE  SchedulerInv'
<1>n. x \in Tasks /\ x \notin Workers /\ closed = FALSE
  BY TaskNames DEF SchedulerInv, Stopped, Types, RestTypes
<1>s. /\ NoticeTypes /\ DiskTypes /\ EpochTypes /\ AdmissionTypes /\ RestTypes
  BY DEF SchedulerInv, Types
<1>u. /\ UNCHANGED <<faults, store, needs, notified, reported, moved, epoch, file, disk, backoff>>
      /\ UNCHANGED <<epochs, lock>>
  BY DEF lazy, disks, epochLock
<1>1. /\ work' \in [Accounts -> Works]
      /\ \A b \in Accounts : b # a => work'[b] = work[b]
      /\ IF Known(a, r) THEN work' = work
         ELSE work'[a].req # NoRev /\ HasWork(a)'
  BY ScheduleWork
<1>2. WorkIsAsked'
  <2>1. ASSUME NEW b \in Accounts, HasWork(b)' PROVE work'[b].req # NoRev
    <3>1. CASE work'[b] = work[b]
      BY <2>1, <3>1 DEF SchedulerInv, WorkIsAsked, HasWork
    <3> QED
      BY <1>1, <3>1
  <2> QED
    BY <2>1 DEF WorkIsAsked
<1>3. /\ PcTypes' /\ pc'[x] = m
      /\ \A y \in Tasks : y # x =>
           pc'[y] = pc[y] \/ (pc[y] = "off" /\ pc'[y] = "take" /\ y \in Workers)
  <2>1. CASE pc' = [pc EXCEPT ![x] = m]
    BY <1>n, <2>1, Goes DEF SchedulerInv, Types
  <2>2. CASE pc' \in Launched([pc EXCEPT ![x] = m], pending')
    BY <1>n, <2>2, LaunchMoves
  <2> QED
    BY <2>1, <2>2 DEF Schedule, Go
<1>4. \A w \in Workers : Draining(w)' <=> Draining(w)
  BY <1>n, <1>3, TaskNames DEF Draining
<1>5. /\ failures' \in RevMap /\ FewHeld(failures') /\ available' \in RevMap /\ FewHeld(available')
  <2>1. /\ failures \in RevMap /\ FewHeld(failures) /\ available \in RevMap /\ FewHeld(available)
    BY <1>s DEF AdmissionTypes, NoticeTypes
  <2>2. CASE UNCHANGED <<failures, available>>
    BY <2>1, <2>2
  <2>3. CASE /\ failures' = [failures EXCEPT ![a] = NoRev]
             /\ available' = [available EXCEPT ![a] = NoRev]
    BY <2>1, <2>3, DroppedFew
  <2> QED
    BY <2>2, <2>3 DEF Schedule, admission
<1>6. pending' \in Seq(Accounts) /\ Len(pending') <= Capacity /\ Holding'
  <2>1. CASE UNCHANGED pending /\ (HasWork(a)' <=> HasWork(a))
    <3>1. \A b \in Accounts : HasWork(b)' <=> HasWork(b)
      BY <1>1, <2>1 DEF HasWork
    <3> QED
      BY <1>4, <1>s, <2>1, <3>1, HoldingStays DEF AdmissionTypes, SchedulerInv
  <2>2. CASE ~HasWork(a) /\ ~Known(a, r) /\ Len(pending) < Capacity /\ pending' = Append(pending, a)
    BY <1>1, <1>4, <1>n, <2>2, EnqueueHolds
  <2>3. CASE HasWork(a) /\ UNCHANGED pending
    BY <1>1, <2>1, <2>3 DEF Known
  <2>4. CASE Known(a, r) /\ UNCHANGED pending
    BY <1>1, <2>1, <2>4 DEF HasWork
  <2>5. available[a] < r => ~Known(a, r)
    BY <1>s, Numbers DEF Known, NoticeTypes, RevMap
  <2> QED
    BY <2>2, <2>3, <2>4, <2>5 DEF Schedule, admission
<1>7. AdmissionTypes' /\ NoticeTypes'
  BY <1>1, <1>5, <1>6, <1>s, <1>u DEF AdmissionTypes, NoticeTypes, FewHeld, Held
<1>8. DiskTypes' /\ EpochTypes' /\ RestTypes'
  BY <1>s, <1>u DEF DiskTypes, EpochTypes, RestTypes
<1>9. HasAccount'
  <2>1. \A w \in Workers : Draining(w)' => acct'[w] \in Accounts
    BY <1>4 DEF SchedulerInv, HasAccount
  <2>2. pc'[Starter] \in {"current", "missing"} => acct'[Starter] \in Accounts
    BY <1>3, TaskNames DEF SchedulerInv, HasAccount
  <2> QED
    BY <2>1, <2>2 DEF HasAccount
<1>10. Stopped'
  BY <1>n DEF Stopped
<1>11. OneOpens'
  BY <1>3, <1>u, OpensStay DEF SchedulerInv
<1>12. Carried'
  BY <1>3, <1>n, <1>u, CarriesStay, TaskNames DEF SchedulerInv, Carrying
<1> QED
  BY <1>2, <1>3, <1>6, <1>7, <1>8, <1>9, <1>10, <1>11, <1>12 DEF SchedulerInv, Types

\* A request is admitted, found served, or put back when the queue is full.
LEMMA RecoveryAdmitKeeps ==
    ASSUME SchedulerInv, NEW a \in Accounts, RecoveryAdmit(a)
    PROVE  SchedulerInv'
<1>1. PICK r : r = batch[a]
  OBVIOUS
<1>s. HoldTypes /\ AskTypes /\ OwedIsHeld /\ NoticeTypes
  BY DEF SchedulerInv, Types
<1>2. /\ pc[Recovery] = "admit" /\ r # NoRev /\ batch' = [batch EXCEPT ![a] = NoRev]
      /\ UNCHANGED <<canon, lazy, epochLock, fenced, asks, sweep, closed, escaped>>
      /\ UNCHANGED <<acct, cand, failed>>
  BY <1>1 DEF RecoveryAdmit, holding
<1>3. /\ r \in Revs /\ r \in Revs \cup {NoRev}
      /\ \A b \in Accounts : /\ requests[b] \in Revs \cup {NoRev}
                             /\ owed[b] \in Revs \cup {NoRev} /\ batch[b] \in Revs \cup {NoRev}
                             /\ work[b].req \in Revs \cup {NoRev}
  <2>1. \A b \in Accounts : work[b] \in Works
    BY DEF SchedulerInv, Types, AdmissionTypes
  <2> QED
    BY <1>1, <1>2, <1>s, <2>1 DEF AskTypes, RevMap, Works
<1>t. HoldTypes'
  BY <1>2, <1>s DEF HoldTypes
<1>4. ASSUME requests' \in RevMap, owed' \in RevMap PROVE AskTypes'
  BY <1>2, <1>4, <1>s DEF AskTypes, RevMap
<1>5. CASE /\ Schedule(Recovery, a, r, "admit")
           /\ requests' = [requests EXCEPT ![a] = IF @ = r THEN NoRev ELSE @]
           /\ IF Known(a, r) THEN Settled(a, r) ELSE UNCHANGED owed
  <2>1. /\ work' \in [Accounts -> Works]
        /\ \A b \in Accounts : b # a => work'[b] = work[b]
        /\ IF Known(a, r) THEN work' = work
           ELSE work'[a].req >= r /\ work'[a].req >= work[a].req
    BY <1>3, <1>5, ScheduleWork
  <2>2. \A b \in Accounts : requests'[b] = IF b = a /\ requests[b] = r THEN NoRev ELSE requests[b]
    BY <1>5, <1>s DEF AskTypes, RevMap
  <2>3. \A b \in Accounts : owed'[b] = IF b = a /\ Known(a, r) /\ owed[b] <= r THEN NoRev ELSE owed[b]
    BY <1>5, <1>s DEF AskTypes, RevMap, Settled
  <2>4. requests' \in RevMap /\ owed' \in RevMap
    BY <1>5, <1>s DEF AskTypes, RevMap, Settled
  <2>5. AskTypes'
    BY <1>4, <2>4
  <2>6. ASSUME NEW b \in Accounts
        PROVE  /\ batch'[b] <= requests'[b]
               /\ owed'[b] <= requests'[b] \/ owed'[b] <= work'[b].req
    <3>1. /\ batch[b] <= requests[b]
          /\ owed[b] <= requests[b] \/ owed[b] <= work[b].req
      BY <1>s DEF OwedIsHeld
    <3>2. CASE b # a
      <4>1. batch'[b] = batch[b] /\ requests'[b] = requests[b] /\ owed'[b] = owed[b]
            /\ work'[b] = work[b]
        BY <1>2, <1>s, <2>1, <2>2, <2>3, <3>2 DEF AskTypes, RevMap
      <4> QED
        BY <3>1, <4>1
    <3>3. CASE b = a
      <4>1. batch'[a] = NoRev /\ work'[a].req \in Revs \cup {NoRev} /\ requests'[a] \in Revs \cup {NoRev}
        BY <1>2, <1>s, <2>1, <2>4 DEF AskTypes, RevMap, Works
      <4>2. PICK q \in Int, o \in Int, v \in Int, u \in Int, k \in Int :
              /\ q = requests[a] /\ o = owed[a] /\ v = work[a].req /\ u = work'[a].req /\ k = r
              /\ NoRev <= v /\ NoRev <= u /\ NoRev <= k /\ NoRev <= q
        <5>1. \A n \in Revs \cup {NoRev} : n \in Int /\ NoRev <= n
          BY Numbers
        <5>2. /\ requests[a] \in Int /\ NoRev <= requests[a]
              /\ owed[a] \in Int
              /\ work[a].req \in Int /\ NoRev <= work[a].req
              /\ r \in Int /\ NoRev <= r
          BY <1>3, <5>1
        <5>3. work'[a].req \in Int /\ NoRev <= work'[a].req
          BY <4>1, <5>1
        <5> QED
          BY <5>2, <5>3
      <4>3. /\ requests'[a] = IF q = k THEN NoRev ELSE q
            /\ o <= q \/ o <= v
        BY <2>2, <3>1, <3>3, <4>2
      <4>4. CASE Known(a, r)
        <5>1. u = v /\ owed'[a] = IF o <= k THEN NoRev ELSE o
          BY <2>1, <2>3, <4>2, <4>4
        <5> QED
          BY <3>3, <4>1, <4>2, <4>3, <5>1, Numbers
      <4>5. CASE ~Known(a, r)
        <5>1. u >= k /\ u >= v /\ owed'[a] = o
          BY <2>1, <2>3, <4>2, <4>5
        <5> QED
          BY <3>3, <4>1, <4>2, <4>3, <5>1, Numbers
      <4> QED
        BY <4>4, <4>5
    <3> QED
      BY <3>2, <3>3
  <2>7. OwedIsHeld'
    BY <2>6 DEF OwedIsHeld
  <2>8. "admit" \in LabelsOf(Recovery)
    BY DEF LabelsOf, RecoveryLabels
  <2> QED
    BY <1>2, <1>3, <1>5, <1>t, <2>5, <2>7, <2>8, ScheduleKeeps
<1>6. CASE /\ requests' = [requests EXCEPT ![a] = MaxOf(@, r)]
           /\ UNCHANGED <<admission, available, pc, owed>>
  <2>1. PICK q \in Revs \cup {NoRev} : q = MaxOf(requests[a], r) /\ q >= requests[a] /\ q >= r
    BY <1>3, MaxOfBounds
  <2>2. /\ requests' \in RevMap /\ requests'[a] = q
        /\ \A b \in Accounts : b # a => requests'[b] = requests[b]
    BY <1>6, <1>s, <2>1 DEF AskTypes, RevMap
  <2>3. UNCHANGED <<work, pending, failures, pc, owed>> /\ AskTypes'
    BY <1>4, <1>6, <1>s, <2>2 DEF admission, AskTypes
  <2>4. ASSUME NEW b \in Accounts
        PROVE  /\ batch'[b] <= requests'[b]
               /\ owed'[b] <= requests'[b] \/ owed'[b] <= work'[b].req
    <3>1. /\ batch[b] <= requests[b]
          /\ owed[b] <= requests[b] \/ owed[b] <= work[b].req
      BY <1>s DEF OwedIsHeld
    <3>2. batch'[b] = IF b = a THEN NoRev ELSE batch[b]
      BY <1>2, <1>s DEF AskTypes, RevMap
    <3>3. CASE b # a
      BY <2>2, <2>3, <3>1, <3>2, <3>3
    <3>4. CASE b = a
      <4>1. PICK p \in Int, o \in Int, v \in Int, s \in Int :
              p = requests[a] /\ o = owed[a] /\ v = work[a].req /\ s = q
        BY <1>3, Numbers
      <4>2. /\ s >= p /\ NoRev <= s /\ (o <= p \/ o <= v)
        BY <2>1, <3>1, <3>4, <4>1, Numbers
      <4>3. /\ batch'[a] = NoRev /\ requests'[a] = s /\ owed'[a] = o /\ work'[a].req = v
        BY <2>2, <2>3, <3>2, <3>4, <4>1
      <4> QED
        BY <3>4, <4>1, <4>2, <4>3
    <3> QED
      BY <3>3, <3>4
  <2>5. OwedIsHeld'
    BY <2>4 DEF OwedIsHeld
  <2>6. NoticeTypes' /\ DiskTypes' /\ epoch' = epoch /\ reported' = reported
    <3>1. UNCHANGED storage
      BY <1>2, <1>6 DEF storage, lazy, noticing
    <3> QED
      BY <3>1, SameStorage DEF SchedulerInv
  <2>7. pc' = [pc EXCEPT ![Recovery] = "admit"] /\ "admit" \in LabelsOf(Recovery)
    BY <1>2, <2>3, TaskNames DEF LabelsOf, RecoveryLabels, SchedulerInv, Types, PcTypes
  <2>8. UNCHANGED <<canon, closed, escaped, admission, cand, epochs, lock, fenced>>
    BY <1>2, <1>6 DEF epochLock
  <2> QED
    BY <1>2, <1>t, <2>3, <2>5, <2>6, <2>7, <2>8, ServiceMove, TaskNames
<1> QED
  BY <1>1, <1>5, <1>6 DEF RecoveryAdmit

\* The sweep admits an account without a current projection.
LEMMA SweepAdmitKeeps ==
    ASSUME SchedulerInv, SweepAdmit
    PROVE  SchedulerInv'
<1>1. PICK a, r : a = acct[Starter] /\ r = sweep[a]
  OBVIOUS
<1>s. HoldTypes /\ AskTypes /\ OwedIsHeld
  BY DEF SchedulerInv, Types
<1>2. /\ pc[Starter] = "missing" /\ Schedule(Starter, a, r, "sweep")
      /\ sweep' = [sweep EXCEPT ![a] = NoRev]
      /\ IF Known(a, r) THEN UNCHANGED owed ELSE Owes(a, r)
      /\ acct' = [acct EXCEPT ![Starter] = NoAccount]
      /\ UNCHANGED <<canon, lazy, epochLock, fenced, asks, requests, batch, closed, cand, failed,
                     escaped>>
  BY <1>1 DEF SweepAdmit
<1>3. a \in Accounts /\ r \in Revs \cup {NoRev}
  BY <1>1, <1>2, <1>s DEF SchedulerInv, HasAccount, AskTypes, RevMap
<1>4. HoldTypes' /\ \A w \in Workers : acct'[w] = acct[w]
  BY <1>2, <1>s, TaskNames DEF HoldTypes
<1>5. /\ work' \in [Accounts -> Works]
      /\ \A b \in Accounts : b # a => work'[b] = work[b]
      /\ IF Known(a, r) THEN work' = work
         ELSE work'[a].req >= r /\ work'[a].req >= work[a].req
  BY <1>2, <1>3, ScheduleWork
<1>6. \A b \in Accounts : /\ requests[b] \in Revs \cup {NoRev} /\ owed[b] \in Revs \cup {NoRev}
                          /\ work[b] \in Works /\ work'[b] \in Works
  BY <1>5, <1>s DEF AskTypes, RevMap, SchedulerInv, Types, AdmissionTypes
<1>7. AskTypes' /\ OwedIsHeld'
  <2>1. CASE Known(a, r)
    BY <1>2, <1>5, <1>s, <2>1 DEF AskTypes, RevMap, OwedIsHeld
  <2>2. CASE ~Known(a, r)
    <3>1. PICK q \in Revs \cup {NoRev} : q = MaxOf(owed[a], r) /\ (q = owed[a] \/ q = r)
      BY <1>3, <1>6, MaxOfBounds
    <3>2. /\ owed' \in RevMap /\ owed'[a] = q
          /\ \A b \in Accounts : b # a => owed'[b] = owed[b]
      BY <1>2, <1>3, <1>s, <2>2, <3>1 DEF Owes, AskTypes, RevMap
    <3>3. AskTypes'
      BY <1>2, <1>s, <3>2 DEF AskTypes, RevMap
    <3>4. ASSUME NEW b \in Accounts
          PROVE  /\ batch'[b] <= requests'[b]
                 /\ owed'[b] <= requests'[b] \/ owed'[b] <= work'[b].req
      <4>1. /\ batch[b] <= requests[b] /\ batch' = batch /\ requests' = requests
            /\ owed[b] <= requests[b] \/ owed[b] <= work[b].req
        BY <1>2, <1>s DEF OwedIsHeld
      <4>2. CASE b # a
        BY <1>5, <3>2, <4>1, <4>2
      <4>3. CASE b = a
        <5>1. PICK p \in Int, o \in Int, v \in Int, u \in Int :
                 p = requests[a] /\ o = owed[a] /\ v = work[a].req /\ u = work'[a].req
          BY <1>3, <1>6, Numbers DEF Works
        <5>2. u >= r /\ u >= v /\ r \in Int /\ q \in Int
          BY <1>3, <1>5, <2>2, <5>1, Numbers
        <5> QED
          BY <3>1, <3>2, <4>1, <4>3, <5>1, <5>2
      <4> QED
        BY <4>2, <4>3
    <3> QED
      BY <3>3, <3>4 DEF OwedIsHeld
  <2> QED
    BY <2>1, <2>2
<1>8. "sweep" \in LabelsOf(Starter)
  BY TaskNames DEF LabelsOf, StarterLabels
<1> QED
  BY <1>2, <1>3, <1>4, <1>7, <1>8, ScheduleKeeps

\* A worker between two attempts: what it changes besides the admitted work.
LEMMA BetweenAttempts ==
    ASSUME SchedulerInv, NEW w \in Workers, NEW m \in {"off", "take", "storage"},
           pc[w] \in {"take", "settle"}, pc' = [pc EXCEPT ![w] = m],
           UNCHANGED <<canon, lazy, epochLock, fenced, asks, requests, batch, sweep, closed,
                       escaped>>,
           cand' \in [Workers -> Candidates], failed' \subseteq Workers,
           \A v \in Workers : v # w => cand'[v] = cand[v] /\ acct'[v] = acct[v],
           acct' \in [Workers \cup {Starter} -> Accounts \cup {NoAccount}],
           acct'[Starter] = acct[Starter], m = "storage" => acct'[w] \in Accounts,
           available' \in RevMap, FewHeld(available'), owed' \in RevMap,
           AdmissionTypes', HeldOnce', WorkIsAsked', OwedIsHeld'
    PROVE  SchedulerInv'
<1>n. w \in Tasks /\ w # Starter /\ w # Recovery /\ closed = FALSE
  BY Running, TaskNames
<1>1. /\ PcTypes' /\ pc'[w] = m /\ \A y \in Tasks : y # w => pc'[y] = pc[y]
  <2>1. m \in LabelsOf(w)
    BY <1>n DEF LabelsOf, WorkerLabels
  <2> QED
    BY <1>n, <2>1, Goes DEF SchedulerInv, Types
<1>u. /\ UNCHANGED <<faults, store, needs, notified, reported, moved, epoch, file, disk, backoff>>
      /\ UNCHANGED <<epochs, lock>>
  BY DEF lazy, disks, epochLock
<1>2. NoticeTypes' /\ DiskTypes' /\ EpochTypes' /\ RestTypes'
  BY <1>u DEF SchedulerInv, Types, NoticeTypes, DiskTypes, EpochTypes, RestTypes, FewHeld, Held
<1>3. AskTypes' /\ HoldTypes'
  BY DEF SchedulerInv, Types, AskTypes, HoldTypes
<1>4. HasAccount'
  <2>1. ASSUME NEW v \in Workers, Draining(v)' PROVE acct'[v] \in Accounts
    <3>1. CASE v = w
      BY <1>1, <2>1, <3>1 DEF Draining
    <3>2. CASE v # w
      BY <1>1, <2>1, <3>2, TaskNames DEF Draining, SchedulerInv, HasAccount
    <3> QED
      BY <3>1, <3>2
  <2>2. pc'[Starter] \in {"current", "missing"} => acct'[Starter] \in Accounts
    BY <1>1, <1>n, TaskNames DEF SchedulerInv, HasAccount
  <2> QED
    BY <2>1, <2>2 DEF HasAccount
<1>5. Stopped' /\ Holding'
  BY <1>n DEF Stopped, Holding
<1>6. OneOpens'
  BY <1>1, <1>u, OpensStay DEF SchedulerInv
<1>7. Carried'
  <2>1. \A v \in Workers : pc'[v] \in Carrying => pc[v] \in Carrying /\ cand'[v].epoch = cand[v].epoch
    BY <1>1, TaskNames DEF Carrying
  <2> QED
    BY <1>u, <2>1, CarriesStay DEF SchedulerInv
<1> QED
  BY <1>1, <1>2, <1>3, <1>4, <1>5, <1>6, <1>7 DEF SchedulerInv, Types

\* An attempt begins at the revision asked for.
LEMMA AttemptWork ==
    ASSUME SchedulerInv, NEW w \in Workers, NEW a \in Accounts, HasWork(a), Attempt(w, a)
    PROVE  /\ work' \in [Accounts -> Works]
           /\ \A b \in Accounts : work'[b].req = work[b].req /\ (HasWork(b)' <=> HasWork(b))
           /\ cand' \in [Workers -> Candidates] /\ failed' \subseteq Workers
           /\ \A v \in Workers : v # w => cand'[v] = cand[v]
           /\ pc' = [pc EXCEPT ![w] = "storage"]
           /\ WorkIsAsked'
<1>s. work \in [Accounts -> Works] /\ cand \in [Workers -> Candidates] /\ failed \subseteq Workers
  BY DEF SchedulerInv, Types, AdmissionTypes, HoldTypes
<1>1. work[a].req \in Revs \cup {NoRev} /\ work[a].req # NoRev
  BY <1>s DEF Works, SchedulerInv, WorkIsAsked
<1>2. PICK c : c = [work[a] EXCEPT !.att = work[a].req]
  OBVIOUS
<1>3. work' = [work EXCEPT ![a] = c]
  BY <1>2 DEF Attempt
<1>4. c \in Works /\ c.req = work[a].req
  BY <1>1, <1>2, <1>s DEF Works
<1>5. /\ work' \in [Accounts -> Works] /\ work'[a] = c
      /\ \A b \in Accounts : b # a => work'[b] = work[b]
  BY <1>3, <1>4, <1>s
<1>6. HasWork(a)'
  BY <1>1, <1>4, <1>5 DEF HasWork, NoWork
<1>7. \A b \in Accounts : work'[b].req = work[b].req /\ (HasWork(b)' <=> HasWork(b))
  BY <1>4, <1>5, <1>6 DEF HasWork
<1>8. WorkIsAsked'
  BY <1>7 DEF SchedulerInv, WorkIsAsked
<1>9. /\ cand' \in [Workers -> Candidates] /\ failed' \subseteq Workers
      /\ \A v \in Workers : v # w => cand'[v] = cand[v]
  BY <1>s, CandidateTypes DEF Attempt
<1> QED
  BY <1>5, <1>7, <1>8, <1>9 DEF Attempt, Go

\* A worker takes the first account of the queue, or ends.
LEMMA TakeKeeps ==
    ASSUME SchedulerInv, NEW w \in Workers, Take(w)
    PROVE  SchedulerInv'
<1>1. /\ pc[w] = "take" /\ UNCHANGED storage /\ UNCHANGED asking /\ UNCHANGED failures
      /\ UNCHANGED <<canon, epochLock, fenced, closed, escaped>>
  BY DEF Take
<1>u. /\ UNCHANGED <<asks, requests, batch, sweep, owed>> /\ UNCHANGED lazy /\ available' = available
  BY <1>1 DEF asking, storage, noticing, disks, lazy
<1>n. w \in Tasks /\ w # Starter /\ closed = FALSE
  BY <1>1, Running, TaskNames
<1>s. /\ work \in [Accounts -> Works] /\ pending \in Seq(Accounts) /\ Len(pending) <= Capacity
      /\ failures \in RevMap /\ FewHeld(failures) /\ available \in RevMap /\ FewHeld(available)
      /\ cand \in [Workers -> Candidates] /\ failed \subseteq Workers /\ owed \in RevMap
      /\ acct \in [Workers \cup {Starter} -> Accounts \cup {NoAccount}]
  BY DEF SchedulerInv, Types, AdmissionTypes, NoticeTypes, HoldTypes, AskTypes
<1>h. HeldOnce /\ WorkIsAsked /\ OwedIsHeld
  BY <1>n DEF SchedulerInv, Holding
<1>f. /\ failures' \in RevMap /\ FewHeld(failures') /\ available' \in RevMap /\ FewHeld(available')
      /\ owed' \in RevMap
  BY <1>1, <1>s, <1>u
<1>2. CASE pending = <<>>
  <2>1. /\ pc' = [pc EXCEPT ![w] = "off"] /\ UNCHANGED <<work, pending, acct, cand, failed>>
    BY <1>2 DEF Take, Go, holding
  <2>2. AdmissionTypes' /\ WorkIsAsked' /\ OwedIsHeld'
    BY <1>1, <1>s, <1>u, <1>h, <2>1 DEF AdmissionTypes, WorkIsAsked, OwedIsHeld, HasWork, FewHeld, Held
  <2>3. pc'[w] = "off" /\ \A y \in Tasks : y # w => pc'[y] = pc[y]
    BY <1>n, <2>1 DEF SchedulerInv, Types, PcTypes
  <2>4. Holding'
    <3>1. \A v \in Workers : Draining(v)' <=> Draining(v)
      BY <1>1, <2>3, TaskNames DEF Draining
    <3> QED
      BY <1>1, <2>1, <3>1, HoldingStays DEF SchedulerInv, HasWork
  <2>5. HeldOnce'
    BY <1>1, <1>n, <2>4 DEF Holding
  <2> QED
    BY <1>1, <1>f, <1>n, <1>s, <1>u, <2>1, <2>2, <2>5, BetweenAttempts
<1>3. CASE pending # <<>>
  <2>1. PICK a : a = Head(pending)
    OBVIOUS
  <2>2. /\ pending' = Tail(pending) /\ acct' = [acct EXCEPT ![w] = a] /\ Attempt(w, a)
    BY <1>3, <2>1 DEF Take
  <2>3. /\ Len(pending) \in Nat /\ Len(pending) # 0 /\ a = pending[1] /\ a \in Accounts
        /\ pending' \in Seq(Accounts) /\ Len(pending') = Len(pending) - 1
        /\ \A i \in 1..Len(pending') : pending'[i] = pending[i + 1]
    BY <1>3, <1>s, <2>1, <2>2, HeadTailProperties, EmptySeq, LenProperties
  <2>4. /\ 1 \in 1..Len(pending) /\ \A i \in 1..Len(pending') : i + 1 \in 1..Len(pending)
        /\ \A i \in 1..Len(pending) : i = 1 \/ i - 1 \in 1..Len(pending')
    BY <2>3
  <2>5. Queued(a)
    BY <2>3, <2>4 DEF Queued
  <2>6. HasWork(a) /\ ~InHand(a) /\ a \notin escaped
    BY <1>h, <2>3, <2>5 DEF HeldOnce
  <2>7. /\ work' \in [Accounts -> Works]
        /\ \A b \in Accounts : work'[b].req = work[b].req /\ (HasWork(b)' <=> HasWork(b))
        /\ cand' \in [Workers -> Candidates] /\ failed' \subseteq Workers
        /\ \A v \in Workers : v # w => cand'[v] = cand[v]
        /\ pc' = [pc EXCEPT ![w] = "storage"]
        /\ WorkIsAsked'
    BY <2>2, <2>3, <2>6, AttemptWork
  <2>8. /\ acct' \in [Workers \cup {Starter} -> Accounts \cup {NoAccount}] /\ acct'[w] = a
        /\ acct'[Starter] = acct[Starter]
        /\ \A v \in Workers : v # w => acct'[v] = acct[v]
    BY <1>n, <1>s, <2>2, <2>3
  <2>9. pc'[w] = "storage" /\ \A y \in Tasks : y # w => pc'[y] = pc[y]
    BY <1>n, <2>7 DEF SchedulerInv, Types, PcTypes
  <2>10. ~Draining(w) /\ Draining(w)' /\ \A v \in Workers : v # w => (Draining(v)' <=> Draining(v))
    BY <1>1, <2>9, TaskNames DEF Draining
  <2>11. Len(pending') <= Capacity
    BY <1>s, <2>3, Numbers
  <2>12. AdmissionTypes'
    BY <1>f, <2>3, <2>7, <2>11 DEF AdmissionTypes, FewHeld, Held
  <2>13. OwedIsHeld'
    BY <1>h, <1>u, <2>7 DEF OwedIsHeld
  <2>14. HeldOnce'
    <3>1. \A i, j \in 1..Len(pending') : pending'[i] = pending'[j] => i = j
      <4> SUFFICES ASSUME NEW i \in 1..Len(pending'), NEW j \in 1..Len(pending'),
                          pending'[i] = pending'[j]
                   PROVE  i = j
        OBVIOUS
      <4>1. pending[i + 1] = pending[j + 1] /\ i + 1 \in 1..Len(pending) /\ j + 1 \in 1..Len(pending)
        BY <2>3, <2>4
      <4>2. i + 1 = j + 1
        BY <1>h, <4>1 DEF HeldOnce
      <4> QED
        BY <4>2
    <3>2. ~Queued(a)'
      <4>1. ASSUME NEW i \in 1..Len(pending'), pending'[i] = a PROVE FALSE
        <5>1. i + 1 = 1
          BY <1>h, <2>3, <2>4, <4>1 DEF HeldOnce
        <5> QED
          BY <5>1
      <4> QED
        BY <4>1 DEF Queued
    <3>3. ASSUME NEW b \in Accounts, b # a PROVE Queued(b)' <=> Queued(b)
      <4>1. ASSUME Queued(b) PROVE Queued(b)'
        <5>1. PICK i \in 1..Len(pending) : pending[i] = b
          BY <4>1 DEF Queued
        <5>2. i - 1 \in 1..Len(pending') /\ (i - 1) + 1 = i
          BY <2>3, <2>4, <3>3, <5>1
        <5>3. pending'[i - 1] = b
          BY <2>3, <5>1, <5>2
        <5> QED
          BY <5>2, <5>3 DEF Queued
      <4>2. ASSUME Queued(b)' PROVE Queued(b)
        BY <2>3, <2>4, <4>2 DEF Queued
      <4> QED
        BY <4>1, <4>2
    <3>4. \A b \in Accounts : InHand(b)' <=> (InHand(b) \/ b = a)
      BY <2>8, <2>10 DEF InHand
    <3>5. ASSUME NEW v \in Workers, NEW u \in Workers, Draining(v)', Draining(u)', acct'[v] = acct'[u]
          PROVE  v = u
      <4>1. ASSUME NEW t \in Workers, t # w, Draining(t)' PROVE acct'[t] # a
        BY <2>6, <2>8, <2>10, <4>1 DEF InHand
      <4>2. CASE v # w /\ u # w
        BY <1>h, <2>8, <2>10, <3>5, <4>2 DEF HeldOnce
      <4> QED
        BY <2>8, <3>5, <4>1, <4>2
    <3>6. ASSUME NEW b \in Accounts
          PROVE  /\ ~(Queued(b)' /\ InHand(b)')
                 /\ b \in escaped' => ~Queued(b)' /\ ~InHand(b)'
                 /\ HasWork(b)' <=> (Queued(b)' \/ InHand(b)' \/ b \in escaped')
      <4>1. HasWork(b)' <=> HasWork(b)
        BY <2>7
      <4>2. escaped' = escaped
        BY <1>1
      <4> QED
        BY <1>h, <2>5, <2>6, <3>2, <3>3, <3>4, <4>1, <4>2 DEF HeldOnce
    <3> QED
      BY <3>1, <3>5, <3>6 DEF HeldOnce
  <2> QED
    BY <1>1, <1>f, <1>n, <1>u, <2>3, <2>7, <2>8, <2>12, <2>13, <2>14, BetweenAttempts
<1> QED
  BY <1>2, <1>3

\* An attempt that settles what was asked for lets its account go.
LEMMA DoneKeeps ==
    ASSUME SchedulerInv, NEW w \in Workers, NEW a \in Accounts, a = acct[w], pc[w] = "settle",
           work' = [work EXCEPT ![a] = NoWork], Done(w), UNCHANGED pending,
           NEW q \in Revs \cup {NoRev}, Settled(a, q), q >= work[a].req,
           failures' \in RevMap, FewHeld(failures'), available' \in RevMap, FewHeld(available'),
           failed' \subseteq Workers,
           UNCHANGED <<canon, lazy, epochLock, fenced, asks, requests, batch, sweep, closed,
                       escaped>>
    PROVE  SchedulerInv'
<1>n. w \in Tasks /\ w # Starter /\ closed = FALSE
  BY Running, TaskNames
<1>s. /\ work \in [Accounts -> Works] /\ pending \in Seq(Accounts) /\ Len(pending) <= Capacity
      /\ cand \in [Workers -> Candidates] /\ owed \in RevMap /\ requests \in RevMap
      /\ acct \in [Workers \cup {Starter} -> Accounts \cup {NoAccount}]
  BY DEF SchedulerInv, Types, AdmissionTypes, HoldTypes, AskTypes
<1>h. HeldOnce /\ WorkIsAsked /\ OwedIsHeld
  BY <1>n DEF SchedulerInv, Holding
<1>1. NoWork \in Works /\ NoWork.req = NoRev
  BY DEF NoWork, Works
<1>2. /\ work' \in [Accounts -> Works] /\ work'[a] = NoWork
      /\ \A b \in Accounts : b # a => work'[b] = work[b]
  BY <1>1, <1>s
<1>3. /\ pc' = [pc EXCEPT ![w] = "take"] /\ cand' \in [Workers -> Candidates]
      /\ acct' = [acct EXCEPT ![w] = NoAccount]
      /\ \A v \in Workers : v # w => cand'[v] = cand[v]
  BY <1>s, CandidateTypes DEF Done, Dropped, Go
<1>4. /\ acct' \in [Workers \cup {Starter} -> Accounts \cup {NoAccount}]
      /\ acct'[Starter] = acct[Starter] /\ \A v \in Workers : v # w => acct'[v] = acct[v]
  BY <1>3, <1>n, <1>s
<1>5. AdmissionTypes'
  BY <1>2, <1>s DEF AdmissionTypes, FewHeld, Held
<1>6. WorkIsAsked'
  BY <1>2, <1>h DEF WorkIsAsked, HasWork
<1>7. owed' \in RevMap /\ OwedIsHeld'
  <2>1. owed' = [owed EXCEPT ![a] = IF owed[a] <= q THEN NoRev ELSE owed[a]]
    BY DEF Settled
  <2>2. owed' \in RevMap /\ \A b \in Accounts : b # a => owed'[b] = owed[b]
    BY <1>s, <2>1 DEF RevMap
  <2>3. /\ batch[a] <= requests[a]
        /\ owed[a] <= requests[a] \/ owed[a] <= work[a].req
    BY <1>h DEF OwedIsHeld
  <2>4. PICK p \in Int, o \in Int, v \in Int, k \in Int :
            /\ p = requests[a] /\ o = owed[a] /\ v = work[a].req /\ k = q /\ NoRev <= p
    BY <1>s, Numbers DEF RevMap, Works
  <2>5. owed'[a] = IF o <= k THEN NoRev ELSE o
    BY <1>s, <2>1, <2>4 DEF RevMap
  <2>6. owed'[a] <= requests'[a]
    BY <2>3, <2>4, <2>5
  <2> QED
    BY <1>2, <1>h, <2>2, <2>6 DEF OwedIsHeld
<1>8. pc'[w] = "take" /\ \A y \in Tasks : y # w => pc'[y] = pc[y]
  BY <1>3, <1>n DEF SchedulerInv, Types, PcTypes
<1>9. HeldOnce'
  <2>1. /\ Draining(w) /\ ~Draining(w)'
        /\ \A v \in Workers : v # w => (Draining(v)' <=> Draining(v)) /\ acct'[v] = acct[v]
    BY <1>4, <1>8, TaskNames DEF Draining
  <2>2. /\ \A b \in Accounts : InHand(b)' <=> InHand(b) /\ b # a
        /\ \A v, u \in Workers : Draining(v)' /\ Draining(u)' /\ acct'[v] = acct'[u] => v = u
    BY <1>h, <2>1, LetsGo
  <2>3. \A b \in Accounts : Queued(b)' <=> Queued(b)
    BY DEF Queued
  <2>4. InHand(a)
    BY <2>1 DEF InHand
  <2>5. ~HasWork(a)' /\ \A b \in Accounts : b # a => (HasWork(b)' <=> HasWork(b))
    BY <1>2 DEF HasWork
  <2>6. \A i, j \in 1..Len(pending') : pending'[i] = pending'[j] => i = j
    BY <1>h DEF HeldOnce
  <2> QED
    BY <1>h, <2>2, <2>3, <2>4, <2>5, <2>6 DEF HeldOnce
<1> QED
  BY <1>3, <1>4, <1>5, <1>6, <1>7, <1>9, BetweenAttempts

LEMMA SettleKeeps ==
    ASSUME SchedulerInv, NEW w \in Workers, Settle(w)
    PROVE  SchedulerInv'
<1>1. PICK a : a = acct[w]
  OBVIOUS
<1>2. /\ pc[w] = "settle" /\ UNCHANGED pending
      /\ UNCHANGED <<canon, lazy, epochLock, fenced, asks, requests, batch, sweep, closed,
                     escaped>>
  BY DEF Settle
<1>n. a \in Accounts /\ cand[w] \in Candidates /\ closed = FALSE /\ w \in Tasks /\ w # Starter
  BY <1>1, <1>2, AtHand, Running, TaskNames
<1>s. /\ work \in [Accounts -> Works] /\ pending \in Seq(Accounts) /\ Len(pending) <= Capacity
      /\ failures \in RevMap /\ FewHeld(failures) /\ available \in RevMap /\ FewHeld(available)
      /\ failed \subseteq Workers /\ owed \in RevMap
      /\ acct \in [Workers \cup {Starter} -> Accounts \cup {NoAccount}]
  BY DEF SchedulerInv, Types, AdmissionTypes, NoticeTypes, HoldTypes, AskTypes
<1>r. /\ work[a].req \in Revs \cup {NoRev} /\ work[a].att \in Revs \cup {NoRev}
      /\ cand[w].rev \in Revs \cup {NoRev}
  BY <1>n, <1>s DEF Works, Candidates
<1>3. CASE /\ cand[w].rev >= work[a].req
           /\ work' = [work EXCEPT ![a] = NoWork] /\ failures' = [failures EXCEPT ![a] = NoRev]
           /\ available' \in Recorded(available, a, cand[w].rev)
           /\ Settled(a, cand[w].rev) /\ Done(w) /\ UNCHANGED failed
  <2>1. PICK q \in Revs \cup {NoRev} : q = cand[w].rev
    BY <1>r
  <2>2. available' \in RevMap /\ FewHeld(available')
    BY <1>3, <1>n, <1>s, <2>1, RecordedFew
  <2>3. failures' \in RevMap /\ FewHeld(failures')
    BY <1>3, <1>n, <1>s, DroppedFew
  <2>4. Settled(a, q) /\ q >= work[a].req /\ failed' \subseteq Workers
    BY <1>3, <1>s, <2>1
  <2> QED
    BY <1>1, <1>2, <1>3, <1>n, <2>2, <2>3, <2>4, DoneKeeps
<1>4. CASE /\ ~(work[a].req > work[a].att)
           /\ work' = [work EXCEPT ![a] = NoWork]
           /\ failures' \in Recorded(failures, a, work[a].att)
           /\ Settled(a, work[a].att) /\ Done(w) /\ failed' = failed \ {w} /\ UNCHANGED available
  <2>1. PICK q \in Revs \cup {NoRev} : q = work[a].att
    BY <1>r
  <2>2. failures' \in RevMap /\ FewHeld(failures')
    BY <1>4, <1>n, <1>s, <2>1, RecordedFew
  <2>3. available' \in RevMap /\ FewHeld(available')
    BY <1>4, <1>s
  <2>4. q >= work[a].req
    <3>1. PICK k \in Int, v \in Int : k = work[a].att /\ v = work[a].req
      BY <1>r, Numbers
    <3>2. ~(v > k) /\ q = k
      BY <1>4, <2>1, <3>1
    <3> QED
      BY <3>1, <3>2
  <2>5. Settled(a, q) /\ failed' \subseteq Workers
    BY <1>4, <1>s, <2>1
  <2> QED
    BY <1>1, <1>2, <1>4, <1>n, <2>2, <2>3, <2>4, <2>5, DoneKeeps
<1>5. CASE Attempt(w, a) /\ UNCHANGED <<failures, available, owed, acct>>
  <2>1. HeldOnce /\ WorkIsAsked /\ OwedIsHeld
    BY <1>n DEF SchedulerInv, Holding
  <2>2. InHand(a)
    BY <1>1, <1>2 DEF InHand, Draining
  <2>3. HasWork(a)
    BY <1>n, <2>1, <2>2 DEF HeldOnce
  <2>4. /\ work' \in [Accounts -> Works]
        /\ \A b \in Accounts : work'[b].req = work[b].req /\ (HasWork(b)' <=> HasWork(b))
        /\ cand' \in [Workers -> Candidates] /\ failed' \subseteq Workers
        /\ \A v \in Workers : v # w => cand'[v] = cand[v]
        /\ pc' = [pc EXCEPT ![w] = "storage"]
        /\ WorkIsAsked'
    BY <1>5, <1>n, <2>3, AttemptWork
  <2>5. pc'[w] = "storage" /\ \A y \in Tasks : y # w => pc'[y] = pc[y]
    BY <1>n, <2>4 DEF SchedulerInv, Types, PcTypes
  <2>6. \A v \in Workers : (Draining(v)' <=> Draining(v)) /\ acct'[v] = acct[v]
    BY <1>2, <1>5, <2>5, TaskNames DEF Draining
  <2>7. HeldOnce'
    <3>1. Holding'
      BY <1>2, <2>4, <2>6, HoldingStays DEF SchedulerInv
    <3> QED
      BY <1>2, <1>n, <3>1 DEF Holding
  <2>8. AdmissionTypes' /\ OwedIsHeld'
    BY <1>2, <1>5, <1>s, <2>1, <2>4 DEF AdmissionTypes, OwedIsHeld, FewHeld, Held
  <2>9. /\ available' \in RevMap /\ FewHeld(available') /\ owed' \in RevMap
        /\ acct' \in [Workers \cup {Starter} -> Accounts \cup {NoAccount}] /\ acct'[w] \in Accounts
        /\ acct'[Starter] = acct[Starter]
        /\ \A v \in Workers : v # w => cand'[v] = cand[v] /\ acct'[v] = acct[v]
    BY <1>1, <1>5, <1>n, <1>s, <2>4
  <2> QED
    BY <1>2, <2>1, <2>4, <2>7, <2>8, <2>9, BetweenAttempts
<1> QED
  <2>1. LET published == cand[w].rev # NoRev /\ w \notin failed IN
        IF published /\ cand[w].rev >= work[a].req
        THEN /\ work' = [work EXCEPT ![a] = NoWork]
             /\ failures' = [failures EXCEPT ![a] = NoRev]
             /\ available' \in Recorded(available, a, cand[w].rev)
             /\ Settled(a, cand[w].rev)
             /\ Done(w)
             /\ UNCHANGED failed
        ELSE IF work[a].req > work[a].att
        THEN Attempt(w, a) /\ UNCHANGED <<failures, available, owed, acct>>
        ELSE /\ work' = [work EXCEPT ![a] = NoWork]
             /\ failures' \in Recorded(failures, a, work[a].att)
             /\ Settled(a, work[a].att)
             /\ Done(w)
             /\ failed' = failed \ {w}
             /\ UNCHANGED available
    BY <1>1 DEF Settle
  <2> QED
    BY <1>3, <1>4, <1>5, <2>1
-----------------------------------------------------------------------------
(***************************************************************************)
(* What callers do: a request, and close().                                *)
(***************************************************************************)
LEMMA RequestKeeps ==
    ASSUME SchedulerInv, NEW a \in Accounts, NEW r \in Revs, RequestRecovery(a, r)
    PROVE  SchedulerInv'
<1>1. /\ closed = FALSE /\ asks < MaxAsks /\ asks' = asks + 1
      /\ available' = [available EXCEPT ![a] = NoRev] /\ failures' = [failures EXCEPT ![a] = NoRev]
      /\ UNCHANGED <<canon, work, pending, batch, sweep, closed, acct, cand, failed, escaped>>
      /\ UNCHANGED <<faults, store, needs, notified, reported, moved, epoch, file, disk, backoff>>
      /\ UNCHANGED <<epochs, lock, fenced>>
  BY DEF RequestRecovery, lazy, disks, epochLock, holding, SchedulerInv, Types, RestTypes
<1>s. /\ RestTypes /\ NoticeTypes /\ DiskTypes /\ EpochTypes /\ AdmissionTypes /\ AskTypes
      /\ HoldTypes /\ PcTypes /\ OwedIsHeld
  BY DEF SchedulerInv, Types
<1>2. /\ available' \in RevMap /\ FewHeld(available') /\ failures' \in RevMap /\ FewHeld(failures')
  BY <1>1, <1>s, DroppedFew DEF NoticeTypes, AdmissionTypes
<1>3. RestTypes' /\ DiskTypes' /\ EpochTypes' /\ HoldTypes'
  BY <1>1, <1>s DEF RestTypes, DiskTypes, EpochTypes, HoldTypes
<1>4. NoticeTypes' /\ AdmissionTypes'
  BY <1>1, <1>2, <1>s DEF NoticeTypes, AdmissionTypes, FewHeld, Held
<1>5. \A b \in Accounts : /\ requests[b] \in Revs \cup {NoRev} /\ owed[b] \in Revs \cup {NoRev}
                          /\ work[b] \in Works /\ batch[b] \in Revs \cup {NoRev}
  BY <1>s DEF AskTypes, RevMap, AdmissionTypes
<1>6. PICK q \in Revs \cup {NoRev}, o \in Revs \cup {NoRev} :
          /\ q = MaxOf(requests[a], r) /\ q >= requests[a] /\ q >= r
          /\ o = MaxOf(owed[a], r) /\ (o = owed[a] \/ o = r)
  BY <1>5, MaxOfBounds
<1>7. /\ requests' \in RevMap /\ requests'[a] = q
      /\ \A b \in Accounts : b # a => requests'[b] = requests[b]
  BY <1>6, <1>s DEF RequestRecovery, AskTypes, RevMap
<1>8. /\ owed' \in RevMap /\ owed'[a] = o
      /\ \A b \in Accounts : b # a => owed'[b] = owed[b]
  BY <1>6, <1>s DEF RequestRecovery, Owes, AskTypes, RevMap
<1>9. AskTypes'
  <2>1. asks' \in 0..MaxAsks
    BY <1>1, <1>s, Numbers DEF AskTypes
  <2> QED
    BY <1>1, <1>7, <1>8, <1>s, <2>1 DEF AskTypes
<1>10. OwedIsHeld'
  <2>1. ASSUME NEW b \in Accounts
        PROVE  /\ batch'[b] <= requests'[b]
               /\ owed'[b] <= requests'[b] \/ owed'[b] <= work'[b].req
    <3>1. /\ batch[b] <= requests[b] /\ batch' = batch /\ work' = work
          /\ owed[b] <= requests[b] \/ owed[b] <= work[b].req
      BY <1>1, <1>s DEF OwedIsHeld
    <3>2. CASE b # a
      BY <1>7, <1>8, <3>1, <3>2
    <3>3. CASE b = a
      <4>1. PICK i \in Int, p \in Int, u \in Int, v \in Int, x \in Int, y \in Int :
              /\ i = batch[a] /\ p = requests[a] /\ u = owed[a] /\ v = work[a].req
              /\ x = q /\ y = o /\ r \in Int
        BY <1>5, <1>6, Numbers DEF Works
      <4>2. x >= p /\ x >= r /\ (y = u \/ y = r) /\ i <= p /\ (u <= p \/ u <= v)
        BY <1>6, <3>1, <3>3, <4>1
      <4>3. batch'[a] = i /\ requests'[a] = x /\ owed'[a] = y /\ work'[a].req = v
        BY <1>7, <1>8, <3>1, <4>1
      <4> QED
        BY <3>3, <4>1, <4>2, <4>3
    <3> QED
      BY <3>2, <3>3
  <2> QED
    BY <2>1 DEF OwedIsHeld
<1>11. /\ PcTypes'
       /\ \A y \in Tasks : pc'[y] = pc[y] \/ (y = Recovery /\ pc'[y] = "top")
  <2>1. CASE pc' = [pc EXCEPT ![Recovery] = "top"]
    <3>1. "top" \in LabelsOf(Recovery)
      BY DEF LabelsOf, RecoveryLabels
    <3> QED
      BY <1>s, <2>1, <3>1, Goes, TaskNames
  <2>2. CASE pc' = pc
    BY <1>s, <2>2 DEF PcTypes
  <2> QED
    BY <2>1, <2>2 DEF RequestRecovery, Go
<1>12. \A w \in Workers : (Draining(w)' <=> Draining(w)) /\ acct'[w] = acct[w]
  BY <1>1, <1>11, TaskNames DEF Draining
<1>13. HasAccount' /\ Stopped' /\ WorkIsAsked'
  <2>1. pc'[Starter] = pc[Starter] /\ acct'[Starter] = acct[Starter]
    BY <1>1, <1>11, TaskNames
  <2>2. HasAccount'
    BY <1>12, <2>1 DEF SchedulerInv, HasAccount
  <2> QED
    BY <1>1, <2>2 DEF SchedulerInv, Stopped, WorkIsAsked, HasWork
<1>14. Holding'
  BY <1>1, <1>12, HoldingStays DEF SchedulerInv, HasWork
<1>15. OneOpens'
  BY <1>1, <1>11, OpensStay DEF SchedulerInv
<1>16. Carried'
  BY <1>1, <1>11, CarriesStay, TaskNames DEF SchedulerInv, Carrying
<1> QED
  BY <1>3, <1>4, <1>9, <1>10, <1>11, <1>13, <1>14, <1>15, <1>16 DEF SchedulerInv, Types

\* close() takes everything back but a publication on its thread, whose epoch
\* it fences unless a storage failure made the scheduler forget it.
LEMMA CloseKeeps ==
    ASSUME SchedulerInv, Close
    PROVE  SchedulerInv'
<1>1. /\ closed = FALSE /\ closed' = TRUE
      /\ fenced' = (IF epoch = 0 THEN fenced ELSE fenced \cup {epoch}) /\ epoch' = 0
      /\ work' = [a \in Accounts |-> NoWork] /\ pending' = <<>>
      /\ failures' = NoRevs /\ available' = NoRevs /\ requests' = NoRevs
      /\ batch' = NoRevs /\ sweep' = NoRevs /\ owed' = NoRevs /\ asks' = MaxAsks
      /\ lock' = Nobody /\ failed' = {}
      /\ UNCHANGED <<canon, faults, store, needs, notified, reported, moved, file, disk, backoff,
                     epochs, escaped>>
  BY DEF Close, disks, SchedulerInv, Types, RestTypes
<1>p. /\ pc' = [x \in Tasks |-> IF x \in Detached THEN pc[x] ELSE "off"]
      /\ acct' = [x \in DOMAIN acct |-> IF x \in Detached THEN acct[x] ELSE NoAccount]
      /\ cand' = [w \in Workers |-> IF w \in Detached THEN cand[w] ELSE NoCand]
  BY DEF Close
<1>s. /\ RestTypes /\ NoticeTypes /\ DiskTypes /\ EpochTypes /\ AdmissionTypes /\ AskTypes
      /\ HoldTypes /\ PcTypes
  BY DEF SchedulerInv, Types
<1>2. RestTypes' /\ DiskTypes'
  BY <1>1, <1>s DEF RestTypes, DiskTypes
<1>3. NoticeTypes'
  BY <1>1, <1>s, NoneHeld DEF NoticeTypes, FewHeld, Held
<1>4. EpochTypes'
  BY <1>1, <1>s DEF EpochTypes
<1>5. AdmissionTypes' /\ WorkIsAsked'
  <2>1. NoWork \in Works
    BY DEF NoWork, Works
  <2>2. pending' \in Seq(Accounts) /\ Len(pending') = 0
    BY <1>1, EmptySeq
  <2>3. WorkIsAsked'
    BY <1>1 DEF WorkIsAsked, HasWork
  <2> QED
    BY <1>1, <2>1, <2>2, <2>3, NoneHeld, Numbers DEF AdmissionTypes, FewHeld, Held
<1>6. AskTypes'
  BY <1>1, NoneHeld, Numbers DEF AskTypes
<1>7. OwedIsHeld'
  BY <1>1, Numbers DEF OwedIsHeld, NoRevs
<1>8. Detached \subseteq Workers /\ \A x \in Detached : x \in Workers /\ pc[x] = "activating"
  BY DEF Detached
<1>9. PcTypes'
  <2>1. \A x \in Tasks : "off" \in LabelsOf(x)
    BY DEF LabelsOf, RecoveryLabels, StarterLabels, WorkerLabels
  <2>2. "off" \in Labels
    BY DEF Labels, StarterLabels
  <2> QED
    BY <1>p, <1>s, <2>1, <2>2 DEF PcTypes
<1>10. HoldTypes'
  BY <1>1, <1>p, <1>s, <1>8, CandidateTypes DEF HoldTypes
<1>11. \A x \in Tasks : pc'[x] # "off" => x \in Detached /\ pc'[x] = "activating"
  BY <1>p, <1>8
<1>12. Stopped' /\ OneOpens' /\ Holding'
  BY <1>1, <1>8, <1>11 DEF Stopped, OneOpens, Holding
<1>13. HasAccount'
  <2>1. ASSUME NEW w \in Workers, Draining(w)' PROVE acct'[w] \in Accounts
    <3>1. w \in Detached
      BY <1>11, <2>1, TaskNames DEF Draining
    <3>2. Draining(w) /\ acct[w] \in Accounts
      BY <1>8, <3>1 DEF Draining, SchedulerInv, HasAccount
    <3> QED
      BY <1>p, <1>s, <3>1, <3>2 DEF HoldTypes
  <2>2. pc'[Starter] = "off"
    BY <1>8, <1>p, TaskNames
  <2> QED
    BY <2>1, <2>2 DEF HasAccount
<1>14. Carried'
  <2> SUFFICES ASSUME ~reported, NEW w \in Workers, pc'[w] \in Carrying
               PROVE  cand'[w].epoch \in fenced'
    BY <1>1 DEF Carried
  <2>1. w \in Detached
    BY <1>11, TaskNames DEF Carrying
  <2>2. epoch # 0 /\ cand[w].epoch = epoch
    BY <1>1, <1>8, <2>1 DEF SchedulerInv, Carried, Carrying
  <2> QED
    BY <1>1, <1>p, <2>1, <2>2
<1> QED
  BY <1>2, <1>3, <1>4, <1>5, <1>6, <1>7, <1>9, <1>10, <1>12, <1>13, <1>14 DEF SchedulerInv, Types
-----------------------------------------------------------------------------
(***************************************************************************)
(* The theorems.                                                           *)
(***************************************************************************)
LEMMA InitHolds == Init => SchedulerInv
<1> SUFFICES ASSUME Init PROVE SchedulerInv
  OBVIOUS
<1>0. 0 \in Revs /\ 0 \in 0..MaxFaults /\ 0 \in 0..MaxAsks
  BY SchedulerAssumption DEF Revs
<1>1. RestTypes /\ DiskTypes /\ EpochTypes
  <2>1. canon = [a \in Accounts |-> 0] /\ closed = FALSE /\ escaped = {}
        /\ epochs = 0 /\ epoch = 0 /\ fenced = {} /\ lock = Nobody
    BY DEF Init
  <2>2. RestTypes
    BY <1>0, <2>1 DEF RestTypes
  <2>3. EpochTypes
    BY <2>1 DEF EpochTypes
  <2>4. file \in Files
    BY <1>0 DEF Init, Files
  <2> QED
    BY <2>2, <2>3, <2>4 DEF Init, DiskTypes
<1>2. NoticeTypes
  <2>1. available = NoRevs
    BY DEF Init, NoRevs
  <2> QED
    BY <1>0, <2>1, NoneHeld DEF Init, NoticeTypes
<1>3. AdmissionTypes
  <2>1. failures = NoRevs /\ NoWork \in Works
    BY DEF Init, NoRevs, NoWork, Works
  <2>2. pending \in Seq(Accounts) /\ Len(pending) = 0
    BY EmptySeq DEF Init
  <2>3. work \in [Accounts -> Works]
    BY <2>1 DEF Init
  <2> QED
    BY <2>1, <2>2, <2>3, NoneHeld, Numbers DEF AdmissionTypes
<1>4. AskTypes /\ OwedIsHeld
  <2>1. AskTypes
    BY <1>0 DEF Init, AskTypes, RevMap
  <2> QED
    BY <2>1, Numbers DEF Init, OwedIsHeld
<1>5. HoldTypes
  BY CandidateTypes DEF Init, HoldTypes
<1>6. \A x \in Tasks : pc[x] = IF x = Starter THEN "storage" ELSE "off"
  BY DEF Init
<1>7. PcTypes
  BY <1>6 DEF Init, PcTypes, Labels, LabelsOf, StarterLabels, RecoveryLabels, WorkerLabels
<1>8. HasAccount /\ Stopped
  BY <1>6, TaskNames DEF Init, HasAccount, Stopped, Draining
<1>9. WorkIsAsked /\ \A a \in Accounts : ~HasWork(a)
  BY DEF Init, WorkIsAsked, HasWork
<1>10. Holding
  <2>1. Len(pending) = 0
    BY EmptySeq DEF Init
  <2>2. \A a \in Accounts : ~Queued(a)
    BY <2>1 DEF Queued
  <2>3. \A w \in Workers : ~Draining(w)
    BY <1>6, TaskNames DEF Draining
  <2>4. \A i, j \in 1..Len(pending) : pending[i] = pending[j] => i = j
    BY <2>1
  <2> QED
    BY <1>9, <2>2, <2>3, <2>4 DEF Init, Holding, HeldOnce, InHand
<1>11. OneOpens /\ Carried
  BY <1>6, TaskNames DEF OneOpens, Carried, Carrying
<1> QED
  BY <1>1, <1>2, <1>3, <1>4, <1>5, <1>7, <1>8, <1>9, <1>10, <1>11 DEF SchedulerInv, Types

LEMMA StutterKeeps ==
    ASSUME SchedulerInv, UNCHANGED vars
    PROVE  SchedulerInv'
<1>1. /\ UNCHANGED <<epochLock, fenced, admission, asking, closed, pc, holding, escaped>>
      /\ UNCHANGED <<canon, noticing, disks>>
  BY DEF vars, epochLock, admission, asking, holding, noticing, disks
<1>2. RestTypes' /\ NoticeTypes' /\ DiskTypes' /\ epoch' = epoch /\ reported' = reported
  BY <1>1 DEF SchedulerInv, Types, RestTypes, NoticeTypes, DiskTypes, noticing, disks,
              FewHeld, Held
<1> QED
  BY <1>1, <1>2, OutsideKeeps

LEMMA NextKeeps == SchedulerInv /\ [Next]_vars => SchedulerInv'
<1> SUFFICES ASSUME SchedulerInv, [Next]_vars PROVE SchedulerInv'
  OBVIOUS
<1>1. CASE Recover
  BY <1>1, SharedKeeps, RecoveryMoves, RecoveryAdmitKeeps, TaskNames DEF Recover
<1>2. CASE Start
  BY <1>2, SharedKeeps, SweepMoves, SweepAdmitKeeps, TaskNames DEF Start
<1>3. ASSUME NEW w \in Workers, Drain(w) PROVE SchedulerInv'
  <2>1. CASE Shared(w)
    BY <2>1, SharedKeeps, TaskNames
  <2>2. CASE Take(w) \/ Settle(w)
    BY <2>2, TakeKeeps, SettleKeeps
  <2>3. CASE BuildRead(w) \/ BuildStage(w)
    BY <2>3, BuildKeeps
  <2>4. CASE Eligible(w) \/ Enter(w) \/ Activate(w)
    BY <2>4, EnterKeeps, ActivateKeeps
  <2>5. CASE Discard(w)
    BY <2>5, DiscardCases, DiscardedKeeps, EscapeKeeps
  <2> QED
    BY <1>3, <2>1, <2>2, <2>3, <2>4, <2>5 DEF Drain
<1>4. CASE Request
  BY <1>4, RequestKeeps DEF Request
<1>5. CASE Close
  BY <1>5, CloseKeeps
<1>6. CASE Damage \/ BackoffEnds \/ CloseStorage \/ \E a \in Accounts : Commit(a) \/ Read(a)
  BY <1>6, EnvironmentKeeps
<1>7. CASE \E x \in Tasks : Refused(x)
  BY <1>7, RefusedKeeps
<1>8. CASE UNCHANGED vars
  BY <1>8, StutterKeeps
<1> QED
  BY <1>1, <1>2, <1>3, <1>4, <1>5, <1>6, <1>7, <1>8 DEF Next

\* The inductive invariant of the scheduler: work is in one place, what is
\* owed is held, one task opens an epoch, and a candidate carries the
\* scheduler's own epoch, or a fenced one after close(), until a storage
\* failure is reported.
THEOREM SchedulerInductive == Spec => []SchedulerInv
  BY InitHolds, NextKeeps, PTL DEF Spec

\* The queue and the hands as counted by the run.
LEMMA InvGivesHeld == SchedulerInv => WorkIsHeld
<1> SUFFICES ASSUME SchedulerInv, ~closed, NEW a \in Accounts,
                    NEW H, H = {w \in Workers : Draining(w) /\ acct[w] = a}
             PROVE  /\ Cardinality(InQueue(a)) + Cardinality(H) <= 1
                    /\ HasWork(a) <=> (InQueue(a) # {} \/ H # {} \/ a \in escaped)
  BY DEF WorkIsHeld
<1>1. HeldOnce /\ DOMAIN pending = 1..Len(pending)
  BY LenProperties DEF SchedulerInv, Holding, Types, AdmissionTypes
<1>2. \A i, j \in InQueue(a) : i = j
  BY <1>1 DEF InQueue, HeldOnce
<1>3. \A w, v \in H : w = v
  BY <1>1 DEF HeldOnce
<1>4. (InQueue(a) # {} <=> Queued(a)) /\ (H # {} <=> InHand(a))
  BY <1>1 DEF InQueue, Queued, InHand
<1>5. Cardinality(InQueue(a)) = IF InQueue(a) = {} THEN 0 ELSE 1
  BY <1>2, AtMostOne
<1>6. Cardinality(H) = IF H = {} THEN 0 ELSE 1
  BY <1>3, AtMostOne
<1>7. ~(InQueue(a) # {} /\ H # {})
  BY <1>1, <1>4 DEF HeldOnce
<1>8. HasWork(a) <=> (InQueue(a) # {} \/ H # {} \/ a \in escaped)
  BY <1>1, <1>4 DEF HeldOnce
<1>9. Cardinality(InQueue(a)) + Cardinality(H) <= 1
  BY <1>5, <1>6, <1>7
<1> QED
  BY <1>8, <1>9

LEMMA InvGivesOwed == SchedulerInv => NoRequestForgotten
<1> SUFFICES ASSUME SchedulerInv, NEW a \in Accounts
             PROVE  MaxOf(MaxOf(requests[a], batch[a]), work[a].req) >= owed[a]
  BY DEF NoRequestForgotten
<1>1. work[a] \in Works
  BY DEF SchedulerInv, Types, AdmissionTypes
<1>2. PICK p \in Revs \cup {NoRev}, b \in Revs \cup {NoRev}, v \in Revs \cup {NoRev},
           o \in Revs \cup {NoRev} :
        p = requests[a] /\ b = batch[a] /\ v = work[a].req /\ o = owed[a]
  BY <1>1 DEF SchedulerInv, Types, AskTypes, RevMap, Works
<1>3. o <= p \/ o <= v
  BY <1>2 DEF SchedulerInv, OwedIsHeld
<1>4. PICK m \in Revs \cup {NoRev} : m = MaxOf(p, b) /\ m >= p
  BY MaxOfBounds
<1>5. MaxOf(m, v) >= m /\ MaxOf(m, v) >= v /\ MaxOf(m, v) \in Revs \cup {NoRev}
  BY MaxOfBounds
<1>6. PICK n \in Int : n = MaxOf(m, v)
  BY <1>5, Numbers
<1>7. n >= o
  BY <1>3, <1>4, <1>5, <1>6, Numbers
<1> QED
  BY <1>2, <1>4, <1>6, <1>7

LEMMA InvGivesTypes == SchedulerInv => SchedulerTypeOK
<1> SUFFICES ASSUME SchedulerInv PROVE SchedulerTypeOK
  OBVIOUS
<1>1. /\ RestTypes /\ NoticeTypes /\ DiskTypes /\ EpochTypes /\ AdmissionTypes /\ AskTypes
      /\ HoldTypes /\ PcTypes
  BY DEF SchedulerInv, Types
<1>2. /\ canon \in [Accounts -> Revs] /\ closed \in BOOLEAN /\ escaped \subseteq Accounts
      /\ file \in Files /\ disk \in {"good", "gone"} /\ backoff \in BOOLEAN
  BY <1>1 DEF RestTypes, DiskTypes
<1>3. /\ faults \in 0..MaxFaults /\ store \in {"none", "open", "closed"} /\ needs \in BOOLEAN
      /\ notified \in BOOLEAN /\ reported \in BOOLEAN /\ moved \in BOOLEAN
      /\ available \in RevMap /\ FewHeld(available)
  BY <1>1 DEF NoticeTypes
<1>4. /\ epochs \in Nat /\ epoch \in 0..epochs /\ fenced \subseteq 1..epochs
      /\ lock \in Tasks \cup {Nobody}
  BY <1>1 DEF EpochTypes
<1>5. /\ work \in [Accounts -> Works] /\ pending \in Seq(Accounts) /\ Len(pending) <= Capacity
      /\ failures \in RevMap /\ FewHeld(failures)
  BY <1>1 DEF AdmissionTypes
<1>6. /\ asks \in 0..MaxAsks /\ requests \in RevMap /\ batch \in RevMap /\ sweep \in RevMap
      /\ owed \in RevMap
  BY <1>1 DEF AskTypes
<1>7. {failures, available, requests, batch, sweep, owed} \subseteq [Accounts -> Revs \cup {NoRev}]
  BY <1>3, <1>5, <1>6 DEF RevMap
<1>8. /\ acct \in [Workers \cup {Starter} -> Accounts \cup {NoAccount}]
      /\ cand \in [Workers -> Candidates] /\ failed \subseteq Workers
  BY <1>1 DEF HoldTypes
<1>9. /\ Cardinality({a \in Accounts : failures[a] # NoRev}) <= Retained
      /\ Cardinality({a \in Accounts : available[a] # NoRev}) <= Retained
  BY <1>3, <1>5 DEF FewHeld, Held
<1>10. pc \in [Tasks -> {"off", "storage", "epoch", "opening", "opened", "top",
                         "admit", "list", "sweep", "current", "missing", "take",
                         "build", "staging", "eligible", "enter", "activating",
                         "discard", "settle"}]
  <2>1. Labels \subseteq {"off", "storage", "epoch", "opening", "opened", "top",
                          "admit", "list", "sweep", "current", "missing", "take",
                          "build", "staging", "eligible", "enter", "activating",
                          "discard", "settle"}
    BY DEF Labels, StarterLabels, RecoveryLabels, WorkerLabels
  <2> QED
    BY <1>1, <2>1 DEF PcTypes
<1> QED
  BY <1>2, <1>3, <1>4, <1>5, <1>6, <1>7, <1>8, <1>9, <1>10
     DEF SchedulerTypeOK, Files, FileRows, Works, Candidates

\* Requests and work are held as told, whatever the numbers of accounts,
\* workers, requests and faults and the capacities of the queues: admitted
\* work is in the queue once or in one worker's hands, a revision asked for is
\* covered until its attempt ended, and no queue outgrows its limit.
THEOREM RequestsHeld == Spec => []RequestsAreHeld
<1>1. SchedulerInv => RequestsAreHeld
  BY InvGivesHeld, InvGivesOwed, InvGivesTypes DEF RequestsAreHeld
<1> QED
  BY <1>1, SchedulerInductive, PTL

LEMMA ClosedStill ==
    ASSUME SchedulerInv, closed, ~reported, Next
    PROVE  file'.active = file.active
<1>1. \A x \in Tasks : pc[x] \in {"off", "activating"}
  BY Running
<1>2. ASSUME NEW x \in Tasks, Shared(x) PROVE FALSE
  BY <1>1, <1>2 DEF Shared, EnsureReady, EpochCheck, EpochOpen, EpochTake
<1>3. ~Recover /\ ~Start
  BY <1>1, <1>2, TaskNames DEF Recover, Start, RecoveryTop, RecoveryAgain, RecoveryAdmit,
     SweepList, SweepCurrent, SweepAdmit, SweepEnds, SweepCheck
<1>4. ~Close /\ ~Request /\ \A a \in Accounts : ~Read(a)
  BY DEF Close, Request, RequestRecovery, Read
<1>5. CASE \/ Damage \/ BackoffEnds \/ CloseStorage \/ \E a \in Accounts : Commit(a)
           \/ \E x \in Tasks : Refused(x)
  BY <1>5 DEF Damage, BackoffEnds, CloseStorage, Commit, Refused, storage, disks
<1>6. ASSUME NEW w \in Workers, Activate(w) PROVE file'.active = file.active
  <2>1. /\ pc[w] = "activating" /\ w \in Tasks
        /\ \/ file' = file
           \/ MayPublish(w) /\ file' = [file EXCEPT !.active[acct[w]] = cand[w].rev,
                                                    !.rows = @ \ {Row(w)}]
    BY <1>6, TaskNames DEF Activate
  <2>2. cand[w].epoch \in fenced
    BY <2>1 DEF SchedulerInv, Carried, Carrying
  <2>3. file \in Files
    BY DEF SchedulerInv, Types, DiskTypes
  <2>4. ASSUME MayPublish(w)
        PROVE  [file EXCEPT !.active[acct[w]] = cand[w].rev,
                            !.rows = @ \ {Row(w)}].active = file.active
    <3>1. file.active[acct[w]] = cand[w].rev
      BY <2>2, <2>4 DEF MayPublish, Current
    <3>2. [file.active EXCEPT ![acct[w]] = cand[w].rev] = file.active
      BY <2>3, <3>1 DEF Files
    <3> QED
      BY <2>3, <3>2 DEF Files
  <2> QED
    BY <2>1, <2>4
<1>7. ASSUME NEW w \in Workers, Drain(w), ~Activate(w) PROVE FALSE
  BY <1>1, <1>2, <1>7, TaskNames DEF Drain, Take, BuildRead, BuildStage, Eligible, Enter,
     Discard, Settle
<1> QED
  BY <1>3, <1>4, <1>5, <1>6, <1>7 DEF Next

\* After close() a detached publication changes nothing that is read, for any
\* number of workers and publications, unless a storage failure was reported.
THEOREM NothingPublishedClosed == Spec => ClosedPublishesNothing
<1>1. SchedulerInv /\ [Next]_vars => [closed /\ ~reported => file'.active = file.active]_vars
  BY ClosedStill
<1> QED
  BY <1>1, SchedulerInductive, PTL DEF Spec, ClosedPublishesNothing
=============================================================================
