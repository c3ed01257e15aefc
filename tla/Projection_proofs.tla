--------------------------- MODULE Projection_proofs ---------------------------
(***************************************************************************)
(* Proofs about the read model, for every set of conversations and every   *)
(* number of revisions, restarts, failures and losses of the file.         *)
(***************************************************************************)
EXTENDS Projection, TLAPS

Kinds == {"entity", "coverage", "reseed"}
Items == [kind : Kinds, convs : SUBSET Convs]
SlotRecords == [gen : Nat, projected : Nat, read : Nat, rows : Rows]
Workers == [phase : {"idle", "start", "build", "built", "done", "none"},
            target : Nat, slot : 0..1]

SlotTypes ==
    /\ history \in Seq(Rows) /\ work \in Seq(Items) /\ Len(work) = Len(history)
    /\ view \in Nat /\ gens \in Nat
    /\ slots \in [0..1 -> SlotRecords]
    /\ worker \in Workers

SlotsAreBehind == \A i \in 0..1 : slots[i].projected <= Len(history)

\* What the task is about to build is a committed revision, behind which is
\* every slot.
TargetIsAhead ==
    worker.phase = "build" =>
        /\ worker.target \in 1..Len(history)
        /\ \A i \in 0..1 : slots[i].projected <= worker.target

NoReseed(p, t) == \A r \in p+1..t : work[r].kind # "reseed"
NoRebuild(p, t, c) == \A r \in p+1..t : ~Rebuilds(r, c)
Untouched(p, t, c) == \A r \in p+1..t : c \notin work[r].convs

\* The work between two revisions names every conversation that changed.
WorkIsComplete ==
    \A p, t \in 0..Len(history) : \A c \in Convs :
        p <= t /\ NoReseed(p, t) =>
            /\ NoRebuild(p, t, c) => Canonical(t)[c].ent = Canonical(p)[c].ent
            /\ Untouched(p, t, c) => Canonical(t)[c] = Canonical(p)[c]

SlotInv ==
    /\ SlotTypes
    /\ SlotsAreBehind
    /\ TargetIsAhead
    /\ WorkIsComplete
    /\ SlotsAreExact

-----------------------------------------------------------------------------
\* The canonical rows of a revision are rows.
LEMMA CanonicalIsRows ==
    ASSUME SlotTypes, NEW t \in 0..Len(history)
    PROVE  Canonical(t) \in Rows
<1>1. NoRows \in Rows
  BY DEF NoRows, Rows
<1>2. t # 0 => history[t] \in Rows
  BY DEF SlotTypes
<1> QED
  BY <1>1, <1>2 DEF Canonical

\* SlotInv holds of the empty database.
LEMMA SlotInvInit == ProjectionInit => SlotInv
<1> SUFFICES ASSUME ProjectionInit PROVE SlotInv
  OBVIOUS
<1> USE DEF ProjectionInit
<1>1. NoRows \in Rows
  BY DEF NoRows, Rows
<1>2. SlotTypes
  <2>1. NoSlot \in SlotRecords
    BY <1>1 DEF NoSlot, SlotRecords
  <2>2. slots \in [0..1 -> SlotRecords]
    BY <2>1
  <2>3. worker \in Workers
    BY DEF Idle, Workers
  <2>4. history \in Seq(Rows) /\ work \in Seq(Items) /\ Len(work) = Len(history)
    OBVIOUS
  <2> QED
    BY <2>2, <2>3, <2>4 DEF SlotTypes
<1>3. SlotsAreBehind /\ TargetIsAhead /\ SlotsAreExact
  BY DEF SlotsAreBehind, TargetIsAhead, SlotsAreExact, NoSlot, Idle
<1>4. WorkIsComplete
  <2>1. Len(history) = 0
    OBVIOUS
  <2>2. \A p, t \in 0..0 : p = t
    OBVIOUS
  <2> QED
    BY <2>1, <2>2 DEF WorkIsComplete
<1> QED
  BY <1>2, <1>3, <1>4 DEF SlotInv

-----------------------------------------------------------------------------
(***************************************************************************)
(* A step that appends no revision and builds no slot.                     *)
(***************************************************************************)
LEMMA QuietStep ==
    ASSUME SlotInv, UNCHANGED <<history, work, slots, gens>>,
           view' \in Nat, worker' \in Workers,
           TargetIsAhead'
    PROVE  SlotInv'
<1>1. SlotTypes'
  BY DEF SlotInv, SlotTypes
<1>2. SlotsAreBehind'
  BY DEF SlotInv, SlotsAreBehind
<1>3. WorkIsComplete'
  BY DEF SlotInv, WorkIsComplete, NoReseed, NoRebuild, Untouched, Rebuilds, Canonical
<1>4. SlotsAreExact'
  BY DEF SlotInv, SlotsAreExact, Canonical
<1> QED
  BY <1>1, <1>2, <1>3, <1>4 DEF SlotInv

\* A commit appends a revision whose work item names what it changed, so the
\* work between any earlier revision and the new one is complete too.
LEMMA CommitStep ==
    ASSUME SlotInv, NEW kind \in Kinds, NEW convs \in SUBSET Convs, NEW cs \in SUBSET Convs,
           kind = "reseed" \/ cs = convs,
           Commit(kind, convs, cs)
    PROVE  SlotInv'
<1>t. SlotTypes /\ Len(history) \in Nat
  BY DEF SlotInv, SlotTypes
<1>n. PICK n \in Nat : n = Len(history)
  BY <1>t
<1> DEFINE item == [kind |-> kind, convs |-> convs]
           new == Written(Canonical(n), cs, kind # "coverage", kind # "entity")
<1>0. Canonical(n) \in Rows
  BY <1>t, <1>n, CanonicalIsRows
<1>1. /\ new \in Rows
      /\ \A c \in Convs : kind = "coverage" => new[c].ent = Canonical(n)[c].ent
      /\ \A c \in Convs : c \notin cs => new[c] = Canonical(n)[c]
  <2>1. Revision + 1 \in Nat
    BY <1>n DEF Revision
  <2>2. Canonical(n) \in [Convs -> [ent : Nat, cov : Nat]]
    BY <1>0 DEF Rows
  <2> QED
    BY <2>1, <2>2 DEF Written, Rows
<1>2. history' = Append(history, new) /\ work' = Append(work, item)
  BY <1>n DEF Commit, Revision
<1> HIDE DEF new
<1>3. UNCHANGED <<view, slots, gens, worker>>
  BY DEF Commit, projectionVars, taskVars
<1>4. item \in Items
  BY DEF Items
<1> HIDE DEF item
<1>5. /\ Len(history') = n + 1 /\ Len(work') = n + 1
      /\ history' \in Seq(Rows) /\ work' \in Seq(Items)
      /\ \A r \in 1..n : history'[r] = history[r] /\ work'[r] = work[r]
      /\ history'[n + 1] = new /\ work'[n + 1] = item
  BY <1>t, <1>n, <1>1, <1>2, <1>4 DEF SlotTypes
<1>6. Canonical(n + 1)' = new /\ \A t \in 0..n : Canonical(t)' = Canonical(t)
  BY <1>t, <1>5 DEF Canonical
<1>7. SlotTypes'
  BY <1>t, <1>3, <1>5 DEF SlotTypes
<1>8. SlotsAreBehind' /\ TargetIsAhead'
  BY <1>t, <1>n, <1>3, <1>5 DEF SlotInv, SlotsAreBehind, TargetIsAhead, SlotTypes, SlotRecords, Workers
<1>9. SlotsAreExact'
  <2> SUFFICES ASSUME NEW i \in 0..1, slots[i].gen # 0
               PROVE  (slots[i].rows = Canonical(slots[i].projected))'
    BY <1>3 DEF SlotsAreExact
  <2>1. slots[i].projected \in 0..n
    BY <1>t, <1>n DEF SlotInv, SlotsAreBehind, SlotTypes, SlotRecords
  <2> QED
    BY <2>1, <1>3, <1>6 DEF SlotInv, SlotsAreExact
<1>10. WorkIsComplete'
  <2> SUFFICES ASSUME NEW p \in 0..n + 1, NEW t \in 0..n + 1, NEW c \in Convs,
                      p <= t, NoReseed(p, t)'
               PROVE  /\ NoRebuild(p, t, c)' => (Canonical(t)')[c].ent = (Canonical(p)')[c].ent
                      /\ Untouched(p, t, c)' => (Canonical(t)')[c] = (Canonical(p)')[c]
    BY <1>5 DEF WorkIsComplete
  <2> DEFINE s == IF t = n + 1 THEN n ELSE t
  <2>1. CASE p = n + 1
    BY <2>1, <1>t
  <2>2. CASE p \in 0..n
    <3>1. s \in 0..n /\ p <= s /\ s <= t
      BY <2>2, <1>t
    <3>2. \A r \in p+1..s : r \in p+1..t /\ r \in 1..n
      BY <2>2, <3>1, <1>t
    <3>3. /\ NoReseed(p, s)
          /\ NoRebuild(p, t, c)' => NoRebuild(p, s, c)
          /\ Untouched(p, t, c)' => Untouched(p, s, c)
      BY <3>2, <1>5 DEF NoReseed, NoRebuild, Untouched, Rebuilds
    <3>4. /\ NoRebuild(p, s, c) => Canonical(s)[c].ent = Canonical(p)[c].ent
          /\ Untouched(p, s, c) => Canonical(s)[c] = Canonical(p)[c]
      BY <2>2, <3>1, <3>3, <1>n DEF SlotInv, WorkIsComplete
    <3>5. Canonical(p)' = Canonical(p)
      BY <2>2, <1>6
    <3>6. CASE t # n + 1
      BY <3>3, <3>4, <3>5, <3>6, <1>6
    <3>7. CASE t = n + 1
      <4>1. n + 1 \in p+1..t /\ s = n
        BY <3>7, <2>2, <1>t
      <4>2. kind # "reseed"
        BY <4>1, <1>5 DEF NoReseed, item
      <4>3. cs = convs
        BY <4>2
      <4>4. NoRebuild(p, t, c)' => kind = "coverage" \/ c \notin cs
        BY <4>1, <4>2, <4>3, <1>5 DEF NoRebuild, Rebuilds, item, Kinds
      <4>5. Untouched(p, t, c)' => c \notin cs
        BY <4>1, <4>3, <1>5 DEF Untouched, item
      <4> QED
        BY <4>1, <4>4, <4>5, <3>3, <3>4, <3>5, <3>7, <1>1, <1>6
    <3> QED
      BY <3>6, <3>7
  <2> QED
    BY <2>1, <2>2, <1>t
<1> QED
  BY <1>7, <1>8, <1>9, <1>10 DEF SlotInv

-----------------------------------------------------------------------------
(***************************************************************************)
(* The slot that is built.                                                 *)
(***************************************************************************)
\* The active generation is in one of the two slots.
LEMMA ActiveIsSlots == Active \subseteq 0..1
  BY DEF Active, Readable

\* Whether it is the slot's own rows or a clone, a build starts from one slot.
LEMMA BaseIsASlot ==
    ASSUME NEW i \in 0..1
    PROVE  \E j \in 0..1 : Base(i) = slots[j]
<1>1. CASE slots[i].gen = 0 /\ Active # {}
  <2>1. (CHOOSE a \in Active : TRUE) \in Active
    BY <1>1
  <2> QED
    BY <1>1, <2>1, ActiveIsSlots DEF Base
<1>2. CASE ~(slots[i].gen = 0 /\ Active # {})
  BY <1>2 DEF Base
<1> QED
  BY <1>1, <1>2

\* Replaying the work since the revision of an exact slot gives the canonical
\* rows of the target.
LEMMA ReplayIsExact ==
    ASSUME SlotInv, NEW i \in 0..1, NEW t \in 1..Len(history),
           \A j \in 0..1 : slots[j].projected <= t
    PROVE  Projected(i, t) = Canonical(t)
<1>1. PICK j \in 0..1 : Base(i) = slots[j]
  BY BaseIsASlot
<1> DEFINE p == slots[j].projected
           old == slots[j].rows
           new == Canonical(t)
<1>t. SlotTypes /\ Len(history) \in Nat /\ t \in 0..Len(history)
  BY DEF SlotInv, SlotTypes
<1>2. p \in 0..Len(history) /\ p <= t
  BY <1>t DEF SlotInv, SlotTypes, SlotRecords, SlotsAreBehind
<1>3. new \in Rows
  BY <1>t, CanonicalIsRows
<1>4. CASE FullReseed(i, t)
  BY <1>4 DEF Projected
<1>5. CASE ~FullReseed(i, t)
  <2>1. NoReseed(p, t) /\ slots[j].gen # 0
    BY <1>1, <1>5 DEF FullReseed, Replayed, NoReseed
  <2>2. old = Canonical(p)
    BY <2>1 DEF SlotInv, SlotsAreExact
  <2>3. old \in Rows
    BY <2>2, <1>2, <1>t, CanonicalIsRows
  <2>4. Projected(i, t) =
          [c \in Convs |->
             IF \E r \in p+1..t : Rebuilds(r, c) THEN new[c]
             ELSE IF \E r \in p+1..t : c \in work[r].convs THEN [old[c] EXCEPT !.cov = new[c].cov]
             ELSE old[c]]
    BY <1>1, <1>5 DEF Projected, Replayed
  <2>5. \A c \in Convs : Projected(i, t)[c] = new[c]
    <3> SUFFICES ASSUME NEW c \in Convs PROVE Projected(i, t)[c] = new[c]
      OBVIOUS
    <3>1. /\ NoRebuild(p, t, c) => new[c].ent = old[c].ent
          /\ Untouched(p, t, c) => new[c] = old[c]
      BY <1>2, <1>t, <2>1, <2>2 DEF SlotInv, WorkIsComplete
    <3>2. new[c] \in [ent : Nat, cov : Nat] /\ old[c] \in [ent : Nat, cov : Nat]
      BY <1>3, <2>3 DEF Rows
    <3> HIDE DEF new, old
    <3>3. CASE \E r \in p+1..t : Rebuilds(r, c)
      BY <3>3, <2>4
    <3>4. CASE ~(\E r \in p+1..t : Rebuilds(r, c)) /\ \E r \in p+1..t : c \in work[r].convs
      <4>1. new[c].ent = old[c].ent
        BY <3>1, <3>4 DEF NoRebuild
      <4>2. [old[c] EXCEPT !.cov = new[c].cov] = new[c]
        BY <3>2, <4>1
      <4> QED
        BY <2>4, <3>4, <4>2
    <3>5. CASE ~(\E r \in p+1..t : Rebuilds(r, c)) /\ ~(\E r \in p+1..t : c \in work[r].convs)
      BY <3>1, <3>5, <2>4 DEF Untouched
    <3> QED
      BY <3>3, <3>4, <3>5
  <2> QED
    BY <2>4, <2>5, <1>3 DEF Rows
<1> QED
  BY <1>4, <1>5

\* The projection transaction leaves an exact slot, of the task's target.
LEMMA BuildStep ==
    ASSUME SlotInv, BuildGeneration
    PROVE  SlotInv'
<1> DEFINE i == worker.slot
           t == worker.target
           built == [gen |-> gens + 1, projected |-> t, read |-> NextView(i),
                     rows |-> Projected(i, t)]
<1>t. SlotTypes /\ Len(history) \in Nat
  BY DEF SlotInv, SlotTypes
<1>1. /\ i \in 0..1 /\ t \in 1..Len(history)
      /\ \A j \in 0..1 : slots[j].projected <= t
  BY <1>t DEF SlotInv, TargetIsAhead, BuildGeneration, SlotTypes, Workers
<1>2. Projected(i, t) = Canonical(t) /\ Canonical(t) \in Rows
  BY <1>1, <1>t, ReplayIsExact, CanonicalIsRows
<1>3. /\ UNCHANGED <<history, work, view>>
      /\ gens' = gens + 1
      /\ slots' = [slots EXCEPT ![i] = built]
      /\ worker' = [worker EXCEPT !.phase = "built"]
  BY DEF BuildGeneration, canonicalVars
<1>4. built \in SlotRecords
  BY <1>t, <1>1, <1>2 DEF SlotTypes, SlotRecords, NextView
<1>5. built.gen # 0 /\ built.projected = t /\ built.rows = Canonical(t)
  BY <1>t, <1>2 DEF SlotTypes
<1> HIDE DEF built, i, t
<1>6. \A j \in 0..1 : slots'[j] = IF j = i THEN built ELSE slots[j]
  BY <1>t, <1>1, <1>3 DEF SlotTypes
<1>7. SlotTypes'
  BY <1>t, <1>1, <1>3, <1>4 DEF SlotTypes, Workers
<1>8. SlotsAreBehind' /\ TargetIsAhead'
  BY <1>t, <1>1, <1>3, <1>5, <1>6 DEF SlotInv, SlotsAreBehind, TargetIsAhead, SlotTypes, Workers
<1>9. WorkIsComplete'
  BY <1>3 DEF SlotInv, WorkIsComplete, NoReseed, NoRebuild, Untouched, Rebuilds, Canonical
<1>10. SlotsAreExact'
  BY <1>3, <1>5, <1>6 DEF SlotInv, SlotsAreExact, Canonical
<1> QED
  BY <1>7, <1>8, <1>9, <1>10 DEF SlotInv

-----------------------------------------------------------------------------
(***************************************************************************)
(* What catch_up decides.                                                  *)
(***************************************************************************)
\* What is built is one of the two slots.
LEMMA BuildSlotIsASlot ==
    ASSUME SlotTypes
    PROVE  BuildSlot \in 0..1
<1> DEFINE used == {i \in 0..1 : slots[i].gen # 0}
<1>1. CASE Active # {}
  <2>1. PICK a \in 0..1 : a = CHOOSE i \in Active : TRUE
    BY <1>1, ActiveIsSlots
  <2>2. BuildSlot = 1 - (CHOOSE i \in Active : TRUE)
    BY <1>1, Zenon DEF BuildSlot
  <2>3. BuildSlot = 1 - a
    BY <2>1, <2>2, Zenon
  <2> QED
    BY <2>3
<1>2. CASE Active = {} /\ used # {}
  <2>1. \A i \in 0..1 : slots[i].projected \in Nat
    BY DEF SlotTypes, SlotRecords
  <2>2. \E i \in used : \A j \in used :
            \/ slots[j].projected < slots[i].projected
            \/ slots[j].projected = slots[i].projected /\ i <= j
    BY <1>2, <2>1
  <2>3. Furthest(used) \in used
    BY <2>2 DEF Furthest
  <2>4. Furthest(used) \in 0..1
    BY <2>3
  <2>5. BuildSlot = Furthest(used)
    BY <1>2, Zenon DEF BuildSlot
  <2> QED
    BY <2>4, <2>5
<1>3. CASE Active = {} /\ used = {}
  BY <1>3 DEF BuildSlot
<1> QED
  BY <1>1, <1>2, <1>3

\* Recovery finds one of the slots.
LEMMA NewestIsASlot ==
    ASSUME SlotTypes, Committed # {}
    PROVE  Newest(Committed) \in 0..1 /\ Newest(Committed) \in Committed
<1>1. \A i \in 0..1 : slots[i].projected \in Nat /\ slots[i].read \in Nat
  BY DEF SlotTypes, SlotRecords
<1>2. Committed \subseteq 0..1
  BY DEF Committed
<1> HIDE DEF Committed
<1>3. \E i \in Committed : \A j \in Committed :
          \/ slots[j].projected < slots[i].projected
          \/ slots[j].projected = slots[i].projected /\ slots[j].read <= slots[i].read
  <2>1. \A j \in Committed : j = 0 \/ j = 1
    BY <1>2
  <2>2. CASE 0 \notin Committed
    BY <2>1, <2>2, <1>1
  <2>3. CASE 1 \notin Committed
    BY <2>1, <2>3, <1>1
  <2>4. CASE 0 \in Committed /\ 1 \in Committed
    <3>1. CASE \/ slots[0].projected < slots[1].projected
               \/ slots[0].projected = slots[1].projected /\ slots[0].read <= slots[1].read
      BY <2>1, <2>4, <3>1, <1>1
    <3>2. CASE \/ slots[1].projected < slots[0].projected
               \/ slots[0].projected = slots[1].projected /\ slots[1].read <= slots[0].read
      BY <2>1, <2>4, <3>2, <1>1
    <3> QED
      BY <3>1, <3>2, <1>1
  <2> QED
    BY <2>2, <2>3, <2>4
<1> QED
  BY <1>2, <1>3 DEF Newest

\* The target of a build is the last revision, behind which is every slot.
LEMMA CatchUpStep ==
    ASSUME SlotInv, CatchUp
    PROVE  SlotInv'
<1>t. SlotTypes /\ Len(history) \in Nat
  BY DEF SlotInv, SlotTypes
<1>0. UNCHANGED <<history, work, slots, gens, view>> /\ worker \in Workers /\ view \in Nat
  BY <1>t DEF CatchUp, projectionVars, SlotTypes
<1>1. CASE Recovers
  <2>1. worker' = [worker EXCEPT !.phase = "built", !.slot = Newest(Committed)]
    BY <1>1 DEF CatchUp
  <2>2. Newest(Committed) \in 0..1
    BY <1>1, <1>t, NewestIsASlot DEF Recovers
  <2> HIDE DEF Newest, Committed
  <2>3. worker' \in Workers /\ worker'.phase = "built"
    BY <1>0, <2>1, <2>2 DEF Workers
  <2> QED
    BY <1>0, <2>3, QuietStep DEF TargetIsAhead
<1>2. CASE ~Recovers /\ Target = 0
  <2>1. worker' = [worker EXCEPT !.phase = "none"]
    BY <1>2 DEF CatchUp
  <2>2. worker' \in Workers /\ worker'.phase = "none"
    BY <1>0, <2>1 DEF Workers
  <2> QED
    BY <1>0, <2>2, QuietStep DEF TargetIsAhead
<1>3. CASE ~Recovers /\ Target # 0
  <2>1. worker' = [worker EXCEPT !.phase = "build", !.target = Target, !.slot = BuildSlot]
    BY <1>3 DEF CatchUp
  <2>2. Target = Len(history) /\ Target \in 1..Len(history)
    BY <1>3, <1>t DEF Target, SlotTypes
  <2>3. BuildSlot \in 0..1
    BY <1>t, BuildSlotIsASlot
  <2>4. worker' \in Workers /\ worker'.target = Target
    BY <1>0, <1>t, <2>1, <2>2, <2>3 DEF Workers
  <2>5. TargetIsAhead'
    BY <1>0, <2>2, <2>4 DEF SlotInv, SlotsAreBehind, TargetIsAhead
  <2> QED
    BY <1>0, <2>4, <2>5, QuietStep
<1> QED
  BY <1>1, <1>2, <1>3

\* A lost file leaves no slot to be wrong, and no build that is under way.
LEMMA LostStep ==
    ASSUME SlotInv, ProjectionLost
    PROVE  SlotInv'
<1>t. SlotTypes
  BY DEF SlotInv
<1>1. /\ UNCHANGED <<history, work, view, gens>>
      /\ slots' = [i \in 0..1 |-> NoSlot]
      /\ worker' = [Idle EXCEPT !.phase = "start"] \/ worker' = Idle
  BY DEF ProjectionLost, Restart, canonicalVars
<1>2. worker' \in Workers /\ worker'.phase # "build"
  BY <1>1 DEF Idle, Workers
<1>3. NoSlot \in SlotRecords /\ NoSlot.gen = 0 /\ NoSlot.projected = 0
  BY DEF NoSlot, SlotRecords, Rows, NoRows
<1>4. SlotTypes' /\ SlotsAreBehind' /\ TargetIsAhead' /\ SlotsAreExact'
  BY <1>t, <1>1, <1>2, <1>3 DEF SlotTypes, SlotsAreBehind, TargetIsAhead, SlotsAreExact
<1>5. WorkIsComplete'
  BY <1>1 DEF SlotInv, WorkIsComplete, NoReseed, NoRebuild, Untouched, Rebuilds, Canonical
<1> QED
  BY <1>4, <1>5 DEF SlotInv

\* Steps of the reader and the Bridge, and commits that cannot be acknowledged.
LEMMA WorkerUnchanged ==
    ASSUME SlotInv, UNCHANGED <<history, work, slots, gens, view, worker>>
    PROVE  SlotInv'
<1>1. view' \in Nat /\ worker' \in Workers /\ TargetIsAhead'
  BY DEF SlotInv, SlotTypes, TargetIsAhead
<1> QED
  BY <1>1, QuietStep

\* Steps after which the task ends or looks for work.
LEMMA WorkerIsIdle ==
    ASSUME SlotInv, UNCHANGED <<history, work, slots, gens>>, view' \in Nat,
           worker' = Idle \/ \E ph \in {"start", "done"} : worker' = [Idle EXCEPT !.phase = ph]
    PROVE  SlotInv'
<1>1. worker' \in Workers /\ worker'.phase # "build"
  BY DEF Idle, Workers
<1> QED
  BY <1>1, QuietStep DEF TargetIsAhead

\* Every action preserves SlotInv.
LEMMA SlotInvStep == SlotInv /\ [ProjectionNext]_vars => SlotInv'
<1> SUFFICES ASSUME SlotInv, [ProjectionNext]_vars PROVE SlotInv'
  OBVIOUS
<1>v. view \in Nat
  BY DEF SlotInv, SlotTypes
<1> USE DEF canonicalVars, projectionVars, taskVars, readerVars
<1>1. CASE CommitDelta
  <2>1. CASE \E c \in Convs : Commit("entity", {c}, {c})
    BY <2>1, CommitStep DEF Kinds
  <2>2. CASE \E c \in Convs : Commit("coverage", {c}, {c})
    BY <2>2, CommitStep DEF Kinds
  <2>3. CASE Commit("coverage", Convs, Convs)
    BY <2>3, CommitStep DEF Kinds
  <2> QED
    BY <1>1, <2>1, <2>2, <2>3 DEF CommitDelta
<1>2. CASE CommitSnapshot
  BY <1>2, CommitStep DEF CommitSnapshot, Kinds
<1>3. CASE AckSent \/ SendSnapshot
  <2>1. worker' = [Idle EXCEPT !.phase = "start"] \/ worker' = worker
    BY <1>3 DEF AckSent, SendSnapshot, Schedule
  <2>2. UNCHANGED <<history, work, slots, gens, view>>
    BY <1>3 DEF AckSent, SendSnapshot
  <2> QED
    BY <1>v, <2>1, <2>2, WorkerUnchanged, WorkerIsIdle
<1>4. CASE AckFails \/ BindBridge \/ DisconnectBridge \/ ReadAuthority \/ ReadRows \/ EndPage
  <2>1. UNCHANGED <<history, work, slots, gens, view, worker>>
    BY <1>4 DEF AckFails, BindBridge, DisconnectBridge, ReadAuthority, ReadRows, EndPage
  <2> QED
    BY <2>1, WorkerUnchanged
<1>5. CASE CatchUp
  BY <1>5, CatchUpStep
<1>6. CASE BuildGeneration
  BY <1>6, BuildStep
<1>7. CASE Activate
  <2>1. view' = slots[worker.slot].read /\ UNCHANGED <<history, work, slots, gens>>
    BY <1>7 DEF Activate
  <2>2. view' \in Nat
    BY <2>1 DEF SlotInv, SlotTypes, SlotRecords, Workers
  <2>3. worker' = [Idle EXCEPT !.phase = "done"]
    BY <1>7 DEF Activate
  <2> QED
    BY <2>1, <2>2, <2>3, WorkerIsIdle
<1>8. CASE Broadcast \/ WorkerFails \/ BrainRestart
  <2>1. UNCHANGED <<history, work, slots, gens, view>>
    BY <1>8 DEF Broadcast, WorkerFails, BrainRestart, Restart
  <2>2. worker' = [Idle EXCEPT !.phase = "start"] \/ worker' = Idle
    BY <1>8 DEF Broadcast, WorkerFails, BrainRestart, Restart
  <2> QED
    BY <1>v, <2>1, <2>2, WorkerIsIdle
<1>9. CASE WorkerReturns
  <2>1. UNCHANGED <<history, work, slots, gens, view>>
    BY <1>9 DEF WorkerReturns
  <2>2. worker' = [Idle EXCEPT !.phase = "start"] \/ worker' = Idle
    BY <1>9 DEF WorkerReturns, Idle
  <2> QED
    BY <1>v, <2>1, <2>2, WorkerIsIdle
<1>10. CASE ProjectionLost
  BY <1>10, LostStep
<1>11. CASE UNCHANGED vars
  BY <1>11, WorkerUnchanged DEF vars
<1> QED
  BY <1>1, <1>2, <1>3, <1>4, <1>5, <1>6, <1>7, <1>8, <1>9, <1>10, <1>11 DEF ProjectionNext

\* However the two slots take turns, through failures, restarts and losses of the
\* file, each holds the canonical rows of the revision it claims.
THEOREM ProjectionIsExact == ProjectionSpec => []SlotsAreExact
<1>1. SlotInv => SlotsAreExact
  BY DEF SlotInv
<1> QED
  BY <1>1, SlotInvInit, SlotInvStep, PTL DEF ProjectionSpec

-----------------------------------------------------------------------------
(***************************************************************************)
(* What readers see.  A generation that was activated keeps its intent for *)
(* good, the view belongs to the last one, at the revision up to which all *)
(* work is completed, and what the task builds or is about to activate is  *)
(* beyond it and in the other slot.                                        *)
(***************************************************************************)
IsActivated(r) == intents[r].state = "activated"

\* The current view is of the last completed revision; intents beyond it are
\* still to be activated
Activations ==
    /\ Len(history) <= MaxRevisions /\ completed <= Len(history)
    /\ IF view = 0 THEN completed = 0
       ELSE completed # 0 /\ IsActivated(completed) /\ intents[completed].view = view
    /\ \A r \in 1..MaxRevisions :
         /\ IsActivated(r) => /\ intents[r].gen # 0 /\ r <= completed
                              /\ r # completed => intents[r].view < view
         /\ intents[r].state = "pending" => completed < r /\ r <= Len(history)

\* A slot that holds an activated generation is as it was activated
SlotsAreKnown ==
    /\ \A i \in 0..1 : slots[i].gen <= gens /\ slots[i].read <= gens
    /\ slots[0].gen = slots[1].gen => slots[0].gen = 0
    /\ \A i \in 0..1, r \in 1..MaxRevisions :
          IsActivated(r) /\ slots[i].gen = intents[r].gen
            => slots[i].projected = r /\ slots[i].read = intents[r].view

\* The task never builds over what is visible, nor activates what is behind it
TaskIsAhead ==
    /\ worker.phase = "build" =>
         worker.target > completed /\ worker.slot \notin Readable(Authority)
    /\ worker.phase = "built" =>
         LET s == slots[worker.slot]
         IN  s.gen # 0 /\ s.projected > completed /\ s.read > view

\* A reader holds the authority, and then the rows, of an activated generation
PagesAreKnown ==
    /\ page.phase = "authority" /\ page.auth # 0 =>
         \E r \in 1..MaxRevisions : IsActivated(r) /\ intents[r].gen = page.auth
    /\ page.phase = "rows" =>
         /\ page.rows = Canonical(page.projected) /\ page.projected \in 0..Len(history)
         /\ \E r \in 1..MaxRevisions :
               IsActivated(r) /\ intents[r].gen = page.gen /\ intents[r].view = page.read

ReadInv == ProjectionTypeOK /\ Activations /\ SlotsAreKnown /\ TaskIsAhead /\ PagesAreKnown

\* What the types say, expression by expression.
LEMMA ReadTypes ==
    ProjectionTypeOK =>
        /\ Len(history) \in Nat /\ Len(work) = Len(history) /\ completed \in Nat
        /\ view \in Nat /\ gens \in Nat /\ view <= gens /\ MaxRevisions \in Nat
        /\ \A r \in 1..MaxRevisions : /\ intents[r].gen \in Nat /\ intents[r].gen <= gens
                                      /\ intents[r].view \in Nat
        /\ \A i \in 0..1 : /\ slots[i].gen \in Nat /\ slots[i].projected \in 0..Len(history)
                           /\ slots[i].read \in Nat /\ slots[i].rows \in Rows
<1> SUFFICES ASSUME ProjectionTypeOK
             PROVE  /\ Len(history) \in Nat /\ Len(work) = Len(history) /\ completed \in Nat
                    /\ view \in Nat /\ gens \in Nat /\ view <= gens /\ MaxRevisions \in Nat
                    /\ \A r \in 1..MaxRevisions :
                          /\ intents[r].gen \in Nat /\ intents[r].gen <= gens
                          /\ intents[r].view \in Nat
                    /\ \A i \in 0..1 :
                          /\ slots[i].gen \in Nat /\ slots[i].projected \in 0..Len(history)
                          /\ slots[i].read \in Nat /\ slots[i].rows \in Rows
  OBVIOUS
<1>1. Len(history) \in Nat /\ Len(work) = Len(history) /\ MaxRevisions \in Nat
  <2>1. history \in Seq(Rows) /\ Len(work) = Len(history)
    BY DEF ProjectionTypeOK, Revision
  <2> QED
    BY <2>1, ProjectionBoundsAssumption
<1>2. gens \in Nat /\ view \in 0..gens /\ completed \in 0..Len(history)
  BY DEF ProjectionTypeOK, Revision
<1>3. completed \in Nat /\ view \in Nat /\ view <= gens
  BY <1>1, <1>2
<1>4. ASSUME NEW r \in 1..MaxRevisions
      PROVE  intents[r].gen \in Nat /\ intents[r].gen <= gens /\ intents[r].view \in Nat
  <2>1. intents[r] \in Intent
    BY DEF ProjectionTypeOK
  <2>2. intents[r].gen \in 0..gens /\ intents[r].view \in Nat
    BY <2>1 DEF Intent
  <2> QED
    BY <1>2, <2>2
<1>5. ASSUME NEW i \in 0..1
      PROVE  /\ slots[i].gen \in Nat /\ slots[i].projected \in 0..Len(history)
             /\ slots[i].read \in Nat /\ slots[i].rows \in Rows
  <2>1. slots[i] \in Slot
    BY DEF ProjectionTypeOK
  <2>2. /\ slots[i].gen \in 0..gens /\ slots[i].projected \in 0..Revision
        /\ slots[i].read \in Nat /\ slots[i].rows \in Rows
    BY <2>1 DEF Slot
  <2> QED
    BY <1>2, <2>2 DEF Revision
<1> QED
  BY <1>1, <1>2, <1>3, <1>4, <1>5

\* The authority is the generation activated at the completed revision.
LEMMA AuthorityIs ==
    ProjectionTypeOK /\ Activations
        => Authority = IF view = 0 THEN 0 ELSE intents[completed].gen
<1> SUFFICES ASSUME ProjectionTypeOK, Activations
             PROVE  Authority = IF view = 0 THEN 0 ELSE intents[completed].gen
  OBVIOUS
<1> USE ReadTypes DEF Activations
<1>1. CASE view = 0
  <2>1. Activated = {}
    BY <1>1 DEF Activated, IsActivated
  <2> QED
    BY <1>1, <2>1 DEF Authority
<1>2. CASE view # 0
  <2>1. completed \in 1..MaxRevisions
    BY <1>2
  <2>2. Activated = {completed}
    BY <1>2, <2>1 DEF Activated, IsActivated
  <2>3. Max(Activated) = completed
    BY <2>1, <2>2 DEF Max
  <2> QED
    BY <1>2, <2>2, <2>3 DEF Authority
<1> QED
  BY <1>1, <1>2

\* What is visible is the completed revision, or nothing; the slot that shows it
\* is the active one, and the only one.
LEMMA VisibleIs ==
    ProjectionTypeOK /\ Activations /\ SlotsAreKnown =>
        /\ VisibleRevision = IF Readable(Authority) = {} THEN 0 ELSE completed
        /\ Active = Readable(Authority)
        /\ \A i, j \in Readable(Authority) : i = j
        /\ \A i \in Readable(Authority) : slots[i].projected = completed
        /\ Authority \in Nat /\ Authority <= gens
<1> SUFFICES ASSUME ProjectionTypeOK, Activations, SlotsAreKnown
             PROVE  /\ VisibleRevision = IF Readable(Authority) = {} THEN 0 ELSE completed
                    /\ Active = Readable(Authority)
                    /\ \A i, j \in Readable(Authority) : i = j
                    /\ \A i \in Readable(Authority) : slots[i].projected = completed
                    /\ Authority \in Nat /\ Authority <= gens
  OBVIOUS
<1>t. /\ completed \in Nat /\ view \in Nat /\ gens \in Nat /\ MaxRevisions \in Nat
      /\ view # 0 => /\ completed \in 1..MaxRevisions /\ IsActivated(completed)
                     /\ intents[completed].view = view
                     /\ intents[completed].gen \in Nat /\ intents[completed].gen <= gens
      /\ \A i \in 0..1 : slots[i].gen \in Nat
  BY ReadTypes DEF Activations
<1>1. Authority = IF view = 0 THEN 0 ELSE intents[completed].gen
  BY AuthorityIs
<1>2. Readable(Authority) \subseteq 0..1
      /\ \A i \in Readable(Authority) : Authority # 0 /\ slots[i].gen = Authority
  BY DEF Readable
<1>3. ASSUME NEW i \in Readable(Authority)
      PROVE  slots[i].projected = completed /\ slots[i].read = view
  <2>1. view # 0 /\ slots[i].gen = intents[completed].gen /\ i \in 0..1
    BY <1>1, <1>2
  <2> QED
    BY <1>t, <2>1 DEF SlotsAreKnown
<1>4. Active = Readable(Authority)
  BY <1>3 DEF Active
<1>5. \A i, j \in Readable(Authority) : i = j
  BY <1>2 DEF SlotsAreKnown
<1>6. VisibleRevision = IF Readable(Authority) = {} THEN 0 ELSE completed
  <2>1. CASE Readable(Authority) # {}
    <3>1. (CHOOSE i \in Readable(Authority) : TRUE) \in Readable(Authority)
      BY <2>1
    <3> QED
      BY <1>3, <2>1, <3>1 DEF VisibleRevision
  <2> QED
    BY <2>1 DEF VisibleRevision
<1> QED
  BY <1>t, <1>1, <1>3, <1>4, <1>5, <1>6

\* A step that neither builds nor activates leaves what is visible alone.
LEMMA NothingActivated ==
    ASSUME ReadInv, UNCHANGED <<completed, view, slots, gens>>,
           \A r \in 1..MaxRevisions : IsActivated(r)' <=> IsActivated(r),
           \A r \in 1..MaxRevisions : IsActivated(r) => intents'[r] = intents[r],
           ProjectionTypeOK', Activations'
    PROVE  /\ SlotsAreKnown'
           /\ Authority' = Authority /\ Readable(Authority)' = Readable(Authority)
           /\ VisibleRevision' = VisibleRevision
<1>1. SlotsAreKnown'
  BY DEF ReadInv, SlotsAreKnown
<1>2. Authority' = Authority
  <2>1. Authority = IF view = 0 THEN 0 ELSE intents[completed].gen
    BY AuthorityIs DEF ReadInv
  <2>2. (ProjectionTypeOK /\ Activations
          => Authority = IF view = 0 THEN 0 ELSE intents[completed].gen)'
    BY AuthorityIs, PTL
  <2>3. view # 0 => completed \in 1..MaxRevisions /\ IsActivated(completed)
    BY ReadTypes DEF ReadInv, Activations
  <2>4. Authority' = IF view = 0 THEN 0 ELSE intents'[completed].gen
    BY <2>2
  <2>5. view # 0 => intents'[completed] = intents[completed]
    BY <2>3
  <2> QED
    BY <2>1, <2>4, <2>5
<1>3. Readable(Authority)' = Readable(Authority)
  BY <1>2 DEF Readable
<1>4. VisibleRevision' = VisibleRevision
  <2>1. VisibleRevision = IF Readable(Authority) = {} THEN 0 ELSE completed
    BY VisibleIs DEF ReadInv
  <2>2. (ProjectionTypeOK /\ Activations /\ SlotsAreKnown =>
            VisibleRevision = IF Readable(Authority) = {} THEN 0 ELSE completed)'
    BY VisibleIs, PTL
  <2> QED
    BY <1>1, <1>3, <2>1, <2>2
<1> QED
  BY <1>1, <1>2, <1>3, <1>4

ViewAdvances ==
    /\ view' >= view
    /\ Authority # Authority' => view' > view
    /\ VisibleRevision' < VisibleRevision => ProjectionLost

\* What a reader holds stays what it was activated as.
LEMMA PagesStay ==
    ASSUME ReadInv, page' \in {page, NoPage},
           \A r \in 1..MaxRevisions : IsActivated(r) => intents'[r] = intents[r],
           Len(history') \in Nat, Len(history) <= Len(history'),
           \A t \in 0..Len(history) : Canonical(t)' = Canonical(t)
    PROVE  PagesAreKnown'
<1>1. CASE page' = NoPage
  BY <1>1 DEF NoPage, PagesAreKnown
<1>2. CASE page' = page
  <2>1. \A r \in 1..MaxRevisions : IsActivated(r) => IsActivated(r)' /\ intents'[r] = intents[r]
    BY DEF IsActivated
  <2>2. ASSUME page.phase = "authority", page.auth # 0
        PROVE  \E r \in 1..MaxRevisions : IsActivated(r)' /\ intents'[r].gen = page.auth
    BY <2>1, <2>2 DEF ReadInv, PagesAreKnown
  <2>3. ASSUME page.phase = "rows"
        PROVE  /\ page.rows = Canonical(page.projected)' /\ page.projected \in 0..Len(history')
               /\ \E r \in 1..MaxRevisions :
                     IsActivated(r)' /\ intents'[r].gen = page.gen /\ intents'[r].view = page.read
    <3>1. /\ page.rows = Canonical(page.projected) /\ page.projected \in 0..Len(history)
          /\ \E r \in 1..MaxRevisions :
                IsActivated(r) /\ intents[r].gen = page.gen /\ intents[r].view = page.read
      BY <2>3 DEF ReadInv, PagesAreKnown
    <3>2. Canonical(page.projected)' = Canonical(page.projected)
      BY <1>2, <3>1 DEF Canonical
    <3>3. page.projected \in 0..Len(history')
      BY <3>1, ReadTypes DEF ReadInv
    <3> QED
      BY <2>1, <3>1, <3>2, <3>3
  <2> QED
    BY <1>2, <2>2, <2>3 DEF PagesAreKnown, Canonical
<1> QED
  BY <1>1, <1>2

\* What the types still ask of a step that touches neither file.
LEMMA QuietTypes ==
    ASSUME ProjectionTypeOK, UNCHANGED <<history, work, completed, view, intents, slots, gens>>,
           worker'.phase \in {"idle", "start", "build", "built", "done", "none"},
           worker'.slot \in 0..1, worker'.target \in 0..Len(history),
           scheduled' \in BOOLEAN, dropped' \in BOOLEAN, acking' \in BOOLEAN,
           bridge' \in {"none", "bound", "live"}, shown' \in 0..Len(history),
           page'.phase \in {"none", "authority", "rows"}, page'.rows \in Rows,
           faults' \in 0..MaxFaults
    PROVE  ProjectionTypeOK'
  BY DEF ProjectionTypeOK, Revision, Intent, Slot

\* Steps of the readers and the task that touch neither file.
LEMMA QuietReads ==
    ASSUME ReadInv, UNCHANGED <<history, completed, view, intents, slots, gens>>,
           worker' = worker \/ worker'.phase \notin {"build", "built"},
           page' \in {page, NoPage} \/ PagesAreKnown',
           ProjectionTypeOK'
    PROVE  ReadInv' /\ ViewAdvances
<1>1. Activations'
  BY DEF ReadInv, Activations, IsActivated
<1>2. /\ SlotsAreKnown'
      /\ Authority' = Authority /\ Readable(Authority)' = Readable(Authority)
      /\ VisibleRevision' = VisibleRevision
  BY <1>1, NothingActivated DEF IsActivated
<1>3. TaskIsAhead'
  BY <1>2 DEF ReadInv, TaskIsAhead
<1>4. PagesAreKnown'
  <2>1. \A t \in 0..Len(history) : Canonical(t)' = Canonical(t)
    BY DEF Canonical
  <2> QED
    BY <2>1, ReadTypes, PagesStay DEF ReadInv
<1>5. VisibleRevision \in Nat /\ view \in Nat
  BY VisibleIs, ReadTypes DEF ReadInv
<1> QED
  BY <1>1, <1>2, <1>3, <1>4, <1>5 DEF ReadInv, ViewAdvances

\* A commit adds a revision; nothing that was activated changes.
LEMMA CommitReads ==
    ASSUME ReadInv, SlotInv', NEW kind \in Kinds, NEW convs \in SUBSET Convs, NEW cs,
           Commit(kind, convs, cs)
    PROVE  ReadInv' /\ ViewAdvances
<1>1. /\ Len(history) < MaxRevisions
      /\ \E new : history' = Append(history, new)
      /\ UNCHANGED <<completed, view, intents, slots, gens, worker, scheduled, dropped, bridge,
                     shown, page, faults>>
      /\ acking' = TRUE
  BY DEF Commit, Revision, projectionVars, taskVars, readerVars
<1>2. /\ history' \in Seq(Rows) /\ work' \in Seq(Items) /\ Len(work') = Len(history')
      /\ history \in Seq(Rows)
  BY DEF SlotInv, SlotTypes, ReadInv, ProjectionTypeOK
<1>3. /\ Len(history') = Len(history) + 1
      /\ \A t \in 1..Len(history) : history'[t] = history[t]
  BY <1>1, <1>2
<1>t. /\ Len(history) \in Nat /\ completed \in Nat /\ MaxRevisions \in Nat
      /\ completed <= Len(history)
  BY ReadTypes DEF ReadInv, Activations
<1>4. ProjectionTypeOK'
  <2>1. \A i \in 0..1 : slots[i] \in Slot'
    BY <1>1, <1>3, <1>t DEF ReadInv, ProjectionTypeOK, Revision, Slot
  <2>2. slots' \in [0..1 -> Slot'] /\ intents' \in [1..MaxRevisions -> Intent']
    BY <1>1, <2>1 DEF ReadInv, ProjectionTypeOK, Intent
  <2>3. worker.target \in 0..Len(history') /\ shown \in 0..Len(history')
        /\ completed \in 0..Len(history')
    BY <1>3, <1>t DEF ReadInv, ProjectionTypeOK, Revision
  <2> QED
    BY <1>1, <1>2, <2>2, <2>3 DEF ReadInv, ProjectionTypeOK, Revision, Items, Kinds
<1>5. Activations'
  BY <1>1, <1>3, <1>t DEF ReadInv, Activations, IsActivated
<1>6. /\ SlotsAreKnown'
      /\ Authority' = Authority /\ Readable(Authority)' = Readable(Authority)
      /\ VisibleRevision' = VisibleRevision
  BY <1>1, <1>4, <1>5, NothingActivated DEF IsActivated
<1>7. TaskIsAhead'
  BY <1>1, <1>6 DEF ReadInv, TaskIsAhead
<1>8. PagesAreKnown'
  <2>1. \A t \in 0..Len(history) : Canonical(t)' = Canonical(t)
    BY <1>3, <1>t DEF Canonical
  <2> QED
    BY <1>1, <1>3, <1>t, <2>1, PagesStay
<1>9. VisibleRevision \in Nat /\ view \in Nat
  BY VisibleIs, ReadTypes DEF ReadInv
<1> QED
  BY <1>1, <1>4, <1>5, <1>6, <1>7, <1>8, <1>9 DEF ReadInv, ViewAdvances

\* The slot chosen for a build is not the one that is visible.
LEMMA BuildSlotIsHidden ==
    ReadInv => BuildSlot \notin Readable(Authority)
<1> SUFFICES ASSUME ReadInv PROVE BuildSlot \notin Readable(Authority)
  OBVIOUS
<1>1. Active = Readable(Authority) /\ \A i, j \in Readable(Authority) : i = j
  BY VisibleIs DEF ReadInv
<1>2. CASE Active # {}
  <2>1. PICK a \in Active : a = CHOOSE i \in Active : TRUE
    BY <1>2
  <2>2. BuildSlot = 1 - (CHOOSE i \in Active : TRUE)
    BY <1>2, Zenon DEF BuildSlot
  <2>3. BuildSlot = 1 - a
    BY <2>1, <2>2, Zenon
  <2>4. a \in 0..1
    BY <2>1, ActiveIsSlots
  <2>5. 1 - a # a
    BY <2>4
  <2> QED
    BY <1>1, <2>1, <2>3, <2>5
<1> QED
  BY <1>1, <1>2

\* catch_up decides beyond what is completed: a new target, or a generation that
\* was committed and not yet activated.
LEMMA CatchUpReads ==
    ASSUME SlotInv, ReadInv, CatchUp
    PROVE  ReadInv' /\ ViewAdvances
<1>t. /\ Len(history) \in Nat /\ completed \in Nat /\ MaxRevisions \in Nat /\ view \in Nat
      /\ Len(work) = Len(history) /\ Len(history) <= MaxRevisions /\ completed <= Len(history)
      /\ worker \in Workers /\ SlotTypes
  BY ReadTypes DEF ReadInv, Activations, SlotInv, SlotTypes
<1>0. UNCHANGED <<history, work, completed, view, slots, gens, dropped, acking, bridge, shown,
                  page, faults>> /\ scheduled' = FALSE
  BY DEF CatchUp, projectionVars, readerVars
<1>1. /\ Target \in 0..Len(history)
      /\ Target # 0 => Target = Len(history) /\ completed < Target
      /\ Target = 0 => completed = Len(history)
  BY <1>t DEF Target
<1>2. RecoveryTarget = Target
  <2>1. Target = 0 => PendingIntents = {}
    BY <1>1, <1>t DEF PendingIntents, ReadInv, Activations
  <2> QED
    BY <2>1 DEF RecoveryTarget
<1>3. CASE Recovers
  <2>1. worker' = [worker EXCEPT !.phase = "built", !.slot = Newest(Committed)]
        /\ intents' = intents
    BY <1>3 DEF CatchUp
  <2>2. Newest(Committed) \in 0..1 /\ Newest(Committed) \in Committed
    <3>1. Committed # {}
      BY <1>3 DEF Recovers
    <3> QED
      BY <1>t, <3>1, NewestIsASlot
  <2>3. PICK n \in 0..1 : n = Newest(Committed)
    BY <2>2
  <2>4. slots[n].gen # 0 /\ completed < Target /\ Target <= slots[n].projected /\ slots[n].read >= view
    BY <1>1, <1>2, <2>2, <2>3 DEF Committed
  <2>5. slots[n].read # view
    <3> SUFFICES ASSUME slots[n].read = view PROVE FALSE
      OBVIOUS
    <3>1. PICK a \in Active : slots[a].projected >= RecoveryTarget
      BY <1>3, <1>t, <2>3 DEF Recovers
    <3>2. slots[a].projected = completed
      BY <3>1, VisibleIs DEF ReadInv
    <3> QED
      BY <1>1, <1>2, <1>t, <2>4, <3>1, <3>2
  <2>6. worker' = [worker EXCEPT !.phase = "built", !.slot = n]
    BY <2>1, <2>3
  <2>7. worker' \in Workers /\ worker'.phase = "built" /\ worker'.slot = n
        /\ worker'.target = worker.target
    BY <1>t, <2>6 DEF Workers
  <2>8. ProjectionTypeOK'
    BY <1>0, <2>1, <2>7 DEF ReadInv, ProjectionTypeOK, Revision, Intent, Slot
  <2>9. Activations'
    BY <1>0, <2>1 DEF ReadInv, Activations, IsActivated
  <2>10. /\ SlotsAreKnown' /\ Authority' = Authority /\ VisibleRevision' = VisibleRevision
    BY <1>0, <2>1, <2>8, <2>9, NothingActivated DEF IsActivated
  <2>11. TaskIsAhead'
    <3>1. slots[n].projected > completed /\ slots[n].read > view
      BY <1>t, <1>1, <2>4, <2>5, ReadTypes DEF ReadInv
    <3> QED
      BY <1>0, <2>4, <2>7, <3>1 DEF TaskIsAhead
  <2>12. PagesAreKnown'
    BY <1>0, <1>t, <2>1, PagesStay DEF Canonical
  <2>13. VisibleRevision \in Nat
    BY <1>t, VisibleIs DEF ReadInv
  <2> QED
    BY <1>0, <1>t, <2>8, <2>9, <2>10, <2>11, <2>12, <2>13 DEF ReadInv, ViewAdvances
<1>4. CASE ~Recovers /\ Target = 0
  <2>1. worker' = [worker EXCEPT !.phase = "none"] /\ intents' = intents
    BY <1>4 DEF CatchUp
  <2>2. worker'.phase = "none" /\ worker'.slot = worker.slot /\ worker'.target = worker.target
    BY <1>t, <2>1 DEF Workers
  <2>3. ProjectionTypeOK'
    BY <1>0, <2>1, <2>2 DEF ReadInv, ProjectionTypeOK, Revision, Intent, Slot
  <2> QED
    BY <1>0, <2>1, <2>2, <2>3, QuietReads
<1>5. CASE ~Recovers /\ Target # 0
  <2>1. /\ worker' = [worker EXCEPT !.phase = "build", !.target = Target, !.slot = BuildSlot]
        /\ intents' = EnsuredIntents(Target)
    BY <1>5 DEF CatchUp
  <2>2. BuildSlot \in 0..1 /\ BuildSlot \notin Readable(Authority)
    BY <1>t, BuildSlotIsASlot, BuildSlotIsHidden
  <2>3. worker'.phase = "build" /\ worker'.target = Target /\ worker'.slot = BuildSlot
    BY <1>t, <2>1 DEF Workers
  <2>4. intents \in [1..MaxRevisions -> Intent]
    BY DEF ReadInv, ProjectionTypeOK
  <2>5. \A r \in 1..MaxRevisions :
            \/ intents'[r] = intents[r]
            \/ r = Target /\ intents[r].state = "none" /\ intents'[r].state = "pending"
    BY <2>1, <2>4 DEF EnsuredIntents, Intent, NoIntent
  <2>6. intents' \in [1..MaxRevisions -> Intent]
    BY <2>1, <2>4 DEF EnsuredIntents, Intent
  <2>7. ProjectionTypeOK'
    BY <1>0, <1>1, <2>2, <2>3, <2>6 DEF ReadInv, ProjectionTypeOK, Revision, Intent, Slot
  <2>8. \A r \in 1..MaxRevisions : /\ IsActivated(r)' <=> IsActivated(r)
                                   /\ IsActivated(r) => intents'[r] = intents[r]
    BY <2>5 DEF IsActivated
  <2>9. Activations'
    <3>1. completed # 0 => completed \in 1..MaxRevisions
      BY <1>t
    <3>2. \A r \in 1..MaxRevisions :
              intents'[r].state = "pending" => completed < r /\ r <= Len(history)
      BY <1>1, <1>5, <1>t, <2>5 DEF ReadInv, Activations
    <3>3. IF view = 0 THEN completed = 0
          ELSE completed # 0 /\ IsActivated(completed)' /\ intents'[completed].view = view
      <4>1. CASE view = 0
        BY <4>1 DEF ReadInv, Activations
      <4>2. CASE view # 0
        <5>1. completed # 0 /\ IsActivated(completed) /\ intents[completed].view = view
          BY <4>2 DEF ReadInv, Activations
        <5>2. IsActivated(completed)' /\ intents'[completed] = intents[completed]
          BY <1>0, <2>8, <3>1, <5>1 DEF IsActivated
        <5> QED
          BY <4>2, <5>1, <5>2
      <4> QED
        BY <4>1, <4>2
    <3>4. \A r \in 1..MaxRevisions :
              IsActivated(r)' => /\ intents'[r].gen # 0 /\ r <= completed
                                 /\ r # completed => intents'[r].view < view
      BY <2>8 DEF ReadInv, Activations
    <3> QED
      BY <1>0, <1>t, <3>2, <3>3, <3>4 DEF Activations, IsActivated
  <2>10. /\ SlotsAreKnown'
         /\ Authority' = Authority /\ Readable(Authority)' = Readable(Authority)
         /\ VisibleRevision' = VisibleRevision
    BY <1>0, <2>7, <2>8, <2>9, NothingActivated
  <2>11. TaskIsAhead'
    BY <1>0, <1>1, <1>5, <2>2, <2>3, <2>10 DEF TaskIsAhead
  <2>12. PagesAreKnown'
    BY <1>0, <1>t, <2>8, PagesStay DEF Canonical
  <2>13. VisibleRevision \in Nat
    BY <1>t, VisibleIs DEF ReadInv
  <2> QED
    BY <1>0, <1>t, <2>7, <2>9, <2>10, <2>11, <2>12, <2>13 DEF ReadInv, ViewAdvances
<1> QED
  BY <1>3, <1>4, <1>5

\* The projection transaction writes a generation nobody has seen into a slot
\* nobody reads.
LEMMA BuildReads ==
    ASSUME SlotInv, SlotInv', ReadInv, BuildGeneration
    PROVE  ReadInv' /\ ViewAdvances
<1> DEFINE w == worker.slot
<1>t. /\ Len(history) \in Nat /\ completed \in Nat /\ MaxRevisions \in Nat /\ view \in Nat
      /\ gens \in Nat /\ view <= gens
      /\ \A r \in 1..MaxRevisions : intents[r].gen \in Nat /\ intents[r].gen <= gens
      /\ \A i \in 0..1 : slots[i].gen \in Nat /\ slots[i].gen <= gens
                         /\ slots[i].read \in Nat /\ slots[i].read <= gens
      /\ worker \in Workers /\ worker.slot \in 0..1
      /\ worker.phase = "build" /\ worker.target > completed /\ worker.slot \notin Readable(Authority)
      /\ worker.target \in 1..Len(history)
  BY ReadTypes DEF ReadInv, SlotInv, SlotTypes, Workers, SlotsAreKnown, TaskIsAhead, TargetIsAhead,
     BuildGeneration
<1>1. /\ UNCHANGED <<history, work, completed, view, intents, scheduled, dropped, acking, bridge,
                     shown, page, faults>>
      /\ gens' = gens + 1
      /\ worker' = [worker EXCEPT !.phase = "built"]
  BY DEF BuildGeneration, canonicalVars, readerVars
<1>2. worker'.phase = "built" /\ worker'.slot = worker.slot /\ worker'.target = worker.target
  BY <1>t, <1>1 DEF Workers
<1>3. /\ slots'[worker.slot].gen = gens + 1 /\ slots'[worker.slot].projected = worker.target
      /\ slots'[worker.slot].read = view + 1
      /\ \A i \in (0..1) \ {worker.slot} : slots'[i] = slots[i]
  <2>1. slots \in [0..1 -> SlotRecords]
    BY DEF SlotInv, SlotTypes
  <2> QED
    BY <1>1, <1>t, <2>1 DEF BuildGeneration, NextView
<1>4. \A i \in 0..1 : /\ slots'[i].gen \in 0..gens' /\ slots'[i].read \in Nat
                      /\ slots'[i].read <= gens' /\ slots'[i].gen <= gens'
  <2>1. TAKE i \in 0..1
  <2>2. CASE i = worker.slot
    <3>1. slots'[i].gen = gens + 1 /\ slots'[i].read = view + 1
      BY <1>3, <2>2
    <3> QED
      BY <1>1, <1>t, <3>1
  <2>3. CASE i # worker.slot
    <3>1. slots'[i] = slots[i]
      BY <1>3, <2>3
    <3>2. /\ slots[i].gen \in Nat /\ slots[i].gen <= gens
          /\ slots[i].read \in Nat /\ slots[i].read <= gens
      BY <1>t
    <3> QED
      BY ONLY <1>1, <1>t, <3>1, <3>2
  <2> QED
    BY <2>2, <2>3
<1>5. ProjectionTypeOK'
  <2>1. slots' \in [0..1 -> SlotRecords] /\ \A i \in 0..1 : slots'[i].projected <= Len(history)
    BY <1>1 DEF SlotInv, SlotTypes, SlotsAreBehind
  <2>2. \A i \in 0..1 : slots'[i] \in Slot'
    BY <1>1, <1>4, <2>1, <1>t DEF SlotRecords, Slot, Revision
  <2>3. slots' \in [0..1 -> Slot']
    BY <2>1, <2>2
  <2>4. intents' \in [1..MaxRevisions -> Intent']
    <3>1. intents \in [1..MaxRevisions -> Intent]
      BY DEF ReadInv, ProjectionTypeOK
    <3>2. Intent \subseteq Intent'
      BY <1>1, <1>t DEF Intent
    <3> QED
      BY <1>1, <3>1, <3>2
  <2>5. view' \in 0..gens'
    BY <1>1, <1>t
  <2> QED
    BY <1>1, <1>2, <2>3, <2>4, <2>5, <1>t DEF ReadInv, ProjectionTypeOK, Revision
<1>6. Activations'
  BY <1>1 DEF ReadInv, Activations, IsActivated
<1>7. SlotsAreKnown'
  <2>1. \A r \in 1..MaxRevisions : intents[r].gen # gens + 1
    BY <1>t
  <2>2. slots'[0].gen = slots'[1].gen => slots'[0].gen = 0
    BY <1>3, <1>t
  <2>3. ASSUME NEW i \in 0..1, NEW r \in 1..MaxRevisions,
               IsActivated(r), slots'[i].gen = intents[r].gen
        PROVE  slots'[i].projected = r /\ slots'[i].read = intents[r].view
    <3>1. i # worker.slot
      BY <1>3, <2>1, <2>3
    <3> QED
      BY <1>3, <2>3, <3>1 DEF ReadInv, SlotsAreKnown
  <2> QED
    BY <1>1, <1>4, <2>2, <2>3 DEF SlotsAreKnown, IsActivated
<1>8. Authority' = Authority
  BY <1>1 DEF Authority, Activated
<1>9. Readable(Authority)' = Readable(Authority)
  <2>1. Authority \in Nat /\ Authority <= gens
    BY VisibleIs DEF ReadInv
  <2>2. \A i \in 0..1 : i \in Readable(Authority)' <=> i \in Readable(Authority)
    BY <1>3, <1>8, <1>t, <2>1 DEF Readable
  <2> QED
    BY <2>2 DEF Readable
<1>10. VisibleRevision' = VisibleRevision /\ VisibleRevision \in Nat
  <2>1. VisibleRevision = IF Readable(Authority) = {} THEN 0 ELSE completed
    BY VisibleIs DEF ReadInv
  <2>2. (ProjectionTypeOK /\ Activations /\ SlotsAreKnown =>
            VisibleRevision = IF Readable(Authority) = {} THEN 0 ELSE completed)'
    BY VisibleIs, PTL
  <2> QED
    BY <1>1, <1>5, <1>6, <1>7, <1>9, <1>t, <2>1, <2>2
<1>11. TaskIsAhead'
  BY <1>1, <1>2, <1>3, <1>t DEF TaskIsAhead
<1>12. PagesAreKnown'
  BY <1>1, <1>t, PagesStay DEF Canonical
<1> QED
  BY <1>1, <1>5, <1>6, <1>7, <1>8, <1>10, <1>11, <1>12, <1>t DEF ReadInv, ViewAdvances

\* An activation is of a later revision and a larger view than the last one, and
\* shows what it activated.
LEMMA ActivateReads ==
    ASSUME SlotInv, SlotInv', ReadInv, Activate
    PROVE  ReadInv' /\ ViewAdvances
<1> DEFINE w == worker.slot
<1>t. /\ Len(history) \in Nat /\ completed \in Nat /\ MaxRevisions \in Nat /\ view \in Nat
      /\ gens \in Nat /\ Len(history) <= MaxRevisions
      /\ worker \in Workers /\ w \in 0..1 /\ worker.phase = "built"
      /\ \A i \in 0..1 : /\ slots[i].gen \in Nat /\ slots[i].gen <= gens
                         /\ slots[i].read \in Nat /\ slots[i].read <= gens
                         /\ slots[i].projected \in 0..Len(history)
  BY ReadTypes DEF ReadInv, SlotInv, SlotTypes, Workers, SlotsAreKnown, Activations, Activate
<1>a. slots[w].gen # 0 /\ slots[w].projected > completed /\ slots[w].read > view
  BY <1>t DEF ReadInv, TaskIsAhead
<1> DEFINE s == slots[w]
           p == slots[w].projected
<1>p. p \in 1..Len(history) /\ p \in 1..MaxRevisions
  BY <1>a, <1>t
<1>1. /\ UNCHANGED <<history, work, slots, gens, scheduled, dropped, acking, bridge,
                     shown, page, faults>>
      /\ view' = s.read
      /\ worker' = [Idle EXCEPT !.phase = "done"]
      /\ completed' = p
      /\ intents' = [r \in 1..MaxRevisions |->
                        IF r = p THEN [state |-> "activated", gen |-> s.gen, view |-> s.read]
                        ELSE IF r < p /\ intents[r].state = "pending"
                             THEN [intents[r] EXCEPT !.state = "superseded"]
                             ELSE intents[r]]
  BY <1>a DEF Activate, projectionVars, readerVars
<1>2. intents'[p] = [state |-> "activated", gen |-> s.gen, view |-> s.read]
  BY <1>1, <1>p
<1>3. intents \in [1..MaxRevisions -> Intent]
  BY DEF ReadInv, ProjectionTypeOK
<1>4. ASSUME NEW r \in 1..MaxRevisions, r # p
      PROVE  /\ intents'[r] \in Intent
             /\ \/ intents'[r] = intents[r] /\ (intents[r].state = "pending" => r > p)
                \/ r < p /\ intents[r].state = "pending" /\ intents'[r].state = "superseded"
  <2>1. intents[r] \in Intent
    BY <1>3
  <2>2. intents'[r] = IF r < p /\ intents[r].state = "pending"
                      THEN [intents[r] EXCEPT !.state = "superseded"] ELSE intents[r]
    BY <1>1, <1>4
  <2>3. CASE r < p /\ intents[r].state = "pending"
    BY <2>1, <2>2, <2>3 DEF Intent
  <2>4. CASE ~(r < p /\ intents[r].state = "pending")
    <3>1. intents[r].state = "pending" => r > p
      BY <1>4, <1>p, <1>t, <2>4
    <3> QED
      BY <2>1, <2>2, <2>4, <3>1
  <2> QED
    BY <2>3, <2>4
<1> HIDE DEF s, p, w
<1>5. ProjectionTypeOK'
  <2>1. intents'[p] \in Intent
    BY <1>2, <1>t DEF Intent, s, w
  <2>2. intents' \in [1..MaxRevisions -> Intent]
    BY <1>1, <1>4, <2>1
  <2>3. worker'.phase = "done" /\ worker'.slot = 0 /\ worker'.target = 0
    BY <1>1 DEF Idle
  <2>4. view' \in 0..gens /\ completed' \in 0..Len(history)
    BY <1>1, <1>p, <1>t DEF s, w
  <2>5. Intent' = Intent /\ Slot' = Slot /\ Revision' = Revision
    BY <1>1 DEF Intent, Slot, Revision
  <2>6. /\ worker'.phase \in {"idle", "start", "build", "built", "done", "none"}
        /\ worker'.slot \in 0..1 /\ worker'.target \in 0..Revision'
    BY <1>t, <2>3, <2>5 DEF Revision
  <2>7. view' \in 0..gens' /\ completed' \in 0..Revision'
    BY <1>1, <2>4, <2>5 DEF Revision
  <2>8. ProjectionTypeOK
    BY DEF ReadInv
  <2> QED
    BY <1>1, <2>2, <2>5, <2>6, <2>7, <2>8 DEF ProjectionTypeOK
<1>6. \A r \in 1..MaxRevisions : IsActivated(r) => r # p /\ intents'[r] = intents[r]
  <2>1. \A r \in 1..MaxRevisions : IsActivated(r) => r # p
    BY <1>a, <1>p, <1>t DEF ReadInv, Activations, IsActivated, s, p, w
  <2> QED
    BY <1>4, <2>1 DEF IsActivated
<1>7. \A r \in 1..MaxRevisions : intents'[r].state = "activated" => r = p \/ IsActivated(r)
  BY <1>4 DEF IsActivated
<1>8. \A r \in 1..MaxRevisions : IsActivated(r) =>
          /\ intents[r].gen # 0 /\ r <= completed
          /\ intents[r].view \in Nat /\ intents[r].view <= view
  <2>1. \A r \in 1..MaxRevisions : intents[r].view \in Nat
    BY ReadTypes DEF ReadInv
  <2>2. completed # 0 => completed \in 1..MaxRevisions
    BY <1>t DEF ReadInv, Activations
  <2>3. IF view = 0 THEN completed = 0
        ELSE completed # 0 /\ intents[completed].view = view
    BY DEF ReadInv, Activations
  <2>4. ASSUME NEW r \in 1..MaxRevisions, IsActivated(r)
        PROVE  intents[r].gen # 0 /\ r <= completed
    BY <2>4 DEF ReadInv, Activations, IsActivated
  <2>5. ASSUME NEW r \in 1..MaxRevisions, IsActivated(r)
        PROVE  intents[r].view <= view
    <3>1. r # completed => intents[r].view < view
      BY <2>5 DEF ReadInv, Activations, IsActivated
    <3>2. r = completed => intents[r].view = view
      BY <1>t, <2>3, <2>4, <2>5
    <3> QED
      BY <1>t, <2>1, <3>1, <3>2
  <2> QED
    BY <2>1, <2>4, <2>5
<1>9. Activations'
  <2>1. completed' # 0 /\ intents'[p].state = "activated" /\ intents'[p].view = view'
    BY <1>1, <1>2, <1>p, <1>t
  <2>2. view' # 0 /\ view' > view /\ view' \in Nat
    BY <1>1, <1>a, <1>t DEF s, w
  <2>3. ASSUME NEW r \in 1..MaxRevisions, intents'[r].state = "activated"
        PROVE  intents'[r].gen # 0 /\ r <= p /\ (r # p => intents'[r].view < view')
    <3>1. CASE r = p
      BY <1>2, <1>a, <3>1, <1>p, <1>t DEF s, w
    <3>2. CASE r # p
      <4>1. IsActivated(r) /\ intents'[r] = intents[r]
        BY <1>6, <1>7, <2>3, <3>2
      <4>2. intents[r].gen # 0 /\ r <= completed
            /\ intents[r].view \in Nat /\ intents[r].view <= view
        BY <1>8, <4>1
      <4>3. completed < p
        BY <1>a DEF p, w
      <4>4. r <= p
        BY <4>2, <4>3, <1>p, <1>t
      <4>5. intents'[r].view < view'
        BY <2>2, <4>1, <4>2, <1>t
      <4> QED
        BY <4>1, <4>2, <4>4, <4>5
    <3> QED
      BY <3>1, <3>2
  <2>4. ASSUME NEW r \in 1..MaxRevisions, intents'[r].state = "pending"
        PROVE  p < r /\ r <= Len(history)
    <3>1. r # p
      BY <1>2, <2>4
    <3>2. intents'[r] = intents[r] /\ intents[r].state = "pending" /\ r > p
      BY <1>4, <2>4, <3>1
    <3> QED
      BY <3>2, <1>p, <1>t DEF ReadInv, Activations
  <2>5. p <= Len(history)
    BY <1>p, <1>t
  <2> QED
    BY <1>1, <1>t, <2>1, <2>2, <2>3, <2>4, <2>5 DEF Activations, IsActivated
<1>10. SlotsAreKnown'
  <2>1. ASSUME NEW i \in 0..1, NEW r \in 1..MaxRevisions,
               intents'[r].state = "activated", slots[i].gen = intents'[r].gen
        PROVE  slots[i].projected = r /\ slots[i].read = intents'[r].view
    <3>1. CASE r = p
      <4>1. slots[i].gen = slots[w].gen /\ slots[i].gen # 0
        BY <1>2, <1>a, <2>1, <3>1 DEF s, w
      <4>2. i = w
        BY <1>t, <4>1 DEF ReadInv, SlotsAreKnown
      <4> QED
        BY <1>2, <3>1, <4>2 DEF s, p
    <3>2. CASE r # p
      <4>1. IsActivated(r) /\ intents'[r] = intents[r]
        BY <1>6, <1>7, <2>1, <3>2
      <4> QED
        BY <2>1, <4>1 DEF ReadInv, SlotsAreKnown
    <3> QED
      BY <3>1, <3>2
  <2> QED
    BY <1>1, <2>1 DEF ReadInv, SlotsAreKnown, IsActivated
<1>11. TaskIsAhead'
  BY <1>1 DEF TaskIsAhead, Idle
<1>12. PagesAreKnown'
  BY <1>1, <1>6, <1>t, PagesStay DEF Canonical
<1>13. view' > view /\ view' >= view
  BY <1>1, <1>a, <1>t DEF s, w
<1>14. ~(VisibleRevision' < VisibleRevision)
  <2>1. VisibleRevision \in 0..completed
    BY <1>t, VisibleIs DEF ReadInv
  <2>2. (ProjectionTypeOK /\ Activations
          => Authority = IF view = 0 THEN 0 ELSE intents[completed].gen)'
    BY AuthorityIs, PTL
  <2>3. (ProjectionTypeOK /\ Activations /\ SlotsAreKnown =>
            VisibleRevision = IF Readable(Authority) = {} THEN 0 ELSE completed)'
    BY VisibleIs, PTL
  <2>4. Authority' = s.gen
    BY <1>1, <1>2, <1>5, <1>9, <1>13, <1>t, <2>2
  <2>5. w \in Readable(Authority)'
    BY <1>1, <1>a, <1>t, <2>4 DEF Readable, s, w
  <2>6. VisibleRevision' = p
    BY <1>1, <1>5, <1>9, <1>10, <2>3, <2>5
  <2>7. completed < p
    BY <1>a DEF p, w
  <2> QED
    BY <2>1, <2>6, <2>7, <1>p, <1>t
<1> QED
  BY <1>5, <1>9, <1>10, <1>11, <1>12, <1>13, <1>14 DEF ReadInv, ViewAdvances

\* A lost file takes what was visible with it; what was activated is remembered.
LEMMA LostReads ==
    ASSUME SlotInv, SlotInv', ReadInv, ProjectionLost
    PROVE  ReadInv' /\ ViewAdvances
<1>t. /\ Len(history) \in Nat /\ view \in Nat /\ gens \in Nat /\ faults \in 0..MaxFaults
      /\ MaxFaults \in Nat
  BY ReadTypes, ProjectionBoundsAssumption DEF ReadInv, ProjectionTypeOK
<1>1. /\ UNCHANGED <<history, work, completed, view, intents, gens>>
      /\ \A i \in 0..1 : slots'[i] = NoSlot
      /\ slots' = [i \in 0..1 |-> NoSlot]
      /\ worker' = [Idle EXCEPT !.phase = "start"] \/ worker' = Idle
      /\ scheduled' \in BOOLEAN /\ dropped' \in BOOLEAN /\ acking' = FALSE
      /\ bridge' = "none" /\ shown' = 0 /\ page' = NoPage
      /\ faults' = faults + 1 /\ faults < MaxFaults
  BY DEF ProjectionLost, Restart, Fault, canonicalVars
<1>2. worker'.phase \in {"idle", "start"} /\ worker'.slot = 0 /\ worker'.target = 0
  BY <1>1 DEF Idle
<1>3. ProjectionTypeOK'
  <2>1. NoSlot \in Slot'
    BY <1>1, <1>t DEF NoSlot, Slot, Rows, NoRows, Revision
  <2>2. intents' \in [1..MaxRevisions -> Intent']
    BY <1>1 DEF ReadInv, ProjectionTypeOK, Intent
  <2>3. faults' \in 0..MaxFaults
    BY <1>1, <1>t
  <2>4. page'.phase = "none" /\ page'.rows \in Rows
    BY <1>1 DEF NoPage, NoRows, Rows
  <2>5. slots' \in [0..1 -> Slot']
    BY <1>1, <2>1
  <2>6. /\ history' \in Seq(Rows) /\ Len(history') = Len(work')
        /\ completed' \in 0..Len(history')
        /\ work' \in Seq([kind : {"entity", "coverage", "reseed"}, convs : SUBSET Convs])
        /\ view' \in 0..gens' /\ gens' \in Nat
        /\ worker'.target \in 0..Len(history') /\ shown' \in 0..Len(history')
    BY <1>1, <1>2, <1>t DEF ReadInv, ProjectionTypeOK, Revision
  <2>7. /\ scheduled' \in BOOLEAN /\ dropped' \in BOOLEAN /\ acking' \in BOOLEAN
        /\ bridge' \in {"none", "bound", "live"}
    BY <1>1
  <2> QED
    BY ONLY <1>2, <2>2, <2>3, <2>4, <2>5, <2>6, <2>7 DEF ProjectionTypeOK, Revision
<1>4. Activations'
  BY <1>1 DEF ReadInv, Activations, IsActivated
<1>5. SlotsAreKnown'
  BY <1>1, <1>t DEF ReadInv, SlotsAreKnown, Activations, IsActivated, NoSlot
<1>6. TaskIsAhead' /\ PagesAreKnown'
  BY <1>1, <1>2 DEF TaskIsAhead, PagesAreKnown, NoPage
<1>7. Authority' = Authority
  BY <1>1 DEF Authority, Activated
<1> QED
  BY <1>1, <1>3, <1>4, <1>5, <1>6, <1>7, <1>t DEF ReadInv, ViewAdvances

\* The rows a reader takes are of the generation whose authority it holds.
LEMMA RowsReads ==
    ASSUME SlotInv, ReadInv, ReadRows
    PROVE  ReadInv' /\ ViewAdvances
<1>1. /\ UNCHANGED <<history, work, completed, view, intents, slots, gens, worker, scheduled,
                     dropped, acking, bridge, shown, faults>>
      /\ page.phase = "authority"
  BY DEF ReadRows, canonicalVars, projectionVars, taskVars
<1>2. CASE Readable(page.auth) = {}
  <2>1. page' = NoPage
    BY <1>2 DEF ReadRows
  <2>2. ProjectionTypeOK'
    <3>1. page'.phase = "none" /\ page'.rows \in Rows
      BY <2>1 DEF NoPage, NoRows, Rows
    <3> QED
      BY <1>1, <3>1 DEF ReadInv, ProjectionTypeOK, Revision, Intent, Slot
  <2> QED
    BY <1>1, <2>1, <2>2, QuietReads
<1>3. CASE Readable(page.auth) # {}
  <2>1. PICK i \in Readable(page.auth) : i = CHOOSE j \in Readable(page.auth) : TRUE
    BY <1>3
  <2>2. i \in 0..1 /\ page.auth # 0 /\ slots[i].gen = page.auth
    BY <2>1 DEF Readable
  <2>3. page' = [phase |-> "rows", auth |-> 0, gen |-> slots[i].gen, read |-> slots[i].read,
                 projected |-> slots[i].projected, rows |-> slots[i].rows]
    <3>1. page' = LET s == slots[CHOOSE j \in Readable(page.auth) : TRUE]
                  IN  [phase |-> "rows", auth |-> 0, gen |-> s.gen, read |-> s.read,
                       projected |-> s.projected, rows |-> s.rows]
      BY <1>3, Zenon DEF ReadRows
    <3> QED
      BY <2>1, <3>1, Zenon
  <2>4. /\ slots[i].rows = Canonical(slots[i].projected) /\ slots[i].projected \in 0..Len(history)
        /\ slots[i].rows \in Rows
    <3>1. slots[i].gen # 0
      BY <2>2
    <3>2. slots[i].projected \in 0..Len(history) /\ slots[i].rows \in Rows
      BY <2>2, ReadTypes DEF ReadInv
    <3> QED
      BY <2>2, <3>1, <3>2 DEF SlotInv, SlotsAreExact
  <2>5. PICK r \in 1..MaxRevisions : IsActivated(r) /\ intents[r].gen = page.auth
    BY <1>1, <2>2 DEF ReadInv, PagesAreKnown
  <2>6. slots[i].read = intents[r].view
    BY <2>2, <2>5 DEF ReadInv, SlotsAreKnown
  <2>7. PagesAreKnown'
    <3>1. /\ page'.phase = "rows" /\ page'.rows = slots[i].rows
          /\ page'.projected = slots[i].projected
          /\ page'.gen = intents[r].gen /\ page'.read = intents[r].view
      BY <2>2, <2>3, <2>5, <2>6
    <3>2. IsActivated(r)' /\ intents'[r] = intents[r]
      BY <1>1, <2>5 DEF IsActivated
    <3>3. page'.rows = Canonical(page.projected)' /\ page'.projected \in 0..Len(history')
      BY <1>1, <2>4, <3>1 DEF Canonical
    <3>4. \E q \in 1..MaxRevisions :
              IsActivated(q)' /\ intents'[q].gen = page'.gen /\ intents'[q].view = page'.read
      BY <3>1, <3>2
    <3> QED
      BY <3>1, <3>3, <3>4 DEF PagesAreKnown
  <2>8. ProjectionTypeOK'
    <3>1. page'.phase = "rows" /\ page'.rows \in Rows
      BY <2>3, <2>4
    <3> QED
      BY <1>1, <3>1 DEF ReadInv, ProjectionTypeOK, Revision, Intent, Slot
  <2> QED
    BY <1>1, <2>7, <2>8, QuietReads
<1> QED
  BY <1>2, <1>3

\* Every step keeps what readers see activated, and only moves it on.
LEMMA ReadStep ==
    SlotInv /\ SlotInv' /\ ReadInv /\ [ProjectionNext]_vars => ReadInv' /\ ViewAdvances
<1> SUFFICES ASSUME SlotInv, SlotInv', ReadInv, [ProjectionNext]_vars
             PROVE  ReadInv' /\ ViewAdvances
  OBVIOUS
<1> USE DEF canonicalVars, projectionVars, taskVars, readerVars
<1>t. ProjectionTypeOK
  BY DEF ReadInv
<1>s. VisibleRevision \in 0..Len(history)
  BY VisibleIs, ReadTypes DEF ReadInv, Activations
<1>i. /\ Idle.phase = "idle" /\ Idle.slot = 0 /\ Idle.target = 0
      /\ [Idle EXCEPT !.phase = "start"].phase = "start"
      /\ [Idle EXCEPT !.phase = "start"].slot = 0
      /\ [Idle EXCEPT !.phase = "start"].target = 0
  BY DEF Idle
<1>p. NoPage.phase = "none" /\ NoPage.rows \in Rows
  BY DEF NoPage, NoRows, Rows
<1>1. ASSUME NEW kind \in Kinds, NEW convs \in SUBSET Convs, NEW cs, Commit(kind, convs, cs)
      PROVE  ReadInv' /\ ViewAdvances
  BY <1>1, CommitReads
<1>2. CommitDelta \/ CommitSnapshot => ReadInv' /\ ViewAdvances
  BY <1>1 DEF CommitDelta, CommitSnapshot, Kinds
<1>3. CASE AckSent \/ SendSnapshot
  <2>1. UNCHANGED <<history, work, completed, view, intents, slots, gens, page, faults>>
    BY <1>3 DEF AckSent, SendSnapshot
  <2>2. /\ worker' = worker \/ worker' = [Idle EXCEPT !.phase = "start"]
        /\ scheduled' \in BOOLEAN /\ dropped' \in BOOLEAN
    BY <1>3 DEF AckSent, SendSnapshot, Schedule
  <2>3. /\ acking' \in BOOLEAN /\ bridge' \in {"none", "bound", "live"}
        /\ shown' \in 0..Len(history)
    BY <1>3, <1>s, <1>t DEF AckSent, SendSnapshot, ProjectionTypeOK, Revision
  <2>4. ProjectionTypeOK'
    <3>1. /\ worker'.phase \in {"idle", "start", "build", "built", "done", "none"}
          /\ worker'.slot \in 0..1 /\ worker'.target \in 0..Len(history)
      <4>1. CASE worker' = worker
        BY <1>t, <4>1 DEF ProjectionTypeOK, Revision
      <4>2. CASE worker' = [Idle EXCEPT !.phase = "start"]
        BY <1>i, <1>t, <4>2, ReadTypes
      <4> QED
        BY <2>2, <4>1, <4>2
    <3>2. /\ page'.phase \in {"none", "authority", "rows"} /\ page'.rows \in Rows
          /\ faults' \in 0..MaxFaults
      BY <1>t, <2>1 DEF ProjectionTypeOK
    <3>3. UNCHANGED work
      BY <1>3 DEF AckSent, SendSnapshot
    <3> QED
      BY <1>t, <2>1, <2>2, <2>3, <3>1, <3>2, <3>3, QuietTypes
  <2> QED
    BY <1>i, <2>1, <2>2, <2>4, QuietReads
<1>4. CASE AckFails \/ BindBridge \/ DisconnectBridge \/ EndPage
  <2>1. /\ UNCHANGED <<history, work, completed, view, intents, slots, gens, worker, scheduled>>
        /\ page' \in {page, NoPage}
        /\ acking' \in {acking, FALSE} /\ dropped' \in {dropped, TRUE}
        /\ bridge' \in {bridge, "none", "bound"} /\ shown' \in {shown, 0}
        /\ \/ faults' = faults
           \/ faults < MaxFaults /\ faults' = faults + 1
    BY <1>4 DEF AckFails, BindBridge, DisconnectBridge, EndPage, Fault
  <2>2. /\ acking' \in BOOLEAN /\ dropped' \in BOOLEAN /\ scheduled' \in BOOLEAN
    BY <1>t, <2>1 DEF ProjectionTypeOK
  <2>3. ProjectionTypeOK'
    <3>1. /\ worker'.phase \in {"idle", "start", "build", "built", "done", "none"}
          /\ worker'.slot \in 0..1 /\ worker'.target \in 0..Len(history)
      BY <1>t, <2>1 DEF ProjectionTypeOK, Revision
    <3>2. /\ page'.phase \in {"none", "authority", "rows"} /\ page'.rows \in Rows
      BY <1>p, <1>t, <2>1 DEF ProjectionTypeOK
    <3>3. /\ bridge' \in {"none", "bound", "live"} /\ shown' \in 0..Len(history)
          /\ faults' \in 0..MaxFaults
      BY <1>t, <2>1, ReadTypes, ProjectionBoundsAssumption DEF ProjectionTypeOK, Revision
    <3>4. UNCHANGED work
      BY <2>1
    <3> QED
      BY <1>t, <2>1, <2>2, <3>1, <3>2, <3>3, <3>4, QuietTypes
  <2> QED
    BY <2>1, <2>3, QuietReads
<1>5. CASE ReadAuthority
  <2>1. /\ UNCHANGED <<history, work, completed, view, intents, slots, gens, worker, scheduled,
                       dropped, acking, bridge, shown, faults>>
        /\ page' = [NoPage EXCEPT !.phase = "authority", !.auth = Authority]
    BY <1>5 DEF ReadAuthority
  <2>2. page'.phase = "authority" /\ page'.auth = Authority /\ page'.rows \in Rows
    BY <1>p, <2>1 DEF NoPage
  <2>3. PagesAreKnown'
    <3>1. Authority # 0 => completed \in 1..MaxRevisions /\ IsActivated(completed)
                           /\ intents[completed].gen = Authority
      BY AuthorityIs, ReadTypes DEF ReadInv, Activations
    <3>2. ASSUME Authority # 0
          PROVE  \E r \in 1..MaxRevisions : IsActivated(r)' /\ intents'[r].gen = Authority
      BY <2>1, <3>1, <3>2 DEF IsActivated
    <3> QED
      BY <2>2, <3>2 DEF PagesAreKnown
  <2>4. ProjectionTypeOK'
    BY <1>t, <2>1, <2>2 DEF ProjectionTypeOK, Revision, Intent, Slot
  <2> QED
    BY <2>1, <2>3, <2>4, QuietReads
<1>6. CASE ReadRows
  BY <1>6, RowsReads
<1>7. CASE CatchUp
  BY <1>7, CatchUpReads
<1>8. CASE BuildGeneration
  BY <1>8, BuildReads
<1>9. CASE Activate
  BY <1>9, ActivateReads
<1>10. CASE Broadcast \/ WorkerReturns \/ WorkerFails \/ BrainRestart
  <2>1. /\ UNCHANGED <<history, work, completed, view, intents, slots, gens>>
        /\ page' \in {page, NoPage}
    BY <1>10 DEF Broadcast, WorkerReturns, WorkerFails, BrainRestart, Restart
  <2>2. worker' = Idle \/ worker' = [Idle EXCEPT !.phase = "start"]
    BY <1>10 DEF Broadcast, WorkerReturns, WorkerFails, BrainRestart, Restart, Idle
  <2>3. /\ scheduled' \in BOOLEAN /\ dropped' \in BOOLEAN /\ acking' \in BOOLEAN
    <3>1. scheduled \in BOOLEAN /\ dropped \in BOOLEAN /\ acking \in BOOLEAN
      BY <1>t DEF ProjectionTypeOK
    <3>2. CASE Broadcast
      BY <3>1, <3>2 DEF Broadcast
    <3>3. CASE WorkerReturns
      BY <3>1, <3>3 DEF WorkerReturns, LooksAgain
    <3>4. CASE WorkerFails
      BY <3>1, <3>4 DEF WorkerFails
    <3>5. CASE BrainRestart
      BY <3>5 DEF BrainRestart, Restart
    <3> QED
      BY <1>10, <3>2, <3>3, <3>4, <3>5
  <2>4. /\ bridge' \in {"none", "bound", "live"}
        /\ shown' \in 0..Len(history) /\ faults' \in 0..MaxFaults
    <3>1. /\ bridge \in {"none", "bound", "live"}
          /\ shown \in 0..Len(history) /\ faults \in 0..MaxFaults
      BY <1>t DEF ProjectionTypeOK, Revision
    <3>2. 0 \in 0..Len(history)
      BY <1>t, ReadTypes
    <3>3. CASE Broadcast
      BY <1>s, <3>1, <3>3 DEF Broadcast
    <3>4. CASE WorkerReturns
      BY <3>1, <3>4 DEF WorkerReturns, readerVars
    <3>5. faults < MaxFaults => faults + 1 \in 0..MaxFaults
      BY <3>1, ProjectionBoundsAssumption
    <3>6. CASE WorkerFails
      BY <3>1, <3>5, <3>6 DEF WorkerFails, Fault, readerVars
    <3>7. CASE BrainRestart
      BY <3>1, <3>2, <3>5, <3>7 DEF BrainRestart, Restart, Fault
    <3> QED
      BY <1>10, <3>3, <3>4, <3>6, <3>7
  <2>5. ProjectionTypeOK'
    <3>1. /\ worker'.phase \in {"idle", "start", "build", "built", "done", "none"}
          /\ worker'.slot \in 0..1 /\ worker'.target \in 0..Len(history)
      <4>1. worker'.phase \in {"idle", "start"} /\ worker'.slot = 0 /\ worker'.target = 0
        BY <1>i, <2>2
      <4> QED
        BY <1>t, <4>1, ReadTypes
    <3>2. /\ page'.phase \in {"none", "authority", "rows"} /\ page'.rows \in Rows
      BY <1>p, <1>t, <2>1 DEF ProjectionTypeOK
    <3> QED
      BY <1>t, <2>1, <2>3, <2>4, <3>1, <3>2, QuietTypes
  <2> QED
    BY <1>i, <2>1, <2>2, <2>5, QuietReads
<1>11. CASE ProjectionLost
  BY <1>11, LostReads
<1>12. CASE UNCHANGED vars
  <2>1. UNCHANGED <<history, work, completed, view, intents, slots, gens, worker, scheduled, dropped,
                    acking, bridge, shown, page, faults>>
    BY <1>12 DEF vars
  <2>2. ProjectionTypeOK'
    BY <1>t, <2>1 DEF ProjectionTypeOK, Revision, Intent, Slot
  <2> QED
    BY <2>1, <2>2, QuietReads
<1> QED
  BY <1>2, <1>3, <1>4, <1>5, <1>6, <1>7, <1>8, <1>9, <1>10, <1>11, <1>12 DEF ProjectionNext

\* Before the first commit nothing is activated and nothing is read.
LEMMA ReadInvInit == ProjectionInit => ReadInv
<1> SUFFICES ASSUME ProjectionInit PROVE ReadInv
  OBVIOUS
<1> USE ProjectionBoundsAssumption DEF ProjectionInit
<1>1. Len(history) = 0 /\ Len(work) = 0
  OBVIOUS
<1>2. ProjectionTypeOK
  <2>1. NoRows \in Rows
    BY DEF NoRows, Rows
  <2>2. NoSlot \in Slot
    BY <1>1, <2>1 DEF NoSlot, Slot, Revision
  <2>3. NoIntent \in Intent
    BY DEF NoIntent, Intent
  <2>4. page.phase = "none" /\ page.rows \in Rows
    BY <2>1 DEF NoPage
  <2>5. worker.phase = "idle" /\ worker.slot = 0 /\ worker.target = 0
    BY DEF Idle
  <2>6. slots \in [0..1 -> Slot] /\ intents \in [1..MaxRevisions -> Intent]
    BY <2>2, <2>3
  <2>7. history \in Seq(Rows) /\ work \in Seq(Items) /\ gens \in Nat /\ view \in 0..gens
    OBVIOUS
  <2>8. completed \in 0..Len(history) /\ shown \in 0..Len(history) /\ faults \in 0..MaxFaults
    BY <1>1
  <2>9. /\ scheduled \in BOOLEAN /\ dropped \in BOOLEAN /\ acking \in BOOLEAN
        /\ bridge \in {"none", "bound", "live"}
    OBVIOUS
  <2> QED
    BY ONLY <1>1, <2>3, <2>4, <2>5, <2>6, <2>7, <2>8, <2>9
    DEF ProjectionTypeOK, Revision, Items, Kinds
<1>3. Activations
  BY <1>1 DEF Activations, IsActivated, NoIntent
<1>4. SlotsAreKnown
  BY DEF SlotsAreKnown, IsActivated, NoIntent, NoSlot
<1>5. TaskIsAhead /\ PagesAreKnown
  BY DEF TaskIsAhead, PagesAreKnown, Idle, NoPage
<1> QED
  BY <1>2, <1>3, <1>4, <1>5 DEF ReadInv

\* A page that is served was read from a generation that was activated and is
\* the canonical rows of the revision it names, whatever is committed, built,
\* activated, restarted or lost while it is read (get_message_page).
THEOREM ReadersAreServedActivated == ProjectionSpec => []ReadersSeeActivated
<1>1. ReadInv => ReadersSeeActivated
  BY DEF ReadInv, ReadersSeeActivated, PagesAreOfActivated, Serves, PagesAreKnown, IsActivated
<1> QED
  BY <1>1, SlotInvInit, SlotInvStep, ReadInvInit, ReadStep, PTL DEF ProjectionSpec

\* What is visible changes only with a larger view revision, and goes back to an
\* earlier revision only when the projection file is lost: a build is always in
\* the other slot, and recovery activates only what is beyond the last activation
\* (catch_up and _activate_committed_projection).
THEOREM VisibleNeverGoesBack == ProjectionSpec => VisibleAdvances
<1>1. SlotInv /\ SlotInv' /\ ReadInv /\ [ProjectionNext]_vars
          => [/\ view' >= view
              /\ Authority # Authority' => view' > view
              /\ VisibleRevision' < VisibleRevision => ProjectionLost]_vars
  BY ReadStep DEF ViewAdvances
<1> QED
  BY <1>1, SlotInvInit, SlotInvStep, ReadInvInit, ReadStep, PTL DEF ProjectionSpec, VisibleAdvances
=============================================================================
