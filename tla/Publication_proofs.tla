------------------------- MODULE Publication_proofs -------------------------
(***************************************************************************)
(* Proofs about the publication of generations, for every set of stores    *)
(* and generations, every retention and every number of revisions.         *)
(***************************************************************************)
EXTENDS Publication, TLAPS

\* The phases in which a thread has a generation at hand.
Working == Publishing \cup (Opening \ {"reconcile"})

CurIsAtHand == \A s \in Stores : pc[s] \in Working => cur[s] \in Gens

TypeInv == PublicationTypeOK /\ CurIsAtHand

Settled == {"completed", "cancelled"}

\* Whoever is about to activate a generation has seen its witness completed.
Checked == {"completed", "cleared", "check", "activate"}
SeenSettled == \A s \in Stores : pc[s] \in Checked => wit[cur[s]] \in Settled

WitnessInv == ActiveWasWitnessed /\ SeenSettled

\* A generation expects to replace one that was active when it was staged,
\* at the revision the account had then or an earlier one.
OneActive ==
    \A g, h \in Gens : status[g] = "active" /\ status[h] = "active" => g = h
RevsOfThePast == \A g \in Gens : ident[g].rev <= canon
PrevIsOlder ==
    \A h \in Gens : ident[h].prev # NoGen =>
        /\ status[ident[h].prev] # "absent"
        /\ ident[ident[h].prev].rev <= ident[h].rev

OrderInv == OneActive /\ RevsOfThePast /\ PrevIsOlder

-----------------------------------------------------------------------------
\* What the collector keeps is a sequence of generations.
LEMMA KeptIsSeq ==
    ASSUME NEW q \in Seq(Gens)
    PROVE  Kept(q) \in Seq(Gens)
<1>1. CASE Len(q) <= Retention
  BY <1>1 DEF Kept
<1>2. CASE ~(Len(q) <= Retention)
  <2>1. /\ Len(q) \in Nat /\ Retention \in Nat
        /\ Len(q) - Retention + 1 \in 1..Len(q) + 1
    BY <1>2, PublicationAssumption
  <2>2. SubSeq(q, Len(q) - Retention + 1, Len(q)) \in Seq(Gens)
    BY <2>1
  <2> QED
    BY <1>2, <2>2 DEF Kept
<1> QED
  BY <1>1, <1>2

\* Collecting keeps the types of the rows.
LEMMA CollectTypes ==
    ASSUME NEW st \in [Gens -> Statuses], NEW q \in Seq(Gens), Collect(st, q)
    PROVE  status' \in [Gens -> Statuses] /\ retired' \in Seq(Gens)
<1>1. retired' \in Seq(Gens)
  BY KeptIsSeq DEF Collect
<1>2. status' \in [Gens -> Statuses]
  BY DEF Collect, Statuses
<1> QED
  BY <1>1, <1>2

\* Retiring a row keeps the types of the rows.
LEMMA RetireTypes ==
    ASSUME TypeInv, NEW g \in Gens, NEW from, Retire(g, from)
    PROVE  status' \in [Gens -> Statuses] /\ retired' \in Seq(Gens)
<1> USE DEF TypeInv, PublicationTypeOK
<1>1. CASE status[g] \in from
  <2>1. status' = [status EXCEPT ![g] = "retired"] /\ retired' = Append(retired, g)
    BY <1>1 DEF Retire
  <2>2. "retired" \in Statuses
    BY DEF Statuses
  <2> QED
    BY <2>1, <2>2
<1>2. CASE status[g] \notin from
  BY <1>2 DEF Retire
<1> QED
  BY <1>1, <1>2

\* What an activation writes are rows.
LEMMA ActivatedTypes ==
    ASSUME TypeInv, NEW g \in Gens, status[g] # "absent"
    PROVE  Activated(g) \in [Gens -> Statuses] /\ WithReplaced(g) \in Seq(Gens)
<1>1. Activated(g) \in [Gens -> Statuses]
  BY DEF TypeInv, PublicationTypeOK, Activated, Statuses
<1>2. ident[g].prev \in Gens \cup {NoGen}
  BY DEF TypeInv, PublicationTypeOK, Identities, NoIdentity
<1>3. WithReplaced(g) \in Seq(Gens)
  BY <1>2 DEF TypeInv, PublicationTypeOK, WithReplaced
<1> QED
  BY <1>1, <1>3


-----------------------------------------------------------------------------
\* The types hold of the empty files.
LEMMA TypeInvInit == Init => TypeInv
BY PublicationAssumption
   DEF Init, TypeInv, PublicationTypeOK, CurIsAtHand, NoRows, Statuses,
       Working, Publishing, Opening, OffLine

\* The environment and the scheduler's epoch keep the types.
LEMMA TypeInvEnvironment ==
    ASSUME TypeInv,
           \/ Ingest \/ \E g \in Gens : LeaseExpires(g)
           \/ \E s \in Stores : Lose(s) \/ Scheduling(s)
    PROVE  TypeInv'
<1> USE DEF TypeInv, PublicationTypeOK, CurIsAtHand, canonical, rows, opening
<1>1. CASE Ingest
  BY <1>1, PublicationAssumption DEF Ingest
<1>2. ASSUME NEW g \in Gens, LeaseExpires(g) PROVE TypeInv'
  BY <1>2 DEF LeaseExpires
<1>3. ASSUME NEW s \in Stores, Lose(s) PROVE TypeInv'
  <2>1. "dead" \in OffLine /\ "dead" \notin Working
    BY DEF OffLine, Working, Publishing, Opening
  <2>2. NoRows \in [st : [Gens -> Statuses], leased : SUBSET Gens]
    BY DEF NoRows, Statuses
  <2> QED
    BY <1>3, <2>1, <2>2 DEF Lose, Go
<1>4. ASSUME NEW s \in Stores, Scheduling(s) PROVE TypeInv'
  <2>1. CASE OpenEpoch(s)
    BY <2>1 DEF OpenEpoch
  <2>2. CASE Fence(s)
    BY <2>2 DEF Fence
  <2>3. CASE RevokeCanonical(s)
    BY <2>3 DEF RevokeCanonical
  <2>4. CASE RevokeLocal(s)
    BY <2>4 DEF RevokeLocal
  <2> QED
    BY <1>4, <2>1, <2>2, <2>3, <2>4 DEF Scheduling
<1> QED
  BY <1>1, <1>2, <1>3, <1>4


\* A phase that has a generation at hand has one.
LEMMA AtHand ==
    ASSUME TypeInv, NEW s \in Stores, pc[s] \in Working
    PROVE  cur[s] \in Gens
BY DEF TypeInv, CurIsAtHand

\* Going on to another phase, with the same generation or with none, keeps
\* the types of the threads.
LEMMA GoTypes ==
    ASSUME TypeInv, NEW s \in Stores, NEW l \in Opening \cup Publishing,
           Go(s, l), l \in Working => cur[s] \in Gens, UNCHANGED cur
    PROVE  /\ pc' \in [Stores -> OffLine \cup Opening \cup Publishing \cup {"idle"}]
           /\ cur' \in [Stores -> Gens \cup {NoGen}]
           /\ CurIsAtHand'
BY DEF TypeInv, PublicationTypeOK, CurIsAtHand, Go

LEMMA RestTypes ==
    ASSUME TypeInv, NEW s \in Stores, Rest(s)
    PROVE  /\ pc' \in [Stores -> OffLine \cup Opening \cup Publishing \cup {"idle"}]
           /\ cur' \in [Stores -> Gens \cup {NoGen}]
           /\ CurIsAtHand'
BY DEF TypeInv, PublicationTypeOK, CurIsAtHand, Rest, Working, Publishing, Opening


\* Completing or withdrawing a witness keeps the types.
LEMMA TypeInvComplete ==
    ASSUME TypeInv, NEW s \in Stores, cur[s] \in Gens,
           NEW next \in Opening \cup Publishing,
           NEW failed \in Opening \cup Publishing,
           Complete(s, next, failed)
    PROVE  TypeInv'
<1>0. \/ wit' = [wit EXCEPT ![cur[s]] = "completed"]
      \/ wit' = [wit EXCEPT ![cur[s]] = "cancelled"]
      \/ wit' = wit
  BY DEF Complete
<1>1. wit' \in [Gens -> {"none", "reserved", "completed", "cancelled"}]
  BY <1>0 DEF TypeInv, PublicationTypeOK
<1>2. PICK l \in {next, failed} : Go(s, l)
  BY DEF Complete
<1>3. UNCHANGED <<canon, cepoch, rows, opening, cur, fenced, gone>>
  BY DEF Complete
<1> QED
  BY <1>1, <1>2, <1>3, GoTypes DEF TypeInv, PublicationTypeOK, rows, opening

LEMMA TypeInvWithdraw ==
    ASSUME TypeInv, NEW s \in Stores, cur[s] \in Gens,
           NEW next \in Opening \cup Publishing, Withdraw(s, next)
    PROVE  TypeInv'
<1>1. wit' \in [Gens -> {"none", "reserved", "completed", "cancelled"}]
  BY DEF Withdraw, TypeInv, PublicationTypeOK
<1> QED
  BY <1>1, GoTypes DEF Withdraw, TypeInv, PublicationTypeOK, rows, opening

\* Publishing keeps the types.
LEMMA TypeInvPublish ==
    ASSUME TypeInv, NEW s \in Stores, Publish(s)
    PROVE  TypeInv'
<1> USE DEF TypeInv, PublicationTypeOK, canonical, rows, opening
<1>0. /\ Publishing \subseteq Working
      /\ \A l \in {"building", "validated", "entered", "reserved", "pending",
                   "completed", "cleared", "undo", "undoRetire", "discard",
                   "discardRetire"} : l \in Publishing
  BY DEF Working, Publishing
<1>a. pc[s] \in Working => cur[s] \in Gens
  BY AtHand
<1>b. {"building", "validated", "pending", "retired", "active"} \subseteq Statuses
  BY DEF Statuses, Inactive
<1>1. ASSUME NEW g \in Gens, Stage(s, g) PROVE TypeInv'
  <2>1. PICK p \in Gens \cup {NoGen} :
          ident' = [ident EXCEPT ![g] = [rev |-> canon, prev |-> p, owner |-> s]]
    BY <1>1 DEF Stage
  <2>2. ident' \in [Gens -> Identities \cup {NoIdentity}]
    BY <2>1 DEF Identities
  <2>3. /\ pc' \in [Stores -> OffLine \cup Opening \cup Publishing \cup {"idle"}]
        /\ cur' \in [Stores -> Gens \cup {NoGen}] /\ CurIsAtHand'
    BY <1>0, <1>1 DEF Stage, Go, CurIsAtHand
  <2> QED
    BY <1>1, <1>b, <2>2, <2>3 DEF Stage
<1>2. CASE Validate(s)
  <2>1. CASE status[cur[s]] = "building"
    <3>1. Go(s, "validated") /\ UNCHANGED cur
      BY <1>2, <2>1 DEF Validate
    <3>2. TypeInv'
      <4>1. /\ status' = [status EXCEPT ![cur[s]] = "validated"]
            /\ lease' = lease \cup {cur[s]}
        BY <1>2, <2>1 DEF Validate
      <4>2. cur[s] \in Gens
        BY <1>0, <1>2, <1>a DEF Validate
      <4>3. status' \in [Gens -> Statuses] /\ lease' \subseteq Gens
        BY <1>b, <4>1, <4>2
      <4> QED
        BY <1>0, <1>2, <3>1, <4>2, <4>3, GoTypes DEF Validate
    <3> QED
      BY <3>2
  <2>2. CASE status[cur[s]] # "building"
    <3>1. Rest(s) /\ UNCHANGED <<status, lease>>
      BY <1>2, <2>2 DEF Validate
    <3> QED
      BY <1>2, <3>1, RestTypes DEF Validate
  <2> QED
    BY <2>1, <2>2
<1>3. CASE AbandonBuild(s)
  BY <1>3, RestTypes DEF AbandonBuild

<1>4. CASE Enter(s)
  <2>1. PICK l \in {"discard", "entered"} : Go(s, l)
    BY <1>4 DEF Enter
  <2> QED
    BY <1>0, <1>4, <1>a, <2>1, GoTypes DEF Enter
<1>5. CASE Reserve(s)
  <2>1. wit' \in [Gens -> {"none", "reserved", "completed", "cancelled"}]
    <3>1. wit' = [wit EXCEPT ![cur[s]] = "reserved"] \/ wit' = wit
      BY <1>5 DEF Reserve
    <3> QED
      BY <3>1
  <2>2. PICK l \in {"discard", "reserved"} : Go(s, l)
    BY <1>5 DEF Reserve
  <2> QED
    BY <1>0, <1>5, <1>a, <2>1, <2>2, GoTypes DEF Reserve
<1>6. CASE Pend(s)
  <2>1. status' \in [Gens -> Statuses] /\ lease' \subseteq Gens
    <3>1. \/ /\ status' = [status EXCEPT ![cur[s]] = "pending"]
             /\ lease' = lease \cup {cur[s]}
          \/ UNCHANGED <<status, lease>>
      BY <1>6 DEF Pend
    <3>2. cur[s] \in Gens
      BY <1>0, <1>6, <1>a DEF Pend
    <3>3. [status EXCEPT ![cur[s]] = "pending"] \in [Gens -> Statuses]
      BY <1>b, <3>2
    <3>4. lease \cup {cur[s]} \subseteq Gens
      BY <3>2
    <3> QED
      BY <3>1, <3>3, <3>4
  <2>2. PICK l \in {"discard", "pending"} : Go(s, l)
    BY <1>6 DEF Pend
  <2> QED
    BY <1>0, <1>6, <1>a, <2>1, <2>2, GoTypes DEF Pend
<1>7. CASE CompleteOwn(s)
  <2>1. Complete(s, "completed", "discard")
    BY <1>7 DEF CompleteOwn
  <2> QED
    BY <1>0, <1>7, <1>a, <2>1, TypeInvComplete DEF CompleteOwn
<1>8. CASE LostPending(s)
  <2>1. wit' \in [Gens -> {"none", "reserved", "completed", "cancelled"}]
    BY <1>8 DEF LostPending
  <2> QED
    BY <1>0, <1>8, <1>a, <2>1, GoTypes DEF LostPending
<1>9. CASE Clear(s)
  <2>1. PICK l \in {"cleared", "undo"} : Go(s, l)
    BY <1>9 DEF Clear
  <2> QED
    BY <1>0, <1>9, <1>a, <2>1, GoTypes DEF Clear
<1>10. CASE Activate(s)
  <2>1. CASE MayActivate(s, cur[s])
    <3>1. Collect(Activated(cur[s]), WithReplaced(cur[s])) /\ Rest(s)
      BY <1>10, <2>1 DEF Activate
    <3>2. cur[s] \in Gens /\ status[cur[s]] # "absent"
      BY <1>0, <1>10, <1>a, <2>1 DEF Activate, MayActivate
    <3>3. status' \in [Gens -> Statuses] /\ retired' \in Seq(Gens)
      BY <3>1, <3>2, ActivatedTypes, CollectTypes
    <3> QED
      BY <1>10, <3>1, <3>3, RestTypes DEF Activate
  <2>2. CASE ~MayActivate(s, cur[s])
    BY <1>0, <1>10, <1>a, <2>2, GoTypes DEF Activate
  <2> QED
    BY <2>1, <2>2
<1>11. CASE Undo(s)
  <2>1. Withdraw(s, "undoRetire")
    BY <1>11 DEF Undo
  <2> QED
    BY <1>0, <1>11, <1>a, <2>1, TypeInvWithdraw DEF Undo
<1>12. CASE UndoRetire(s)
  <2>1. cur[s] \in Gens /\ Retire(cur[s], Inactive \cup {"active"})
    BY <1>0, <1>12, <1>a DEF UndoRetire
  <2>2. status' \in [Gens -> Statuses] /\ retired' \in Seq(Gens)
    BY <2>1, RetireTypes
  <2> QED
    BY <1>0, <1>12, <1>a, <2>2, GoTypes DEF UndoRetire
<1>13. CASE Discard(s)
  <2>1. wit' \in [Gens -> {"none", "reserved", "completed", "cancelled"}]
    <3>1. CASE status[cur[s]] \in Inactive
      <4>1. wit' = [wit EXCEPT ![cur[s]] =
                      IF @ = "reserved" THEN "cancelled" ELSE @]
        BY <1>13, <3>1 DEF Discard
      <4> QED
        BY <4>1
    <3>2. CASE status[cur[s]] \notin Inactive
      BY <1>13, <3>2 DEF Discard
    <3> QED
      BY <3>1, <3>2
  <2>2. Rest(s) \/ (Go(s, "discardRetire") /\ UNCHANGED cur)
    BY <1>13 DEF Discard
  <2> QED
    BY <1>0, <1>13, <1>a, <2>1, <2>2, GoTypes, RestTypes DEF Discard
<1>14. CASE DiscardRetire(s)
  <2>1. cur[s] \in Gens
    BY <1>0, <1>14, <1>a DEF DiscardRetire
  <2>2. CASE status[cur[s]] \in Inactive
    <3>1. Collect([status EXCEPT ![cur[s]] = "retired"], Append(retired, cur[s]))
      BY <1>14, <2>2 DEF DiscardRetire
    <3>2. /\ [status EXCEPT ![cur[s]] = "retired"] \in [Gens -> Statuses]
          /\ Append(retired, cur[s]) \in Seq(Gens)
      BY <1>b, <2>1
    <3>3. status' \in [Gens -> Statuses] /\ retired' \in Seq(Gens)
      BY <3>1, <3>2, CollectTypes
    <3> QED
      BY <1>14, <3>3, RestTypes DEF DiscardRetire
  <2>3. CASE status[cur[s]] \notin Inactive
    BY <1>14, <2>3, RestTypes DEF DiscardRetire
  <2> QED
    BY <2>2, <2>3
<1> QED
  BY <1>1, <1>2, <1>3, <1>4, <1>5, <1>6, <1>7, <1>8, <1>9, <1>10, <1>11, <1>12,
     <1>13, <1>14 DEF Publish

\* So does beginning, skipping or finishing a row of the snapshot.
LEMMA BeginTypes ==
    ASSUME TypeInv, NEW s \in Stores, NEW g \in Gens,
           \/ Skip(s, g)
           \/ WithdrawRead(s, g) /\ UNCHANGED todo
           \/ \E l \in {"retire", "attach", "complete"} :
                 Begin(s, g, l) /\ UNCHANGED todo
    PROVE  /\ pc' \in [Stores -> OffLine \cup Opening \cup Publishing \cup {"idle"}]
           /\ cur' \in [Stores -> Gens \cup {NoGen}]
           /\ todo' \in [Stores -> SUBSET Gens]
           /\ CurIsAtHand'
<1> USE DEF TypeInv, PublicationTypeOK, CurIsAtHand
<1>1. CASE Skip(s, g)
  BY <1>1 DEF Skip, Handled
<1>2. ASSUME NEW l \in {"retire", "attach", "complete", "cancel", "uncomplete"},
             Begin(s, g, l), UNCHANGED todo
      PROVE  /\ pc' \in [Stores -> OffLine \cup Opening \cup Publishing \cup {"idle"}]
             /\ cur' \in [Stores -> Gens \cup {NoGen}]
             /\ todo' \in [Stores -> SUBSET Gens]
             /\ CurIsAtHand'
  <2>1. l \in Opening
    BY DEF Opening
  <2> QED
    BY <1>2, <2>1 DEF Begin, Go
<1>3. CASE WithdrawRead(s, g) /\ UNCHANGED todo
  <2>1. PICK l \in {"retire", "cancel", "uncomplete"} : Begin(s, g, l)
    BY <1>3 DEF WithdrawRead
  <2> QED
    BY <1>2, <1>3, <2>1
<1> QED
  BY <1>1, <1>2, <1>3

LEMMA ResumeTypes ==
    ASSUME TypeInv, NEW s \in Stores, Resume(s)
    PROVE  /\ pc' \in [Stores -> OffLine \cup Opening \cup Publishing \cup {"idle"}]
           /\ cur' \in [Stores -> Gens \cup {NoGen}]
           /\ todo' \in [Stores -> SUBSET Gens]
           /\ CurIsAtHand'
<1>1. "reconcile" \in Opening /\ "reconcile" \notin Working
  BY DEF Opening, Working, Publishing
<1> QED
  BY <1>1 DEF TypeInv, PublicationTypeOK, CurIsAtHand, Resume, Go, Handled

\* Opening a store keeps the types.
LEMMA TypeInvReconcile ==
    ASSUME TypeInv, NEW s \in Stores, Reconcile(s)
    PROVE  TypeInv'
<1> USE DEF TypeInv, PublicationTypeOK, canonical, rows, opening
<1>0. /\ \A l \in {"attach", "complete", "check", "activate", "cancel",
                   "uncomplete", "retire"} : l \in Working /\ l \in Opening
      /\ "reconcile" \in Opening /\ "reconcile" \notin Working
  BY DEF Working, Publishing, Opening
<1>a. pc[s] \in Working => cur[s] \in Gens
  BY AtHand
<1>b. {"gone", "absent", "pending"} \subseteq Statuses
  BY DEF Statuses, Inactive
<1>1. CASE Open(s)
  <2>1. [st |-> status, leased |-> lease]
          \in [st : [Gens -> Statuses], leased : SUBSET Gens]
    OBVIOUS
  <2>2. snap' \in [Stores -> [st : [Gens -> Statuses], leased : SUBSET Gens]]
    BY <1>1, <2>1 DEF Open
  <2>3. todo' \in [Stores -> SUBSET Gens] /\ seen' \in [Stores -> SUBSET Stores]
    BY <1>1 DEF Open, Present
  <2> QED
    BY <1>0, <1>1, <2>2, <2>3, GoTypes DEF Open
<1>2. CASE OpenRecreated(s)
  <2>1. /\ status' \in [Gens -> Statuses]
        /\ lepoch' \in [Stores -> {"none", "open", "revoked"}]
        /\ seen' \in [Stores -> SUBSET Stores]
        /\ retired' \in Seq(Gens) /\ lease' \subseteq Gens
    BY <1>2, <1>b DEF OpenRecreated
  <2> QED
    BY <1>0, <1>2, <2>1, GoTypes DEF OpenRecreated
<1>3. ASSUME NEW g \in Gens, ReconcileActive(s, g) PROVE TypeInv'
  <2>1. Skip(s, g) \/ (WithdrawRead(s, g) /\ UNCHANGED todo)
    BY <1>3 DEF ReconcileActive
  <2> QED
    BY <1>3, <2>1, BeginTypes DEF ReconcileActive
<1>4. ASSUME NEW g \in Gens, ReconcileBuilding(s, g) PROVE TypeInv'
  <2>1. Retire(g, {"building"}) \/ UNCHANGED <<status, retired>>
    BY <1>4 DEF ReconcileBuilding
  <2>2. status' \in [Gens -> Statuses] /\ retired' \in Seq(Gens)
    BY <2>1, RetireTypes
  <2> QED
    BY <1>4, <2>2, BeginTypes DEF ReconcileBuilding
<1>5. ASSUME NEW g \in Gens, ReconcilePending(s, g) PROVE TypeInv'
  <2>1. \/ Skip(s, g)
        \/ WithdrawRead(s, g) /\ UNCHANGED todo
        \/ \E l \in {"retire", "attach", "complete"} :
              Begin(s, g, l) /\ UNCHANGED todo
    BY <1>5 DEF ReconcilePending
  <2> QED
    BY <1>5, <2>1, BeginTypes DEF ReconcilePending
<1>6. CASE RecAttach(s)
  <2>1. cur[s] \in Gens
    BY <1>0, <1>6, <1>a DEF RecAttach
  <2>2. status' = [status EXCEPT ![cur[s]] =
                     IF @ = "validated" THEN "pending" ELSE @]
    BY <1>6 DEF RecAttach
  <2>3. status' \in [Gens -> Statuses]
    BY <1>b, <2>1, <2>2
  <2> QED
    BY <1>0, <1>6, <2>1, <2>3, GoTypes DEF RecAttach
<1>7. CASE RecComplete(s)
  <2>1. Complete(s, "check", "retire")
    BY <1>7 DEF RecComplete
  <2> QED
    BY <1>0, <1>7, <1>a, <2>1, TypeInvComplete DEF RecComplete
<1>8. CASE RecCheck(s)
  <2>1. PICK l \in {"activate", "uncomplete"} : Go(s, l)
    BY <1>8 DEF RecCheck
  <2> QED
    BY <1>0, <1>8, <1>a, <2>1, GoTypes DEF RecCheck
<1>9. CASE RecActivate(s)
  <2>1. cur[s] \in Gens
    BY <1>0, <1>9, <1>a DEF RecActivate
  <2>2. CASE MayActivate(s, cur[s])
    <3>1. /\ status' = Activated(cur[s]) /\ retired' = WithReplaced(cur[s])
          /\ Resume(s)
      BY <1>9, <2>2 DEF RecActivate
    <3>2. status' \in [Gens -> Statuses] /\ retired' \in Seq(Gens)
      BY <2>1, <2>2, <3>1, ActivatedTypes DEF MayActivate
    <3> QED
      BY <1>9, <3>1, <3>2, ResumeTypes DEF RecActivate
  <2>3. CASE ~MayActivate(s, cur[s])
    BY <1>0, <1>9, <2>1, <2>3, GoTypes DEF RecActivate
  <2> QED
    BY <2>2, <2>3
<1>10. CASE RecCancel(s)
  <2>1. cur[s] \in Gens
    BY <1>0, <1>10, <1>a DEF RecCancel
  <2>2. wit' \in [Gens -> {"none", "reserved", "completed", "cancelled"}]
    BY <1>10, <2>1 DEF RecCancel
  <2> QED
    BY <1>0, <1>10, <2>1, <2>2, GoTypes DEF RecCancel
<1>11. CASE RecUncomplete(s)
  <2>1. Withdraw(s, "retire")
    BY <1>11 DEF RecUncomplete
  <2> QED
    BY <1>0, <1>11, <1>a, <2>1, TypeInvWithdraw DEF RecUncomplete
<1>12. CASE RecRetire(s)
  <2>1. cur[s] \in Gens
    BY <1>0, <1>12, <1>a DEF RecRetire
  <2>2. PICK from : Retire(cur[s], from)
    BY <1>12 DEF RecRetire
  <2>3. status' \in [Gens -> Statuses] /\ retired' \in Seq(Gens)
    BY <2>1, <2>2, RetireTypes
  <2> QED
    BY <1>12, <2>3, ResumeTypes DEF RecRetire
<1>13. CASE FinishOpening(s)
  <2>1. wit' \in [Gens -> {"none", "reserved", "completed", "cancelled"}]
    BY <1>13 DEF FinishOpening
  <2>2. status' \in [Gens -> Statuses] /\ retired' \in Seq(Gens)
    BY <1>13, CollectTypes DEF FinishOpening
  <2>3. NoRows \in [st : [Gens -> Statuses], leased : SUBSET Gens]
    BY <1>b DEF NoRows
  <2>4. snap' \in [Stores -> [st : [Gens -> Statuses], leased : SUBSET Gens]]
    BY <1>13, <2>3 DEF FinishOpening
  <2> QED
    BY <1>13, <2>1, <2>2, <2>4, RestTypes DEF FinishOpening
<1> QED
  BY <1>1, <1>2, <1>3, <1>4, <1>5, <1>6, <1>7, <1>8, <1>9, <1>10, <1>11, <1>12,
     <1>13 DEF Reconcile

\* The types are an inductive invariant.
LEMMA TypeInvStep == TypeInv /\ [Next]_vars => TypeInv'
<1> SUFFICES ASSUME TypeInv, [Next]_vars PROVE TypeInv'
  OBVIOUS
<1>1. CASE UNCHANGED vars
  BY <1>1 DEF vars, TypeInv, PublicationTypeOK, CurIsAtHand
<1>2. CASE Next
  BY <1>2, TypeInvEnvironment, TypeInvPublish, TypeInvReconcile DEF Next
<1> QED
  BY <1>1, <1>2

LEMMA TypeInvAlways == Spec => []TypeInv
BY TypeInvInit, TypeInvStep, PTL DEF Spec

\* In every behaviour each variable keeps its type, and a publishing or
\* recovering thread has a generation at hand.
THEOREM PublicationTypeCorrect == Spec => []PublicationTypeOK
<1>1. TypeInv => PublicationTypeOK
  BY DEF TypeInv
<1> QED
  BY <1>1, TypeInvAlways, PTL

-----------------------------------------------------------------------------
\* What a step does to the rows: it makes no row active, or it activates one
\* under the guards of the activation's transaction, or it stages one.
RowsStay == \A h \in Gens : status[h] # "absent" => status'[h] # "absent"
NoneActivated ==
    /\ UNCHANGED ident /\ RowsStay
    /\ \A h \in Gens : status'[h] = "active" => status[h] = "active"
Activating(s) ==
    /\ pc[s] \in {"cleared", "activate"}
    /\ MayActivate(s, cur[s])
    /\ UNCHANGED <<canon, wit, ident>> /\ RowsStay
    /\ \A h \in Gens : status'[h] = "active" => h = cur[s]

\* Retiring and collecting rows activate none.
LEMMA RetireActivatesNone ==
    ASSUME TypeInv, NEW g \in Gens, NEW from, "absent" \notin from,
           Retire(g, from), UNCHANGED ident
    PROVE  NoneActivated
<1>1. CASE status[g] \in from
  BY <1>1 DEF TypeInv, PublicationTypeOK, Retire, NoneActivated, RowsStay
<1>2. CASE status[g] \notin from
  BY <1>2 DEF Retire, NoneActivated, RowsStay
<1> QED
  BY <1>1, <1>2

LEMMA CollectActivatesNone ==
    ASSUME TypeInv, NEW st \in [Gens -> Statuses], NEW q,
           \A h \in Gens : st[h] = status[h] \/ st[h] = "retired",
           Collect(st, q), UNCHANGED ident
    PROVE  NoneActivated
BY DEF Collect, NoneActivated, RowsStay

LEMMA RowsPublish ==
    ASSUME TypeInv, NEW s \in Stores, Publish(s)
    PROVE  NoneActivated \/ Activating(s) \/ \E g \in Gens : Stage(s, g)
<1> USE DEF rows
<1>a. pc[s] \in Working => cur[s] \in Gens
  BY AtHand
<1>0. Publishing \subseteq Working /\ status \in [Gens -> Statuses]
  BY DEF Working, TypeInv, PublicationTypeOK
<1>1. CASE Validate(s)
  <2>1. cur[s] \in Gens
    BY <1>0, <1>1, <1>a DEF Validate, Publishing
  <2> QED
    BY <1>0, <1>1, <2>1 DEF Validate, NoneActivated, RowsStay
<1>2. CASE AbandonBuild(s) \/ Enter(s) \/ Clear(s) \/ Reserve(s) \/ LostPending(s)
           \/ Discard(s)
  BY <1>2 DEF AbandonBuild, Enter, Clear, Reserve, LostPending, Discard,
              NoneActivated, RowsStay
<1>3. CASE Pend(s)
  <2>1. cur[s] \in Gens
    BY <1>0, <1>3, <1>a DEF Pend, Publishing
  <2> QED
    BY <1>0, <1>3, <2>1 DEF Pend, NoneActivated, RowsStay
<1>4. CASE CompleteOwn(s) \/ Undo(s)
  BY <1>4 DEF CompleteOwn, Complete, Undo, Withdraw, NoneActivated, RowsStay
<1>5. CASE Activate(s)
  <2>1. cur[s] \in Gens
    BY <1>0, <1>5, <1>a DEF Activate, Publishing
  <2>2. CASE MayActivate(s, cur[s])
    <3>1. Collect(Activated(cur[s]), WithReplaced(cur[s]))
      BY <1>5, <2>2 DEF Activate
    <3>2. \A h \in Gens : status'[h] = "gone" \/ status'[h] = Activated(cur[s])[h]
      BY <3>1 DEF Collect
    <3>3. \A h \in Gens : /\ Activated(cur[s])[h] = "active" => h = cur[s]
                          /\ status[h] # "absent" => Activated(cur[s])[h] # "absent"
      BY DEF Activated
    <3> QED
      BY <1>5, <2>2, <3>2, <3>3 DEF Activate, Activating, RowsStay, canonical
  <2>3. CASE ~MayActivate(s, cur[s])
    BY <1>5, <2>3 DEF Activate, NoneActivated, RowsStay
  <2> QED
    BY <2>2, <2>3
<1>6. CASE UndoRetire(s)
  <2>1. /\ cur[s] \in Gens /\ Retire(cur[s], Inactive \cup {"active"})
        /\ UNCHANGED ident
    BY <1>0, <1>6, <1>a DEF UndoRetire, Publishing
  <2>2. "absent" \notin Inactive \cup {"active"}
    BY DEF Inactive
  <2> QED
    BY <2>1, <2>2, RetireActivatesNone
<1>7. CASE DiscardRetire(s)
  <2>1. cur[s] \in Gens
    BY <1>0, <1>7, <1>a DEF DiscardRetire, Publishing
  <2>2. CASE status[cur[s]] \in Inactive
    <3>1. /\ Collect([status EXCEPT ![cur[s]] = "retired"], Append(retired, cur[s]))
          /\ UNCHANGED ident
      BY <1>7, <2>2 DEF DiscardRetire
    <3>2. [status EXCEPT ![cur[s]] = "retired"] \in [Gens -> Statuses]
      BY <1>0, <2>1 DEF Statuses
    <3>3. \A h \in Gens : \/ [status EXCEPT ![cur[s]] = "retired"][h] = status[h]
                          \/ [status EXCEPT ![cur[s]] = "retired"][h] = "retired"
      BY <1>0, <2>1
    <3> QED
      BY <3>1, <3>2, <3>3, CollectActivatesNone
  <2>3. CASE status[cur[s]] \notin Inactive
    BY <1>7, <2>3 DEF DiscardRetire, NoneActivated, RowsStay
  <2> QED
    BY <2>2, <2>3
<1> QED
  BY <1>1, <1>2, <1>3, <1>4, <1>5, <1>6, <1>7 DEF Publish

LEMMA RowsReconcile ==
    ASSUME TypeInv, NEW s \in Stores, Reconcile(s)
    PROVE  NoneActivated \/ Activating(s)
<1> USE DEF rows
<1>a. pc[s] \in Working => cur[s] \in Gens
  BY AtHand
<1>0. /\ {"attach", "activate", "retire"} \subseteq Working
      /\ status \in [Gens -> Statuses]
  BY DEF Working, Opening, TypeInv, PublicationTypeOK
<1>1. CASE Open(s) \/ RecCheck(s) \/ RecCancel(s)
  BY <1>1 DEF Open, RecCheck, RecCancel, NoneActivated, RowsStay
<1>2. CASE OpenRecreated(s)
  BY <1>2 DEF OpenRecreated, NoneActivated, RowsStay
<1>3. ASSUME NEW g \in Gens,
             ReconcileActive(s, g) \/ ReconcilePending(s, g)
      PROVE  NoneActivated
  BY <1>3 DEF ReconcileActive, ReconcilePending, NoneActivated, RowsStay
<1>4. ASSUME NEW g \in Gens, ReconcileBuilding(s, g) PROVE NoneActivated
  <2>1. Retire(g, {"building"}) \/ UNCHANGED <<status, retired>>
    BY <1>4 DEF ReconcileBuilding
  <2>2. UNCHANGED ident
    BY <1>4 DEF ReconcileBuilding
  <2> QED
    BY <2>1, <2>2, RetireActivatesNone DEF NoneActivated, RowsStay
<1>5. CASE RecAttach(s)
  <2>1. cur[s] \in Gens
    BY <1>0, <1>5, <1>a DEF RecAttach
  <2>2. /\ UNCHANGED ident
        /\ status' = [status EXCEPT ![cur[s]] =
                        IF @ = "validated" THEN "pending" ELSE @]
    BY <1>5 DEF RecAttach
  <2>3. \A h \in Gens : status'[h] = status[h]
                      \/ (status[h] = "validated" /\ status'[h] = "pending")
    BY <1>0, <2>1, <2>2
  <2> QED
    BY <2>2, <2>3 DEF NoneActivated, RowsStay
<1>6. CASE RecComplete(s) \/ RecUncomplete(s)
  BY <1>6 DEF RecComplete, Complete, RecUncomplete, Withdraw, NoneActivated, RowsStay
<1>7. CASE RecActivate(s)
  <2>1. CASE MayActivate(s, cur[s])
    <3>1. \A h \in Gens : /\ Activated(cur[s])[h] = "active" => h = cur[s]
                          /\ status[h] # "absent" => Activated(cur[s])[h] # "absent"
      BY DEF Activated
    <3> QED
      BY <1>7, <2>1, <3>1 DEF RecActivate, Activating, RowsStay, canonical
  <2>2. CASE ~MayActivate(s, cur[s])
    BY <1>7, <2>2 DEF RecActivate, NoneActivated, RowsStay
  <2> QED
    BY <2>1, <2>2
<1>8. CASE RecRetire(s)
  <2>1. PICK from \in {Inactive, Inactive \cup {"active"}} : Retire(cur[s], from)
    BY <1>8 DEF RecRetire
  <2>2. cur[s] \in Gens /\ "absent" \notin from /\ UNCHANGED ident
    BY <1>0, <1>8, <1>a DEF RecRetire, Inactive
  <2> QED
    BY <2>1, <2>2, RetireActivatesNone
<1>9. CASE FinishOpening(s)
  <2>1. UNCHANGED ident /\ (Collect(status, retired) \/ UNCHANGED <<status, retired>>)
    BY <1>9 DEF FinishOpening
  <2> QED
    BY <1>0, <2>1, CollectActivatesNone DEF NoneActivated, RowsStay
<1> QED
  BY <1>1, <1>2, <1>3, <1>4, <1>5, <1>6, <1>7, <1>8, <1>9 DEF Reconcile

\* Every step of the system does one of the three to the rows.
LEMMA RowsStep ==
    ASSUME TypeInv, Next
    PROVE  \/ NoneActivated
           \/ \E s \in Stores : Activating(s)
           \/ \E s \in Stores, g \in Gens : Stage(s, g)
<1>1. CASE Ingest \/ \E g \in Gens : LeaseExpires(g)
  BY <1>1 DEF Ingest, LeaseExpires, NoneActivated, RowsStay, rows
<1>2. ASSUME NEW s \in Stores, Lose(s) \/ Scheduling(s) PROVE NoneActivated
  BY <1>2 DEF Lose, Scheduling, OpenEpoch, Fence, RevokeCanonical, RevokeLocal,
              NoneActivated, RowsStay, rows
<1>3. ASSUME NEW s \in Stores, Publish(s) \/ Reconcile(s)
      PROVE  NoneActivated \/ Activating(s) \/ \E g \in Gens : Stage(s, g)
  BY <1>3, RowsPublish, RowsReconcile
<1> QED
  BY <1>1, <1>2, <1>3 DEF Next

-----------------------------------------------------------------------------
\* A settled witness stays settled: only an unused one is reserved.
SettledStays == \A g \in Gens : wit[g] \in Settled => wit'[g] \in Settled

\* A thread that comes to be about to activate has seen its witness settled.
ChecksFirst(s) == pc'[s] \in Checked => wit'[cur'[s]] \in Settled
OthersWait(s) == \A t \in Stores \ {s} : pc'[t] = pc[t] /\ cur'[t] = cur[t]

LEMMA GoesOn ==
    ASSUME TypeInv, NEW s \in Stores, NEW l, Go(s, l), UNCHANGED cur
    PROVE  OthersWait(s) /\ pc'[s] = l /\ cur'[s] = cur[s]
BY DEF TypeInv, PublicationTypeOK, Go, OthersWait

LEMMA ComesToRest ==
    ASSUME TypeInv, NEW s \in Stores, Rest(s) \/ Resume(s)
    PROVE  OthersWait(s) /\ pc'[s] \notin Checked
BY DEF TypeInv, PublicationTypeOK, Rest, Resume, Go, OthersWait, Checked

LEMMA WitnessComplete ==
    ASSUME TypeInv, NEW s \in Stores, cur[s] \in Gens,
           NEW next, NEW failed, failed \notin Checked, Complete(s, next, failed)
    PROVE  SettledStays /\ OthersWait(s) /\ ChecksFirst(s)
<1>1. wit \in [Gens -> {"none", "reserved", "completed", "cancelled"}]
  BY DEF TypeInv, PublicationTypeOK
<1>2. UNCHANGED cur
  BY DEF Complete
<1>3. CASE wit[cur[s]] = "reserved" /\ SameRevision(cur[s]) /\ EpochOpen(Owner(cur[s]))
  <2>1. wit' = [wit EXCEPT ![cur[s]] = "completed"] /\ Go(s, next)
    BY <1>3 DEF Complete
  <2> QED
    BY <1>1, <1>2, <2>1, GoesOn DEF SettledStays, ChecksFirst, Settled
<1>4. CASE wit[cur[s]] = "reserved" /\ ~(SameRevision(cur[s]) /\ EpochOpen(Owner(cur[s])))
  <2>1. wit' = [wit EXCEPT ![cur[s]] = "cancelled"] /\ Go(s, failed)
    BY <1>4 DEF Complete
  <2> QED
    BY <1>1, <1>2, <2>1, GoesOn DEF SettledStays, ChecksFirst, Settled
<1>5. CASE wit[cur[s]] # "reserved"
  <2>1. wit' = wit /\ Go(s, IF wit[cur[s]] = "completed" THEN next ELSE failed)
    BY <1>5 DEF Complete
  <2> QED
    BY <1>2, <2>1, GoesOn DEF SettledStays, ChecksFirst, Settled
<1> QED
  BY <1>3, <1>4, <1>5

LEMMA WitnessWithdraw ==
    ASSUME TypeInv, NEW s \in Stores, cur[s] \in Gens,
           NEW next, next \notin Checked, Withdraw(s, next)
    PROVE  SettledStays /\ OthersWait(s) /\ ChecksFirst(s)
<1>1. wit \in [Gens -> {"none", "reserved", "completed", "cancelled"}]
  BY DEF TypeInv, PublicationTypeOK
<1>2. /\ wit' = [wit EXCEPT ![cur[s]] = IF @ = "completed" THEN "cancelled" ELSE @]
      /\ Go(s, next) /\ UNCHANGED cur
  BY DEF Withdraw
<1>3. SettledStays
  BY <1>1, <1>2 DEF SettledStays, Settled
<1> QED
  BY <1>2, <1>3, GoesOn DEF ChecksFirst

LEMMA WitnessPublish ==
    ASSUME TypeInv, WitnessInv, NEW s \in Stores, Publish(s)
    PROVE  SettledStays /\ OthersWait(s) /\ ChecksFirst(s)
<1> USE DEF canonical, rows, opening
<1>a. pc[s] \in Working => cur[s] \in Gens
  BY AtHand
<1>0. /\ Publishing \subseteq Working
      /\ wit \in [Gens -> {"none", "reserved", "completed", "cancelled"}]
      /\ \A l \in {"building", "validated", "entered", "reserved", "pending", "undo",
                   "undoRetire", "discard", "discardRetire"} : l \notin Checked
  BY DEF Working, TypeInv, PublicationTypeOK, Checked
<1>1. ASSUME NEW g \in Gens, Stage(s, g)
      PROVE  SettledStays /\ OthersWait(s) /\ ChecksFirst(s)
  BY <1>0, <1>1 DEF Stage, Go, TypeInv, PublicationTypeOK, SettledStays, OthersWait,
     ChecksFirst
<1>2. CASE Validate(s) \/ AbandonBuild(s) \/ Enter(s) \/ Pend(s)
  <2>1. SettledStays
    BY <1>2 DEF Validate, AbandonBuild, Enter, Pend, SettledStays
  <2>2. \/ Rest(s)
        \/ UNCHANGED cur /\ \E l \in {"validated", "discard", "entered", "pending"} :
              Go(s, l)
    BY <1>2 DEF Validate, AbandonBuild, Enter, Pend
  <2> QED
    BY <1>0, <2>1, <2>2, GoesOn, ComesToRest DEF ChecksFirst
<1>3. CASE Reserve(s)
  <2>1. wit' = wit \/ (wit[cur[s]] = "none" /\ wit' = [wit EXCEPT ![cur[s]] = "reserved"])
    BY <1>3 DEF Reserve
  <2>2. SettledStays
    BY <1>0, <2>1 DEF SettledStays, Settled
  <2>3. UNCHANGED cur /\ \E l \in {"discard", "reserved"} : Go(s, l)
    BY <1>3 DEF Reserve
  <2> QED
    BY <1>0, <2>2, <2>3, GoesOn DEF ChecksFirst
<1>4. CASE CompleteOwn(s)
  <2>1. /\ cur[s] \in Gens /\ Complete(s, "completed", "discard")
    BY <1>0, <1>4, <1>a DEF CompleteOwn, Publishing
  <2> QED
    BY <1>0, <2>1, WitnessComplete
<1>5. CASE LostPending(s)
  <2>1. wit' = [wit EXCEPT ![cur[s]] = IF @ = "reserved" THEN "cancelled" ELSE @]
    BY <1>5 DEF LostPending
  <2>2. SettledStays
    BY <1>0, <2>1 DEF SettledStays, Settled
  <2> QED
    BY <1>0, <1>5, <2>2, GoesOn DEF LostPending, ChecksFirst
<1>6. CASE Clear(s)
  <2>1. wit' = wit /\ UNCHANGED cur /\ pc[s] = "completed"
    BY <1>6 DEF Clear
  <2>2. wit[cur[s]] \in Settled
    BY <2>1 DEF WitnessInv, SeenSettled, Checked
  <2>3. PICK l : Go(s, l)
    BY <1>6 DEF Clear
  <2> QED
    BY <2>1, <2>2, <2>3, GoesOn DEF ChecksFirst, SettledStays
<1>7. CASE Activate(s)
  <2>1. UNCHANGED wit /\ (Rest(s) \/ (Go(s, "undo") /\ UNCHANGED cur))
    BY <1>7 DEF Activate
  <2> QED
    BY <1>0, <2>1, GoesOn, ComesToRest DEF ChecksFirst, SettledStays
<1>8. CASE Undo(s)
  <2>1. /\ cur[s] \in Gens /\ Withdraw(s, "undoRetire")
    BY <1>0, <1>8, <1>a DEF Undo, Publishing
  <2> QED
    BY <1>0, <2>1, WitnessWithdraw
<1>9. CASE UndoRetire(s) \/ DiscardRetire(s)
  <2>1. UNCHANGED wit /\ (Rest(s) \/ (Go(s, "discard") /\ UNCHANGED cur))
    BY <1>9 DEF UndoRetire, DiscardRetire
  <2> QED
    BY <1>0, <2>1, GoesOn, ComesToRest DEF ChecksFirst, SettledStays
<1>10. CASE Discard(s)
  <2>1. \/ wit' = wit
        \/ wit' = [wit EXCEPT ![cur[s]] = IF @ = "reserved" THEN "cancelled" ELSE @]
    BY <1>10 DEF Discard
  <2>2. SettledStays
    BY <1>0, <2>1 DEF SettledStays, Settled
  <2>3. Rest(s) \/ (Go(s, "discardRetire") /\ UNCHANGED cur)
    BY <1>10 DEF Discard
  <2> QED
    BY <1>0, <2>2, <2>3, GoesOn, ComesToRest DEF ChecksFirst
<1> QED
  BY <1>1, <1>2, <1>3, <1>4, <1>5, <1>6, <1>7, <1>8, <1>9, <1>10 DEF Publish

LEMMA WitnessReconcile ==
    ASSUME TypeInv, WitnessInv, NEW s \in Stores, Reconcile(s)
    PROVE  SettledStays /\ OthersWait(s) /\ ChecksFirst(s)
<1> USE DEF canonical, rows, opening
<1>a. pc[s] \in Working => cur[s] \in Gens
  BY AtHand
<1>0. /\ {"complete", "cancel", "uncomplete"} \subseteq Working
      /\ wit \in [Gens -> {"none", "reserved", "completed", "cancelled"}]
      /\ \A l \in {"reconcile", "attach", "complete", "cancel", "uncomplete", "retire"} :
           l \notin Checked
  BY DEF Working, Opening, TypeInv, PublicationTypeOK, Checked
<1>1. CASE Open(s) \/ OpenRecreated(s) \/ RecAttach(s)
  <2>1. UNCHANGED <<wit, cur>> /\ \E l \in {"reconcile", "complete"} : Go(s, l)
    BY <1>1 DEF Open, OpenRecreated, RecAttach
  <2> QED
    BY <1>0, <2>1, GoesOn DEF ChecksFirst, SettledStays
<1>2. ASSUME NEW g \in Gens,
             ReconcileActive(s, g) \/ ReconcileBuilding(s, g) \/ ReconcilePending(s, g)
      PROVE  SettledStays /\ OthersWait(s) /\ ChecksFirst(s)
  <2>1. /\ UNCHANGED wit /\ pc[s] = "reconcile"
        /\ \/ UNCHANGED <<pc, cur>>
           \/ \E l \in {"retire", "attach", "complete", "cancel", "uncomplete"} :
                 Begin(s, g, l)
    BY <1>2 DEF ReconcileActive, ReconcileBuilding, ReconcilePending, Skip, WithdrawRead
  <2>2. CASE UNCHANGED <<pc, cur>>
    BY <1>0, <2>1, <2>2 DEF SettledStays, OthersWait, ChecksFirst
  <2>3. ASSUME NEW l \in {"retire", "attach", "complete", "cancel", "uncomplete"},
               Begin(s, g, l)
        PROVE  SettledStays /\ OthersWait(s) /\ ChecksFirst(s)
    BY <1>0, <2>1, <2>3 DEF Begin, Go, TypeInv, PublicationTypeOK, SettledStays,
       OthersWait, ChecksFirst
  <2> QED
    BY <2>1, <2>2, <2>3
<1>3. CASE RecComplete(s)
  <2>1. cur[s] \in Gens /\ Complete(s, "check", "retire")
    BY <1>0, <1>3, <1>a DEF RecComplete
  <2> QED
    BY <1>0, <2>1, WitnessComplete
<1>4. CASE RecCheck(s)
  <2>1. wit' = wit /\ UNCHANGED cur /\ pc[s] = "check"
    BY <1>4 DEF RecCheck
  <2>2. wit[cur[s]] \in Settled
    BY <2>1 DEF WitnessInv, SeenSettled, Checked
  <2>3. PICK l : Go(s, l)
    BY <1>4 DEF RecCheck
  <2> QED
    BY <2>1, <2>2, <2>3, GoesOn DEF ChecksFirst, SettledStays
<1>5. CASE RecActivate(s) \/ RecRetire(s)
  <2>1. UNCHANGED wit /\ (Resume(s) \/ (Go(s, "uncomplete") /\ UNCHANGED cur))
    BY <1>5 DEF RecActivate, RecRetire
  <2> QED
    BY <1>0, <2>1, GoesOn, ComesToRest DEF ChecksFirst, SettledStays
<1>6. CASE RecCancel(s)
  <2>1. wit' = [wit EXCEPT ![cur[s]] = IF @ = "reserved" THEN "cancelled" ELSE @]
    BY <1>6 DEF RecCancel
  <2>2. SettledStays
    BY <1>0, <2>1 DEF SettledStays, Settled
  <2> QED
    BY <1>0, <1>6, <2>2, GoesOn DEF RecCancel, ChecksFirst
<1>7. CASE RecUncomplete(s)
  <2>1. cur[s] \in Gens /\ Withdraw(s, "retire")
    BY <1>0, <1>7, <1>a DEF RecUncomplete
  <2> QED
    BY <1>0, <2>1, WitnessWithdraw
<1>8. CASE FinishOpening(s)
  <2>1. SettledStays
    BY <1>0, <1>8 DEF FinishOpening, SettledStays, Settled
  <2> QED
    BY <1>8, <2>1, ComesToRest DEF FinishOpening, ChecksFirst
<1> QED
  BY <1>1, <1>2, <1>3, <1>4, <1>5, <1>6, <1>7, <1>8 DEF Reconcile

\* WitnessInv is inductive: what is active was settled when its activation
\* was decided, and a settled witness stays settled.
LEMMA WitnessInvStep == TypeInv /\ WitnessInv /\ [Next]_vars => WitnessInv'
<1> SUFFICES ASSUME TypeInv, WitnessInv, [Next]_vars PROVE WitnessInv'
  OBVIOUS
<1>0. Checked \subseteq Working /\ \A s \in Stores : pc[s] \in Working => cur[s] \in Gens
  BY DEF Checked, Working, Publishing, Opening, TypeInv, CurIsAtHand
<1>1. CASE UNCHANGED vars
  BY <1>1 DEF vars, WitnessInv, ActiveWasWitnessed, SeenSettled
<1>2. CASE Next
  <2>1. SettledStays /\ SeenSettled'
    <3>1. CASE Ingest \/ \E g \in Gens : LeaseExpires(g)
      BY <3>1 DEF Ingest, LeaseExpires, canonical, SettledStays, WitnessInv, SeenSettled
    <3>2. ASSUME NEW s \in Stores, Lose(s) PROVE SettledStays /\ SeenSettled'
      <4>1. UNCHANGED wit /\ OthersWait(s) /\ pc'[s] \notin Checked
        BY <3>2 DEF Lose, Go, canonical, OthersWait, TypeInv, PublicationTypeOK, Checked
      <4> QED
        BY <4>1 DEF OthersWait, SettledStays, WitnessInv, SeenSettled
    <3>3. ASSUME NEW s \in Stores, Scheduling(s) PROVE SettledStays /\ SeenSettled'
      BY <3>3 DEF Scheduling, OpenEpoch, Fence, RevokeCanonical, RevokeLocal, canonical,
                  SettledStays, WitnessInv, SeenSettled
    <3>4. ASSUME NEW s \in Stores, Publish(s) \/ Reconcile(s)
          PROVE  SettledStays /\ SeenSettled'
      <4>1. SettledStays /\ OthersWait(s) /\ ChecksFirst(s)
        BY <3>4, WitnessPublish, WitnessReconcile
      <4> QED
        BY <1>0, <4>1 DEF OthersWait, ChecksFirst, SettledStays, WitnessInv, SeenSettled
    <3> QED
      BY <1>2, <3>1, <3>2, <3>3, <3>4 DEF Next
  <2>2. CASE NoneActivated
    BY <2>1, <2>2 DEF NoneActivated, SettledStays, WitnessInv, ActiveWasWitnessed, Settled
  <2>3. ASSUME NEW s \in Stores, Activating(s) PROVE ActiveWasWitnessed'
    <3>1. wit[cur[s]] \in Settled
      BY <2>3 DEF Activating, WitnessInv, SeenSettled, Checked
    <3> QED
      BY <2>3, <3>1 DEF Activating, ActiveWasWitnessed, Settled
  <2>4. ASSUME NEW s \in Stores, NEW g \in Gens, Stage(s, g) PROVE ActiveWasWitnessed'
    BY <2>4 DEF Stage, canonical, TypeInv, PublicationTypeOK, WitnessInv,
                ActiveWasWitnessed
  <2> QED
    BY <1>2, <2>1, <2>2, <2>3, <2>4, RowsStep DEF WitnessInv
<1> QED
  BY <1>1, <1>2

\* A generation is active only if its witness was completed first, through
\* every crash, takeover, recovery and undo.
THEOREM ActiveIsWitnessed == Spec => []ActiveWasWitnessed
<1>1. Init => WitnessInv
  BY DEF Init, WitnessInv, ActiveWasWitnessed, SeenSettled, Checked
<1>2. WitnessInv => ActiveWasWitnessed
  BY DEF WitnessInv
<1> QED
  BY <1>1, <1>2, TypeInvAlways, WitnessInvStep, PTL DEF Spec

-----------------------------------------------------------------------------
\* The canonical revision moves by ingestion only.
LEMMA CanonOnlyIngested ==
    ASSUME Next
    PROVE  Ingest \/ UNCHANGED canon
<1> USE DEF canonical
<1>1. ASSUME NEW g \in Gens, LeaseExpires(g) PROVE UNCHANGED canon
  BY <1>1 DEF LeaseExpires
<1>2. ASSUME NEW s \in Stores, Lose(s) \/ Scheduling(s) PROVE UNCHANGED canon
  BY <1>2 DEF Lose, Scheduling, OpenEpoch, Fence, RevokeCanonical, RevokeLocal
<1>3. ASSUME NEW s \in Stores, Publish(s) PROVE UNCHANGED canon
  BY <1>3 DEF Publish, Stage, Validate, AbandonBuild, Enter, Reserve, Pend, CompleteOwn,
     Complete, LostPending, Clear, Activate, Undo, Withdraw, UndoRetire, Discard,
     DiscardRetire
<1>4. ASSUME NEW s \in Stores, Reconcile(s) PROVE UNCHANGED canon
  BY <1>4 DEF Reconcile, Open, OpenRecreated, ReconcileActive, ReconcileBuilding,
     ReconcilePending, RecAttach, RecComplete, Complete, RecCheck, RecActivate,
     RecCancel, RecUncomplete, Withdraw, RecRetire, FinishOpening
<1> QED
  BY <1>1, <1>2, <1>3, <1>4 DEF Next

\* OrderInv is inductive: one activation replaces exactly the generation its
\* own was staged over, which is not newer.
LEMMA OrderInvStep == TypeInv /\ OrderInv /\ [Next]_vars => OrderInv'
<1> SUFFICES ASSUME TypeInv, OrderInv, [Next]_vars PROVE OrderInv'
  OBVIOUS
<1> USE DEF OrderInv, OneActive, RevsOfThePast, PrevIsOlder
<1>0. /\ canon \in Nat /\ ident \in [Gens -> Identities \cup {NoIdentity}]
      /\ status \in [Gens -> Statuses]
      /\ \A g \in Gens : ident[g].rev \in Nat /\ ident[g].prev \in Gens \cup {NoGen}
  BY PublicationAssumption DEF TypeInv, PublicationTypeOK, Identities, NoIdentity
<1>1. CASE UNCHANGED vars
  BY <1>1 DEF vars
<1>2. CASE Next
  <2>1. canon' \in Nat /\ canon <= canon'
    <3>1. CASE Ingest
      BY <1>0, <3>1 DEF Ingest
    <3>2. CASE UNCHANGED canon
      BY <1>0, <3>2
    <3> QED
      BY <1>2, <3>1, <3>2, CanonOnlyIngested
  <2>2. CASE NoneActivated
    BY <1>0, <2>1, <2>2 DEF NoneActivated, RowsStay
  <2>3. ASSUME NEW s \in Stores, Activating(s) PROVE OrderInv'
    BY <1>0, <2>1, <2>3 DEF Activating, RowsStay
  <2>4. ASSUME NEW s \in Stores, NEW g \in Gens, Stage(s, g) PROVE OrderInv'
    <3>1. PICK p \in Gens \cup {NoGen} :
            /\ ActiveIs(p)
            /\ ident' = [ident EXCEPT ![g] = [rev |-> canon, prev |-> p, owner |-> s]]
      BY <2>4 DEF Stage
    <3>2. /\ status' = [status EXCEPT ![g] = "building"] /\ status[g] = "absent"
          /\ canon' = canon
      BY <2>4 DEF Stage, canonical
    <3>3. OneActive' /\ RevsOfThePast'
      BY <1>0, <3>1, <3>2
    <3>4. p # NoGen => p \in Gens /\ p # g /\ status[p] = "active"
      BY <3>1, <3>2 DEF ActiveIs
    <3>5. ASSUME NEW h \in Gens, ident'[h].prev # NoGen
          PROVE  /\ status'[ident'[h].prev] # "absent"
                 /\ ident'[ident'[h].prev].rev <= ident'[h].rev
      <4>1. CASE h = g
        BY <1>0, <3>1, <3>2, <3>4, <3>5, <4>1
      <4>2. CASE h # g
        BY <1>0, <3>1, <3>2, <3>5, <4>2
      <4> QED
        BY <4>1, <4>2
    <3> QED
      BY <3>3, <3>5
  <2> QED
    BY <1>2, <2>2, <2>3, <2>4, RowsStep
<1> QED
  BY <1>1, <1>2

\* The revision served never goes back: of two generations active one after
\* the other, the later one was staged over the earlier.
THEOREM NeverGoesBack == Spec => ActiveNeverGoesBack
<1>1. Init => OrderInv
  <2>1. ASSUME Init PROVE OrderInv
    <3>1. \A g \in Gens : ident[g] = NoIdentity /\ status[g] = "absent"
      BY <2>1 DEF Init
    <3> QED
      BY <2>1, <3>1 DEF Init, OrderInv, OneActive, RevsOfThePast, PrevIsOlder, NoIdentity
  <2> QED
    BY <2>1
<1>2. TypeInv /\ OrderInv /\ [Next]_vars =>
        [\A g, h \in Gens : status[g] = "active" /\ status'[h] = "active" =>
           ident[g].rev <= ident'[h].rev]_vars
  <2> SUFFICES ASSUME TypeInv, OrderInv, Next,
                      NEW g \in Gens, NEW h \in Gens,
                      status[g] = "active", status'[h] = "active"
               PROVE  ident[g].rev <= ident'[h].rev
    OBVIOUS
  <2>0. \A k \in Gens : ident[k].rev \in Nat /\ ident[k].prev \in Gens \cup {NoGen}
    <3>1. ASSUME NEW k \in Gens
          PROVE  ident[k].rev \in Nat /\ ident[k].prev \in Gens \cup {NoGen}
      <4>1. ident[k] \in Identities \/ ident[k] = NoIdentity
        BY DEF TypeInv, PublicationTypeOK
      <4>2. CASE ident[k] \in Identities
        BY <4>2, PublicationAssumption DEF Identities
      <4>3. CASE ident[k] = NoIdentity
        BY <4>3 DEF NoIdentity
      <4> QED
        BY <4>1, <4>2, <4>3
    <3> QED
      BY <3>1
  <2>1. CASE NoneActivated
    BY <2>0, <2>1 DEF NoneActivated, OrderInv, OneActive
  <2>2. ASSUME NEW s \in Stores, Activating(s) PROVE ident[g].rev <= ident'[h].rev
    <3>1. h = cur[s] /\ ident' = ident /\ ActiveIs(ident[h].prev)
      BY <2>2 DEF Activating, MayActivate
    <3>2. ident[h].prev = g
      BY <2>0, <3>1 DEF ActiveIs, OrderInv, OneActive
    <3> QED
      BY <3>1, <3>2, PublicationAssumption DEF OrderInv, PrevIsOlder
  <2>3. ASSUME NEW s \in Stores, NEW k \in Gens, Stage(s, k)
        PROVE  ident[g].rev <= ident'[h].rev
    <3>1. /\ status' = [status EXCEPT ![k] = "building"] /\ status[k] = "absent"
          /\ h # k => ident'[h] = ident[h]
      BY <2>3 DEF Stage, TypeInv, PublicationTypeOK
    <3>2. h # k /\ status[h] = "active"
      BY <3>1 DEF TypeInv, PublicationTypeOK
    <3> QED
      BY <2>0, <3>1, <3>2 DEF OrderInv, OneActive
  <2> QED
    BY <2>1, <2>2, <2>3, RowsStep
<1> QED
  BY <1>1, <1>2, TypeInvAlways, OrderInvStep, PTL DEF Spec, ActiveNeverGoesBack


-----------------------------------------------------------------------------
(***************************************************************************)
(* What the threads rely on while others step.                             *)
(***************************************************************************)
RevokedIsFenced == \A s \in Stores : cepoch[s] = "revoked" => s \in fenced
GoneIsDead == \A s \in gone : pc[s] = "dead"
NewIsUnwitnessed == \A g \in Gens : status[g] \in {"absent", "building"} => wit[g] = "none"

\* A thread publishes only what its own store built, and it withdraws the
\* witness of what it undoes first.
PublishesOwn(s) ==
    /\ pc[s] \in Working => status[cur[s]] # "absent"
    /\ pc[s] \in Publishing => Owner(cur[s]) = s
    /\ pc[s] \in Publishing \ {"building"} => status[cur[s]] # "building"
    /\ pc[s] = "undo" => wit[cur[s]] \in Settled
    /\ pc[s] = "undoRetire" => wit[cur[s]] = "cancelled"

\* What a store that opens has read stays true of rows of the dead, and what
\* it has handled of them stays decided.
SnapshotStands(s) ==
    /\ seen[s] \subseteq gone
    /\ \A g \in Present(snap[s].st) : status[g] # "absent"
    /\ \A g \in Gens : snap[s].st[g] = "active" => wit[g] \in Settled
    /\ \A g \in Gens : snap[s].st[g] = "building" /\ Owner(g) \in seen[s] =>
          status[g] \in {"building", "retired", "gone"} /\ wit[g] = "none"
    /\ \A g \in Present(snap[s].st) \ todo[s] :
          Owner(g) \in seen[s] /\ snap[s].st[g] \in Inactive =>
             status[g] \notin Inactive /\ wit[g] # "reserved"

\* Where its recovery of one row stands.
RecoveryStands(s) ==
    /\ pc[s] \in {"attach", "complete", "check", "activate"} =>
          snap[s].st[cur[s]] \in {"validated", "pending"}
    /\ pc[s] = "uncomplete" =>
          /\ wit[cur[s]] \in Settled
          /\ snap[s].st[cur[s]] = "active" => ident[cur[s]].rev < canon
    /\ pc[s] = "cancel" => snap[s].st[cur[s]] # "active"
    /\ pc[s] = "retire" =>
          /\ snap[s].st[cur[s]] = "active" => wit[cur[s]] = "cancelled"
          /\ Owner(cur[s]) \in seen[s] => wit[cur[s]] # "reserved"

ThreadStands(s) ==
    /\ PublishesOwn(s)
    /\ pc[s] = "down" => snap[s] = NoRows
    /\ pc[s] \in Opening => SnapshotStands(s)
    /\ RecoveryStands(s)

\* What is listed for collection is retired.
RetiredIsRetired == \A i \in 1..Len(retired) : status[retired[i]] \in {"retired", "gone"}

ThreadInv ==
    /\ RevokedIsFenced /\ GoneIsDead /\ NewIsUnwitnessed /\ RetiredIsRetired
    /\ \A s \in Stores : ThreadStands(s)

-----------------------------------------------------------------------------
(***************************************************************************)
(* How rows and witnesses move.                                            *)
(***************************************************************************)
At(g, labels) == \E s \in Stores : pc[s] \in labels /\ cur[s] = g
Replaced == \E h \in Gens : status[h] # "active" /\ status'[h] = "active"
RetiresActive(g) ==
    \E s \in Stores : /\ cur[s] = g
                      /\ \/ pc[s] = "undoRetire"
                         \/ pc[s] = "retire" /\ snap[s].st[g] = "active"
Activates(g) ==
    \E s \in Stores : pc[s] \in {"cleared", "activate"} /\ cur[s] = g /\ MayActivate(s, g)

RowMoves(g) ==
    \/ status'[g] \in {status[g], "gone"}
    \/ status[g] # "active" /\ status'[g] = "retired"
    \/ status[g] = "active" /\ status'[g] = "retired" /\ (Replaced \/ RetiresActive(g))
    \/ status[g] = "absent" /\ status'[g] = "building"
    \/ status[g] = "building" /\ status'[g] = "validated" /\ At(g, {"building"})
    \/ status[g] = "validated" /\ status'[g] = "pending"
    \/ status[g] = "pending" /\ status'[g] = "active" /\ Activates(g)

RowsMove ==
    /\ \A g \in Gens : RowMoves(g)
    /\ \A g \in Gens : ident'[g] = ident[g] \/ status[g] = "absent"
    /\ RetiredIsRetired'

WitnessMoves(g) ==
    \/ wit'[g] = wit[g]
    \/ wit[g] = "none" /\ wit'[g] = "reserved" /\ At(g, {"entered"})
    \/ wit[g] = "reserved" /\ wit'[g] \in Settled
    \/ wit[g] = "completed" /\ wit'[g] = "cancelled" /\ At(g, {"undo", "uncomplete"})
WitnessesMove == \A g \in Gens : WitnessMoves(g)

LEMMA RetireMoves ==
    ASSUME TypeInv, RetiredIsRetired, NEW g \in Gens, NEW from, Retire(g, from)
    PROVE  /\ RetiredIsRetired'
           /\ \A h \in Gens \ {g} : status'[h] = status[h]
           /\ status'[g] = status[g] \/ (status[g] \in from /\ status'[g] = "retired")
<1>t. status \in [Gens -> Statuses] /\ retired \in Seq(Gens)
  BY DEF TypeInv, PublicationTypeOK
<1>1. CASE status[g] \in from
  <2>1. status' = [status EXCEPT ![g] = "retired"] /\ retired' = Append(retired, g)
    BY <1>1 DEF Retire
  <2>2. \A i \in 1..Len(retired') : retired'[i] = g \/ (i \in 1..Len(retired) /\ retired'[i] = retired[i])
    BY <1>t, <2>1
  <2>3. \A i \in 1..Len(retired) : retired[i] \in Gens
    BY <1>t
  <2> QED
    BY <1>1, <1>t, <2>1, <2>2, <2>3 DEF RetiredIsRetired
<1>2. CASE status[g] \notin from
  BY <1>2 DEF Retire, RetiredIsRetired
<1> QED
  BY <1>1, <1>2

LEMMA CollectMoves ==
    ASSUME NEW st \in [Gens -> Statuses], NEW q \in Seq(Gens), Collect(st, q),
           \A i \in 1..Len(q) : st[q[i]] \in {"retired", "gone"}
    PROVE  /\ RetiredIsRetired'
           /\ \A h \in Gens : status'[h] = st[h] \/ (status'[h] = "gone" /\ st[h] \in {"retired", "gone"})
<1> DEFINE n == Len(q) - Retention
<1>0. Len(q) \in Nat /\ Retention \in Nat
  BY PublicationAssumption
<1>1. status' = [h \in Gens |-> IF h \in Collected(q) THEN "gone" ELSE st[h]] /\ retired' = Kept(q)
  BY DEF Collect
<1>2. \A h \in Collected(q) : st[h] \in {"retired", "gone"}
  <2>1. \A i \in 1..n : i \in 1..Len(q)
    BY <1>0
  <2> QED
    BY <2>1 DEF Collected
<1>3. \A h \in Gens : status'[h] = st[h] \/ (status'[h] = "gone" /\ st[h] \in {"retired", "gone"})
  BY <1>1, <1>2
<1>4. ASSUME NEW i \in 1..Len(Kept(q))
      PROVE  \E j \in 1..Len(q) : Kept(q)[i] = q[j]
  <2>1. CASE Len(q) <= Retention
    BY <1>4, <2>1 DEF Kept
  <2>2. CASE ~(Len(q) <= Retention)
    <3>1. Kept(q) = SubSeq(q, n + 1, Len(q))
      BY <2>2 DEF Kept
    <3>2. n \in Nat /\ n + 1 \in 1..Len(q) + 1
      BY <1>0, <2>2
    <3>3. Len(Kept(q)) = Len(q) - n /\ Kept(q)[i] = q[i + n]
      BY <1>0, <1>4, <3>1, <3>2
    <3>4. i + n \in 1..Len(q)
      BY <1>0, <1>4, <3>2, <3>3
    <3> QED
      BY <3>3, <3>4
  <2> QED
    BY <2>1, <2>2
<1>5. \A j \in 1..Len(q) : q[j] \in Gens
  OBVIOUS
<1> QED
  BY <1>1, <1>3, <1>4, <1>5 DEF RetiredIsRetired

\* An activation makes one row active and retires the one it replaces.
LEMMA ActivationMoves ==
    ASSUME TypeInv, RetiredIsRetired, NEW g \in Gens, NEW s \in Stores, MayActivate(s, g)
    PROVE  /\ Activated(g) \in [Gens -> Statuses] /\ WithReplaced(g) \in Seq(Gens)
           /\ Activated(g)[g] = "active" /\ status[g] = "pending"
           /\ \A h \in Gens \ {g} : Activated(g)[h] = IF status[h] = "active" THEN "retired" ELSE status[h]
           /\ \A i \in 1..Len(WithReplaced(g)) : Activated(g)[WithReplaced(g)[i]] \in {"retired", "gone"}
<1>t. status \in [Gens -> Statuses] /\ retired \in Seq(Gens)
  BY DEF TypeInv, PublicationTypeOK
<1>1. status[g] = "pending" /\ ActiveIs(ident[g].prev)
  BY DEF MayActivate
<1>2. Activated(g) \in [Gens -> Statuses] /\ WithReplaced(g) \in Seq(Gens)
  BY <1>1, ActivatedTypes
<1>3. /\ Activated(g)[g] = "active"
      /\ \A h \in Gens \ {g} : Activated(g)[h] = IF status[h] = "active" THEN "retired" ELSE status[h]
  BY DEF Activated
<1>4. \A i \in 1..Len(retired) : Activated(g)[retired[i]] \in {"retired", "gone"}
  <2>1. \A i \in 1..Len(retired) : retired[i] \in Gens /\ status[retired[i]] \in {"retired", "gone"}
    BY <1>t DEF RetiredIsRetired
  <2> QED
    BY <1>1, <1>3, <2>1
<1>5. CASE ident[g].prev = NoGen
  BY <1>1, <1>2, <1>3, <1>4, <1>5 DEF WithReplaced
<1>6. CASE ident[g].prev # NoGen
  <2>1. PICK p : p = ident[g].prev
    OBVIOUS
  <2>2. p \in Gens /\ status[p] = "active"
    <3>1. ident[g].prev \in Gens \cup {NoGen}
      BY DEF TypeInv, PublicationTypeOK, Identities, NoIdentity
    <3> QED
      BY <1>1, <1>6, <2>1, <3>1 DEF ActiveIs
  <2>3. Activated(g)[p] = "retired"
    BY <1>1, <1>3, <2>2
  <2>4. WithReplaced(g) = Append(retired, p)
    BY <1>6, <2>1 DEF WithReplaced
  <2>5. \A i \in 1..Len(WithReplaced(g)) :
          WithReplaced(g)[i] = p \/ (i \in 1..Len(retired) /\ WithReplaced(g)[i] = retired[i])
    BY <1>t, <2>2, <2>4
  <2> QED
    BY <1>1, <1>2, <1>3, <1>4, <2>3, <2>5
<1> QED
  BY <1>5, <1>6

LEMMA StayingMoves ==
    ASSUME RetiredIsRetired, UNCHANGED <<status, ident, retired>>
    PROVE  RowsMove
BY DEF RetiredIsRetired, RowsMove, RowMoves

LEMMA ActivateMoves ==
    ASSUME TypeInv, RetiredIsRetired, NEW s \in Stores, cur[s] \in Gens,
           pc[s] \in {"cleared", "activate"}, MayActivate(s, cur[s]), UNCHANGED ident,
           \/ Collect(Activated(cur[s]), WithReplaced(cur[s]))
           \/ status' = Activated(cur[s]) /\ retired' = WithReplaced(cur[s])
    PROVE  RowsMove /\ status'[cur[s]] = "active"
<1> PICK g \in Gens : g = cur[s]
  OBVIOUS
<1>1. /\ Activated(g) \in [Gens -> Statuses] /\ WithReplaced(g) \in Seq(Gens)
      /\ Activated(g)[g] = "active" /\ status[g] = "pending"
      /\ \A h \in Gens \ {g} : Activated(g)[h] = IF status[h] = "active" THEN "retired" ELSE status[h]
      /\ \A i \in 1..Len(WithReplaced(g)) : Activated(g)[WithReplaced(g)[i]] \in {"retired", "gone"}
  BY ActivationMoves
<1>2. /\ RetiredIsRetired'
      /\ \A h \in Gens : \/ status'[h] = Activated(g)[h]
                         \/ status'[h] = "gone" /\ Activated(g)[h] \in {"retired", "gone"}
  <2>1. CASE Collect(Activated(g), WithReplaced(g))
    BY <1>1, <2>1, CollectMoves
  <2>2. CASE status' = Activated(g) /\ retired' = WithReplaced(g)
    BY <1>1, <2>2 DEF RetiredIsRetired
  <2> QED
    BY <2>1, <2>2
<1>3. status'[g] = "active"
  BY <1>1, <1>2
<1>4. Replaced /\ Activates(g)
  BY <1>1, <1>3 DEF Replaced, Activates
<1>5. ASSUME NEW h \in Gens PROVE RowMoves(h)
  <2>1. CASE h = g
    BY <1>1, <1>3, <1>4, <2>1 DEF RowMoves
  <2>2. CASE h # g
    <3>1. status'[h] = "gone" \/ status'[h] = IF status[h] = "active" THEN "retired" ELSE status[h]
      BY <1>1, <1>2, <2>2
    <3> QED
      BY <1>4, <3>1 DEF RowMoves
  <2> QED
    BY <2>1, <2>2
<1> QED
  BY <1>2, <1>3, <1>5 DEF RowsMove

LEMMA RowsMovePublish ==
    ASSUME TypeInv, RetiredIsRetired, NEW s \in Stores, Publish(s)
    PROVE  RowsMove
<1> USE DEF rows
<1>a. pc[s] \in Publishing => cur[s] \in Gens
  BY AtHand DEF Working
<1>0. status \in [Gens -> Statuses] /\ retired \in Seq(Gens) /\ ident \in [Gens -> Identities \cup {NoIdentity}]
  BY DEF TypeInv, PublicationTypeOK
<1>s. \A i \in 1..Len(retired) : retired[i] \in Gens
  BY <1>0
<1>1. ASSUME NEW g \in Gens, Stage(s, g) PROVE RowsMove
  <2>1. /\ status[g] = "absent" /\ status' = [status EXCEPT ![g] = "building"]
        /\ UNCHANGED retired
        /\ \E i : ident' = [ident EXCEPT ![g] = i]
    BY <1>1 DEF Stage
  <2>2. \A h \in Gens : RowMoves(h) /\ (ident'[h] = ident[h] \/ status[h] = "absent")
    BY <1>0, <2>1 DEF RowMoves
  <2>3. RetiredIsRetired'
    BY <1>0, <1>s, <2>1 DEF RetiredIsRetired
  <2> QED
    BY <2>2, <2>3 DEF RowsMove
<1>2. CASE Validate(s)
  <2>1. cur[s] \in Gens /\ pc[s] = "building" /\ UNCHANGED <<ident, retired>>
    BY <1>2, <1>a DEF Validate, Publishing
  <2>2. \/ UNCHANGED status
        \/ status[cur[s]] = "building" /\ status' = [status EXCEPT ![cur[s]] = "validated"]
    BY <1>2 DEF Validate
  <2>3. \A h \in Gens : RowMoves(h)
    BY <1>0, <2>1, <2>2 DEF RowMoves, At
  <2>4. RetiredIsRetired'
    BY <1>0, <1>s, <2>1, <2>2 DEF RetiredIsRetired
  <2> QED
    BY <2>1, <2>3, <2>4 DEF RowsMove
<1>3. CASE AbandonBuild(s) \/ Enter(s) \/ Clear(s) \/ Reserve(s) \/ LostPending(s) \/ Discard(s)
  BY <1>3, StayingMoves DEF AbandonBuild, Enter, Clear, Reserve, LostPending, Discard
<1>4. CASE CompleteOwn(s) \/ Undo(s)
  BY <1>4, StayingMoves DEF CompleteOwn, Complete, Undo, Withdraw
<1>5. CASE Pend(s)
  <2>1. cur[s] \in Gens /\ UNCHANGED <<ident, retired>>
    BY <1>5, <1>a DEF Pend, Publishing
  <2>2. \/ UNCHANGED status
        \/ status[cur[s]] = "validated" /\ status' = [status EXCEPT ![cur[s]] = "pending"]
    BY <1>5 DEF Pend
  <2>3. \A h \in Gens : RowMoves(h)
    BY <1>0, <2>1, <2>2 DEF RowMoves
  <2>4. RetiredIsRetired'
    BY <1>0, <1>s, <2>1, <2>2 DEF RetiredIsRetired
  <2> QED
    BY <2>1, <2>3, <2>4 DEF RowsMove
<1>6. CASE Activate(s)
  <2>1. cur[s] \in Gens /\ pc[s] = "cleared" /\ UNCHANGED ident
    BY <1>6, <1>a DEF Activate, Publishing
  <2>2. CASE MayActivate(s, cur[s])
    BY <1>6, <2>1, <2>2, ActivateMoves DEF Activate
  <2>3. CASE ~MayActivate(s, cur[s])
    BY <1>6, <2>3, StayingMoves DEF Activate
  <2> QED
    BY <2>2, <2>3
<1>7. CASE UndoRetire(s)
  <2>1. PICK g \in Gens : g = cur[s]
    BY <1>7, <1>a DEF UndoRetire, Publishing
  <2>2. /\ Retire(g, Inactive \cup {"active"}) /\ UNCHANGED ident
        /\ RetiresActive(g)
    BY <1>7, <2>1 DEF UndoRetire, RetiresActive
  <2>3. /\ RetiredIsRetired' /\ \A h \in Gens \ {g} : status'[h] = status[h]
        /\ status'[g] \in {status[g], "retired"}
    BY <2>2, RetireMoves
  <2> QED
    BY <2>2, <2>3 DEF RowsMove, RowMoves
<1>8. CASE DiscardRetire(s)
  <2>1. cur[s] \in Gens /\ UNCHANGED ident
    BY <1>8, <1>a DEF DiscardRetire, Publishing
  <2>2. CASE status[cur[s]] \in Inactive
    <3>1. PICK st, q : st = [status EXCEPT ![cur[s]] = "retired"] /\ q = Append(retired, cur[s])
      OBVIOUS
    <3>2. Collect(st, q)
      BY <1>8, <2>2, <3>1 DEF DiscardRetire
    <3>3. st \in [Gens -> Statuses] /\ q \in Seq(Gens)
      BY <1>0, <2>1, <3>1 DEF Statuses
    <3>4. \A i \in 1..Len(q) : q[i] = cur[s] \/ (i \in 1..Len(retired) /\ q[i] = retired[i])
      BY <1>0, <2>1, <3>1
    <3>5. \A i \in 1..Len(q) : st[q[i]] \in {"retired", "gone"}
      BY <1>0, <1>s, <2>1, <3>1, <3>4 DEF RetiredIsRetired
    <3>6. /\ RetiredIsRetired'
          /\ \A h \in Gens : status'[h] = st[h] \/ status'[h] = "gone"
      BY <3>2, <3>3, <3>5, CollectMoves
    <3>7. \A h \in Gens : st[h] = status[h] \/ (status[h] # "active" /\ st[h] = "retired")
      BY <1>0, <2>1, <2>2, <3>1 DEF Inactive
    <3> QED
      BY <2>1, <3>6, <3>7 DEF RowsMove, RowMoves
  <2>3. CASE status[cur[s]] \notin Inactive
    BY <1>8, <2>3, StayingMoves DEF DiscardRetire
  <2> QED
    BY <2>2, <2>3
<1> QED
  BY <1>1, <1>2, <1>3, <1>4, <1>5, <1>6, <1>7, <1>8 DEF Publish

LEMMA RowsMoveReconcile ==
    ASSUME TypeInv, RetiredIsRetired, NEW s \in Stores, Reconcile(s)
    PROVE  RowsMove
<1> USE DEF rows
<1>a. pc[s] \in {"attach", "activate", "retire"} => cur[s] \in Gens
  BY AtHand DEF Working, Opening
<1>0. status \in [Gens -> Statuses] /\ retired \in Seq(Gens)
  BY DEF TypeInv, PublicationTypeOK
<1>s. \A i \in 1..Len(retired) : retired[i] \in Gens
  BY <1>0
<1>1. CASE Open(s) \/ RecCheck(s) \/ RecCancel(s)
  BY <1>1, StayingMoves DEF Open, RecCheck, RecCancel
<1>2. CASE OpenRecreated(s)
  <2>1. /\ \A g \in Gens : status'[g] = IF status[g] = "absent" THEN "absent" ELSE "gone"
        /\ retired' = <<>> /\ UNCHANGED ident
    BY <1>2 DEF OpenRecreated
  <2>2. Len(retired') = 0 /\ \A i \in 1..0 : FALSE
    BY <2>1
  <2> QED
    BY <2>1, <2>2 DEF RowsMove, RowMoves, RetiredIsRetired
<1>3. ASSUME NEW g \in Gens, ReconcileActive(s, g) \/ ReconcilePending(s, g)
      PROVE  RowsMove
  BY <1>3, StayingMoves DEF ReconcileActive, ReconcilePending
<1>4. ASSUME NEW g \in Gens, ReconcileBuilding(s, g) PROVE RowsMove
  <2>1. UNCHANGED ident /\ (Retire(g, {"building"}) \/ UNCHANGED <<status, retired>>)
    BY <1>4 DEF ReconcileBuilding
  <2>2. CASE Retire(g, {"building"})
    <3>1. /\ RetiredIsRetired' /\ \A h \in Gens \ {g} : status'[h] = status[h]
          /\ status'[g] = status[g] \/ (status[g] \in {"building"} /\ status'[g] = "retired")
      BY <2>2, RetireMoves
    <3> QED
      BY <2>1, <3>1 DEF RowsMove, RowMoves
  <2> QED
    BY <2>1, <2>2, StayingMoves
<1>5. CASE RecAttach(s)
  <2>1. cur[s] \in Gens
    BY <1>5, <1>a DEF RecAttach
  <2>2. /\ UNCHANGED <<ident, retired>>
        /\ status' = [status EXCEPT ![cur[s]] = IF @ = "validated" THEN "pending" ELSE @]
    BY <1>5 DEF RecAttach
  <2>3. \A h \in Gens : \/ status'[h] = status[h]
                        \/ status[h] = "validated" /\ status'[h] = "pending"
    BY <1>0, <2>1, <2>2
  <2>4. RetiredIsRetired'
    BY <1>s, <2>2, <2>3 DEF RetiredIsRetired
  <2> QED
    BY <2>2, <2>3, <2>4 DEF RowsMove, RowMoves
<1>6. CASE RecComplete(s) \/ RecUncomplete(s)
  BY <1>6, StayingMoves DEF RecComplete, Complete, RecUncomplete, Withdraw
<1>7. CASE RecActivate(s)
  <2>1. cur[s] \in Gens /\ pc[s] = "activate" /\ UNCHANGED ident
    BY <1>7, <1>a DEF RecActivate
  <2>2. CASE MayActivate(s, cur[s])
    BY <1>7, <2>1, <2>2, ActivateMoves DEF RecActivate
  <2>3. CASE ~MayActivate(s, cur[s])
    BY <1>7, <2>3, StayingMoves DEF RecActivate
  <2> QED
    BY <2>2, <2>3
<1>8. CASE RecRetire(s)
  <2>1. PICK g \in Gens : g = cur[s] /\ pc[s] = "retire"
    BY <1>8, <1>a DEF RecRetire
  <2>2. PICK from : /\ Retire(g, from)
                    /\ from = IF snap[s].st[g] = "active" THEN Inactive \cup {"active"} ELSE Inactive
    BY <1>8, <2>1 DEF RecRetire
  <2>3. /\ RetiredIsRetired' /\ \A h \in Gens \ {g} : status'[h] = status[h]
        /\ status'[g] = status[g] \/ (status[g] \in from /\ status'[g] = "retired")
    BY <2>2, RetireMoves
  <2>4. status[g] \in from /\ status[g] = "active" => RetiresActive(g)
    BY <2>1, <2>2 DEF RetiresActive, Inactive
  <2>5. RowMoves(g) /\ \A h \in Gens \ {g} : RowMoves(h)
    BY <2>3, <2>4 DEF RowMoves
  <2> QED
    BY <1>8, <2>3, <2>5 DEF RowsMove, RecRetire
<1>9. CASE FinishOpening(s)
  <2>1. UNCHANGED ident /\ (Collect(status, retired) \/ UNCHANGED <<status, retired>>)
    BY <1>9 DEF FinishOpening
  <2>2. CASE Collect(status, retired)
    <3>1. /\ RetiredIsRetired'
          /\ \A h \in Gens : status'[h] = status[h] \/ status'[h] = "gone"
      BY <1>0, <2>2, CollectMoves DEF RetiredIsRetired
    <3> QED
      BY <2>1, <3>1 DEF RowsMove, RowMoves
  <2> QED
    BY <2>1, <2>2, StayingMoves
<1> QED
  BY <1>1, <1>2, <1>3, <1>4, <1>5, <1>6, <1>7, <1>8, <1>9 DEF Reconcile

LEMMA RowsMoveNext == TypeInv /\ RetiredIsRetired /\ [Next]_vars => RowsMove
<1> SUFFICES ASSUME TypeInv, RetiredIsRetired, [Next]_vars PROVE RowsMove
  OBVIOUS
<1>1. CASE UNCHANGED vars
  BY <1>1, StayingMoves DEF vars
<1>2. CASE Ingest
  BY <1>2, StayingMoves DEF Ingest, rows
<1>3. ASSUME NEW g \in Gens, LeaseExpires(g) PROVE RowsMove
  BY <1>3, StayingMoves DEF LeaseExpires
<1>4. ASSUME NEW s \in Stores, Lose(s) PROVE RowsMove
  BY <1>4, StayingMoves DEF Lose, rows
<1>5. ASSUME NEW s \in Stores, Scheduling(s) PROVE RowsMove
  BY <1>5, StayingMoves DEF Scheduling, OpenEpoch, Fence, RevokeCanonical, RevokeLocal, rows
<1> QED
  BY <1>1, <1>2, <1>3, <1>4, <1>5, RowsMovePublish, RowsMoveReconcile DEF Next

LEMMA WitnessesMoveNext == TypeInv /\ [Next]_vars => WitnessesMove
<1> SUFFICES ASSUME TypeInv, [Next]_vars PROVE WitnessesMove
  OBVIOUS
<1> USE DEF WitnessesMove, WitnessMoves, Settled, canonical
<1>t. wit \in [Gens -> {"none", "reserved", "completed", "cancelled"}]
  BY DEF TypeInv, PublicationTypeOK
<1>0. CASE UNCHANGED wit
  BY <1>0
<1>1. CASE UNCHANGED vars \/ Ingest \/ (\E g \in Gens : LeaseExpires(g))
  BY <1>1, <1>0 DEF vars, Ingest, LeaseExpires
<1>2. ASSUME NEW s \in Stores, Lose(s) \/ Scheduling(s) PROVE WitnessesMove
  BY <1>2, <1>0 DEF Lose, Scheduling, OpenEpoch, Fence, RevokeCanonical, RevokeLocal
<1>3. ASSUME NEW s \in Stores, NEW next, NEW failed, Complete(s, next, failed)
      PROVE  WitnessesMove
  <2>1. \/ UNCHANGED wit
        \/ wit[cur[s]] = "reserved" /\ wit' = [wit EXCEPT ![cur[s]] = "completed"]
        \/ wit[cur[s]] = "reserved" /\ wit' = [wit EXCEPT ![cur[s]] = "cancelled"]
    BY <1>3 DEF Complete
  <2> QED
    BY <1>t, <2>1
<1>4. ASSUME NEW s \in Stores, wit' = [wit EXCEPT ![cur[s]] = IF @ = "reserved" THEN "cancelled" ELSE @]
      PROVE  WitnessesMove
  BY <1>t, <1>4
<1>5. ASSUME NEW s \in Stores, NEW next, Withdraw(s, next), pc[s] \in {"undo", "uncomplete"}
      PROVE  WitnessesMove
  <2>1. wit' = [wit EXCEPT ![cur[s]] = IF @ = "completed" THEN "cancelled" ELSE @]
    BY <1>5 DEF Withdraw
  <2> QED
    BY <1>t, <1>5, <2>1 DEF At
<1>6. ASSUME NEW s \in Stores, Publish(s) PROVE WitnessesMove
  <2>1. ASSUME NEW g \in Gens, Stage(s, g) PROVE WitnessesMove
    BY <1>0, <2>1 DEF Stage
  <2>2. CASE \/ Validate(s) \/ AbandonBuild(s) \/ Enter(s) \/ Pend(s) \/ Clear(s)
             \/ Activate(s) \/ UndoRetire(s) \/ DiscardRetire(s)
    BY <1>0, <2>2 DEF Validate, AbandonBuild, Enter, Pend, Clear, Activate, UndoRetire, DiscardRetire
  <2>3. CASE Reserve(s)
    <3>1. \/ UNCHANGED wit
          \/ wit[cur[s]] = "none" /\ wit' = [wit EXCEPT ![cur[s]] = "reserved"]
      BY <2>3 DEF Reserve
    <3> QED
      BY <1>t, <2>3, <3>1 DEF At, Reserve
  <2>4. CASE CompleteOwn(s)
    BY <1>3, <2>4 DEF CompleteOwn
  <2>5. CASE LostPending(s)
    BY <1>4, <2>5 DEF LostPending
  <2>6. CASE Undo(s)
    BY <1>5, <2>6 DEF Undo
  <2>7. CASE Discard(s)
    BY <1>0, <1>4, <2>7 DEF Discard
  <2> QED
    BY <1>6, <2>1, <2>2, <2>3, <2>4, <2>5, <2>6, <2>7 DEF Publish
<1>7. ASSUME NEW s \in Stores, Reconcile(s) PROVE WitnessesMove
  <2>1. ASSUME NEW g \in Gens, ReconcileActive(s, g) \/ ReconcileBuilding(s, g) \/ ReconcilePending(s, g)
        PROVE  WitnessesMove
    BY <1>0, <2>1 DEF ReconcileActive, ReconcileBuilding, ReconcilePending
  <2>2. CASE \/ Open(s) \/ OpenRecreated(s) \/ RecAttach(s) \/ RecCheck(s)
             \/ RecActivate(s) \/ RecRetire(s)
    BY <1>0, <2>2 DEF Open, OpenRecreated, RecAttach, RecCheck, RecActivate, RecRetire
  <2>3. CASE RecComplete(s)
    BY <1>3, <2>3 DEF RecComplete
  <2>4. CASE RecCancel(s)
    BY <1>4, <2>4 DEF RecCancel
  <2>5. CASE RecUncomplete(s)
    BY <1>5, <2>5 DEF RecUncomplete
  <2>6. CASE FinishOpening(s)
    BY <1>t, <2>6 DEF FinishOpening
  <2> QED
    BY <1>7, <2>1, <2>2, <2>3, <2>4, <2>5, <2>6 DEF Reconcile
<1> QED
  BY <1>1, <1>2, <1>6, <1>7 DEF Next

-----------------------------------------------------------------------------
(***************************************************************************)
(* Every thread stands on what it has read, whoever else steps.            *)
(***************************************************************************)
KeepsThread(t) == UNCHANGED <<pc[t], cur[t], snap[t], todo[t], seen[t]>>
TimePasses == gone \subseteq gone' /\ canon' \in Nat /\ canon <= canon'
Steady == TypeInv /\ WitnessInv /\ OrderInv /\ ThreadInv
Moves == RowsMove /\ WitnessesMove /\ TimePasses

\* A row that is known never becomes unknown, and keeps its owner.
LEMMA KnownStaysKnown ==
    ASSUME Moves, NEW g \in Gens, status[g] # "absent"
    PROVE  status'[g] # "absent" /\ ident'[g] = ident[g]
BY DEF Moves, RowsMove, RowMoves

\* A decided witness stays decided.
LEMMA DecidedStays ==
    ASSUME Moves, NEW g \in Gens
    PROVE  /\ wit[g] \in Settled => wit'[g] \in Settled
           /\ wit[g] = "cancelled" => wit'[g] = "cancelled"
BY DEF Moves, WitnessesMove, WitnessMoves, Settled

\* Nobody works for a dead owner: its row is not validated, its generation
\* not reserved any more.
LEMMA DeadDoNothing ==
    ASSUME Steady, Moves, NEW g \in Gens, Owner(g) \in gone
    PROVE  /\ wit[g] = "none" => wit'[g] = "none"
           /\ wit[g] # "reserved" => wit'[g] # "reserved"
           /\ status[g] \in {"building", "retired", "gone"} =>
                 status'[g] \in {"building", "retired", "gone"}
<1>1. ~At(g, {"entered"}) /\ ~At(g, {"building"})
  <2> SUFFICES ASSUME NEW s \in Stores, pc[s] \in {"entered", "building"}, cur[s] = g PROVE FALSE
    BY DEF At
  <2>1. Owner(g) = s
    BY DEF Steady, ThreadInv, ThreadStands, PublishesOwn, Publishing
  <2> QED
    BY <2>1 DEF Steady, ThreadInv, GoneIsDead
<1>2. RowMoves(g) /\ WitnessMoves(g)
  BY DEF Moves, RowsMove, WitnessesMove
<1> QED
  BY <1>1, <1>2 DEF RowMoves, WitnessMoves, Settled

\* What a store has read stands while it goes on to another row of it.
LEMMA SnapshotKept ==
    ASSUME Steady, Moves, NEW s \in Stores, pc[s] \in Opening,
           UNCHANGED <<snap[s], seen[s]>>,
           \A g \in todo[s] : g \notin todo'[s] /\ Owner(g) \in seen[s] /\ snap[s].st[g] \in Inactive =>
              status'[g] \notin Inactive /\ wit'[g] # "reserved"
    PROVE  SnapshotStands(s)'
<1>0. SnapshotStands(s)
  BY DEF Steady, ThreadInv, ThreadStands
<1>1. PICK sn : sn = snap[s]
  OBVIOUS
<1>2. sn = snap'[s] /\ seen'[s] = seen[s] /\ seen[s] \subseteq gone /\ Present(sn.st) \subseteq Gens
  BY <1>0, <1>1 DEF SnapshotStands, Present
<1>3. \A g \in Gens : sn.st[g] \in {"building", "active"} \cup Inactive => g \in Present(sn.st)
  BY DEF Present, Inactive
<1>4. \A g \in Present(sn.st) : status[g] # "absent" /\ status'[g] # "absent" /\ ident'[g] = ident[g]
  BY <1>0, <1>1, <1>2, KnownStaysKnown DEF SnapshotStands
<1>5. seen'[s] \subseteq gone'
  BY <1>2 DEF Moves, TimePasses
<1>6. \A g \in Gens : sn.st[g] = "active" => wit'[g] \in Settled
  BY <1>0, <1>1, DecidedStays DEF SnapshotStands
<1>7. ASSUME NEW g \in Gens, sn.st[g] = "building", ident'[g].owner \in seen[s]
      PROVE  status'[g] \in {"building", "retired", "gone"} /\ wit'[g] = "none"
  <2>1. Owner(g) \in seen[s] /\ Owner(g) \in gone
    BY <1>2, <1>3, <1>4, <1>7 DEF Owner
  <2> QED
    BY <1>0, <1>1, <1>7, <2>1, DeadDoNothing DEF SnapshotStands
<1>8. ASSUME NEW g \in Present(sn.st), g \notin todo'[s], ident'[g].owner \in seen[s], sn.st[g] \in Inactive
      PROVE  status'[g] \notin Inactive /\ wit'[g] # "reserved"
  <2>1. g \in Gens /\ Owner(g) \in seen[s] /\ Owner(g) \in gone
    BY <1>2, <1>4, <1>8 DEF Owner
  <2>2. CASE g \in todo[s]
    BY <1>1, <1>8, <2>1, <2>2
  <2>3. CASE g \notin todo[s]
    <3>1. status[g] \notin Inactive /\ wit[g] # "reserved"
      BY <1>0, <1>1, <1>8, <2>1, <2>3 DEF SnapshotStands
    <3>2. wit'[g] # "reserved"
      BY <2>1, <3>1, DeadDoNothing
    <3>3. RowMoves(g) /\ status[g] # "absent"
      BY <1>4, <2>1 DEF Moves, RowsMove
    <3> QED
      BY <3>1, <3>2, <3>3 DEF RowMoves, Inactive
  <2> QED
    BY <2>2, <2>3
<1> QED
  BY <1>1, <1>2, <1>4, <1>5, <1>6, <1>7, <1>8 DEF SnapshotStands, Owner

\* A thread that does not step stands where it stood.
LEMMA ThreadKept ==
    ASSUME Steady, Moves, NEW t \in Stores, KeepsThread(t)
    PROVE  ThreadStands(t)'
<1> USE DEF KeepsThread
<1>0. ThreadStands(t) /\ TypeInv
  BY DEF Steady, ThreadInv
<1>1. pc[t] \in Working => cur[t] \in Gens /\ status[cur[t]] # "absent"
  BY <1>0, AtHand DEF ThreadStands, PublishesOwn
<1>2. pc[t] \in Working => status'[cur[t]] # "absent" /\ ident'[cur[t]] = ident[cur[t]]
  BY <1>1, KnownStaysKnown
<1>3. Publishing \subseteq Working /\ Opening \subseteq Working \cup {"reconcile"}
  BY DEF Working
<1>4. PublishesOwn(t)'
  <2>1. pc[t] \in Publishing \ {"building"} => status'[cur[t]] # "building"
    <3> SUFFICES ASSUME pc[t] \in Publishing \ {"building"} PROVE status'[cur[t]] # "building"
      OBVIOUS
    <3>1. cur[t] \in Gens /\ status[cur[t]] \notin {"absent", "building"}
      BY <1>0, <1>1, <1>3 DEF ThreadStands, PublishesOwn
    <3>2. RowMoves(cur[t])
      BY <3>1 DEF Moves, RowsMove
    <3> QED
      BY <3>1, <3>2 DEF RowMoves
  <2>2. pc[t] \in Publishing => ident'[cur[t]].owner = t
    BY <1>0, <1>2, <1>3 DEF ThreadStands, PublishesOwn, Owner
  <2>3. pc[t] \in {"undo", "undoRetire"} => pc[t] \in Working
    BY DEF Working, Publishing
  <2>4. /\ pc[t] = "undo" => wit'[cur[t]] \in Settled
        /\ pc[t] = "undoRetire" => wit'[cur[t]] = "cancelled"
    BY <1>0, <1>1, <2>3, DecidedStays DEF ThreadStands, PublishesOwn
  <2> QED
    BY <1>2, <2>1, <2>2, <2>4 DEF PublishesOwn, Owner
<1>5. pc[t] \in Opening => SnapshotStands(t)'
  BY SnapshotKept
<1>6. RecoveryStands(t)'
  <2>1. pc[t] \in {"uncomplete", "cancel", "retire"} => pc[t] \in Working /\ pc[t] \in Opening
    BY DEF Working, Opening
  <2>2. pc[t] = "uncomplete" =>
          /\ wit'[cur[t]] \in Settled
          /\ snap[t].st[cur[t]] = "active" => ident'[cur[t]].rev < canon'
    <3> SUFFICES ASSUME pc[t] = "uncomplete"
                 PROVE  /\ wit'[cur[t]] \in Settled
                        /\ snap[t].st[cur[t]] = "active" => ident'[cur[t]].rev < canon'
      OBVIOUS
    <3>1. cur[t] \in Gens /\ ident'[cur[t]] = ident[cur[t]]
      BY <1>1, <1>2, <2>1
    <3>2. wit'[cur[t]] \in Settled
      BY <1>0, <3>1, DecidedStays DEF ThreadStands, RecoveryStands
    <3>3. ident[cur[t]].rev \in Nat /\ canon \in Nat /\ canon' >= canon
      BY <1>0, <3>1, PublicationAssumption DEF Moves, TimePasses, TypeInv, PublicationTypeOK, Identities, NoIdentity
    <3>4. snap[t].st[cur[t]] = "active" => ident[cur[t]].rev < canon
      BY <1>0 DEF ThreadStands, RecoveryStands
    <3>5. PICK r \in Nat : r = ident[cur[t]].rev
      BY <3>3
    <3>6. \A m, n \in Nat : r < m /\ m <= n => r < n
      OBVIOUS
    <3>7. r < canon => r < canon'
      BY <3>3, <3>6 DEF Moves, TimePasses
    <3> QED
      BY <3>1, <3>2, <3>4, <3>5, <3>7
  <2>3. pc[t] = "retire" =>
          /\ snap[t].st[cur[t]] = "active" => wit'[cur[t]] = "cancelled"
          /\ ident'[cur[t]].owner \in seen[t] => wit'[cur[t]] # "reserved"
    <3> SUFFICES ASSUME pc[t] = "retire"
                 PROVE  /\ snap[t].st[cur[t]] = "active" => wit'[cur[t]] = "cancelled"
                        /\ ident'[cur[t]].owner \in seen[t] => wit'[cur[t]] # "reserved"
      OBVIOUS
    <3>1. cur[t] \in Gens /\ ident'[cur[t]] = ident[cur[t]]
      BY <1>1, <1>2, <2>1
    <3>2. /\ snap[t].st[cur[t]] = "active" => wit[cur[t]] = "cancelled"
          /\ Owner(cur[t]) \in seen[t] => wit[cur[t]] # "reserved"
      BY <1>0 DEF ThreadStands, RecoveryStands
    <3>3. seen[t] \subseteq gone
      BY <1>0, <2>1 DEF ThreadStands, SnapshotStands
    <3> QED
      BY <3>1, <3>2, <3>3, DecidedStays, DeadDoNothing DEF Owner
  <2> QED
    BY <1>0, <2>2, <2>3 DEF ThreadStands, RecoveryStands, Owner
<1> QED
  BY <1>0, <1>4, <1>5, <1>6 DEF ThreadStands

\* A thread at rest, or a lost one, relies on nothing.
LEMMA IdleStands ==
    ASSUME NEW s \in Stores, pc'[s] \in {"idle", "dead"}
    PROVE  ThreadStands(s)'
BY DEF ThreadStands, PublishesOwn, RecoveryStands, Working, Publishing, Opening

\* A publishing thread that goes on stands, if it has seen the witness of
\* what it undoes decided and withdraws it before the row.
LEMMA PublishGoesOn ==
    ASSUME Steady, Moves, NEW s \in Stores, pc[s] \in Publishing,
           NEW l \in Publishing \ {"building"}, Go(s, l), UNCHANGED cur,
           pc[s] = "building" => status'[cur[s]] # "building",
           l = "undo" => wit[cur[s]] \in Settled,
           l = "undoRetire" => wit'[cur[s]] = "cancelled"
    PROVE  ThreadStands(s)'
<1>0. /\ pc'[s] = l /\ cur'[s] = cur[s] /\ l \in Publishing /\ l # "building"
      /\ pc[s] \in Working /\ TypeInv /\ PublishesOwn(s)
  BY DEF Go, Steady, ThreadInv, ThreadStands, TypeInv, PublicationTypeOK, Working
<1>1. cur[s] \in Gens /\ status[cur[s]] # "absent" /\ Owner(cur[s]) = s
  BY <1>0, AtHand DEF PublishesOwn
<1>2. status'[cur[s]] # "absent" /\ ident'[cur[s]] = ident[cur[s]]
  BY <1>1, KnownStaysKnown
<1>3. status'[cur[s]] # "building"
  <2>1. CASE pc[s] # "building"
    <3>1. status[cur[s]] # "building"
      BY <1>0, <2>1 DEF PublishesOwn
    <3>2. RowMoves(cur[s])
      BY <1>1 DEF Moves, RowsMove
    <3> QED
      BY <1>1, <3>1, <3>2 DEF RowMoves
  <2> QED
    BY <2>1
<1>4. l = "undo" => wit'[cur[s]] \in Settled
  BY <1>1, DecidedStays
<1>5. PublishesOwn(s)'
  BY <1>0, <1>1, <1>2, <1>3, <1>4 DEF PublishesOwn, Owner
<1>6. l \notin Opening /\ l \notin {"down", "attach", "complete", "check", "activate", "uncomplete", "cancel", "retire"}
  BY DEF Opening, Publishing
<1> QED
  BY <1>0, <1>5, <1>6 DEF ThreadStands, RecoveryStands

LEMMA PublishStands ==
    ASSUME Steady, Moves, NEW s \in Stores, Publish(s)
    PROVE  ThreadStands(s)'
<1>t. /\ TypeInv /\ pc \in [Stores -> OffLine \cup Opening \cup Publishing \cup {"idle"}]
      /\ cur \in [Stores -> Gens \cup {NoGen}]
  BY DEF Steady, TypeInv, PublicationTypeOK
<1>r. ASSUME Rest(s) PROVE ThreadStands(s)'
  BY <1>t, <1>r, IdleStands DEF Rest
<1>s. pc[s] \in {"completed", "cleared"} => wit[cur[s]] \in Settled
  BY DEF Steady, WitnessInv, SeenSettled, Checked
<1>1. ASSUME NEW g \in Gens, Stage(s, g) PROVE ThreadStands(s)'
  <2>1. /\ pc'[s] = "building" /\ cur'[s] = g /\ status'[g] = "building" /\ ident'[g].owner = s
    BY <1>1, <1>t DEF Stage, Go, TypeInv, PublicationTypeOK
  <2> QED
    BY <2>1 DEF ThreadStands, PublishesOwn, RecoveryStands, Owner, Opening
<1>2. CASE Validate(s)
  <2>1. pc[s] = "building" /\ cur[s] \in Gens
    BY <1>t, <1>2, AtHand DEF Validate, Working, Publishing
  <2>2. CASE status[cur[s]] = "building"
    <3>1. Go(s, "validated") /\ UNCHANGED cur /\ status'[cur[s]] = "validated"
      BY <1>2, <1>t, <2>1, <2>2 DEF Validate, TypeInv, PublicationTypeOK
    <3> QED
      BY <2>1, <3>1, PublishGoesOn DEF Publishing
  <2>3. CASE status[cur[s]] # "building"
    BY <1>2, <1>r, <2>3 DEF Validate
  <2> QED
    BY <2>2, <2>3
<1>3. CASE AbandonBuild(s) \/ DiscardRetire(s)
  BY <1>3, <1>r DEF AbandonBuild, DiscardRetire
<1>4. ASSUME pc[s] \in Publishing \ {"building"}, UNCHANGED cur,
             NEW l \in {"discard", "entered", "reserved", "pending", "completed", "cleared", "discardRetire"},
             Go(s, l)
      PROVE  ThreadStands(s)'
  BY <1>4, PublishGoesOn DEF Publishing
<1>5. CASE Enter(s)
  <2>1. PICK l \in {"discard", "entered"} : Go(s, l)
    BY <1>5 DEF Enter
  <2> QED
    BY <1>4, <1>5, <2>1 DEF Enter, Publishing
<1>6. CASE Reserve(s)
  <2>1. PICK l \in {"discard", "reserved"} : Go(s, l)
    BY <1>6 DEF Reserve
  <2> QED
    BY <1>4, <1>6, <2>1 DEF Reserve, Publishing
<1>7. CASE Pend(s)
  <2>1. PICK l \in {"discard", "pending"} : Go(s, l)
    BY <1>7 DEF Pend
  <2> QED
    BY <1>4, <1>7, <2>1 DEF Pend, Publishing
<1>8. CASE CompleteOwn(s) \/ LostPending(s)
  <2>1. PICK l \in {"discard", "completed"} : Go(s, l)
    BY <1>8 DEF CompleteOwn, Complete, LostPending
  <2>2. pc[s] \in Publishing \ {"building"} /\ UNCHANGED cur
    BY <1>8 DEF CompleteOwn, Complete, LostPending, Publishing
  <2> QED
    BY <1>4, <2>1, <2>2
<1>9. CASE Clear(s)
  <2>1. PICK l \in {"cleared", "undo"} : Go(s, l)
    BY <1>9 DEF Clear
  <2> QED
    BY <1>9, <1>s, <2>1, PublishGoesOn DEF Clear, Publishing
<1>10. CASE Activate(s)
  <2>1. CASE MayActivate(s, cur[s])
    BY <1>10, <1>r, <2>1 DEF Activate
  <2>2. CASE ~MayActivate(s, cur[s])
    BY <1>10, <1>s, <2>2, PublishGoesOn DEF Activate, Publishing
  <2> QED
    BY <2>1, <2>2
<1>11. CASE Undo(s)
  <2>1. pc[s] = "undo" /\ wit[cur[s]] \in Settled /\ cur[s] \in Gens
    BY <1>11, <1>t, AtHand DEF Undo, Steady, ThreadInv, ThreadStands, PublishesOwn, Working, Publishing
  <2>2. wit'[cur[s]] = "cancelled"
    BY <1>11, <1>t, <2>1 DEF Undo, Withdraw, Settled, TypeInv, PublicationTypeOK
  <2> QED
    BY <1>11, <2>1, <2>2, PublishGoesOn DEF Undo, Withdraw, Publishing
<1>12. CASE UndoRetire(s)
  BY <1>4, <1>12 DEF UndoRetire, Publishing
<1>13. CASE Discard(s)
  BY <1>4, <1>13, <1>r DEF Discard, Publishing
<1> QED
  BY <1>1, <1>2, <1>3, <1>5, <1>6, <1>7, <1>8, <1>9, <1>10, <1>11, <1>12, <1>13 DEF Publish

\* A store that opens stands: when it works on a row it knows, ...
LEMMA RowWorkedOn ==
    ASSUME Steady, Moves, NEW s \in Stores, pc[s] \in Opening, NEW g \in Gens,
           status[g] # "absent", NEW l \in Opening,
           pc'[s] = l, cur'[s] = g, UNCHANGED <<snap, todo, seen>>, RecoveryStands(s)'
    PROVE  ThreadStands(s)'
<1>1. SnapshotStands(s)'
  BY SnapshotKept
<1>2. l # "down" /\ l \notin Publishing
  BY DEF Opening, Publishing
<1>3. status'[g] # "absent"
  BY KnownStaysKnown
<1> QED
  BY <1>1, <1>2, <1>3 DEF ThreadStands, PublishesOwn, Publishing

\* ... and when it is done with a row that, of a dead owner, is decided.
LEMMA RowDone ==
    ASSUME Steady, Moves, NEW s \in Stores, pc[s] \in Opening, NEW g \in Gens,
           pc'[s] = "reconcile", UNCHANGED <<snap, seen>>, todo'[s] = todo[s] \ {g},
           Owner(g) \in seen[s] /\ snap[s].st[g] \in Inactive =>
              status'[g] \notin Inactive /\ wit'[g] # "reserved"
    PROVE  ThreadStands(s)'
<1>1. SnapshotStands(s)'
  BY SnapshotKept
<1> QED
  BY <1>1 DEF ThreadStands, PublishesOwn, RecoveryStands, Working, Publishing, Opening

LEMMA ReconcileStands ==
    ASSUME Steady, Moves, NEW s \in Stores, Reconcile(s)
    PROVE  ThreadStands(s)'
<1> USE DEF rows, canonical, opening
<1>t. /\ TypeInv /\ pc \in [Stores -> OffLine \cup Opening \cup Publishing \cup {"idle"}]
      /\ cur \in [Stores -> Gens \cup {NoGen}]
      /\ snap \in [Stores -> [st : [Gens -> Statuses], leased : SUBSET Gens]]
      /\ todo \in [Stores -> SUBSET Gens]
      /\ seen \in [Stores -> SUBSET Stores]
      /\ wit \in [Gens -> {"none", "reserved", "completed", "cancelled"}]
      /\ status \in [Gens -> Statuses]
  BY DEF Steady, TypeInv, PublicationTypeOK
<1>i. /\ ThreadStands(s) /\ RecoveryStands(s) /\ PublishesOwn(s)
      /\ pc[s] \in Opening => SnapshotStands(s)
  BY DEF Steady, ThreadInv, ThreadStands
<1>h. pc[s] \in Opening \ {"reconcile"} =>
        cur[s] \in Gens /\ status[cur[s]] # "absent"
  BY <1>t, <1>i, AtHand DEF PublishesOwn, Working
<1>c. pc[s] \in {"check", "activate"} => wit[cur[s]] \in Settled
  BY DEF Steady, WitnessInv, SeenSettled, Checked
<1>p. ASSUME NEW g \in Gens, pc[s] = "reconcile",
             snap[s].st[g] \in {"active", "building", "validated", "pending"}
      PROVE  status[g] # "absent"
  BY <1>i, <1>p DEF SnapshotStands, Present, Opening
<1>1. CASE Open(s)
  <2>1. /\ pc'[s] = "reconcile" /\ seen'[s] = gone /\ gone' = gone /\ status' = status
        /\ wit' = wit /\ ident' = ident
        /\ snap'[s] = [st |-> status, leased |-> lease]
        /\ todo'[s] = {g \in Present(status) : status[g] # "retired"}
    BY <1>1, <1>t DEF Open, Go
  <2>2. snap'[s].st = status
    BY <2>1
  <2>3. SnapshotStands(s)'
    <3>1. \A g \in Present(status) : status[g] # "absent"
      BY DEF Present
    <3>2. \A g \in Gens : status[g] = "active" => wit[g] \in Settled
      BY DEF Steady, WitnessInv, ActiveWasWitnessed, Settled
    <3>3. \A g \in Gens : status[g] = "building" => wit[g] = "none"
      BY DEF Steady, ThreadInv, NewIsUnwitnessed
    <3>4. \A g \in Present(status) \ todo'[s] : status[g] \notin Inactive
      BY <2>1 DEF Inactive
    <3> QED
      BY <2>1, <2>2, <3>1, <3>2, <3>3, <3>4 DEF SnapshotStands
  <2> QED
    BY <2>1, <2>3 DEF ThreadStands, PublishesOwn, RecoveryStands, Working, Publishing, Opening
<1>2. CASE OpenRecreated(s)
  <2>1. /\ pc'[s] = "reconcile" /\ seen'[s] = gone /\ gone' = gone
        /\ snap'[s] = NoRows
    BY <1>2, <1>t, <1>i DEF OpenRecreated, Go, ThreadStands
  <2>2. Present(snap'[s].st) = {} /\ \A g \in Gens : snap'[s].st[g] = "absent"
    BY <2>1 DEF NoRows, Present
  <2>3. SnapshotStands(s)'
    BY <2>1, <2>2 DEF SnapshotStands
  <2> QED
    BY <2>1, <2>3 DEF ThreadStands, PublishesOwn, RecoveryStands, Working, Publishing, Opening
<1>w. ASSUME NEW g \in Gens, pc[s] = "reconcile", WithdrawRead(s, g), UNCHANGED <<snap, todo, seen, wit, ident, canon>>,
             snap[s].st[g] \in {"active", "validated", "pending"},
             snap[s].st[g] = "active" => ~Trusted(g)
      PROVE  ThreadStands(s)'
  <2>1. status[g] # "absent" /\ pc[s] \in Opening /\ (snap[s].st[g] = "active" => wit[g] \in Settled)
    BY <1>i, <1>p, <1>w DEF Opening, SnapshotStands
  <2>2. CASE wit[g] = "reserved"
    <3>1. pc'[s] = "cancel" /\ cur'[s] = g /\ snap[s].st[g] # "active"
      BY <1>t, <1>w, <2>1, <2>2 DEF WithdrawRead, Begin, Go, Settled
    <3>2. RecoveryStands(s)'
      BY <1>w, <3>1 DEF RecoveryStands
    <3> QED
      BY <1>w, <2>1, <3>1, <3>2, RowWorkedOn DEF Opening
  <2>3. CASE wit[g] = "completed"
    <3>1. pc'[s] = "uncomplete" /\ cur'[s] = g
      BY <1>t, <1>w, <2>3 DEF WithdrawRead, Begin, Go
    <3>2. snap[s].st[g] = "active" => ident[g].rev < canon
      <4>1. ident[g].rev \in Nat /\ canon \in Nat /\ ident[g].rev <= canon
        BY <1>t, PublicationAssumption
           DEF Steady, OrderInv, RevsOfThePast, TypeInv, PublicationTypeOK, Identities, NoIdentity
      <4>2. snap[s].st[g] = "active" => ident[g].rev # canon
        BY <1>w, <2>3 DEF Trusted, SameRevision
      <4> QED
        BY <4>1, <4>2
    <3>3. RecoveryStands(s)'
      BY <1>w, <2>3, <3>1, <3>2 DEF RecoveryStands, Settled
    <3> QED
      BY <1>w, <2>1, <3>1, <3>3, RowWorkedOn DEF Opening
  <2>4. CASE wit[g] \notin {"reserved", "completed"}
    <3>1. pc'[s] = "retire" /\ cur'[s] = g
      BY <1>t, <1>w, <2>4 DEF WithdrawRead, Begin, Go
    <3>2. RecoveryStands(s)'
      BY <1>w, <2>1, <2>4, <3>1 DEF RecoveryStands, Settled
    <3> QED
      BY <1>w, <2>1, <3>1, <3>2, RowWorkedOn DEF Opening
  <2> QED
    BY <2>2, <2>3, <2>4
<1>k. ASSUME NEW g \in Gens, pc[s] = "reconcile", Skip(s, g), UNCHANGED <<snap, seen>>,
             Owner(g) \in seen[s] /\ snap[s].st[g] \in Inactive =>
                status'[g] \notin Inactive /\ wit'[g] # "reserved"
      PROVE  ThreadStands(s)'
  BY <1>t, <1>k, RowDone DEF Skip, Handled, Opening
<1>3. ASSUME NEW g \in Gens, ReconcileActive(s, g) PROVE ThreadStands(s)'
  <2>1. pc[s] = "reconcile" /\ snap[s].st[g] = "active" /\ UNCHANGED <<snap, seen, wit, ident, canon>>
    BY <1>3 DEF ReconcileActive
  <2>2. CASE Trusted(g)
    BY <1>3, <1>k, <2>1, <2>2 DEF ReconcileActive, Inactive
  <2>3. CASE ~Trusted(g)
    BY <1>3, <1>w, <2>1, <2>3 DEF ReconcileActive
  <2> QED
    BY <2>2, <2>3
<1>s. pc[s] = "reconcile" => seen[s] \subseteq gone
  BY <1>i DEF SnapshotStands, Opening
<1>4. ASSUME NEW g \in Gens, ReconcileBuilding(s, g) PROVE ThreadStands(s)'
  <2>1. /\ pc[s] = "reconcile" /\ snap[s].st[g] = "building" /\ Skip(s, g)
        /\ UNCHANGED <<snap, seen, wit>>
    BY <1>4 DEF ReconcileBuilding
  <2>2. ASSUME Owner(g) \in seen[s] PROVE status'[g] \notin Inactive /\ wit'[g] # "reserved"
    <3>1. Reclaimable(s, g) /\ Owner(g) \in gone
      BY <1>s, <2>1, <2>2 DEF Reclaimable
    <3>2. Retire(g, {"building"})
      BY <1>4, <3>1 DEF ReconcileBuilding
    <3>3. status[g] \in {"building", "retired", "gone"} /\ wit[g] = "none"
      BY <1>i, <2>1, <2>2 DEF SnapshotStands, Opening
    <3> QED
      BY <1>t, <2>1, <3>2, <3>3 DEF Retire, Inactive
  <2> QED
    BY <1>k, <2>1, <2>2
<1>b. ASSUME NEW g \in Gens, pc[s] = "reconcile", NEW l \in {"retire", "attach", "complete"}, Begin(s, g, l),
             UNCHANGED <<snap, todo, seen, wit>>,
             snap[s].st[g] \in {"validated", "pending"}, l = "retire" => wit[g] # "reserved"
      PROVE  ThreadStands(s)'
  <2>1. pc'[s] = l /\ cur'[s] = g /\ l \in Opening /\ status[g] # "absent" /\ pc[s] \in Opening
    BY <1>t, <1>b, <1>p DEF Begin, Go, Opening
  <2>2. RecoveryStands(s)'
    BY <1>b, <2>1 DEF RecoveryStands
  <2> QED
    BY <1>b, <2>1, <2>2, RowWorkedOn
<1>5. ASSUME NEW g \in Gens, ReconcilePending(s, g) PROVE ThreadStands(s)'
  <2>1. /\ pc[s] = "reconcile" /\ snap[s].st[g] \in {"validated", "pending"}
        /\ snap[s].st[g] # "active" /\ UNCHANGED <<snap, seen, wit, ident, canon>>
    BY <1>5 DEF ReconcilePending
  <2>2. \/ ~Reclaimable(s, g) /\ Skip(s, g)
        \/ WithdrawRead(s, g) /\ UNCHANGED todo
        \/ \E l \in {"retire", "attach", "complete"} :
              Begin(s, g, l) /\ UNCHANGED todo /\ (l = "retire" => wit[g] # "reserved")
    BY <1>5 DEF ReconcilePending
  <2>3. CASE ~Reclaimable(s, g) /\ Skip(s, g)
    <3>1. Owner(g) \notin seen[s]
      BY <1>s, <2>1, <2>3 DEF Reclaimable
    <3> QED
      BY <1>k, <2>1, <2>3, <3>1
  <2> QED
    BY <1>b, <1>w, <2>1, <2>2, <2>3
<1>6. CASE RecAttach(s)
  <2>1. pc[s] = "attach" /\ pc'[s] = "complete" /\ cur'[s] = cur[s] /\ UNCHANGED <<snap, todo, seen>>
    BY <1>6, <1>t DEF RecAttach, Go
  <2>2. RecoveryStands(s)'
    BY <1>i, <2>1 DEF RecoveryStands
  <2> QED
    BY <1>h, <2>1, <2>2, RowWorkedOn DEF Opening
<1>7. CASE RecComplete(s)
  <2>1. /\ pc[s] = "complete" /\ cur'[s] = cur[s] /\ UNCHANGED <<snap, todo, seen>>
        /\ cur[s] \in Gens
    BY <1>7, <1>h DEF RecComplete, Complete, Opening
  <2>2. pc'[s] = "check" \/ (pc'[s] = "retire" /\ wit'[cur[s]] # "reserved")
    BY <1>7, <1>t, <2>1 DEF RecComplete, Complete, Go
  <2>3. RecoveryStands(s)'
    BY <1>i, <2>1, <2>2 DEF RecoveryStands
  <2> QED
    BY <1>h, <2>1, <2>2, <2>3, RowWorkedOn DEF Opening
<1>8. CASE RecCheck(s)
  <2>1. /\ pc[s] = "check" /\ cur'[s] = cur[s] /\ UNCHANGED <<snap, todo, seen, wit>>
        /\ pc'[s] \in {"activate", "uncomplete"}
    BY <1>8, <1>t DEF RecCheck, Go
  <2>2. RecoveryStands(s)'
    BY <1>c, <1>i, <2>1 DEF RecoveryStands
  <2> QED
    BY <1>h, <2>1, <2>2, RowWorkedOn DEF Opening
<1>9. CASE RecActivate(s)
  <2>1. pc[s] = "activate" /\ UNCHANGED <<snap, seen, wit>> /\ cur[s] \in Gens
    BY <1>9, <1>h DEF RecActivate, Opening
  <2>2. CASE MayActivate(s, cur[s])
    <3>1. status'[cur[s]] = "active" /\ Resume(s)
      BY <1>9, <1>t, <2>1, <2>2 DEF RecActivate, Activated
    <3>2. status'[cur[s]] \notin Inactive /\ wit'[cur[s]] # "reserved"
      BY <1>c, <2>1, <3>1 DEF Inactive, Settled
    <3>3. pc'[s] = "reconcile" /\ todo'[s] = todo[s] \ {cur[s]}
      BY <1>t, <3>1 DEF Resume, Go, Handled
    <3> QED
      BY <2>1, <3>2, <3>3, RowDone DEF Opening
  <2>3. CASE ~MayActivate(s, cur[s])
    <3>1. pc'[s] = "uncomplete" /\ cur'[s] = cur[s] /\ UNCHANGED todo
      BY <1>9, <1>t, <2>3 DEF RecActivate, Go
    <3>2. RecoveryStands(s)'
      BY <1>c, <1>i, <2>1, <3>1 DEF RecoveryStands
    <3> QED
      BY <1>h, <2>1, <3>1, <3>2, RowWorkedOn DEF Opening
  <2> QED
    BY <2>2, <2>3
<1>10. CASE RecCancel(s)
  <2>1. /\ pc[s] = "cancel" /\ pc'[s] = "retire" /\ cur'[s] = cur[s] /\ UNCHANGED <<snap, todo, seen>>
        /\ cur[s] \in Gens
    BY <1>10, <1>t, <1>h DEF RecCancel, Go, Opening
  <2>2. wit'[cur[s]] # "reserved"
    BY <1>10, <1>t, <2>1 DEF RecCancel
  <2>3. RecoveryStands(s)'
    BY <1>i, <2>1, <2>2 DEF RecoveryStands
  <2> QED
    BY <1>h, <2>1, <2>3, RowWorkedOn DEF Opening
<1>11. CASE RecUncomplete(s)
  <2>1. /\ pc[s] = "uncomplete" /\ pc'[s] = "retire" /\ cur'[s] = cur[s] /\ UNCHANGED <<snap, todo, seen>>
        /\ cur[s] \in Gens /\ wit[cur[s]] \in Settled
    BY <1>11, <1>t, <1>h, <1>i DEF RecUncomplete, Withdraw, Go, Opening, RecoveryStands
  <2>2. wit'[cur[s]] = "cancelled"
    BY <1>11, <1>t, <2>1 DEF RecUncomplete, Withdraw, Settled
  <2>3. RecoveryStands(s)'
    BY <2>1, <2>2 DEF RecoveryStands
  <2> QED
    BY <1>h, <2>1, <2>3, RowWorkedOn DEF Opening
<1>12. CASE RecRetire(s)
  <2>1. /\ pc[s] = "retire" /\ UNCHANGED <<snap, seen, wit>> /\ cur[s] \in Gens
        /\ pc'[s] = "reconcile" /\ todo'[s] = todo[s] \ {cur[s]}
    BY <1>12, <1>t, <1>h DEF RecRetire, Opening, Resume, Go, Handled
  <2>2. status'[cur[s]] \notin Inactive
    <3>1. PICK from : Retire(cur[s], from) /\ Inactive \subseteq from
      BY <1>12 DEF RecRetire
    <3> QED
      BY <1>t, <2>1, <3>1 DEF Retire, Inactive
  <2>3. Owner(cur[s]) \in seen[s] => wit'[cur[s]] # "reserved"
    BY <1>i, <2>1 DEF RecoveryStands
  <2> QED
    BY <2>1, <2>2, <2>3, RowDone DEF Opening
<1>13. CASE FinishOpening(s)
  BY <1>13, <1>t, IdleStands DEF FinishOpening, Rest
<1> QED
  BY <1>1, <1>2, <1>3, <1>4, <1>5, <1>6, <1>7, <1>8, <1>9, <1>10, <1>11, <1>12, <1>13 DEF Reconcile

\* A step moves the thread of one store at most, and nothing that is over
\* comes back.
LEMMA OneThreadSteps ==
    ASSUME Steady, [Next]_vars
    PROVE  /\ \A t \in Stores :
                 KeepsThread(t) \/ Publish(t) \/ Reconcile(t) \/ pc'[t] = "dead"
           /\ gone \subseteq gone' /\ fenced \subseteq fenced'
           /\ RevokedIsFenced' /\ GoneIsDead'
<1> USE DEF KeepsThread, RevokedIsFenced, GoneIsDead, rows, canonical, opening
<1>t. /\ TypeInv /\ pc \in [Stores -> OffLine \cup Opening \cup Publishing \cup {"idle"}]
      /\ cur \in [Stores -> Gens \cup {NoGen}]
      /\ snap \in [Stores -> [st : [Gens -> Statuses], leased : SUBSET Gens]]
      /\ todo \in [Stores -> SUBSET Gens]
      /\ seen \in [Stores -> SUBSET Stores]
      /\ cepoch \in [Stores -> {"none", "open", "revoked"}]
      /\ gone \subseteq Stores /\ fenced \subseteq Stores
  BY DEF Steady, TypeInv, PublicationTypeOK
<1>i. RevokedIsFenced /\ GoneIsDead
  BY DEF Steady, ThreadInv
<1>1. CASE UNCHANGED vars
  BY <1>1, <1>i DEF vars
<1>2. CASE Ingest \/ \E g \in Gens : LeaseExpires(g)
  BY <1>2, <1>i DEF Ingest, LeaseExpires
<1>3. ASSUME NEW s \in Stores, Lose(s)
      PROVE  /\ \A t \in Stores : KeepsThread(t) \/ pc'[t] = "dead"
             /\ gone \subseteq gone' /\ fenced \subseteq fenced'
             /\ RevokedIsFenced' /\ GoneIsDead'
  BY <1>t, <1>i, <1>3 DEF Lose, Go
<1>4. ASSUME NEW s \in Stores, Scheduling(s)
      PROVE  /\ \A t \in Stores : KeepsThread(t)
             /\ gone \subseteq gone' /\ fenced \subseteq fenced'
             /\ RevokedIsFenced' /\ GoneIsDead'
  BY <1>t, <1>i, <1>4 DEF Scheduling, OpenEpoch, Fence, RevokeCanonical, RevokeLocal
<1>5. ASSUME NEW s \in Stores, Publish(s) \/ Reconcile(s),
             \A t \in Stores \ {s} : KeepsThread(t),
             UNCHANGED <<gone, fenced, cepoch>>, pc[s] # "dead"
      PROVE  /\ \A t \in Stores : KeepsThread(t) \/ Publish(t) \/ Reconcile(t)
             /\ gone \subseteq gone' /\ fenced \subseteq fenced'
             /\ RevokedIsFenced' /\ GoneIsDead'
  BY <1>t, <1>i, <1>5
<1>6. ASSUME NEW s \in Stores, Publish(s)
      PROVE  /\ \A t \in Stores \ {s} : KeepsThread(t)
             /\ UNCHANGED <<gone, fenced, cepoch>> /\ pc[s] # "dead"
  <2> USE DEF Go, Rest
  <2>1. ASSUME NEW g \in Gens, Stage(s, g)
        PROVE  /\ \A t \in Stores \ {s} : KeepsThread(t)
               /\ UNCHANGED <<gone, fenced, cepoch>> /\ pc[s] # "dead"
    BY <1>t, <2>1 DEF Stage
  <2>2. CASE Validate(s) \/ AbandonBuild(s) \/ Enter(s) \/ Reserve(s) \/ Pend(s)
    BY <1>t, <2>2 DEF Validate, AbandonBuild, Enter, Reserve, Pend
  <2>3. CASE CompleteOwn(s)
    BY <1>t, <2>3 DEF CompleteOwn, Complete
  <2>4. CASE LostPending(s) \/ Clear(s) \/ Activate(s) \/ Undo(s)
    BY <1>t, <2>4 DEF LostPending, Clear, Activate, Undo, Withdraw
  <2>5. CASE UndoRetire(s) \/ Discard(s) \/ DiscardRetire(s)
    BY <1>t, <2>5 DEF UndoRetire, Discard, DiscardRetire
  <2> QED
    BY <1>6, <2>1, <2>2, <2>3, <2>4, <2>5 DEF Publish
<1>7. ASSUME NEW s \in Stores, Reconcile(s)
      PROVE  /\ \A t \in Stores \ {s} : KeepsThread(t)
             /\ UNCHANGED <<gone, fenced, cepoch>> /\ pc[s] # "dead"
  <2> USE DEF Go, Rest, Resume, Skip, Handled, Begin
  <2>1. CASE Open(s) \/ OpenRecreated(s)
    BY <1>t, <2>1 DEF Open, OpenRecreated
  <2>2. ASSUME NEW g \in Gens,
               ReconcileActive(s, g) \/ ReconcileBuilding(s, g) \/ ReconcilePending(s, g)
        PROVE  /\ \A t \in Stores \ {s} : KeepsThread(t)
               /\ UNCHANGED <<gone, fenced, cepoch>> /\ pc[s] # "dead"
    <3>1. \/ Skip(s, g)
          \/ UNCHANGED todo /\ \E l : Begin(s, g, l)
      BY <2>2 DEF ReconcileActive, ReconcileBuilding, ReconcilePending, WithdrawRead
    <3>2. UNCHANGED <<gone, fenced, cepoch, snap, seen>> /\ pc[s] = "reconcile"
      BY <2>2 DEF ReconcileActive, ReconcileBuilding, ReconcilePending
    <3> QED
      BY <1>t, <3>1, <3>2
  <2>3. CASE RecAttach(s) \/ RecCheck(s) \/ RecActivate(s) \/ RecCancel(s) \/ RecRetire(s)
    BY <1>t, <2>3 DEF RecAttach, RecCheck, RecActivate, RecCancel, RecRetire
  <2>4. CASE RecComplete(s) \/ RecUncomplete(s)
    BY <1>t, <2>4 DEF RecComplete, Complete, RecUncomplete, Withdraw
  <2>5. CASE FinishOpening(s)
    BY <1>t, <2>5 DEF FinishOpening
  <2> QED
    BY <1>7, <2>1, <2>2, <2>3, <2>4, <2>5 DEF Reconcile
<1> QED
  BY <1>1, <1>2, <1>3, <1>4, <1>5, <1>6, <1>7 DEF Next

\* Every step moves rows, witnesses and time as the threads expect.
LEMMA StepMoves == Steady /\ [Next]_vars => Moves
<1> SUFFICES ASSUME Steady, [Next]_vars PROVE Moves
  OBVIOUS
<1>1. canon \in Nat
  BY PublicationAssumption DEF Steady, TypeInv, PublicationTypeOK
<1>2. canon' \in Nat /\ canon <= canon'
  <2>1. CASE Ingest
    BY <1>1, <2>1 DEF Ingest
  <2>2. CASE UNCHANGED canon
    BY <1>1, <2>2
  <2> QED
    BY <2>1, <2>2, CanonOnlyIngested DEF vars
<1>3. RowsMove /\ WitnessesMove
  BY RowsMoveNext, WitnessesMoveNext DEF Steady, ThreadInv
<1> QED
  BY <1>2, <1>3, OneThreadSteps DEF Moves, TimePasses

LEMMA ThreadInvStep == Steady /\ [Next]_vars => ThreadInv'
<1> SUFFICES ASSUME Steady, [Next]_vars PROVE ThreadInv'
  OBVIOUS
<1>1. Moves
  BY StepMoves
<1>2. \A t \in Stores : ThreadStands(t)'
  BY <1>1, OneThreadSteps, ThreadKept, PublishStands, ReconcileStands, IdleStands
<1>3. NewIsUnwitnessed'
  <2> SUFFICES ASSUME NEW g \in Gens, status'[g] \in {"absent", "building"}
               PROVE  wit'[g] = "none"
    BY DEF NewIsUnwitnessed
  <2>1. RowMoves(g) /\ WitnessMoves(g)
    BY <1>1 DEF Moves, RowsMove, WitnessesMove
  <2>2. status[g] \in {"absent", "building"} /\ wit[g] = "none"
    BY <2>1 DEF RowMoves, Steady, ThreadInv, NewIsUnwitnessed
  <2>3. ~At(g, {"entered"})
    <3> SUFFICES ASSUME NEW s \in Stores, pc[s] = "entered", cur[s] = g PROVE FALSE
      BY DEF At
    <3> QED
      BY <2>2 DEF Steady, ThreadInv, ThreadStands, PublishesOwn, Publishing, Working
  <2> QED
    BY <2>1, <2>2, <2>3 DEF WitnessMoves
<1> QED
  BY <1>1, <1>2, <1>3, OneThreadSteps DEF ThreadInv, Moves, RowsMove

LEMMA SteadyAlways == Spec => []Steady
<1>1. Init => TypeInv /\ WitnessInv /\ OrderInv /\ ThreadInv
  <2> SUFFICES ASSUME Init PROVE WitnessInv /\ OrderInv /\ ThreadInv
    BY TypeInvInit
  <2>1. WitnessInv
    BY DEF Init, WitnessInv, ActiveWasWitnessed, SeenSettled, Checked
  <2>2. OrderInv
    <3>1. \A g \in Gens : ident[g] = NoIdentity /\ status[g] = "absent"
      BY DEF Init
    <3> QED
      BY <3>1 DEF Init, OrderInv, OneActive, RevsOfThePast, PrevIsOlder, NoIdentity
  <2>3. ThreadInv
    <3>1. \A s \in Stores : pc[s] = "down" /\ snap[s] = NoRows
      BY DEF Init
    <3>2. \A s \in Stores : ThreadStands(s)
      BY <3>1 DEF ThreadStands, PublishesOwn, RecoveryStands, Working, Publishing, Opening
    <3>3. RevokedIsFenced /\ GoneIsDead /\ NewIsUnwitnessed /\ RetiredIsRetired
      BY DEF Init, RevokedIsFenced, GoneIsDead, NewIsUnwitnessed, RetiredIsRetired
    <3> QED
      BY <3>2, <3>3 DEF ThreadInv
  <2> QED
    BY <2>1, <2>2, <2>3
<1>2. Steady /\ [Next]_vars => Steady'
  BY TypeInvStep, WitnessInvStep, OrderInvStep, ThreadInvStep DEF Steady
<1>3. Init => Steady
  BY <1>1 DEF Steady
<1> QED
  BY <1>2, <1>3, PTL DEF Spec

-----------------------------------------------------------------------------
\* A store whose epoch is revoked in the canonical file has fenced it in its
\* own memory first, so its publishing thread activates nothing any more.
THEOREM ClosedIsSilent == Spec => ClosedStoreNeverActivates
<1>1. Steady /\ [Next]_vars =>
        [\A g \in Gens :
           (/\ status[g] # "active" /\ status'[g] = "active"
            /\ cepoch[Owner(g)] = "revoked")
           => \E t \in Stores \ {Owner(g)} : pc[t] = "activate" /\ cur[t] = g]_vars
  <2> SUFFICES ASSUME Steady, Next, NEW g \in Gens,
                      status[g] # "active", status'[g] = "active",
                      cepoch[Owner(g)] = "revoked"
               PROVE  \E t \in Stores \ {Owner(g)} : pc[t] = "activate" /\ cur[t] = g
    OBVIOUS
  <2>1. RowMoves(g)
    BY StepMoves DEF Moves, RowsMove
  <2>2. PICK s \in Stores : pc[s] \in {"cleared", "activate"} /\ cur[s] = g /\ MayActivate(s, g)
    BY <2>1 DEF RowMoves, Activates
  <2>3. s # Owner(g)
    BY <2>2 DEF MayActivate, Steady, ThreadInv, RevokedIsFenced
  <2>4. pc[s] = "cleared" => Owner(g) = s
    BY <2>2 DEF Steady, ThreadInv, ThreadStands, PublishesOwn, Publishing
  <2> QED
    BY <2>2, <2>3, <2>4
<1> QED
  BY <1>1, SteadyAlways, PTL DEF Spec, ClosedStoreNeverActivates

\* What is served leaves the readers only for the reasons there are: whoever
\* withdraws an active row without one has withdrawn its witness before, and
\* reconciliation withdraws the witness of a row it read as active only when
\* the account has moved on.
THEOREM ServedStands == Spec => ServedUntilSuperseded
<1> DEFINE Reason(g) ==
      \/ canon' # canon
      \/ \E h \in Gens : status[h] # "active" /\ status'[h] = "active"
      \/ status'[g] = "gone"
      \/ pc[Owner(g)] = "undo" /\ cur[Owner(g)] = g
      \/ \E t \in Stores : /\ pc[t] = "uncomplete" /\ cur[t] = g
                          /\ snap[t].st[g] # "active"
<1>1. Steady /\ [Next]_vars => [\A g \in Gens : Served(g) /\ ~Served(g)' => Reason(g)]_vars
  <2> SUFFICES ASSUME Steady, Next, NEW g \in Gens, Served(g), ~Served(g)'
               PROVE  Reason(g)
    OBVIOUS
  <2>1. Moves /\ RowMoves(g) /\ WitnessMoves(g)
    BY StepMoves DEF Moves, RowsMove, WitnessesMove
  <2>2. status[g] = "active" /\ wit[g] = "completed" /\ ident[g].rev = canon
    BY DEF Served
  <2>3. ident'[g] = ident[g]
    BY <2>1, <2>2, KnownStaysKnown
  <2>4. CASE canon' # canon
    BY <2>4
  <2>5. CASE canon' = canon
    <3>1. status'[g] # "active" \/ wit'[g] # "completed"
      BY <2>2, <2>3, <2>5 DEF Served
    <3>2. CASE wit'[g] # "completed"
      <4>1. PICK s \in Stores : pc[s] \in {"undo", "uncomplete"} /\ cur[s] = g
        BY <2>1, <2>2, <3>2 DEF WitnessMoves, At
      <4>2. ThreadStands(s)
        BY DEF Steady, ThreadInv
      <4>3. CASE pc[s] = "undo"
        <5>1. Owner(g) = s
          BY <4>1, <4>2, <4>3 DEF ThreadStands, PublishesOwn, Publishing
        <5> QED
          BY <4>1, <4>3, <5>1
      <4>4. CASE pc[s] = "uncomplete"
        <5>1. snap[s].st[g] = "active" => ident[g].rev < canon
          BY <4>1, <4>2, <4>4 DEF ThreadStands, RecoveryStands
        <5>2. canon \in Nat /\ ~(canon < canon)
          BY PublicationAssumption DEF Steady, TypeInv, PublicationTypeOK
        <5>3. snap[s].st[g] # "active"
          BY <2>2, <5>1, <5>2
        <5> QED
          BY <4>1, <4>4, <5>3
      <4> QED
        BY <4>1, <4>3, <4>4
    <3>3. CASE status'[g] # "active"
      <4>1. status'[g] = "gone" \/ Replaced \/ RetiresActive(g)
        BY <2>1, <2>2, <3>3 DEF RowMoves
      <4>2. ~RetiresActive(g)
        BY <2>2 DEF RetiresActive, Steady, ThreadInv, ThreadStands, PublishesOwn, RecoveryStands
      <4> QED
        BY <4>1, <4>2 DEF Replaced
    <3> QED
      BY <3>1, <3>2, <3>3
  <2> QED
    BY <2>4, <2>5
<1> QED
  BY <1>1, SteadyAlways, PTL DEF Spec, ServedUntilSuperseded

\* Opening ends when every row of the snapshot is handled, and what was
\* handled of a process that was dead already stays decided.
THEOREM DeadAreResolved == Spec => StartupResolvesTheDead
<1>1. Steady /\ [Next]_vars =>
        [\A s \in Stores : pc[s] = "reconcile" /\ pc'[s] = "idle" =>
           \A g \in Present(snap[s].st) :
             Owner(g) \in seen[s] /\ snap[s].st[g] \in Inactive
             => status'[g] \notin Inactive /\ wit'[g] # "reserved"]_vars
  <2> SUFFICES ASSUME Steady, Next, NEW s \in Stores,
                      pc[s] = "reconcile", pc'[s] = "idle",
                      NEW g \in Present(snap[s].st),
                      Owner(g) \in seen[s], snap[s].st[g] \in Inactive
               PROVE  status'[g] \notin Inactive /\ wit'[g] # "reserved"
    OBVIOUS
  <2>t. /\ TypeInv /\ g \in Gens
        /\ pc \in [Stores -> OffLine \cup Opening \cup Publishing \cup {"idle"}]
    BY DEF Steady, TypeInv, PublicationTypeOK, Present
  <2>1. Moves /\ RowMoves(g)
    BY <2>t, StepMoves DEF Moves, RowsMove
  <2>2. Reconcile(s)
    <3>1. Publish(s) \/ Reconcile(s)
      BY OneThreadSteps DEF KeepsThread
    <3>2. ~Publish(s)
      BY DEF Publish, Stage, Validate, AbandonBuild, Enter, Reserve, Pend, CompleteOwn,
             LostPending, Clear, Activate, Undo, UndoRetire, Discard, DiscardRetire
    <3> QED
      BY <3>1, <3>2
  <2>3. todo[s] = {}
    <3>1. FinishOpening(s) => todo[s] = {}
      BY DEF FinishOpening
    <3>2. ~Open(s) /\ ~OpenRecreated(s)
      BY DEF Open, OpenRecreated
    <3>3. ASSUME NEW h \in Gens,
                 ReconcileActive(s, h) \/ ReconcileBuilding(s, h) \/ ReconcilePending(s, h)
          PROVE  FALSE
      BY <2>t, <3>3 DEF ReconcileActive, ReconcileBuilding, ReconcilePending,
                        WithdrawRead, Skip, Begin, Go
    <3>4. /\ ~RecAttach(s) /\ ~RecComplete(s) /\ ~RecCheck(s) /\ ~RecActivate(s)
          /\ ~RecCancel(s) /\ ~RecUncomplete(s) /\ ~RecRetire(s)
      BY DEF RecAttach, RecComplete, RecCheck, RecActivate, RecCancel, RecUncomplete, RecRetire
    <3> QED
      BY <2>2, <3>1, <3>2, <3>3, <3>4 DEF Reconcile
  <2>4. SnapshotStands(s)
    BY DEF Steady, ThreadInv, ThreadStands, Opening
  <2>5. status[g] \notin Inactive /\ wit[g] # "reserved" /\ status[g] # "absent" /\ Owner(g) \in gone
    BY <2>3, <2>4 DEF SnapshotStands
  <2>6. status'[g] \notin Inactive
    BY <2>1, <2>5 DEF RowMoves, Inactive
  <2> QED
    BY <2>1, <2>t, <2>5, <2>6, DeadDoNothing
<1> QED
  BY <1>1, SteadyAlways, PTL DEF Spec, StartupResolvesTheDead
=============================================================================
