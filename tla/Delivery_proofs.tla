--------------------------- MODULE Delivery_proofs ---------------------------
(***************************************************************************)
(* Proofs about ingestion, for every set of entities and consent           *)
(* revisions, every page size and every number of connections, snapshots,  *)
(* calls in progress and faults.  First the Agent's durable store alone    *)
(* (AgentOutbox): its outbox and its snapshots.  Then ingestion end to end *)
(* (Delivery): the composed system keeps its store's specification, loses  *)
(* nothing, agrees about what is staged, and keeps the promise of          *)
(* IngestPromise.                                                          *)
(***************************************************************************)
EXTENDS Delivery, SequenceTheorems, FiniteSetTheorems, WellFoundedInduction, TLAPS

-----------------------------------------------------------------------------
(***************************************************************************)
(* The Agent's durable store.                                              *)
(***************************************************************************)
LEMMA NatSetHasMin ==
    ASSUME NEW T \in SUBSET Nat, T # {}
    PROVE  \E x \in T : \A y \in T : x <= y
<1> DEFINE R == OpToRel(<, Nat)
<1>1. IsWellFoundedOn(R, Nat)
  BY NatLessThanWellFounded
<1>2. \A x, y \in T : y < x => <<y, x>> \in R
  BY DEF OpToRel
<1> HIDE DEF R
<1>3. PICK x \in T : \A y \in T : ~ (<<y, x>> \in R)
  BY <1>1, WFMin
<1>4. \A y \in T : ~ (y < x)
  BY <1>2, <1>3
<1> QED
  BY <1>4

LEMMA IntervalSetHasMax ==
    ASSUME NEW n \in Nat, NEW T \in SUBSET (1..n), T # {}
    PROVE  \E x \in T : \A y \in T : y <= x
<1> DEFINE U == {n - x : x \in T}
<1>a. \A x \in T : x \in 1..n /\ n - x \in Nat
  OBVIOUS
<1>b. U # {}
  OBVIOUS
<1>1. U \in SUBSET Nat
  BY <1>a
<1>2. PICK u \in U : \A v \in U : u <= v
  BY <1>1, <1>b, NatSetHasMin
<1>3. PICK x \in T : u = n - x
  OBVIOUS
<1>4. \A y \in T : n - x <= n - y
  BY <1>2, <1>3
<1> QED
  BY <1>a, <1>4

-----------------------------------------------------------------------------
\* What is appended to the log, and which of the appended changes is the last
\* one on a row.
LEMMA CaptureAppends ==
    ASSUME Capture
    PROVE  \E cs \in Seq(Change) : AppendChanges(cs)
<1>1. \A k \in Entities : EntityChange(k) \in Change
  BY DEF EntityChange, Change
<1>2. \A g \in Grants : CoverageChange(g) \in Change
  BY DEF CoverageChange, Change
<1>3. ASSUME NEW k \in Entities, Enqueue(k)
      PROVE  \E cs \in Seq(Change) : AppendChanges(cs)
  <2>1. <<EntityChange(k)>> \in Seq(Change)
    BY <1>1
  <2> QED
    BY <1>3, <2>1 DEF Enqueue
<1>4. ASSUME NEW p \in Entities, NEW m \in Entities, EnqueueMessageWithParent(p, m)
      PROVE  \E cs \in Seq(Change) : AppendChanges(cs)
  <2>1. <<EntityChange(p), EntityChange(m)>> \in Seq(Change)
    BY <1>1
  <2> QED
    BY <1>4, <2>1 DEF EnqueueMessageWithParent
<1>5. ASSUME NEW ks \in Seq(Entities), NEW g \in Grants, CommitPage(ks, g)
      PROVE  \E cs \in Seq(Change) : AppendChanges(cs)
  <2> DEFINE es == [i \in 1..Len(ks) |-> EntityChange(ks[i])]
  <2>1. es \in Seq(Change)
    BY <1>1
  <2>2. <<CoverageChange(g)>> \in Seq(Change)
    BY <1>2
  <2>3. es \o <<CoverageChange(g)>> \in Seq(Change)
    BY <2>1, <2>2, ConcatProperties
  <2> QED
    BY <1>5, <2>3 DEF CommitPage
<1>6. <<>> \in Seq(Entities) /\ \A k \in Entities : <<k>> \in Seq(Entities)
  OBVIOUS
<1> QED
  BY <1>3, <1>4, <1>5, <1>6 DEF Capture

LEMMA AppendedLog ==
    ASSUME OutboxTypeOK, NEW cs \in Seq(Change), AppendChanges(cs)
    PROVE  /\ log' \in Seq(Change)
           /\ Len(cs) \in Nat
           /\ LastSeq' = LastSeq + Len(cs)
           /\ \A s \in 1..LastSeq : log'[s] = log[s]
           /\ \A i \in 1..Len(cs) : log'[LastSeq + i] = cs[i]
<1>1. log' = log \o cs /\ log \in Seq(Change)
  BY DEF AppendChanges, OutboxTypeOK
<1>2. /\ log \o cs \in Seq(Change)
      /\ Len(log \o cs) = Len(log) + Len(cs)
      /\ \A i \in 1 .. Len(log) + Len(cs) :
            (log \o cs)[i] = IF i <= Len(log) THEN log[i] ELSE cs[i - Len(log)]
  BY <1>1, ConcatProperties
<1>3. Len(log) \in Nat /\ Len(cs) \in Nat
  BY <1>1
<1> QED
  BY <1>1, <1>2, <1>3 DEF LastSeq

LEMMA LastWriteIsLast ==
    ASSUME NEW cs \in Seq(Change), NEW k \in Entities, Writes(cs, k) # {}
    PROVE  /\ LastWrite(cs, k) \in 1..Len(cs)
           /\ WritesRow(cs[LastWrite(cs, k)], k)
           /\ \A j \in 1..Len(cs) : j > LastWrite(cs, k) => ~WritesRow(cs[j], k)
<1>1. Len(cs) \in Nat /\ Writes(cs, k) \in SUBSET (1..Len(cs))
  BY DEF Writes
<1>2. \E i \in Writes(cs, k) : \A j \in Writes(cs, k) : j <= i
  BY <1>1, IntervalSetHasMax
<1>3. /\ LastWrite(cs, k) \in Writes(cs, k)
      /\ \A j \in Writes(cs, k) : j <= LastWrite(cs, k)
  BY <1>2 DEF LastWrite
<1> QED
  BY <1>1, <1>3 DEF Writes

-----------------------------------------------------------------------------
(***************************************************************************)
(* Type correctness.                                                       *)
(***************************************************************************)
LEMMA InitTypeOK == OutboxInit => OutboxTypeOK
<1> SUFFICES ASSUME OutboxInit PROVE OutboxTypeOK
  OBVIOUS
<1>1. LastSeq = 0
  BY DEF OutboxInit, LastSeq
<1> QED
  BY <1>1 DEF OutboxInit, OutboxTypeOK, NoSnapshot, NoOverrides, Manifests

\* A capture allocates source_seqs, so every range grows.
LEMMA AppendTypeOK ==
    ASSUME OutboxTypeOK, NEW cs \in Seq(Change), AppendChanges(cs)
    PROVE  OutboxTypeOK'
<1>1. /\ log' \in Seq(Change) /\ Len(cs) \in Nat /\ LastSeq' = LastSeq + Len(cs)
  BY AppendedLog
<1>2. LastSeq \in Nat
  BY DEF OutboxTypeOK, LastSeq
<1>3. rows' \in [Entities -> 0..LastSeq']
  <2>1. \A k \in Entities : Writes(cs, k) # {} => LastWrite(cs, k) \in 1..Len(cs)
    BY LastWriteIsLast
  <2>2. rows' = [k \in Entities |-> IF Writes(cs, k) = {} THEN rows[k]
                                   ELSE LastSeq + LastWrite(cs, k)]
    BY DEF AppendChanges
  <2>3. \A k \in Entities : rows[k] \in 0..LastSeq
    BY DEF OutboxTypeOK
  <2> QED
    BY <1>1, <1>2, <2>1, <2>2, <2>3
<1>4. overrides' \in [Entities -> 0..LastSeq']
  <2>1. \A k \in Entities : rows[k] \in 0..LastSeq /\ overrides[k] \in 0..LastSeq
    BY DEF OutboxTypeOK
  <2>2. \A k \in Entities : PreservedOverride(k) \in 0..LastSeq
    BY <2>1 DEF PreservedOverride
  <2> QED
    BY <1>1, <1>2, <2>1, <2>2 DEF AppendChanges
<1>5. outbox' \subseteq 1..LastSeq'
  <2>1. outbox' = outbox \cup (LastSeq+1 .. LastSeq+Len(cs)) /\ outbox \subseteq 1..LastSeq
    BY DEF AppendChanges, OutboxTypeOK
  <2>2. 1..LastSeq \subseteq 1..LastSeq'
    BY <1>1, <1>2
  <2>3. (LastSeq+1 .. LastSeq+Len(cs)) \subseteq 1..LastSeq'
    BY <1>1, <1>2
  <2> QED
    BY <2>1, <2>2, <2>3
<1>6. chunks' \in Seq(SUBSET (1..LastSeq'))
  BY <1>1, <1>2 DEF AppendChanges, OutboxTypeOK
<1>7. manifest' \in Manifests /\ manifest'.through <= LastSeq'
  <2>1. manifest' = manifest /\ manifest \in Manifests /\ manifest.through <= LastSeq
    BY DEF AppendChanges, OutboxTypeOK
  <2>2. manifest.through \in Nat
    BY <2>1 DEF Manifests
  <2> QED
    BY <1>1, <1>2, <2>1, <2>2
<1>8. acked' \in 0..LastSeq' /\ lastId' \in Nat
  BY <1>1, <1>2 DEF AppendChanges, OutboxTypeOK
<1> QED
  BY <1>1, <1>3, <1>4, <1>5, <1>6, <1>7, <1>8 DEF OutboxTypeOK

\* What a page contributes was stored, so it was allocated.
LEMMA RecordsAreAllocated ==
    ASSUME OutboxTypeOK, NEW consumed \in SUBSET Remaining
    PROVE  Records(consumed) \in SUBSET (1..LastSeq)
<1>1. LastSeq \in Nat
  BY DEF OutboxTypeOK, LastSeq
<1>2. ASSUME NEW x \in Remaining
      PROVE  Envelope(x) \in 0..LastSeq
  <2>1. CASE manifest.kind = "entity"
    <3>1. x \in Entities
      BY <2>1 DEF Remaining
    <3>2. rows[x] \in 0..LastSeq /\ overrides[x] \in 0..LastSeq
      BY <3>1 DEF OutboxTypeOK
    <3> QED
      BY <1>1, <2>1, <3>2 DEF Envelope
  <2>2. CASE manifest.kind # "entity"
    <3>1. x \in 1..LastSeq
      BY <2>2 DEF Remaining
    <3> QED
      BY <1>1, <2>2, <3>1 DEF Envelope
  <2> QED
    BY <2>1, <2>2
<1> QED
  BY <1>1, <1>2 DEF Records

LEMMA ConsumePageTypeOK ==
    ASSUME OutboxTypeOK, NEW consumed \in SUBSET Remaining, NEW upto \in Nat,
           ConsumePage(consumed, upto)
    PROVE  OutboxTypeOK'
<1>1. LastSeq' = LastSeq
  BY DEF ConsumePage, LastSeq
<1>2. manifest' \in Manifests /\ manifest'.through = manifest.through
  BY DEF ConsumePage, ScanAfter, OutboxTypeOK, Manifests
<1>3. chunks' \in Seq(SUBSET (1..LastSeq))
  <2>1. Records(consumed) \in SUBSET (1..LastSeq)
    BY RecordsAreAllocated
  <2>2. chunks \in Seq(SUBSET (1..LastSeq))
    BY DEF OutboxTypeOK
  <2>3. Append(chunks, Records(consumed)) \in Seq(SUBSET (1..LastSeq))
    BY <2>1, <2>2, AppendProperties
  <2> QED
    BY <2>2, <2>3 DEF ConsumePage, Written
<1>4. overrides' \in [Entities -> 0..LastSeq]
  <2>1. LastSeq \in Nat
    BY DEF OutboxTypeOK, LastSeq
  <2> QED
    BY <2>1 DEF ConsumePage, Written, OutboxTypeOK, NoOverrides
<1> QED
  BY <1>1, <1>2, <1>3, <1>4 DEF ConsumePage, OutboxTypeOK

\* Every step of the builder consumes a prefix of what remains to be scanned.
LEMMA BuildConsumes ==
    ASSUME OutboxTypeOK, BuildNextSnapshotChunk
    PROVE  \E consumed \in SUBSET Remaining, upto \in Nat :
             /\ ConsumePage(consumed, upto)
             /\ \/ consumed = Remaining /\ Remaining = {}
                \/ upto \in Remaining /\ consumed = {x \in Remaining : x <= upto}
<1>1. CASE Remaining = {} /\ ConsumePage({}, manifest.after)
  <2>1. manifest.after \in Nat
    BY DEF OutboxTypeOK, Manifests
  <2> QED
    BY <1>1, <2>1
<1>2. ASSUME NEW upto \in Page, ConsumePage({x \in Page : x <= upto}, upto)
      PROVE  /\ upto \in Nat /\ upto \in Remaining
             /\ {x \in Page : x <= upto} = {x \in Remaining : x <= upto}
  <2>1. Remaining \subseteq Nat
    <3>1. CASE manifest.kind = "entity"
      BY <3>1, EntitiesAssumption DEF Remaining
    <3>2. CASE manifest.kind # "entity"
      BY <3>2 DEF Remaining
    <3> QED
      BY <3>1, <3>2
  <2>2. upto \in Remaining /\ upto \in Nat
    BY <2>1 DEF Page
  <2> DEFINE UpTo(x) == {y \in Remaining : y <= x}
  <2>3. ASSUME NEW x \in Remaining, x <= upto
        PROVE  x \in Page
    <3>1. IsFiniteSet(UpTo(upto))
      <4>1. \A y \in UpTo(upto) : y \in 0..upto
        BY <2>1, <2>2
      <4>2. IsFiniteSet(0..upto)
        BY <2>2, FS_Interval
      <4> QED
        BY <4>1, <4>2, FS_Subset
    <3>2. UpTo(x) \subseteq UpTo(upto)
      <4>1. \A y \in UpTo(x) : y \in Remaining /\ y <= x
        OBVIOUS
      <4>2. \A y \in UpTo(x) : y <= upto
        BY <2>1, <2>2, <2>3, <4>1
      <4> QED
        BY <4>1, <4>2
    <3>3. /\ Cardinality(UpTo(x)) <= Cardinality(UpTo(upto))
          /\ Cardinality(UpTo(x)) \in Nat /\ Cardinality(UpTo(upto)) \in Nat
      BY <3>1, <3>2, FS_Subset, FS_CardinalityType
    <3>4. Cardinality(UpTo(upto)) <= PageSize
      BY DEF Page
    <3> QED
      BY <2>3, <3>3, <3>4, PageSizeAssumption DEF Page
  <2> QED
    BY <2>2, <2>3 DEF Page
<1> QED
  BY <1>1, <1>2 DEF BuildNextSnapshotChunk

LEMMA AcknowledgeTypeOK ==
    ASSUME OutboxTypeOK, NEW n \in 0..MaxChanges, NEW p \in Progresses, Acknowledge(n, p)
    PROVE  OutboxTypeOK'
<1>1. LastSeq' = LastSeq /\ log' = log /\ rows' = rows /\ lastId' = lastId
  BY DEF Acknowledge, LastSeq
<1>2. LastSeq \in Nat
  BY DEF OutboxTypeOK, LastSeq
<1>3. NewCheckpoint(n) \in 0..LastSeq
  BY <1>2, BoundsAssumption DEF Acknowledge, Acknowledgeable, NewCheckpoint, OutboxTypeOK
<1>4. acked' \in 0..LastSeq /\ outbox' \subseteq 1..LastSeq
  BY <1>3 DEF Acknowledge, OutboxTypeOK
<1>5. /\ manifest' \in Manifests /\ manifest'.through <= LastSeq
      /\ overrides' \in [Entities -> 0..LastSeq]
      /\ chunks' \in Seq(SUBSET (1..LastSeq))
  <2>1. CASE p.committed
    BY <1>2, <2>1 DEF Acknowledge, NoSnapshot, NoOverrides, Manifests
  <2>2. CASE ~p.committed
    BY <2>2 DEF Acknowledge, OutboxTypeOK
  <2> QED
    BY <2>1, <2>2
<1> QED
  BY <1>1, <1>4, <1>5 DEF OutboxTypeOK

LEMMA CreateSnapshotTypeOK ==
    ASSUME OutboxTypeOK, CreateSnapshot
    PROVE  OutboxTypeOK'
<1>1. LastSeq' = LastSeq /\ LastSeq \in Nat /\ lastId \in Nat
  BY DEF CreateSnapshot, NewSnapshot, OutboxTypeOK, LastSeq
<1> QED
  BY <1>1 DEF CreateSnapshot, NewSnapshot, OutboxTypeOK, Manifests, NoOverrides

LEMMA NextTypeOK == OutboxTypeOK /\ [OutboxNext]_outboxVars => OutboxTypeOK'
<1> SUFFICES ASSUME OutboxTypeOK, [OutboxNext]_outboxVars
             PROVE  OutboxTypeOK'
  OBVIOUS
<1>1. CASE Capture
  BY <1>1, CaptureAppends, AppendTypeOK
<1>2. CASE CreateSnapshot
  BY <1>2, CreateSnapshotTypeOK
<1>3. CASE BuildNextSnapshotChunk
  BY <1>3, BuildConsumes, ConsumePageTypeOK
<1>4. CASE Acknowledged
  BY <1>4, AcknowledgeTypeOK DEF Acknowledged
<1>5. CASE UNCHANGED outboxVars
  BY <1>5 DEF outboxVars, OutboxTypeOK, LastSeq
<1> QED
  BY <1>1, <1>2, <1>3, <1>4, <1>5 DEF OutboxNext

\* Every source_seq the store holds was allocated, and the manifest, the saved
\* pre-images and the chunks always have the shape their readers expect.
THEOREM OutboxTypeCorrect == OutboxSpec => []OutboxTypeOK
<1> QED
  BY InitTypeOK, NextTypeOK, PTL DEF OutboxSpec

-----------------------------------------------------------------------------
(***************************************************************************)
(* Retention.                                                              *)
(***************************************************************************)
LEMMA AppendRetains ==
    ASSUME OutboxTypeOK, OutboxRetainsUnacknowledged,
           NEW cs \in Seq(Change), AppendChanges(cs)
    PROVE  OutboxRetainsUnacknowledged'
<1>1. Len(cs) \in Nat /\ LastSeq' = LastSeq + Len(cs)
  BY AppendedLog
<1>2. LastSeq \in Nat /\ acked \in 0..LastSeq
  BY DEF OutboxTypeOK, LastSeq
<1>3. outbox' = (acked+1..LastSeq) \cup (LastSeq+1 .. LastSeq+Len(cs)) /\ acked' = acked
  BY DEF AppendChanges, OutboxRetainsUnacknowledged
<1>4. (acked+1..LastSeq) \cup (LastSeq+1 .. LastSeq+Len(cs)) = acked+1..(LastSeq + Len(cs))
  BY <1>1, <1>2
<1> QED
  BY <1>1, <1>3, <1>4 DEF OutboxRetainsUnacknowledged

LEMMA AcknowledgeRetains ==
    ASSUME OutboxTypeOK, OutboxRetainsUnacknowledged,
           NEW n \in 0..MaxChanges, NEW p \in Progresses, Acknowledge(n, p)
    PROVE  OutboxRetainsUnacknowledged'
<1>1. LastSeq' = LastSeq /\ LastSeq \in Nat /\ acked \in 0..LastSeq /\ n \in Nat
  BY BoundsAssumption DEF Acknowledge, OutboxTypeOK, LastSeq
<1>2. CASE p = NoProgress \/ p.committed
  <2> DEFINE c == NewCheckpoint(n)
  <2>1. c \in Nat /\ acked <= c
    BY <1>1 DEF NewCheckpoint
  <2>2. acked' = c /\ outbox' = {s \in acked+1..LastSeq : s > c}
    BY <1>2 DEF Acknowledge, OutboxRetainsUnacknowledged
  <2>3. {s \in acked+1..LastSeq : s > c} = c+1..LastSeq
    BY <1>1, <2>1
  <2> QED
    BY <1>1, <2>2, <2>3 DEF OutboxRetainsUnacknowledged
<1>3. CASE ~(p = NoProgress \/ p.committed)
  BY <1>1, <1>3 DEF Acknowledge, OutboxRetainsUnacknowledged
<1> QED
  BY <1>2, <1>3

LEMMA NextRetains ==
    OutboxTypeOK /\ OutboxRetainsUnacknowledged /\ [OutboxNext]_outboxVars
      => OutboxRetainsUnacknowledged'
<1> SUFFICES ASSUME OutboxTypeOK, OutboxRetainsUnacknowledged, [OutboxNext]_outboxVars
             PROVE  OutboxRetainsUnacknowledged'
  OBVIOUS
<1>1. CASE Capture
  BY <1>1, CaptureAppends, AppendRetains
<1>2. CASE CreateSnapshot
  BY <1>2 DEF CreateSnapshot, NewSnapshot, OutboxRetainsUnacknowledged, LastSeq
<1>3. CASE BuildNextSnapshotChunk
  BY <1>3, BuildConsumes DEF ConsumePage, OutboxRetainsUnacknowledged, LastSeq
<1>4. CASE Acknowledged
  BY <1>4, AcknowledgeRetains DEF Acknowledged
<1>5. CASE UNCHANGED outboxVars
  BY <1>5 DEF outboxVars, OutboxRetainsUnacknowledged, LastSeq
<1> QED
  BY <1>1, <1>2, <1>3, <1>4, <1>5 DEF OutboxNext

\* Whatever the Brain acknowledges, in whatever order, the outbox holds exactly
\* the changes after the acknowledged sequence: a terminated worker can resend
\* every change the Brain did not acknowledge.
THEOREM OutboxRetains == OutboxSpec => []OutboxRetainsUnacknowledged
<1>1. OutboxInit => OutboxRetainsUnacknowledged
  BY DEF OutboxInit, OutboxRetainsUnacknowledged, LastSeq
<1> QED
  BY <1>1, NextRetains, OutboxTypeCorrect, PTL DEF OutboxSpec

-----------------------------------------------------------------------------
(***************************************************************************)
(* Snapshot consistency.  The inductive invariant says what the scan has   *)
(* established at each point: a row is the last change on its key, a saved *)
(* pre-image is the row as of through_seq, and the chunks hold the rows as *)
(* of through_seq that the scan cursor has passed.                         *)
(***************************************************************************)
RowsAreLast ==
    \A k \in Entities :
        /\ rows[k] # 0 => WritesRow(log[rows[k]], k)
        /\ \A s \in 1..LastSeq : WritesRow(log[s], k) => s <= rows[k]

PreImagesAreAsOf ==
    manifest.state = "building" =>
      \A k \in Entities :
        /\ overrides[k] # 0 =>
             /\ overrides[k] <= manifest.through
             /\ WritesRow(log[overrides[k]], k)
             /\ \A s \in 1..manifest.through : WritesRow(log[s], k) => s <= overrides[k]
        /\ overrides[k] = 0 /\ rows[k] > manifest.through =>
             \A s \in 1..manifest.through : ~WritesRow(log[s], k)

Scanned(s) ==
    \/ manifest.state = "ready"
    \/ log[s].kind = "entity" /\ (manifest.kind = "coverage" \/ log[s].key <= manifest.after)
    \/ log[s].kind = "coverage" /\ manifest.kind = "coverage" /\ s <= manifest.after

ContentIsScanned ==
    manifest.state # "none" =>
      \A s \in 1..LastSeq : s \in Content <=> s \in AsOf(manifest.through) /\ Scanned(s)

SnapshotInv == OutboxTypeOK /\ RowsAreLast /\ PreImagesAreAsOf /\ ContentIsScanned

\* What a key contributes to the snapshot: its pre-image if one is saved, else
\* its row if that is not newer than through_seq.
KeyEnvelope(k) ==
    IF overrides[k] # 0 THEN overrides[k]
    ELSE IF rows[k] <= manifest.through THEN rows[k] ELSE 0

\* It is the row of the key as of through_seq, whatever was captured since.
LEMMA KeyEnvelopeIsAsOf ==
    ASSUME SnapshotInv, manifest.state = "building", NEW k \in Entities,
           NEW s \in 1..LastSeq
    PROVE  WritesRow(log[s], k) /\ s \in AsOf(manifest.through) <=> s = KeyEnvelope(k)
<1> DEFINE e == KeyEnvelope(k)
           T == manifest.through
<1>1. /\ LastSeq \in Nat /\ T \in Nat /\ T <= LastSeq
      /\ rows[k] \in 0..LastSeq /\ overrides[k] \in 0..LastSeq
  BY DEF SnapshotInv, OutboxTypeOK, Manifests, LastSeq
<1>2. e \in 0..LastSeq
  BY <1>1 DEF KeyEnvelope
<1>3. e # 0 => e <= T /\ WritesRow(log[e], k)
  BY <1>1 DEF KeyEnvelope, SnapshotInv, RowsAreLast, PreImagesAreAsOf
<1>4. \A t \in 1..T : WritesRow(log[t], k) => t <= e
  BY <1>1 DEF KeyEnvelope, SnapshotInv, RowsAreLast, PreImagesAreAsOf
<1>5. \A t : WritesRow(log[s], k) => (SameRow(log[s], log[t]) <=> WritesRow(log[t], k))
  BY DEF WritesRow, SameRow
<1>6. s \in AsOf(T) <=> s <= T /\ \A t \in (s+1)..T : ~SameRow(log[s], log[t])
  BY <1>1 DEF AsOf
<1>7. ASSUME WritesRow(log[s], k), s \in AsOf(T)
      PROVE  s = e
  <2>1. s <= e /\ e # 0
    BY <1>1, <1>2, <1>4, <1>6, <1>7
  <2>2. ~(e \in (s+1)..T)
    BY <1>3, <1>5, <1>6, <1>7, <2>1
  <2> QED
    BY <1>1, <1>2, <1>3, <2>1, <2>2
<1>8. ASSUME s = e
      PROVE  WritesRow(log[s], k) /\ s \in AsOf(T)
  <2>1. WritesRow(log[s], k) /\ s <= T
    BY <1>3, <1>8
  <2>2. \A t \in (s+1)..T : ~WritesRow(log[t], k)
    BY <1>1, <1>4, <1>8
  <2> QED
    BY <1>5, <1>6, <2>1, <2>2
<1> QED
  BY <1>7, <1>8

LEMMA RecordsAreAsOf ==
    ASSUME SnapshotInv, manifest.state = "building", NEW consumed \in SUBSET Remaining,
           NEW s \in 1..LastSeq
    PROVE  s \in Records(consumed) <=>
             /\ s \in AsOf(manifest.through)
             /\ \/ /\ manifest.kind = "entity"
                   /\ log[s].kind = "entity" /\ log[s].key \in consumed
                \/ /\ manifest.kind = "coverage"
                   /\ log[s].kind = "coverage" /\ s \in consumed
<1>1. s # 0
  OBVIOUS
<1>2. s \in Records(consumed) <=> \E x \in consumed : s = Envelope(x)
  BY <1>1 DEF Records
<1>3. manifest.kind \in {"entity", "coverage"} /\ LastSeq \in Nat /\ manifest.through \in Nat
  BY DEF SnapshotInv, OutboxTypeOK, Manifests, LastSeq
<1>4. CASE manifest.kind = "entity"
  <2>1. consumed \subseteq Entities
    BY <1>4 DEF Remaining
  <2>2. \A x \in consumed : Envelope(x) = KeyEnvelope(x)
    BY <1>4 DEF Envelope, KeyEnvelope
  <2>3. \A x \in consumed : s = KeyEnvelope(x) <=>
                              WritesRow(log[s], x) /\ s \in AsOf(manifest.through)
    BY <2>1, KeyEnvelopeIsAsOf
  <2> QED
    BY <1>2, <1>4, <2>2, <2>3 DEF WritesRow
<1>5. CASE manifest.kind = "coverage"
  <2>1. \A x \in consumed : x \in 1..LastSeq /\ log[x].kind = "coverage"
    BY <1>5 DEF Remaining
  <2>2. \A x \in consumed : s = Envelope(x) <=> s = x /\ s <= manifest.through
    BY <1>1, <1>3, <1>5, <2>1 DEF Envelope
  <2>3. log[s].kind = "coverage" => (s \in AsOf(manifest.through) <=> s <= manifest.through)
    BY <1>3 DEF AsOf, SameRow
  <2> QED
    BY <1>2, <1>5, <2>1, <2>2, <2>3
<1> QED
  BY <1>3, <1>4, <1>5

LEMMA ConsumedContent ==
    ASSUME OutboxTypeOK, NEW consumed \in SUBSET Remaining, NEW upto,
           ConsumePage(consumed, upto)
    PROVE  Content' = Content \cup Records(consumed)
<1>1. chunks \in Seq(SUBSET (1..LastSeq)) /\ Len(chunks) \in Nat
  BY DEF OutboxTypeOK
<1>2. CASE Records(consumed) = {}
  BY <1>2 DEF ConsumePage, Written, Content
<1>3. CASE Records(consumed) # {}
  <2>1. chunks' = Append(chunks, Records(consumed))
    BY <1>3 DEF ConsumePage, Written
  <2>2. /\ Len(chunks') = Len(chunks) + 1
        /\ \A i \in 1..Len(chunks) : chunks'[i] = chunks[i]
        /\ chunks'[Len(chunks) + 1] = Records(consumed)
    BY <1>1, <2>1, RecordsAreAllocated, AppendProperties
  <2> QED
    BY <1>1, <2>2 DEF Content
<1> QED
  BY <1>2, <1>3

\* Of the rows as of through_seq, those that remain to be scanned are exactly
\* those the cursor has not passed.
LEMMA RemainingIsUnscanned ==
    ASSUME SnapshotInv, manifest.state = "building", NEW s \in 1..LastSeq,
           s \in AsOf(manifest.through)
    PROVE  /\ log[s].kind \in {"entity", "coverage"}
           /\ manifest.kind = "entity" /\ log[s].kind = "entity" =>
                log[s].key \in Nat /\ (log[s].key > manifest.after => log[s].key \in Remaining)
           /\ manifest.kind = "coverage" /\ log[s].kind = "coverage" =>
                (s > manifest.after => s \in Remaining)
<1>1. log[s] \in Change
  BY DEF SnapshotInv, OutboxTypeOK, LastSeq
<1>2. log[s].kind \in {"entity", "coverage"}
  BY <1>1 DEF Change
<1>3. ASSUME log[s].kind = "entity"
      PROVE  log[s].key \in Entities /\ log[s].key \in Nat /\ rows[log[s].key] # 0
  <2>1. log[s].key \in Entities
    BY <1>1, <1>3 DEF Change
  <2>2. s <= rows[log[s].key] /\ rows[log[s].key] \in 0..LastSeq
    BY <1>3, <2>1 DEF SnapshotInv, RowsAreLast, WritesRow, OutboxTypeOK
  <2>3. LastSeq \in Nat
    BY DEF SnapshotInv, OutboxTypeOK, LastSeq
  <2>4. rows[log[s].key] # 0
    BY <2>2, <2>3
  <2> QED
    BY <2>1, <2>4, EntitiesAssumption
<1> QED
  BY <1>2, <1>3 DEF Remaining

LEMMA ConsumePageKeepsContent ==
    ASSUME SnapshotInv, manifest.state = "building",
           NEW consumed \in SUBSET Remaining, NEW upto \in Nat,
           ConsumePage(consumed, upto),
           \/ consumed = Remaining /\ Remaining = {}
           \/ upto \in Remaining /\ consumed = {x \in Remaining : x <= upto}
    PROVE  ContentIsScanned'
<1> DEFINE finished == consumed = Remaining /\ Cardinality(consumed) < PageSize
<1>1. /\ log' = log /\ LastSeq' = LastSeq /\ LastSeq \in Nat
      /\ manifest \in Manifests /\ manifest.after \in Nat
      /\ manifest.kind \in {"entity", "coverage"}
  BY DEF ConsumePage, SnapshotInv, OutboxTypeOK, Manifests, LastSeq
<1>2. /\ manifest'.through = manifest.through
      /\ ~finished => /\ manifest'.state = "building"
                      /\ manifest'.kind = manifest.kind /\ manifest'.after = upto
      /\ finished /\ manifest.kind = "entity" =>
           /\ manifest'.state = "building"
           /\ manifest'.kind = "coverage" /\ manifest'.after = 0
      /\ finished /\ manifest.kind = "coverage" => manifest'.state = "ready"
  BY <1>1 DEF ConsumePage, ScanAfter, Manifests
<1>3. ~finished => upto \in Remaining /\ consumed = {x \in Remaining : x <= upto}
  BY FS_EmptySet, PageSizeAssumption
<1>4. \A x \in Remaining : x \in Nat /\ x > manifest.after
  BY <1>1, EntitiesAssumption DEF Remaining
<1>5. SUFFICES ASSUME NEW s \in 1..LastSeq
               PROVE  s \in Content' <=> s \in AsOf(manifest.through)' /\ Scanned(s)'
  BY <1>1 DEF ContentIsScanned
<1>6. s \in AsOf(manifest.through)' <=> s \in AsOf(manifest.through)
  BY <1>1, <1>2 DEF AsOf
<1>7. s \in Content' <=> s \in Content \/ s \in Records(consumed)
  BY ConsumedContent DEF SnapshotInv
<1>8. s \in Content <=> s \in AsOf(manifest.through) /\ Scanned(s)
  BY DEF SnapshotInv, ContentIsScanned
<1>9. SUFFICES ASSUME s \in AsOf(manifest.through)
               PROVE  Scanned(s)' <=> Scanned(s) \/ s \in Records(consumed)
  BY <1>6, <1>7, <1>8, RecordsAreAsOf
<1>10. Scanned(s)' <=>
         \/ manifest'.state = "ready"
         \/ log[s].kind = "entity" /\ (manifest'.kind = "coverage" \/ log[s].key <= manifest'.after)
         \/ log[s].kind = "coverage" /\ manifest'.kind = "coverage" /\ s <= manifest'.after
  BY <1>1 DEF Scanned
<1>11. /\ log[s].kind \in {"entity", "coverage"}
       /\ manifest.kind = "entity" /\ log[s].kind = "entity" =>
            log[s].key \in Nat /\ (log[s].key > manifest.after => log[s].key \in Remaining)
       /\ manifest.kind = "coverage" /\ log[s].kind = "coverage" =>
            (s > manifest.after => s \in Remaining)
  BY <1>9, RemainingIsUnscanned
<1>12. CASE ~finished
  BY <1>1, <1>2, <1>3, <1>4, <1>9, <1>10, <1>11, <1>12, RecordsAreAsOf DEF Scanned
<1>13. CASE finished
  BY <1>1, <1>2, <1>4, <1>9, <1>10, <1>11, <1>13, RecordsAreAsOf DEF Scanned
<1> QED
  BY <1>12, <1>13

LEMMA ConsumePageKeepsInv ==
    ASSUME SnapshotInv, manifest.state = "building",
           NEW consumed \in SUBSET Remaining, NEW upto \in Nat,
           ConsumePage(consumed, upto),
           \/ consumed = Remaining /\ Remaining = {}
           \/ upto \in Remaining /\ consumed = {x \in Remaining : x <= upto}
    PROVE  SnapshotInv'
<1>1. OutboxTypeOK'
  BY ConsumePageTypeOK DEF SnapshotInv
<1>2. RowsAreLast'
  BY DEF SnapshotInv, ConsumePage, RowsAreLast, LastSeq
<1>3. PreImagesAreAsOf'
  <2>1. manifest'.through = manifest.through
    BY DEF ConsumePage, ScanAfter, SnapshotInv, OutboxTypeOK, Manifests
  <2> QED
    BY <2>1 DEF SnapshotInv, ConsumePage, PreImagesAreAsOf
<1>4. ContentIsScanned'
  BY ConsumePageKeepsContent
<1> QED
  BY <1>1, <1>2, <1>3, <1>4 DEF SnapshotInv

LEMMA AppendKeepsRows ==
    ASSUME SnapshotInv, NEW cs \in Seq(Change), AppendChanges(cs)
    PROVE  RowsAreLast'
<1>1. /\ Len(cs) \in Nat /\ LastSeq' = LastSeq + Len(cs)
      /\ \A s \in 1..LastSeq : log'[s] = log[s]
      /\ \A i \in 1..Len(cs) : log'[LastSeq + i] = cs[i]
  BY AppendedLog DEF SnapshotInv
<1>2. LastSeq \in Nat
  BY DEF SnapshotInv, OutboxTypeOK, LastSeq
<1>3. ASSUME NEW s \in 1..LastSeq', s \notin 1..LastSeq
      PROVE  s - LastSeq \in 1..Len(cs) /\ log'[s] = cs[s - LastSeq]
  <2>1. s - LastSeq \in 1..Len(cs) /\ s = LastSeq + (s - LastSeq)
    BY <1>1, <1>2, <1>3
  <2> QED
    BY <1>1, <2>1
<1>4. SUFFICES ASSUME NEW k \in Entities
               PROVE  /\ rows'[k] # 0 => WritesRow(log'[rows'[k]], k)
                      /\ \A s \in 1..LastSeq' : WritesRow(log'[s], k) => s <= rows'[k]
  BY DEF RowsAreLast
<1>5. /\ rows[k] \in 0..LastSeq
      /\ rows[k] # 0 => WritesRow(log[rows[k]], k)
      /\ \A s \in 1..LastSeq : WritesRow(log[s], k) => s <= rows[k]
  BY DEF SnapshotInv, OutboxTypeOK, RowsAreLast
<1>6. CASE Writes(cs, k) = {}
  <2>1. rows'[k] = rows[k]
    BY <1>6 DEF AppendChanges
  <2>2. \A i \in 1..Len(cs) : ~WritesRow(cs[i], k)
    BY <1>6 DEF Writes
  <2>3. ASSUME NEW s \in 1..LastSeq', WritesRow(log'[s], k)
        PROVE  s <= rows[k]
    <3>1. s \in 1..LastSeq
      BY <1>3, <2>2, <2>3
    <3> QED
      BY <1>1, <1>5, <2>3, <3>1
  <2>4. rows[k] # 0 => WritesRow(log'[rows[k]], k)
    BY <1>1, <1>2, <1>5
  <2> QED
    BY <2>1, <2>3, <2>4
<1>7. CASE Writes(cs, k) # {}
  <2> DEFINE w == LastWrite(cs, k)
  <2>1. /\ w \in 1..Len(cs) /\ WritesRow(cs[w], k)
        /\ \A j \in 1..Len(cs) : j > w => ~WritesRow(cs[j], k)
    BY <1>7, LastWriteIsLast
  <2>2. rows'[k] = LastSeq + w
    BY <1>7 DEF AppendChanges
  <2> HIDE DEF w
  <2>3. ASSUME NEW s \in 1..LastSeq', WritesRow(log'[s], k)
        PROVE  s <= LastSeq + w
    <3>1. CASE s \in 1..LastSeq
      BY <1>1, <1>2, <2>1, <3>1
    <3>2. CASE s - LastSeq \in 1..Len(cs) /\ log'[s] = cs[s - LastSeq]
      BY <1>1, <1>2, <2>1, <2>3, <3>2
    <3> QED
      BY <1>3, <3>1, <3>2
  <2> QED
    BY <1>1, <2>1, <2>2, <2>3
<1> QED
  BY <1>6, <1>7

LEMMA AppendKeepsPreImages ==
    ASSUME SnapshotInv, NEW cs \in Seq(Change), AppendChanges(cs)
    PROVE  PreImagesAreAsOf'
<1>1. /\ Len(cs) \in Nat /\ LastSeq' = LastSeq + Len(cs) /\ manifest' = manifest
      /\ \A s \in 1..LastSeq : log'[s] = log[s]
  BY AppendedLog DEF SnapshotInv, AppendChanges
<1> DEFINE T == manifest.through
<1>2. LastSeq \in Nat /\ T \in Nat /\ T <= LastSeq
  BY DEF SnapshotInv, OutboxTypeOK, LastSeq, Manifests
<1>3. SUFFICES ASSUME manifest.state = "building", NEW k \in Entities
               PROVE  /\ overrides'[k] # 0 =>
                           /\ overrides'[k] <= T
                           /\ WritesRow(log'[overrides'[k]], k)
                           /\ \A s \in 1..T : WritesRow(log'[s], k) => s <= overrides'[k]
                      /\ overrides'[k] = 0 /\ rows'[k] > T =>
                           \A s \in 1..T : ~WritesRow(log'[s], k)
  BY <1>1 DEF PreImagesAreAsOf
<1>4. /\ rows[k] \in 0..LastSeq /\ overrides[k] \in 0..LastSeq
      /\ rows[k] # 0 => WritesRow(log[rows[k]], k)
      /\ \A s \in 1..LastSeq : WritesRow(log[s], k) => s <= rows[k]
  BY DEF SnapshotInv, OutboxTypeOK, RowsAreLast
<1>5. /\ overrides[k] # 0 =>
           /\ overrides[k] <= T
           /\ WritesRow(log[overrides[k]], k)
           /\ \A s \in 1..T : WritesRow(log[s], k) => s <= overrides[k]
      /\ overrides[k] = 0 /\ rows[k] > T => \A s \in 1..T : ~WritesRow(log[s], k)
  BY <1>3 DEF SnapshotInv, PreImagesAreAsOf
<1>6. \A s \in 1..T : s \in 1..LastSeq /\ log'[s] = log[s]
  BY <1>1, <1>2
<1>7. CASE Writes(cs, k) = {}
  <2>1. rows'[k] = rows[k] /\ overrides'[k] = overrides[k]
    BY <1>7 DEF AppendChanges
  <2> QED
    BY <1>1, <1>4, <1>5, <1>6, <2>1
<1>8. CASE Writes(cs, k) # {}
  <2>1. overrides'[k] = IF rows[k] # 0 /\ rows[k] <= T /\ overrides[k] = 0
                        THEN rows[k] ELSE overrides[k]
    BY <1>3, <1>8 DEF AppendChanges, PreservedOverride
  <2>2. CASE rows[k] # 0 /\ rows[k] <= T /\ overrides[k] = 0
    <3>1. overrides'[k] = rows[k] /\ rows[k] \in 1..T
      BY <1>2, <1>4, <2>1, <2>2
    <3>2. WritesRow(log'[rows[k]], k)
      BY <1>4, <1>6, <2>2, <3>1
    <3>3. \A s \in 1..T : WritesRow(log'[s], k) => s <= rows[k]
      BY <1>4, <1>6
    <3> QED
      BY <2>2, <3>1, <3>2, <3>3
  <2>3. CASE overrides[k] # 0
    BY <1>1, <1>4, <1>5, <1>6, <2>1, <2>3
  <2>4. CASE overrides[k] = 0 /\ (rows[k] = 0 \/ rows[k] > T)
    <3>1. \A s \in 1..T : ~WritesRow(log[s], k)
      BY <1>2, <1>4, <1>5, <2>4
    <3>2. overrides'[k] = 0
      BY <1>2, <1>4, <2>1, <2>4
    <3>3. \A s \in 1..T : ~WritesRow(log'[s], k)
      BY <1>6, <3>1
    <3> QED
      BY <3>2, <3>3
  <2> QED
    BY <1>2, <1>4, <2>2, <2>3, <2>4
<1> QED
  BY <1>7, <1>8

LEMMA AppendKeepsContent ==
    ASSUME SnapshotInv, NEW cs \in Seq(Change), AppendChanges(cs)
    PROVE  ContentIsScanned'
<1>1. /\ Len(cs) \in Nat /\ LastSeq' = LastSeq + Len(cs)
      /\ manifest' = manifest /\ chunks' = chunks
      /\ \A s \in 1..LastSeq : log'[s] = log[s]
  BY AppendedLog DEF SnapshotInv, AppendChanges
<1> DEFINE T == manifest.through
<1>2. LastSeq \in Nat /\ T \in Nat /\ T <= LastSeq
  BY DEF SnapshotInv, OutboxTypeOK, LastSeq, Manifests
<1>3. Content' = Content /\ Content \subseteq 1..LastSeq
  <2>1. chunks \in Seq(SUBSET (1..LastSeq))
    BY DEF SnapshotInv, OutboxTypeOK
  <2>2. \A i \in 1..Len(chunks) : chunks[i] \subseteq 1..LastSeq
    BY <2>1
  <2> QED
    BY <1>1, <2>2 DEF Content
<1>4. SUFFICES ASSUME manifest.state # "none", NEW s \in 1..LastSeq'
               PROVE  s \in Content' <=> s \in AsOf(T)' /\ Scanned(s)'
  BY <1>1 DEF ContentIsScanned
<1>5. s \in AsOf(T)' <=> s \in AsOf(T)
  <2>1. \A t \in 1..T : log'[t] = log[t]
    BY <1>1, <1>2
  <2> QED
    BY <1>1, <1>2, <2>1 DEF AsOf
<1>6. CASE s \in 1..LastSeq
  <2>1. Scanned(s)' <=> Scanned(s)
    BY <1>1, <1>6 DEF Scanned
  <2> QED
    BY <1>3, <1>4, <1>5, <1>6, <2>1 DEF SnapshotInv, ContentIsScanned
<1>7. CASE s \notin 1..LastSeq
  BY <1>1, <1>2, <1>3, <1>5, <1>7 DEF AsOf
<1> QED
  BY <1>6, <1>7

LEMMA AppendKeepsInv ==
    ASSUME SnapshotInv, NEW cs \in Seq(Change), AppendChanges(cs)
    PROVE  SnapshotInv'
<1>1. OutboxTypeOK'
  BY AppendTypeOK DEF SnapshotInv
<1> QED
  BY <1>1, AppendKeepsRows, AppendKeepsPreImages, AppendKeepsContent DEF SnapshotInv

LEMMA CreateSnapshotKeepsInv ==
    ASSUME SnapshotInv, CreateSnapshot
    PROVE  SnapshotInv'
<1>1. OutboxTypeOK'
  BY CreateSnapshotTypeOK DEF SnapshotInv
<1>2. RowsAreLast'
  BY DEF SnapshotInv, CreateSnapshot, NewSnapshot, RowsAreLast, LastSeq
<1>3. LastSeq \in Nat /\ LastSeq' = LastSeq
  BY DEF SnapshotInv, OutboxTypeOK, LastSeq, CreateSnapshot, NewSnapshot
<1>4. PreImagesAreAsOf'
  <2>1. \A k \in Entities : overrides'[k] = 0 /\ rows'[k] \in 0..LastSeq
    BY DEF CreateSnapshot, NewSnapshot, NoOverrides, SnapshotInv, OutboxTypeOK
  <2>2. manifest'.through = LastSeq
    BY DEF CreateSnapshot, NewSnapshot
  <2> QED
    BY <1>3, <2>1, <2>2 DEF PreImagesAreAsOf
<1>5. ContentIsScanned'
  <2>1. Content' = {}
    BY DEF CreateSnapshot, NewSnapshot, Content
  <2>2. /\ log' = log /\ manifest'.state = "building"
        /\ manifest'.kind = "entity" /\ manifest'.after = 0
    BY DEF CreateSnapshot, NewSnapshot
  <2>3. \A s \in 1..LastSeq : ~Scanned(s)'
    <3>1. TAKE s \in 1..LastSeq
    <3>2. log[s] \in Change
      BY DEF SnapshotInv, OutboxTypeOK, LastSeq
    <3>3. log[s].kind = "entity" => log[s].key \in Entities
      BY <3>2 DEF Change
    <3>4. \A k \in Entities : k \in Nat /\ k > 0
      BY EntitiesAssumption
    <3>5. log[s].kind = "entity" => ~(log[s].key <= 0)
      BY <3>3, <3>4
    <3> QED
      BY <2>2, <3>5 DEF Scanned
  <2> QED
    BY <1>3, <2>1, <2>3 DEF ContentIsScanned
<1> QED
  BY <1>1, <1>2, <1>4, <1>5 DEF SnapshotInv

LEMMA AcknowledgeKeepsInv ==
    ASSUME SnapshotInv, NEW committed \in 0..MaxChanges, NEW progress \in Progresses,
           Acknowledge(committed, progress)
    PROVE  SnapshotInv'
<1>1. OutboxTypeOK'
  BY AcknowledgeTypeOK DEF SnapshotInv
<1>2. rows' = rows /\ log' = log /\ LastSeq' = LastSeq
  BY DEF Acknowledge, LastSeq
<1>3. RowsAreLast'
  BY <1>2 DEF SnapshotInv, RowsAreLast
<1>4. CASE progress.committed
  <2>1. manifest'.state = "none"
    BY <1>4 DEF Acknowledge, NoSnapshot
  <2> QED
    BY <1>1, <1>3, <2>1 DEF SnapshotInv, PreImagesAreAsOf, ContentIsScanned
<1>5. CASE ~progress.committed
  <2>1. manifest' = manifest /\ chunks' = chunks /\ overrides' = overrides
    BY <1>5 DEF Acknowledge
  <2>2. PreImagesAreAsOf'
    BY <1>2, <2>1 DEF SnapshotInv, PreImagesAreAsOf
  <2>3. ContentIsScanned'
    BY <1>2, <2>1 DEF SnapshotInv, ContentIsScanned, Content, AsOf, Scanned
  <2> QED
    BY <1>1, <1>3, <2>2, <2>3 DEF SnapshotInv
<1> QED
  BY <1>4, <1>5

LEMMA NextKeepsSnapshotInv == SnapshotInv /\ [OutboxNext]_outboxVars => SnapshotInv'
<1> SUFFICES ASSUME SnapshotInv, [OutboxNext]_outboxVars
             PROVE  SnapshotInv'
  OBVIOUS
<1>1. CASE Capture
  BY <1>1, CaptureAppends, AppendKeepsInv
<1>2. CASE CreateSnapshot
  BY <1>2, CreateSnapshotKeepsInv
<1>3. CASE BuildNextSnapshotChunk
  <2>1. manifest.state = "building" /\ OutboxTypeOK
    BY <1>3 DEF BuildNextSnapshotChunk, SnapshotInv
  <2> QED
    BY <1>3, <2>1, BuildConsumes, ConsumePageKeepsInv
<1>4. CASE Acknowledged
  BY <1>4, AcknowledgeKeepsInv DEF Acknowledged
<1>5. CASE UNCHANGED outboxVars
  <2>1. OutboxTypeOK' /\ RowsAreLast'
    BY <1>5 DEF outboxVars, SnapshotInv, OutboxTypeOK, RowsAreLast, LastSeq
  <2>2. PreImagesAreAsOf'
    BY <1>5 DEF outboxVars, SnapshotInv, PreImagesAreAsOf
  <2>3. ContentIsScanned'
    BY <1>5 DEF outboxVars, SnapshotInv, ContentIsScanned, Content, AsOf, Scanned, LastSeq
  <2> QED
    BY <2>1, <2>2, <2>3 DEF SnapshotInv
<1> QED
  BY <1>1, <1>2, <1>3, <1>4, <1>5 DEF OutboxNext

LEMMA InitSnapshotInv == OutboxInit => SnapshotInv
<1> SUFFICES ASSUME OutboxInit
             PROVE  SnapshotInv
  OBVIOUS
<1>1. LastSeq = 0 /\ manifest.state = "none"
  BY DEF OutboxInit, LastSeq, NoSnapshot
<1>2. RowsAreLast
  <2>1. \A k \in Entities : rows[k] = 0
    BY DEF OutboxInit
  <2>2. 1..LastSeq = {}
    BY <1>1
  <2> QED
    BY <2>1, <2>2 DEF RowsAreLast
<1> QED
  BY <1>1, <1>2, InitTypeOK DEF SnapshotInv, PreImagesAreAsOf, ContentIsScanned

LEMMA SnapshotInvIsAsOf == SnapshotInv => SnapshotIsAsOf
<1> SUFFICES ASSUME SnapshotInv, manifest.state = "ready"
             PROVE  Content = AsOf(manifest.through)
  BY DEF SnapshotIsAsOf
<1>1. LastSeq \in Nat /\ manifest.through \in Nat /\ manifest.through <= LastSeq
  BY DEF SnapshotInv, OutboxTypeOK, LastSeq, Manifests
<1>2. AsOf(manifest.through) \subseteq 1..LastSeq
  BY <1>1 DEF AsOf
<1>3. Content \subseteq 1..LastSeq
  <2>1. \A i \in 1..Len(chunks) : chunks[i] \subseteq 1..LastSeq
    BY DEF SnapshotInv, OutboxTypeOK
  <2> QED
    BY <2>1 DEF Content
<1>4. \A s \in 1..LastSeq : s \in Content <=> s \in AsOf(manifest.through)
  BY DEF SnapshotInv, ContentIsScanned, Scanned
<1> QED
  BY <1>2, <1>3, <1>4

\* A ready snapshot holds exactly the rows as of its through_seq, whatever was
\* captured, and in whatever order of keys, while its chunks were being built.
THEOREM SnapshotIsConsistent == OutboxSpec => []SnapshotIsAsOf
<1> QED
  BY InitSnapshotInv, SnapshotInvIsAsOf, NextKeepsSnapshotInv, PTL DEF OutboxSpec

-----------------------------------------------------------------------------
(***************************************************************************)
(* The chunks as the Brain's staging tables take them.  What a page adds   *)
(* was not scanned before it, and what the earlier chunks hold was; as     *)
(* rows of the same cut the two cannot be of one entity.                   *)
(***************************************************************************)
\* What a chunk holds was allocated.
LEMMA ChunkIsAllocated ==
    ASSUME OutboxTypeOK
    PROVE  /\ Len(chunks) \in Nat
           /\ \A i \in 1..Len(chunks) : chunks[i] \subseteq 1..LastSeq
  BY DEF OutboxTypeOK

\* Two different rows of one cut are rows of different entities.
LEMMA CutHoldsARowOnce ==
    ASSUME NEW n \in Nat, NEW s \in AsOf(n), NEW t \in AsOf(n), s # t
    PROVE  ~SameRow(log[s], log[t])
<1>1. s \in 1..n /\ t \in 1..n
  BY DEF AsOf
<1>2. CASE s < t
  BY <1>1, <1>2 DEF AsOf
<1>3. CASE t < s
  BY <1>1, <1>3 DEF AsOf, SameRow
<1> QED
  BY <1>1, <1>2, <1>3

\* A page that is added keeps the chunks disjoint and in order.
LEMMA ConsumePageKeepsOrder ==
    ASSUME SnapshotInv, ChunksDisjointAndOrdered, manifest.state = "building",
           NEW consumed \in SUBSET Remaining, NEW upto, ConsumePage(consumed, upto)
    PROVE  ChunksDisjointAndOrdered'
<1>1. /\ Len(chunks) \in Nat /\ chunks \in Seq(SUBSET (1..LastSeq))
      /\ \A i \in 1..Len(chunks) : chunks[i] \subseteq 1..LastSeq
      /\ log' = log /\ Records(consumed) \in SUBSET (1..LastSeq)
      /\ manifest.through \in Nat /\ manifest.after \in Nat
  BY ChunkIsAllocated, RecordsAreAllocated
  DEF SnapshotInv, OutboxTypeOK, ConsumePage, Manifests
<1>2. ASSUME NEW i \in 1..Len(chunks), NEW s \in chunks[i], NEW t \in Records(consumed)
      PROVE  /\ ~SameRow(log[s], log[t]) /\ s # t
             /\ log[s].kind = "coverage" => log[t].kind = "coverage"
  <2>1. s \in 1..LastSeq /\ t \in 1..LastSeq
    BY <1>1
  <2>2. s \in AsOf(manifest.through) /\ Scanned(s)
    <3>1. s \in Content
      BY DEF Content
    <3> QED
      BY <2>1, <3>1 DEF SnapshotInv, ContentIsScanned
  <2>3. /\ t \in AsOf(manifest.through)
        /\ \/ /\ manifest.kind = "entity"
              /\ log[t].kind = "entity" /\ log[t].key \in consumed
           \/ /\ manifest.kind = "coverage"
              /\ log[t].kind = "coverage" /\ t \in consumed
    BY <2>1, RecordsAreAsOf
  <2>4. \A x \in consumed : x > manifest.after
    BY DEF Remaining
  <2>5. ~Scanned(t)
    <3>1. manifest.kind = "entity" => log[t].key \in Nat
      BY <2>3, EntitiesAssumption DEF Remaining
    <3> QED
      BY <1>1, <2>1, <2>3, <2>4, <3>1 DEF Scanned
  <2>6. s # t
    BY <2>2, <2>5
  <2>7. ~SameRow(log[s], log[t])
    BY <1>1, <2>2, <2>3, <2>6, CutHoldsARowOnce
  <2>8. log[s].kind = "coverage" => log[t].kind = "coverage"
    BY <2>2, <2>3 DEF Scanned
  <2> QED
    BY <2>6, <2>7, <2>8
<1>3. CASE Records(consumed) = {}
  BY <1>1, <1>3 DEF ConsumePage, ChunksDisjointAndOrdered
<1>4. CASE Records(consumed) # {}
  <2>1. /\ Len(chunks') = Len(chunks) + 1
        /\ \A i \in 1..Len(chunks) : chunks'[i] = chunks[i]
        /\ chunks'[Len(chunks) + 1] = Records(consumed)
    BY <1>1, <1>4, AppendProperties DEF ConsumePage, Written
  <2>2. ASSUME NEW i \in 1..Len(chunks'), NEW j \in 1..Len(chunks'), i < j,
               NEW s \in chunks'[i], NEW t \in chunks'[j]
        PROVE  /\ ~SameRow(log[s], log[t]) /\ s # t
               /\ log[s].kind = "coverage" => log[t].kind = "coverage"
    <3>1. i \in 1..Len(chunks) /\ chunks'[i] = chunks[i]
      BY <1>1, <2>1, <2>2
    <3>2. CASE j \in 1..Len(chunks)
      BY <2>1, <2>2, <3>1, <3>2 DEF ChunksDisjointAndOrdered
    <3>3. CASE j = Len(chunks) + 1
      BY <1>2, <2>1, <3>1, <3>3
    <3> QED
      BY <1>1, <2>1, <3>2, <3>3
  <2> QED
    BY <1>1, <2>2 DEF ChunksDisjointAndOrdered
<1> QED
  BY <1>3, <1>4

\* Every step keeps the chunks disjoint and in order.
LEMMA NextKeepsOrder ==
    SnapshotInv /\ ChunksDisjointAndOrdered /\ [OutboxNext]_outboxVars
        => ChunksDisjointAndOrdered'
<1> SUFFICES ASSUME SnapshotInv, ChunksDisjointAndOrdered, [OutboxNext]_outboxVars
             PROVE  ChunksDisjointAndOrdered'
  OBVIOUS
<1>1. ASSUME NEW cs \in Seq(Change), AppendChanges(cs)
      PROVE  ChunksDisjointAndOrdered'
  <2>1. chunks' = chunks /\ \A s \in 1..LastSeq : log'[s] = log[s]
    BY <1>1, AppendedLog DEF SnapshotInv, AppendChanges
  <2>2. \A i \in 1..Len(chunks) : chunks[i] \subseteq 1..LastSeq
    BY ChunkIsAllocated DEF SnapshotInv
  <2> QED
    BY <2>1, <2>2 DEF ChunksDisjointAndOrdered
<1>2. CASE chunks' = <<>>
  BY <1>2 DEF ChunksDisjointAndOrdered
<1>3. CASE chunks' = chunks /\ log' = log
  BY <1>3 DEF ChunksDisjointAndOrdered
<1>4. CASE BuildNextSnapshotChunk
  <2>1. manifest.state = "building" /\ OutboxTypeOK
    BY <1>4 DEF BuildNextSnapshotChunk, SnapshotInv
  <2> QED
    BY <1>4, <2>1, BuildConsumes, ConsumePageKeepsOrder
<1>5. Capture => ChunksDisjointAndOrdered'
  BY <1>1, CaptureAppends
<1>6. CreateSnapshot => chunks' = <<>>
  BY DEF CreateSnapshot, NewSnapshot
<1>7. Acknowledged => chunks' = <<>> \/ (chunks' = chunks /\ log' = log)
  BY DEF Acknowledged, Acknowledge
<1> QED
  BY <1>2, <1>3, <1>4, <1>5, <1>6, <1>7 DEF OutboxNext, outboxVars

\* Whatever is captured while they are built, wherever the byte budget cuts a
\* page, the chunks of a snapshot hold no row twice and no entity after a
\* coverage change, and all they hold was allocated (buildNextSnapshotChunk).
THEOREM SnapshotIsACut == OutboxSpec => []SnapshotIsCut
<1>1. OutboxInit => ChunksDisjointAndOrdered
  BY DEF OutboxInit, ChunksDisjointAndOrdered
<1>2. SnapshotInv /\ ChunksDisjointAndOrdered => SnapshotIsCut
  BY DEF SnapshotInv, SnapshotIsCut
<1> QED
  BY <1>1, <1>2, InitSnapshotInv, NextKeepsSnapshotInv, NextKeepsOrder, PTL DEF OutboxSpec

-----------------------------------------------------------------------------
(***************************************************************************)
(* The inductive invariant, part by part.                                  *)
(***************************************************************************)
Handshake(f) == f.type \in {"hello", "bound"}
SnapshotFrame(f) == f.type \in {"begin", "chunk", "commit"}

Answer ==
    [type : {"session"}, resume : BOOLEAN, committed : Nat, pending : {0} \cup UploadIds, next : Nat]
    \cup [type : {"sync"}, pending : {0} \cup UploadIds, next : Nat]
    \cup [type : {"ack"}, committed : Nat, id : {0} \cup UploadIds, next : Nat, done : BOOLEAN]
    \cup [type : {"rejected"}, code : {"gap", "invariant", "stale_fence"}, retryable : BOOLEAN]

\* What is on the wire stays true: captures, commits and snapshot ids only grow.
FrameIsTrue(f) ==
    /\ Handshake(f) => f.lastAck <= Committed
    /\ f.type = "delta" => f.record.seq \in 1..LastSeq /\ f.record = AsRecord(f.record.seq)
FramesAreTrue ==
    \A c \in 1..MaxConns : \A i \in 1..Len(up[c]) : FrameIsTrue(up[c][i])

AnswerIsTrue(f) ==
    /\ f.type = "session" => f.committed <= Committed /\ (f.resume => Staging = {})
    /\ f.type = "ack" => f.committed <= Committed /\ (f.done => f.id \in UploadIds /\ uploads[f.id].state = "committed")
AnswersAreTrue ==
    /\ down \in Seq(Answer)
    /\ \A i \in 1..Len(down) : AnswerIsTrue(down[i])

\* What waits for the store acknowledges nothing that the Brain does not have.
AcksAreTrue == \A i \in 1..Len(acks) : acks[i].committed <= Committed

\* A snapshot frame that the Brain may still accept is of the pending snapshot
\* or of one that is committed already.
OfPending(f) ==
    /\ manifest.state = "ready" /\ manifest.id = f.id
    /\ f.type = "begin" => f.through = manifest.through /\ f.count = Len(chunks)
    /\ f.type = "chunk" => f.index < Len(chunks) /\ f.records = ChunkRecords(f.index)
FencedFramesMatch ==
    fence # 0 => \A i \in 1..Len(up[fence]) :
                    SnapshotFrame(up[fence][i]) =>
                       OfPending(up[fence][i]) \/ uploads[up[fence][i].id].state = "committed"

\* A connection starts with one handshake frame, alone on the wire, and nothing
\* else is sent before it is answered.
HandshakesAreAlone ==
    \A c \in 1..MaxConns :
        /\ up[c] # <<>> => c <= conns
        /\ \A i \in 1..Len(up[c]) : Handshake(up[c][i]) => Len(up[c]) = 1
SessionIsOpened ==
    /\ conn = 0 => down = <<>> /\ ~session
    /\ conn # 0 /\ ~session => /\ \A i \in 1..Len(up[conn]) : Handshake(up[conn][i])
                               /\ up[conn] # <<>> => down = <<>>
    /\ session => \A i \in 1..Len(up[conn]) : ~Handshake(up[conn][i])
    /\ \A i \in 1..Len(down) : down[i].type = "session" => i = 1 /\ ~session

\* Frames of a dead connection are accepted only as long as the Brain has not
\* answered the hello of the live one.
DeadFramesAreFenced ==
    fence # 0 /\ fence # conn /\ (\E i \in 1..Len(up[fence]) : ~Handshake(up[fence][i]))
      => conn = 0 \/ (\E i \in 1..Len(up[conn]) : up[conn][i].type = "hello")

ManifestOK ==
    /\ LastSeq <= MaxChanges /\ lastId <= MaxSnapshots
    /\ manifest.state # "none" => manifest.id \in 1..MaxSnapshots

StagedMatches ==
    \A u \in Staging :
        /\ manifest.id = u /\ manifest.state = "ready"
        /\ uploads[u].through = manifest.through
        /\ uploads[u].count = Len(chunks)
        /\ Received(u) <= Len(chunks)
        /\ \A i \in 1..Received(u) : uploads[u].chunks[i] = ChunkRecords(i-1)

\* The canonical rows are those of the committed prefix.
CanonIsPrefix ==
    /\ Committed <= LastSeq
    /\ \A k \in Entities :
         /\ canon[k] # 0 => canon[k] <= Committed /\ WritesRow(log[canon[k]], k)
         /\ \A s \in 1..Committed : WritesRow(log[s], k) => s <= canon[k]
    /\ evidence = {s \in 1..Committed : log[s].kind = "coverage"}

DeliveryInv ==
    /\ DeliveryTypeOK /\ SnapshotInv /\ OutboxRetainsUnacknowledged /\ ManifestOK
    /\ acked <= Committed /\ lastAck <= Committed
    /\ FramesAreTrue /\ AnswersAreTrue /\ AcksAreTrue
    /\ HandshakesAreAlone /\ SessionIsOpened /\ DeadFramesAreFenced
    /\ FencedFramesMatch /\ StagedMatches /\ CanonIsPrefix

-----------------------------------------------------------------------------
(***************************************************************************)
(* The Brain's merge.                                                      *)
(***************************************************************************)
RecordsOf(A) == {AsRecord(s) : s \in A}

LEMMA ChangesByKind ==
    ASSUME NEW c \in Change
    PROVE  /\ c.kind \in {"entity", "coverage"}
           /\ c.kind = "entity" => c.key \in Entities
           /\ \A k : WritesRow(c, k) <=> c = EntityChange(k) /\ k \in Entities
  <1>1. CASE c \in [kind : {"entity"}, key : Entities]
    BY <1>1 DEF WritesRow, EntityChange
  <1>2. CASE c \in [kind : {"coverage"}, grant : Grants]
    BY <1>2 DEF WritesRow, EntityChange
  <1> QED
    BY <1>1, <1>2 DEF Change

\* Of the changes that write a row in the first n, one is the last, and it is as of n.
LEMMA LastWriter ==
    ASSUME log \in Seq(Change), NEW n \in 0..LastSeq, NEW k \in Entities,
           NEW s \in 1..n, WritesRow(log[s], k)
    PROVE  \E m \in AsOf(n) : m >= s /\ WritesRow(log[m], k)
  <1> DEFINE T == {t \in 1..n : WritesRow(log[t], k)}
  <1>1. n \in Nat /\ LastSeq \in Nat
    BY DEF LastSeq
  <1>2. PICK m \in T : \A t \in T : t <= m
    <2>1. T \in SUBSET (1..n) /\ T # {}
      OBVIOUS
    <2> QED
      BY ONLY <1>1, <2>1, IntervalSetHasMax
  <1>3. \A t \in m+1..n : ~SameRow(log[m], log[t])
    BY <1>1, <1>2 DEF SameRow, WritesRow
  <1> QED
    BY <1>1, <1>2, <1>3 DEF AsOf

\* What merging the changes A leaves in the row of k, if A holds all that is new
\* as of n and nothing that is not as of n.
LEMMA MergedRow ==
    ASSUME log \in Seq(Change), CanonIsPrefix, canon \in [Entities -> Nat], Committed \in Nat,
           NEW n \in Committed..LastSeq, NEW A \in SUBSET AsOf(n),
           \A s \in AsOf(n) : s <= Committed \/ s \in A,
           NEW k \in Entities
    PROVE  LET m == MergedCanon(RecordsOf(A))[k]
           IN  /\ m \in Nat
               /\ m # 0 => m <= n /\ WritesRow(log[m], k)
               /\ \A s \in 1..n : WritesRow(log[s], k) => s <= m
  <1> DEFINE new == Newer(RecordsOf(A), k)
             m == MergedCanon(RecordsOf(A))[k]
  <1>1. /\ LastSeq \in Nat /\ n \in Nat /\ n \in 0..LastSeq /\ Committed <= n
        /\ canon[k] \in Nat /\ AsOf(n) \subseteq 1..n
        /\ \A s \in 1..n : log[s] \in Change
    BY DEF LastSeq, AsOf
  <1>2. new = {s \in A : WritesRow(log[s], k) /\ s > canon[k]}
    <2>1. \A s \in A : s \in 1..n /\ (log[s] = EntityChange(k) <=> WritesRow(log[s], k))
      BY <1>1, ChangesByKind
    <2>2. new = {r.seq : r \in {x \in RecordsOf(A) : x.change = EntityChange(k) /\ x.seq > canon[k]}}
      BY DEF Newer
    <2>3. \A r \in RecordsOf(A) : r.seq \in A /\ r = AsRecord(r.seq)
      BY DEF RecordsOf, AsRecord
    <2>4. \A s \in A : AsRecord(s) \in RecordsOf(A) /\ AsRecord(s).seq = s /\ AsRecord(s).change = log[s]
      BY DEF RecordsOf, AsRecord
    <2>5. ASSUME NEW s \in new PROVE s \in A /\ WritesRow(log[s], k) /\ s > canon[k]
      BY <2>1, <2>2, <2>3, <2>4
    <2>6. ASSUME NEW s \in A, WritesRow(log[s], k), s > canon[k] PROVE s \in new
      BY <2>1, <2>2, <2>4, <2>6
    <2> QED
      BY <2>5, <2>6
  <1>3. CASE new = {}
    <2>1. m = canon[k]
      BY <1>3 DEF MergedCanon
    <2>2. ASSUME NEW s \in 1..n, WritesRow(log[s], k)
          PROVE  s <= canon[k]
      <3>1. PICK t \in AsOf(n) : t >= s /\ WritesRow(log[t], k)
        BY <1>1, <2>2, LastWriter
      <3>2. t <= canon[k]
        BY <1>1, <1>2, <1>3, <3>1 DEF CanonIsPrefix
      <3> QED
        BY <1>1, <3>1, <3>2
    <2>3. canon[k] # 0 => canon[k] <= n /\ WritesRow(log[canon[k]], k)
      BY <1>1 DEF CanonIsPrefix
    <2> QED
      BY <1>1, <2>1, <2>2, <2>3
  <1>4. CASE new # {}
    <2>1. m \in new
      BY <1>4 DEF MergedCanon
    <2>2. m \in A /\ m \in AsOf(n) /\ m \in 1..n /\ WritesRow(log[m], k)
      BY <1>1, <1>2, <2>1
    <2>3. ASSUME NEW s \in 1..n, WritesRow(log[s], k), s > m
          PROVE  FALSE
      <3>1. s \in m+1..n
        BY <1>1, <2>2, <2>3
      <3>2. SameRow(log[m], log[s])
        BY <2>2, <2>3 DEF SameRow, WritesRow
      <3> QED
        BY <2>2, <3>1, <3>2 DEF AsOf
    <2> QED
      BY <1>1, <2>2, <2>3
  <1> QED
    BY <1>3, <1>4

LEMMA MergedCoverage ==
    ASSUME log \in Seq(Change), CanonIsPrefix, Committed \in Nat,
           NEW n \in Committed..LastSeq, NEW A \in SUBSET AsOf(n),
           \A s \in AsOf(n) : s <= Committed \/ s \in A
    PROVE  MergedEvidence(RecordsOf(A)) = {s \in 1..n : log[s].kind = "coverage"}
  <1>1. LastSeq \in Nat /\ n \in Nat /\ AsOf(n) \subseteq 1..n /\ Committed <= n
    BY DEF LastSeq, AsOf
  <1>2. {r.seq : r \in {x \in RecordsOf(A) : x.change.kind = "coverage"}}
          = {s \in A : log[s].kind = "coverage"}
    <2> DEFINE new == {r.seq : r \in {x \in RecordsOf(A) : x.change.kind = "coverage"}}
    <2>1. \A r \in RecordsOf(A) : r.seq \in A /\ r = AsRecord(r.seq)
      BY DEF RecordsOf, AsRecord
    <2>2. \A s \in A : AsRecord(s) \in RecordsOf(A) /\ AsRecord(s).seq = s /\ AsRecord(s).change = log[s]
      BY DEF RecordsOf, AsRecord
    <2>3. ASSUME NEW s \in new PROVE s \in A /\ log[s].kind = "coverage"
      BY <2>1, <2>2
    <2>4. ASSUME NEW s \in A, log[s].kind = "coverage" PROVE s \in new
      BY <2>2, <2>4
    <2> QED
      BY <2>3, <2>4
  <1>3. \A s \in 1..n : log[s].kind = "coverage" => s \in AsOf(n)
    BY <1>1 DEF AsOf, SameRow
  <1>4. evidence = {s \in 1..Committed : log[s].kind = "coverage"}
    BY DEF CanonIsPrefix
  <1> QED
    BY <1>1, <1>2, <1>3, <1>4 DEF MergedEvidence

\* A merge that moves the checkpoint to n makes the canonical rows those of n.
LEMMA MergeKeepsPrefix ==
    ASSUME log \in Seq(Change), CanonIsPrefix, canon \in [Entities -> Nat], Committed \in Nat,
           NEW n \in Committed..LastSeq, NEW A \in SUBSET AsOf(n),
           \A s \in AsOf(n) : s <= Committed \/ s \in A,
           NEW kind, Merge(RecordsOf(A), kind), UNCHANGED log, Committed' = n
    PROVE  CanonIsPrefix' /\ canon' \in [Entities -> Nat] /\ evidence' \subseteq Nat
  <1>1. canon' = MergedCanon(RecordsOf(A)) /\ evidence' = MergedEvidence(RecordsOf(A))
    BY DEF Merge
  <1>2. LastSeq' = LastSeq /\ LastSeq \in Nat /\ n \in Nat /\ n <= LastSeq
    BY DEF LastSeq
  <1>3. \A k \in Entities : /\ canon'[k] \in Nat
                            /\ canon'[k] # 0 => canon'[k] <= n /\ WritesRow(log[canon'[k]], k)
                            /\ \A s \in 1..n : WritesRow(log[s], k) => s <= canon'[k]
    BY <1>1, MergedRow
  <1>4. evidence' = {s \in 1..n : log[s].kind = "coverage"}
    BY <1>1, MergedCoverage
  <1>5. canon' \in [Entities -> Nat]
    BY <1>1, <1>3 DEF MergedCanon
  <1> QED
    BY <1>2, <1>3, <1>4, <1>5 DEF CanonIsPrefix

\* The rows of the canonical history are those as of the checkpoint.
LEMMA ViewIsAsOf ==
    ASSUME log \in Seq(Change), CanonIsPrefix, canon \in [Entities -> Nat], Committed \in Nat
    PROVE  View = AsOf(Committed)
  <1>1. LastSeq \in Nat /\ Committed <= LastSeq /\ \A s \in 1..Committed : log[s] \in Change
    BY DEF LastSeq, CanonIsPrefix
  <1>2. ASSUME NEW k \in Entities, canon[k] # 0
        PROVE  canon[k] \in AsOf(Committed)
    BY <1>1, <1>2 DEF CanonIsPrefix, AsOf, SameRow, WritesRow
  <1>3. ASSUME NEW s \in evidence
        PROVE  s \in AsOf(Committed)
    BY <1>1, <1>3 DEF CanonIsPrefix, AsOf, SameRow
  <1>4. ASSUME NEW s \in AsOf(Committed)
        PROVE  s \in View
    <2>1. s \in 1..Committed
      BY DEF AsOf
    <2>2. CASE log[s].kind = "coverage"
      BY <2>1, <2>2 DEF CanonIsPrefix, View
    <2>3. CASE log[s].kind = "entity"
      <3>1. PICK k \in Entities : WritesRow(log[s], k)
        BY <1>1, <2>1, <2>3, ChangesByKind DEF WritesRow
      <3>2. s <= canon[k] /\ canon[k] # 0 /\ canon[k] <= Committed /\ WritesRow(log[canon[k]], k)
        BY <2>1, <3>1 DEF CanonIsPrefix
      <3>3. canon[k] = s
        BY <1>1, <2>1, <3>1, <3>2 DEF AsOf, SameRow, WritesRow
      <3> QED
        BY <2>1, <3>3 DEF View
    <2> QED
      BY <1>1, <2>1, <2>2, <2>3, ChangesByKind
  <1> QED
    BY <1>2, <1>3, <1>4 DEF View

-----------------------------------------------------------------------------
(***************************************************************************)
(* What the worker sends.                                                  *)
(***************************************************************************)
\* FlushOutbox sends members of the set it sorts.
LEMMA InOrderIsMember ==
    ASSUME NEW n \in Nat, NEW S \in SUBSET (1..n), NEW i \in 1..Cardinality(S)
    PROVE  Cardinality(S) \in Nat /\ InOrder(S)[i] \in S
  <1> DEFINE Below(s) == {t \in S : t <= s}
             T == {s \in S : Cardinality(Below(s)) >= i}
  <1>1. IsFiniteSet(S) /\ Cardinality(S) \in Nat
    <2>1. IsFiniteSet(1..n)
      BY FS_Interval
    <2> QED
      BY <2>1, FS_Subset, FS_CardinalityType
  <1>2. \A s \in S : IsFiniteSet(Below(s)) /\ Cardinality(Below(s)) \in Nat
    BY <1>1, FS_Subset, FS_CardinalityType
  <1>3. /\ \A s, t \in S : t \in Below(s) <=> t <= s
        /\ \A s \in S : Below(s) \subseteq S
        /\ \A s \in S : s \in T <=> Cardinality(Below(s)) >= i
        /\ T \subseteq S
    OBVIOUS
  <1> HIDE DEF Below, T
  <1>4. T # {}
    <2>1. S # {}
      BY <1>1, FS_EmptySet
    <2>2. PICK m \in S : \A s \in S : s <= m
      BY <2>1, IntervalSetHasMax
    <2>3. Below(m) = S
      BY <1>3, <2>2
    <2> QED
      BY <1>1, <1>3, <2>2, <2>3
  <1>5. PICK x \in T : \A y \in T : x <= y
    <2>1. T \in SUBSET Nat
      BY <1>3
    <2> QED
      BY <1>4, <2>1, NatSetHasMin
  <1>6. Cardinality(Below(x)) = i
    <2> SUFFICES ASSUME Cardinality(Below(x)) # i PROVE FALSE
      OBVIOUS
    <2> DEFINE D == Below(x) \ {x}
    <2>1. x \in S /\ x \in Below(x) /\ x \in Nat /\ Cardinality(Below(x)) >= i + 1
      BY <1>2, <1>3, <1>5
    <2>2. IsFiniteSet(D) /\ Cardinality(D) = Cardinality(Below(x)) - 1
      BY <1>2, <2>1, FS_RemoveElement
    <2>3. Cardinality(D) \in Nat /\ Cardinality(D) >= i
      BY <1>2, <2>1, <2>2
    <2>4. D # {}
      BY <2>3, FS_EmptySet
    <2>5. D \in SUBSET (1..n)
      BY <1>3, <2>1
    <2>6. PICK y \in D : \A t \in D : t <= y
      BY <2>4, <2>5, IntervalSetHasMax
    <2>7. y \in S /\ y < x
      BY <1>3, <2>1, <2>5, <2>6
    <2>8. Below(y) = D
      <3>1. ASSUME NEW t \in Below(y) PROVE t \in D
        BY <1>3, <2>1, <2>7, <3>1
      <3>2. ASSUME NEW t \in D PROVE t \in Below(y)
        BY <1>3, <2>1, <2>6, <2>7, <3>2
      <3> QED
        BY <3>1, <3>2
    <2>9. y \in T
      BY <1>3, <2>3, <2>7, <2>8
    <2> QED
      BY <1>5, <2>1, <2>7, <2>9
  <1>7. \E s \in S : Cardinality({t \in S : t <= s}) = i
    BY <1>3, <1>5, <1>6 DEF Below
  <1> QED
    BY <1>1, <1>7 DEF InOrder

-----------------------------------------------------------------------------
(***************************************************************************)
(* The steps of the composed system are steps of the Agent's store.        *)
(***************************************************************************)
LEMMA HeadAndTail ==
    ASSUME NEW S, NEW q \in Seq(S), q # <<>>
    PROVE  /\ Len(q) \in Nat /\ Len(q) >= 1 /\ 1 \in 1..Len(q)
           /\ Head(q) = q[1] /\ Head(q) \in S
           /\ Tail(q) \in Seq(S) /\ Len(Tail(q)) = Len(q) - 1
           /\ \A i \in 1..Len(Tail(q)) : i + 1 \in 1..Len(q) /\ Tail(q)[i] = q[i+1]
  <1>1. Len(q) \in Nat /\ Len(q) # 0
    BY EmptySeq, LenProperties
  <1> QED
    BY <1>1, HeadTailProperties

LEMMA AnswerTypes ==
    ASSUME NEW f \in Answer
    PROVE  /\ f.type \in {"session", "sync", "ack", "rejected"}
           /\ f.type = "session" => f.resume \in BOOLEAN /\ f.committed \in Nat
           /\ f.type \in {"session", "sync"} => f.pending \in {0} \cup UploadIds /\ f.next \in Nat
           /\ f.type = "ack" => f.committed \in Nat /\ f.id \in {0} \cup UploadIds
                                /\ f.next \in Nat /\ f.done \in BOOLEAN
  BY DEF Answer

LEMMA Received1 ==
    ASSUME DeliveryInv, down # <<>>
    PROVE  /\ Head(down) = down[1] /\ Head(down) \in Answer /\ AnswerIsTrue(Head(down))
           /\ Tail(down) \in Seq(Answer) /\ Len(Tail(down)) \in Nat
           /\ \A i \in 1..Len(Tail(down)) : i + 1 \in 1..Len(down) /\ Tail(down)[i] = down[i+1]
  <1>1. down \in Seq(Answer) /\ \A i \in 1..Len(down) : AnswerIsTrue(down[i])
    BY DEF DeliveryInv, AnswersAreTrue
  <1> QED
    BY <1>1, HeadAndTail

\* Numbers that the parts of the invariant bound.
LEMMA Bounds ==
    ASSUME DeliveryInv
    PROVE  /\ LastSeq \in Nat /\ Committed \in Nat /\ Committed <= LastSeq
           /\ LastSeq <= MaxChanges /\ MaxChanges \in Nat
           /\ acked \in Nat /\ lastAck \in Nat /\ conns \in Nat /\ MaxConns \in Nat
           /\ checkpoint \in Nat \cup {None} /\ None = -1
           /\ OutboxTypeOK /\ StreamTypeOK
  BY BoundsAssumption, DeliveryBoundsAssumption
     DEF DeliveryInv, DeliveryTypeOK, OutboxTypeOK, StreamTypeOK, LastSeq, Committed, None,
         CanonIsPrefix, ManifestOK

\* What the oldest operation of the store is waited for with.
LEMMA FirstContinuation ==
    ASSUME DeliveryInv, acks # <<>>
    PROVE  /\ Head(acks) \in Continuation /\ Head(acks).committed <= Committed
           /\ Tail(acks) \in Seq(Continuation) /\ Len(Tail(acks)) = Len(acks) - 1
           /\ \A i \in 1..Len(Tail(acks)) : i + 1 \in 1..Len(acks) /\ Tail(acks)[i] = acks[i+1]
  <1>1. acks \in Seq(Continuation) /\ \A i \in 1..Len(acks) : acks[i].committed <= Committed
    BY DEF DeliveryInv, DeliveryTypeOK, AcksAreTrue
  <1> QED
    BY <1>1, HeadAndTail

LEMMA AckIsAcknowledged ==
    ASSUME DeliveryInv, RecvAck
    PROVE  AckProgress(Head(down)) \in Progresses /\ Head(down).committed \in 0..MaxChanges
           /\ Acknowledge(Head(down).committed, AckProgress(Head(down)))
  <1>1. /\ Head(down) \in Answer /\ Head(down).type = "ack" /\ AnswerIsTrue(Head(down))
    BY Received1 DEF RecvAck, Receives
  <1>2. /\ Head(down).committed \in Nat /\ Head(down).id \in {0} \cup 1..MaxSnapshots
        /\ Head(down).done \in BOOLEAN
    BY <1>1, AnswerTypes, UploadIdsAssumption
  <1>3. AckProgress(Head(down)) \in Progresses
    BY <1>2 DEF AckProgress, Progresses
  <1>4. Head(down).committed <= Committed
    BY <1>1 DEF AnswerIsTrue
  <1> QED
    BY <1>2, <1>3, <1>4, Bounds DEF RecvAck

\* The acknowledgement that a resumed session stands for, if any.
LEMMA ResumeIsAcknowledged ==
    ASSUME DeliveryInv, RecvSession, Head(down).resume
    PROVE  \/ UNCHANGED outboxVars
           \/ /\ Acknowledge(Head(down).committed, [id |-> manifest.id, committed |-> TRUE])
              /\ [id |-> manifest.id, committed |-> TRUE] \in Progresses
              /\ Head(down).committed \in 0..MaxChanges
              /\ manifest.state # "none"
  <1>1. /\ Head(down) \in Answer /\ Head(down).type = "session" /\ AnswerIsTrue(Head(down))
    BY Received1 DEF RecvSession, Receives
  <1>2. Head(down).committed \in Nat /\ Head(down).committed <= Committed
    BY <1>1, AnswerTypes DEF AnswerIsTrue
  <1>3. Head(down).committed \in 0..MaxChanges
    BY <1>2, Bounds
  <1>4. manifest.state # "none" => [id |-> manifest.id, committed |-> TRUE] \in Progresses
    BY DEF DeliveryInv, ManifestOK, Progresses
  <1>5. Reconcile(Head(down).committed)
    BY DEF RecvSession
  <1> QED
    BY <1>3, <1>4, <1>5 DEF Reconcile

\* Which steps touch the store.
LEMMA StoreCases ==
    ASSUME [DeliveryNext]_deliveryVars
    PROVE  \/ UNCHANGED outboxVars
           \/ Capture \/ CreateSnapshot \/ BuildNextSnapshotChunk
           \/ RecvAck
           \/ RecvSession /\ Head(down).resume
  <1>1. CASE CaptureAndFlush
    BY <1>1 DEF CaptureAndFlush
  <1>2. CASE \E i \in 1..MaxTasks : TaskBuilds(i)
    BY <1>2 DEF TaskBuilds
  <1>3. CASE RecvSession /\ ~Head(down).resume
    BY <1>3 DEF RecvSession, HandleSyncRequired, CreateOrReuseSnapshot
  <1>4. CASE RecvSyncRequired
    BY <1>4 DEF RecvSyncRequired, HandleSyncRequired, CreateOrReuseSnapshot
  <1>5. CASE RecvRejected
    BY <1>5 DEF RecvRejected, HandleSyncRequired, CreateOrReuseSnapshot
  <1>6. CASE FlushOutbox \/ Connect \/ SendNextSnapshotFrame \/ AckContinues
    BY <1>6 DEF FlushOutbox, Connect, SendNextSnapshotFrame, AckContinues
  <1>7. CASE \E i \in 1..MaxTasks : TaskSends(i) \/ TaskFails(i)
    BY <1>7 DEF TaskSends, TaskFails
  <1>8. CASE RecvAckFails \/ RecvStaleFence
    BY <1>8 DEF RecvAckFails, RecvStaleFence
  <1>9. CASE Faults
    BY <1>9 DEF Faults, Disconnect, WorkerRestart, LoseLease, HeartbeatRefused, NoticeClose
  <1>10. CASE ConsentChanges \/ \E c \in 1..MaxConns : Brain(c)
    BY <1>10 DEF ConsentChanges, Brain, BindAgent, OpenSession, RejectStale, IngestDelta, IngestSnapshot
  <1>11. CASE UNCHANGED deliveryVars
    BY <1>11 DEF deliveryVars
  <1> QED
    BY <1>1, <1>2, <1>3, <1>4, <1>5, <1>6, <1>7, <1>8, <1>9, <1>10, <1>11 DEF DeliveryNext, Agent

LEMMA StoreStep ==
    ASSUME DeliveryInv, [DeliveryNext]_deliveryVars
    PROVE  [OutboxNext]_outboxVars
  <1>1. CASE RecvSession /\ Head(down).resume
    BY <1>1, ResumeIsAcknowledged DEF OutboxNext, Acknowledged
  <1>2. CASE RecvAck
    BY <1>2, AckIsAcknowledged DEF OutboxNext, Acknowledged
  <1>3. CASE Capture \/ CreateSnapshot \/ BuildNextSnapshotChunk \/ UNCHANGED outboxVars
    BY <1>3 DEF OutboxNext
  <1> QED
    BY <1>1, <1>2, <1>3, StoreCases

\* Changes are only appended.
LEMMA LogGrows ==
    ASSUME OutboxTypeOK, [OutboxNext]_outboxVars
    PROVE  /\ LastSeq \in Nat /\ LastSeq' \in Nat /\ LastSeq <= LastSeq'
           /\ log' \in Seq(Change)
           /\ \A s \in 1..LastSeq : s \in 1..LastSeq' /\ log'[s] = log[s]
           /\ \A s \in 1..LastSeq : AsRecord(s)' = AsRecord(s)
  <1>1. LastSeq \in Nat /\ log \in Seq(Change)
    BY DEF OutboxTypeOK, LastSeq
  <1>2. CASE Capture
    <2>1. PICK cs \in Seq(Change) : AppendChanges(cs)
      BY <1>2, CaptureAppends
    <2> QED
      BY <1>1, <2>1, AppendedLog DEF AsRecord
  <1>3. CASE UNCHANGED log
    BY <1>1, <1>3 DEF LastSeq, AsRecord
  <1>4. CASE CreateSnapshot \/ BuildNextSnapshotChunk \/ Acknowledged \/ UNCHANGED outboxVars
    BY <1>3, <1>4 DEF CreateSnapshot, NewSnapshot, BuildNextSnapshotChunk, ConsumePage,
                      Acknowledged, Acknowledge, outboxVars
  <1> QED
    BY <1>2, <1>4 DEF OutboxNext

\* A snapshot that is ready stays as it is until it is acknowledged.
LEMMA ReadyStays ==
    ASSUME OutboxTypeOK, [OutboxNext]_outboxVars, manifest.state = "ready"
    PROVE  \/ manifest' = manifest /\ chunks' = chunks
           \/ manifest' = NoSnapshot
  <1>1. CASE Capture
    <2>1. PICK cs \in Seq(Change) : AppendChanges(cs)
      BY <1>1, CaptureAppends
    <2> QED
      BY <2>1 DEF AppendChanges
  <1>2. CASE Acknowledged
    BY <1>2 DEF Acknowledged, Acknowledge
  <1>3. CASE CreateSnapshot \/ BuildNextSnapshotChunk \/ UNCHANGED outboxVars
    BY <1>3 DEF CreateSnapshot, BuildNextSnapshotChunk, outboxVars
  <1> QED
    BY <1>1, <1>2, <1>3 DEF OutboxNext

LEMMA StoreKeepsManifestOK ==
    ASSUME OutboxTypeOK, ManifestOK, [OutboxNext]_outboxVars
    PROVE  ManifestOK'
  <1>1. MaxSnapshots \in Nat /\ lastId \in Nat /\ LastSeq \in Nat
    BY BoundsAssumption DEF OutboxTypeOK, LastSeq
  <1>2. CASE Capture
    <2>1. PICK cs \in Seq(Change) : AppendChanges(cs)
      BY <1>2, CaptureAppends
    <2> QED
      BY <2>1, AppendedLog DEF AppendChanges, ManifestOK
  <1>3. CASE CreateSnapshot
    BY <1>1, <1>3 DEF CreateSnapshot, NewSnapshot, ManifestOK, LastSeq
  <1>4. CASE BuildNextSnapshotChunk
    <2>1. PICK consumed, upto : ConsumePage(consumed, upto)
      BY <1>4 DEF BuildNextSnapshotChunk
    <2>2. manifest'.id = manifest.id /\ log' = log /\ lastId' = lastId
      BY <2>1 DEF ConsumePage, ScanAfter, OutboxTypeOK, Manifests
    <2> QED
      BY <1>4, <2>2 DEF ManifestOK, LastSeq, BuildNextSnapshotChunk
  <1>5. CASE Acknowledged
    BY <1>5 DEF Acknowledged, Acknowledge, ManifestOK, NoSnapshot, LastSeq
  <1>6. CASE UNCHANGED outboxVars
    BY <1>6 DEF outboxVars, ManifestOK, LastSeq
  <1> QED
    BY <1>2, <1>3, <1>4, <1>5, <1>6 DEF OutboxNext

\* What a chunk of a ready snapshot holds does not depend on later captures.
LEMMA ChunksStay ==
    ASSUME OutboxTypeOK, [OutboxNext]_outboxVars, chunks' = chunks, NEW i \in 0..Len(chunks)-1
    PROVE  ChunkRecords(i)' = ChunkRecords(i)
  <1>1. i + 1 \in 1..Len(chunks) /\ chunks[i+1] \subseteq 1..LastSeq
    BY DEF OutboxTypeOK
  <1>2. \A s \in chunks[i+1] : AsRecord(s)' = AsRecord(s)
    BY <1>1, LogGrows
  <1>3. ChunkRecords(i) = {AsRecord(s) : s \in chunks[i+1]}
    BY DEF ChunkRecords
  <1>4. ChunkRecords(i)' = {AsRecord(s)' : s \in chunks'[i+1]}
    BY DEF ChunkRecords
  <1> QED
    BY <1>2, <1>3, <1>4

-----------------------------------------------------------------------------
(***************************************************************************)
(* The Brain's operations.                                                 *)
(***************************************************************************)
UploadType == [state : {"absent", "staging", "committed"}, start : Nat \cup {None},
               through : Nat, count : Nat, records : Nat, chunks : Seq(SUBSET StreamRecord)]

LEMMA UploadTypes ==
    ASSUME StreamTypeOK, NEW u \in UploadIds
    PROVE  /\ uploads[u] \in UploadType
           /\ uploads[u].chunks \in Seq(SUBSET StreamRecord) /\ Received(u) \in Nat
           /\ uploads[u].state \in {"absent", "staging", "committed"}
           /\ uploads[u].through \in Nat
           /\ u \in Staging <=> uploads[u].state = "staging"
  BY DEF StreamTypeOK, UploadType, Received, Staging

LEMMA MergeKeepsWork ==
    ASSUME StreamTypeOK, NEW recs, NEW kind \in {"entity", "coverage", "reseed"}, Merge(recs, kind)
    PROVE  work' \in Seq({"entity", "coverage", "reseed"})
  BY AppendProperties DEF Merge, StreamTypeOK

\* A delta that is accepted is the next change.
LEMMA DeltaCommits ==
    ASSUME DeliveryInv, NEW r, r.seq \in 1..LastSeq, r = AsRecord(r.seq), CommitDelta(r), UNCHANGED log
    PROVE  /\ StreamTypeOK' /\ CanonIsPrefix' /\ UNCHANGED uploads
           /\ Committed' \in Nat /\ Committed <= Committed'
           /\ DeltaOutcome(r) \notin {"gap", "invariant"} => checkpoint' = Committed'
  <1>1. /\ LastSeq \in Nat /\ Committed \in Nat /\ Committed <= LastSeq
        /\ checkpoint \in Nat \cup {None} /\ None = -1
        /\ StreamTypeOK /\ CanonIsPrefix /\ log \in Seq(Change) /\ canon \in [Entities -> Nat]
    BY Bounds DEF DeliveryInv, OutboxTypeOK, StreamTypeOK
  <1>2. CASE DeltaOutcome(r) = "accepted"
    <2>1. checkpoint # None /\ r.seq = checkpoint + 1 /\ checkpoint' = r.seq
      BY <1>2 DEF CommitDelta, DeltaOutcome
    <2>2. /\ Committed = checkpoint /\ Committed' = r.seq
          /\ r.seq \in Committed..LastSeq
      BY <1>1, <2>1 DEF Committed
    <2>3. /\ {r.seq} \in SUBSET AsOf(r.seq)
          /\ \A s \in AsOf(r.seq) : s <= Committed \/ s \in {r.seq}
          /\ RecordsOf({r.seq}) = {r}
      BY <1>1, <2>1, <2>2 DEF AsOf, RecordsOf
    <2>4. Merge(RecordsOf({r.seq}), WorkKind(r.change))
      BY <1>2, <2>3 DEF CommitDelta
    <2>5. CanonIsPrefix' /\ canon' \in [Entities -> Nat] /\ evidence' \subseteq Nat
      BY <1>1, <2>2, <2>3, <2>4, MergeKeepsPrefix
    <2>6. WorkKind(r.change) \in {"entity", "coverage", "reseed"}
      BY DEF WorkKind
    <2>7. work' \in Seq({"entity", "coverage", "reseed"})
      BY <1>1, <2>4, <2>6, MergeKeepsWork
    <2>8. UNCHANGED <<uploads, consent>> /\ events' = events \cup {r.seq}
      BY <1>2 DEF CommitDelta
    <2>9. events' \subseteq Nat
      <3>1. events \subseteq Nat
        BY <1>1 DEF StreamTypeOK
      <3>2. r.seq \in Nat
        BY <1>1
      <3> QED
        BY <2>8, <3>1, <3>2
    <2> QED
      BY <1>1, <2>1, <2>2, <2>5, <2>7, <2>8, <2>9 DEF StreamTypeOK
  <1>3. CASE DeltaOutcome(r) # "accepted"
    <2>1. UNCHANGED streamVars
      BY <1>3 DEF CommitDelta
    <2> QED
      BY <1>1, <2>1 DEF streamVars, StreamTypeOK, CanonIsPrefix, Committed, LastSeq, DeltaOutcome
  <1> QED
    BY <1>2, <1>3

\* A snapshot is begun with the manifest of the pending one.
LEMMA BeginStages ==
    ASSUME DeliveryInv, NEW u \in UploadIds, NEW through \in Nat, NEW count \in Nat,
           NEW records \in Nat, BeginSnapshot(u, through, count, records)
    PROVE  /\ StreamTypeOK' /\ UNCHANGED <<checkpoint, canon, evidence, work, consent>>
           /\ \A v \in UploadIds \ {u} : uploads'[v] = uploads[v]
           /\ \/ uploads' = uploads
              \/ /\ Staging = {} /\ uploads[u].state = "absent" /\ uploads'[u].state = "staging"
                 /\ uploads'[u].through = through /\ uploads'[u].count = count
                 /\ uploads'[u].chunks = <<>>
  <1>1. StreamTypeOK
    BY Bounds
  <1>2. CASE BeginOutcome(u, through, count, records) = "accepted"
    <2>1. /\ uploads' = [uploads EXCEPT ![u] =
                           [state |-> "staging", start |-> checkpoint, through |-> through,
                            count |-> count, records |-> records, chunks |-> <<>>]]
          /\ UNCHANGED <<checkpoint, canon, evidence, events, work, consent>>
      BY <1>2 DEF BeginSnapshot
    <2>2. Staging = {} /\ uploads[u].state = "absent"
      BY <1>2 DEF BeginOutcome
    <2>3. <<>> \in Seq(SUBSET StreamRecord)
      OBVIOUS
    <2> QED
      BY <1>1, <2>1, <2>2, <2>3 DEF StreamTypeOK
  <1>3. CASE BeginOutcome(u, through, count, records) # "accepted"
    BY <1>1, <1>3 DEF BeginSnapshot, streamVars, StreamTypeOK
  <1> QED
    BY <1>2, <1>3

\* A chunk that is accepted is the next one of a staged upload.
LEMMA ChunkStages ==
    ASSUME DeliveryInv, NEW u \in UploadIds, NEW index \in Nat, NEW recs \in SUBSET StreamRecord,
           AddSnapshotChunk(u, index, recs)
    PROVE  /\ StreamTypeOK' /\ UNCHANGED <<checkpoint, canon, evidence, work, consent>>
           /\ \A v \in UploadIds \ {u} : uploads'[v] = uploads[v]
           /\ \/ uploads' = uploads
              \/ /\ uploads[u].state = "staging" /\ uploads'[u].state = "staging"
                 /\ uploads'[u].through = uploads[u].through /\ uploads'[u].count = uploads[u].count
                 /\ index = Received(u) /\ index < uploads[u].count
                 /\ uploads'[u].chunks = Append(uploads[u].chunks, recs)
  <1>1. StreamTypeOK
    BY Bounds
  <1>2. uploads[u] \in UploadType /\ uploads[u].chunks \in Seq(SUBSET StreamRecord)
        /\ Received(u) \in Nat
    BY <1>1, UploadTypes
  <1>3. CASE ChunkOutcome(u, index, recs) = "accepted"
    <2>1. /\ uploads' = [uploads EXCEPT ![u].chunks = Append(@, recs)]
          /\ UNCHANGED <<checkpoint, canon, evidence, events, work, consent>>
      BY <1>3 DEF AddSnapshotChunk
    <2>2. /\ uploads[u].state \notin {"absent", "committed"}
          /\ index = Received(u) /\ index < uploads[u].count
      BY <1>2, <1>3 DEF ChunkOutcome, UploadType
    <2>3. uploads[u].state = "staging"
      BY <1>2, <2>2 DEF UploadType
    <2>4. Append(uploads[u].chunks, recs) \in Seq(SUBSET StreamRecord)
      BY <1>2, AppendProperties
    <2> QED
      BY <1>1, <1>2, <2>1, <2>2, <2>3, <2>4 DEF StreamTypeOK
  <1>4. CASE ChunkOutcome(u, index, recs) # "accepted"
    BY <1>1, <1>4 DEF AddSnapshotChunk, streamVars, StreamTypeOK
  <1> QED
    BY <1>3, <1>4

\* What is staged in full is the state as of the snapshot.
LEMMA StagedInFull ==
    ASSUME DeliveryInv, NEW u \in Staging, Received(u) = uploads[u].count
    PROVE  /\ uploads[u].through \in 0..LastSeq
           /\ Staged(u) = RecordsOf(AsOf(uploads[u].through))
  <1>1. /\ manifest.state = "ready" /\ uploads[u].through = manifest.through
        /\ Received(u) = Len(chunks)
        /\ \A i \in 1..Len(chunks) : uploads[u].chunks[i] = ChunkRecords(i-1)
    BY DEF DeliveryInv, StagedMatches
  <1>2. Staged(u) = UNION {uploads[u].chunks[i] : i \in 1..Len(chunks)}
    BY <1>1 DEF Staged, Received
  <1>3. \A i \in 1..Len(chunks) : uploads[u].chunks[i] = RecordsOf(chunks[i])
    BY <1>1 DEF ChunkRecords, RecordsOf
  <1>4. Staged(u) = RecordsOf(Content)
    <2>1. ASSUME NEW r \in Staged(u) PROVE r \in RecordsOf(Content)
      <3>1. PICK i \in 1..Len(chunks) : r \in uploads[u].chunks[i]
        BY <1>2, <2>1
      <3>2. PICK s \in chunks[i] : r = AsRecord(s)
        BY <1>3, <3>1 DEF RecordsOf
      <3> QED
        BY <3>2 DEF Content, RecordsOf
    <2>2. ASSUME NEW r \in RecordsOf(Content) PROVE r \in Staged(u)
      <3>1. PICK s \in Content : r = AsRecord(s)
        BY <2>2 DEF RecordsOf
      <3>2. PICK i \in 1..Len(chunks) : s \in chunks[i]
        BY DEF Content
      <3>3. r \in uploads[u].chunks[i]
        BY <1>3, <3>1, <3>2 DEF RecordsOf
      <3> QED
        BY <1>2, <3>3
    <2> QED
      BY <2>1, <2>2
  <1>5. Content = AsOf(manifest.through)
    BY <1>1, SnapshotInvIsAsOf DEF DeliveryInv, SnapshotIsAsOf
  <1>6. manifest.through \in 0..LastSeq
    BY Bounds DEF OutboxTypeOK, Manifests
  <1> QED
    BY <1>1, <1>4, <1>5, <1>6

\* The commit of a snapshot makes the canonical rows those of its through_seq.
LEMMA CommitCommits ==
    ASSUME DeliveryInv, NEW u \in UploadIds, NEW count, CommitSnapshot(u, count), UNCHANGED log
    PROVE  /\ StreamTypeOK' /\ CanonIsPrefix'
           /\ Committed' \in Nat /\ Committed <= Committed'
           /\ \A v \in UploadIds \ {u} : uploads'[v] = uploads[v]
           /\ uploads' = uploads \/ uploads'[u].state = "committed"
  <1>1. /\ LastSeq \in Nat /\ Committed \in Nat /\ Committed <= LastSeq
        /\ checkpoint \in Nat \cup {None} /\ None = -1
        /\ StreamTypeOK /\ CanonIsPrefix /\ log \in Seq(Change) /\ canon \in [Entities -> Nat]
    BY Bounds DEF DeliveryInv, OutboxTypeOK, StreamTypeOK
  <1>2. uploads[u] \in UploadType
    BY <1>1, UploadTypes
  <1> DEFINE n == uploads[u].through
  <1>3. CASE CommitOutcome(u, count) = "accepted"
    <2>1. /\ uploads[u].state \notin {"absent", "committed"} /\ Complete(u)
          /\ ~(n < Committed)
      BY <1>3 DEF CommitOutcome
    <2>2. u \in Staging /\ Received(u) = uploads[u].count
      BY <1>2, <2>1 DEF UploadType, Staging, Complete
    <2>3. n \in Committed..LastSeq /\ Staged(u) = RecordsOf(AsOf(n))
      BY <1>1, <2>1, <2>2, StagedInFull
    <2>4. /\ Merge(Staged(u), "reseed") /\ checkpoint' = n
          /\ uploads' = [uploads EXCEPT ![u].state = "committed"]
          /\ UNCHANGED <<events, consent>>
      BY <1>3 DEF CommitSnapshot
    <2>5. Committed' = n
      BY <1>1, <2>3, <2>4 DEF Committed
    <2>6. CanonIsPrefix' /\ canon' \in [Entities -> Nat] /\ evidence' \subseteq Nat
      <3>1. AsOf(n) \in SUBSET AsOf(n) /\ \A s \in AsOf(n) : s <= Committed \/ s \in AsOf(n)
        OBVIOUS
      <3>2. Merge(RecordsOf(AsOf(n)), "reseed")
        BY <2>3, <2>4
      <3> QED
        BY <1>1, <2>3, <2>5, <3>1, <3>2, MergeKeepsPrefix
    <2>7. work' \in Seq({"entity", "coverage", "reseed"})
      BY <1>1, <2>4, MergeKeepsWork
    <2>8. n \in Nat /\ Committed <= n
      BY <1>1, <2>3
    <2>9. StreamTypeOK'
      <3>1. uploads \in [UploadIds -> UploadType]
        BY <1>1 DEF StreamTypeOK, UploadType
      <3>2. [uploads[u] EXCEPT !.state = "committed"] \in UploadType
        BY <1>2 DEF UploadType
      <3>3. uploads' \in [UploadIds -> UploadType]
        BY <2>4, <3>1, <3>2
      <3>4. checkpoint' \in Nat \cup {None} /\ events' = events /\ consent' = consent
        BY <2>4, <2>8
      <3> QED
        BY <1>1, <2>6, <2>7, <3>3, <3>4 DEF StreamTypeOK, UploadType
    <2>10. uploads \in [UploadIds -> UploadType]
      BY <1>1 DEF StreamTypeOK, UploadType
    <2>11. /\ \A v \in UploadIds \ {u} : uploads'[v] = uploads[v]
           /\ uploads'[u].state = "committed"
      BY <2>4, <2>10 DEF UploadType
    <2> QED
      BY <2>5, <2>6, <2>8, <2>9, <2>11
  <1>4. CASE CommitOutcome(u, count) # "accepted"
    <2>1. UNCHANGED streamVars
      BY <1>4 DEF CommitSnapshot
    <2> QED
      BY <1>1, <2>1 DEF streamVars, StreamTypeOK, CanonIsPrefix, Committed, LastSeq
  <1> QED
    BY <1>3, <1>4

-----------------------------------------------------------------------------
(***************************************************************************)
(* What a step does to the Brain's side.                                   *)
(***************************************************************************)
LEMMA FrameTypes ==
    ASSUME NEW f \in Frame
    PROVE  /\ f.type \in {"hello", "bound", "delta", "begin", "chunk", "commit"}
           /\ Handshake(f) => f.lastAck \in Nat
           /\ f.type = "delta" => f.record \in StreamRecord
           /\ SnapshotFrame(f) => f.id \in UploadIds
           /\ f.type = "begin" => f.through \in Nat /\ f.count \in Nat /\ f.records \in Nat
           /\ f.type = "chunk" => f.index \in Nat /\ f.records \in SUBSET StreamRecord
           /\ f.type = "commit" => f.count \in Nat
           /\ Handshake(f) <=> f.type \notin {"delta", "begin", "chunk", "commit"}
  BY DEF Frame, Handshake, SnapshotFrame

LEMMA Arrived ==
    ASSUME DeliveryInv, NEW c \in 1..MaxConns, up[c] # <<>>
    PROVE  /\ Head(up[c]) = up[c][1] /\ Head(up[c]) \in Frame /\ FrameIsTrue(Head(up[c]))
           /\ Len(up[c]) \in Nat /\ 1 \in 1..Len(up[c])
           /\ Tail(up[c]) \in Seq(Frame) /\ Len(Tail(up[c])) = Len(up[c]) - 1
           /\ \A i \in 1..Len(Tail(up[c])) : i + 1 \in 1..Len(up[c]) /\ Tail(up[c])[i] = up[c][i+1]
  <1>1. up[c] \in Seq(Frame) /\ \A i \in 1..Len(up[c]) : FrameIsTrue(up[c][i])
    BY DEF DeliveryInv, DeliveryTypeOK, FramesAreTrue
  <1> QED
    BY <1>1, HeadAndTail

\* The snapshot operation that a frame asks for.
LEMMA SnapshotOperation ==
    ASSUME DeliveryInv, NEW c \in 1..MaxConns, IngestSnapshot(c)
    PROVE  LET f == Head(up[c]) IN
           /\ f = up[c][1] /\ f \in Frame /\ SnapshotFrame(f) /\ f.id \in UploadIds
           /\ up[c] # <<>> /\ c = fence /\ fence # 0
           /\ OfPending(f) \/ uploads[f.id].state = "committed"
           /\ \/ /\ f.type = "begin" /\ f.through \in Nat /\ f.count \in Nat /\ f.records \in Nat
                 /\ BeginSnapshot(f.id, f.through, f.count, f.records)
              \/ /\ f.type = "chunk" /\ f.index \in Nat /\ f.records \in SUBSET StreamRecord
                 /\ AddSnapshotChunk(f.id, f.index, f.records)
              \/ /\ f.type = "commit" /\ f.count \in Nat
                 /\ CommitSnapshot(f.id, f.count)
  <1> DEFINE f == Head(up[c])
  <1>1. /\ up[c] # <<>> /\ c = fence
        /\ \/ f.type = "begin" /\ BeginSnapshot(f.id, f.through, f.count, f.records)
           \/ f.type = "chunk" /\ AddSnapshotChunk(f.id, f.index, f.records)
           \/ f.type = "commit" /\ CommitSnapshot(f.id, f.count)
    BY DEF IngestSnapshot, NextFrame
  <1>2. SnapshotFrame(f) /\ f \in Frame /\ f = up[c][1] /\ 1 \in 1..Len(up[c])
    BY <1>1, Arrived DEF SnapshotFrame
  <1>3. fence # 0
    BY <1>1
  <1>4. OfPending(f) \/ uploads[f.id].state = "committed"
    BY <1>1, <1>2, <1>3 DEF DeliveryInv, FencedFramesMatch
  <1> QED
    BY <1>1, <1>2, <1>3, <1>4, FrameTypes

LEMMA CanonStays ==
    ASSUME DeliveryInv, [OutboxNext]_outboxVars, UNCHANGED <<checkpoint, canon, evidence>>
    PROVE  CanonIsPrefix'
  <1>1. /\ Committed' = Committed /\ Committed \in Nat /\ Committed <= LastSeq
        /\ LastSeq' \in Nat /\ LastSeq \in Nat /\ LastSeq <= LastSeq'
        /\ \A s \in 1..LastSeq : log'[s] = log[s]
    BY Bounds, LogGrows DEF Committed
  <1>2. canon \in [Entities -> Nat]
    BY Bounds DEF StreamTypeOK
  <1>3. \A k \in Entities : canon[k] # 0 => canon[k] \in 1..LastSeq
    BY <1>1, <1>2 DEF DeliveryInv, CanonIsPrefix
  <1>4. evidence' = {s \in 1..Committed' : log'[s].kind = "coverage"}
    BY <1>1 DEF DeliveryInv, CanonIsPrefix
  <1>5. ASSUME NEW k \in Entities
        PROVE  /\ canon'[k] # 0 => canon'[k] <= Committed' /\ WritesRow(log'[canon'[k]], k)
               /\ \A s \in 1..Committed' : WritesRow(log'[s], k) => s <= canon'[k]
    BY <1>1, <1>2, <1>3 DEF DeliveryInv, CanonIsPrefix
  <1> QED
    BY <1>1, <1>4, <1>5 DEF CanonIsPrefix

LEMMA SnapshotKeepsStream ==
    ASSUME DeliveryInv, NEW c \in 1..MaxConns, IngestSnapshot(c)
    PROVE  /\ StreamTypeOK' /\ CanonIsPrefix'
           /\ Committed' \in Nat /\ Committed <= Committed'
           /\ \A u \in UploadIds : uploads[u].state = "committed" => uploads'[u].state = "committed"
  <1> DEFINE f == Head(up[c])
  <1>1. /\ f.id \in UploadIds
        /\ \/ /\ f.through \in Nat /\ f.count \in Nat /\ f.records \in Nat
              /\ BeginSnapshot(f.id, f.through, f.count, f.records)
           \/ /\ f.index \in Nat /\ f.records \in SUBSET StreamRecord
              /\ AddSnapshotChunk(f.id, f.index, f.records)
           \/ CommitSnapshot(f.id, f.count)
    BY SnapshotOperation
  <1>2. UNCHANGED outboxVars /\ UNCHANGED log /\ Committed \in Nat
    BY Bounds DEF IngestSnapshot, outboxVars
  <1> HIDE DEF f
  <1>3. CASE /\ f.through \in Nat /\ f.count \in Nat /\ f.records \in Nat
             /\ BeginSnapshot(f.id, f.through, f.count, f.records)
    <2>1. /\ StreamTypeOK' /\ UNCHANGED <<checkpoint, canon, evidence, work, consent>>
          /\ \A v \in UploadIds \ {f.id} : uploads'[v] = uploads[v]
          /\ uploads' = uploads \/ uploads[f.id].state = "absent"
      BY <1>1, <1>3, BeginStages
    <2>2. CanonIsPrefix' /\ Committed' = Committed
      BY <1>2, <2>1, CanonStays DEF Committed
    <2> QED
      BY <1>2, <2>1, <2>2
  <1>4. CASE /\ f.index \in Nat /\ f.records \in SUBSET StreamRecord
             /\ AddSnapshotChunk(f.id, f.index, f.records)
    <2>1. /\ StreamTypeOK' /\ UNCHANGED <<checkpoint, canon, evidence, work, consent>>
          /\ \A v \in UploadIds \ {f.id} : uploads'[v] = uploads[v]
          /\ uploads' = uploads \/ uploads[f.id].state = "staging"
      BY <1>1, <1>4, ChunkStages
    <2>2. CanonIsPrefix' /\ Committed' = Committed
      BY <1>2, <2>1, CanonStays DEF Committed
    <2> QED
      BY <1>2, <2>1, <2>2
  <1>5. CASE CommitSnapshot(f.id, f.count)
    BY <1>1, <1>2, <1>5, CommitCommits
  <1> QED
    BY <1>1, <1>3, <1>4, <1>5

LEMMA DeltaKeepsStream ==
    ASSUME DeliveryInv, NEW c \in 1..MaxConns, IngestDelta(c)
    PROVE  /\ StreamTypeOK' /\ CanonIsPrefix' /\ UNCHANGED uploads
           /\ Committed' \in Nat /\ Committed <= Committed'
           /\ DeltaOutcome(Head(up[c]).record) \notin {"gap", "invariant"} => checkpoint' = Committed'
  <1> DEFINE r == Head(up[c]).record
  <1>1. up[c] # <<>> /\ Head(up[c]).type = "delta" /\ CommitDelta(r) /\ UNCHANGED outboxVars
    BY DEF IngestDelta, NextFrame
  <1>2. r.seq \in 1..LastSeq /\ r = AsRecord(r.seq)
    BY <1>1, Arrived DEF FrameIsTrue
  <1> QED
    BY <1>1, <1>2, DeltaCommits DEF outboxVars

LEMMA StreamStep ==
    ASSUME [DeliveryNext]_deliveryVars
    PROVE  \/ UNCHANGED streamVars
           \/ ConsentChanges
           \/ \E c \in 1..MaxConns : IngestDelta(c) \/ IngestSnapshot(c)
  <1>1. CASE CaptureAndFlush \/ FlushOutbox \/ Connect \/ SendNextSnapshotFrame
    BY <1>1 DEF CaptureAndFlush, FlushOutbox, Connect, SendNextSnapshotFrame
  <1>2. CASE \E i \in 1..MaxTasks : TaskBuilds(i) \/ TaskSends(i) \/ TaskFails(i)
    BY <1>2 DEF TaskBuilds, TaskSends, TaskFails
  <1>3. CASE RecvSession \/ RecvSyncRequired \/ RecvAck
    BY <1>3 DEF RecvSession, RecvSyncRequired, RecvAck
  <1>4. CASE RecvAckFails \/ RecvStaleFence \/ RecvRejected \/ AckContinues
    BY <1>4 DEF RecvAckFails, RecvStaleFence, RecvRejected, AckContinues
  <1>5. CASE Faults
    BY <1>5 DEF Faults, Disconnect, WorkerRestart, LoseLease, HeartbeatRefused, NoticeClose
  <1>6. CASE \E c \in 1..MaxConns : BindAgent(c) \/ OpenSession(c) \/ RejectStale(c)
    BY <1>6 DEF BindAgent, OpenSession, RejectStale
  <1>7. CASE UNCHANGED deliveryVars
    BY <1>7 DEF deliveryVars
  <1> QED
    BY <1>1, <1>2, <1>3, <1>4, <1>5, <1>6, <1>7 DEF DeliveryNext, Agent, Brain

\* The canonical prefix only grows, and a committed snapshot stays committed.
LEMMA StreamGrows ==
    ASSUME DeliveryInv, [DeliveryNext]_deliveryVars
    PROVE  /\ StreamTypeOK' /\ CanonIsPrefix'
           /\ Committed' \in Nat /\ Committed <= Committed'
           /\ \A u \in UploadIds : uploads[u].state = "committed" => uploads'[u].state = "committed"
  <1>1. /\ [OutboxNext]_outboxVars /\ StreamTypeOK /\ Committed \in Nat
    BY StoreStep, Bounds
  <1>2. CASE UNCHANGED streamVars
    <2>1. UNCHANGED <<checkpoint, canon, evidence, uploads>> /\ Committed' = Committed
      BY <1>2 DEF streamVars, Committed
    <2>2. StreamTypeOK'
      BY <1>1, <1>2 DEF streamVars, StreamTypeOK
    <2> QED
      BY <1>1, <2>1, <2>2, CanonStays
  <1>3. CASE ConsentChanges
    <2>1. UNCHANGED <<checkpoint, canon, evidence, events, uploads, work>> /\ Committed' = Committed
      BY <1>3 DEF ConsentChanges, ChangeConsent, Committed
    <2>2. consent' \in Grants \cup {0}
      BY <1>3 DEF ConsentChanges, ChangeConsent
    <2>3. StreamTypeOK'
      BY <1>1, <2>1, <2>2 DEF StreamTypeOK
    <2> QED
      BY <1>1, <2>1, <2>3, CanonStays
  <1>4. CASE \E c \in 1..MaxConns : IngestDelta(c) \/ IngestSnapshot(c)
    BY <1>4, DeltaKeepsStream, SnapshotKeepsStream
  <1> QED
    BY <1>2, <1>3, <1>4, StreamStep

-----------------------------------------------------------------------------
(***************************************************************************)
(* What is staged is of the pending snapshot.                              *)
(***************************************************************************)
\* While the answer to a hello is on its way to the Agent, the Brain has no
\* frame to accept.
LEMMA OpeningIsQuiet ==
    ASSUME DeliveryInv, NEW i \in 1..Len(down), down[i].type = "session"
    PROVE  /\ conn # 0 /\ ~session /\ up[conn] = <<>> /\ i = 1
           /\ fence # 0 => \A j \in 1..Len(up[fence]) : Handshake(up[fence][j])
  <1>1. down # <<>>
    OBVIOUS
  <1>2. conn # 0 /\ ~session /\ up[conn] = <<>> /\ i = 1
    BY <1>1 DEF DeliveryInv, SessionIsOpened
  <1>3. ASSUME fence # 0, NEW j \in 1..Len(up[fence]), ~Handshake(up[fence][j])
        PROVE  FALSE
    <2>1. CASE fence = conn
      BY <1>2, <1>3, <2>1
    <2>2. CASE fence # conn
      <3>1. \E l \in 1..Len(up[conn]) : up[conn][l].type = "hello"
        BY <1>2, <1>3, <2>2 DEF DeliveryInv, DeadFramesAreFenced
      <3> QED
        BY <1>2, <3>1
    <2> QED
      BY <2>1, <2>2
  <1> QED
    BY <1>2, <1>3

\* The Agent lets go of a snapshot that is ready only if the Brain committed it,
\* or if the Brain has nothing of it and nothing of it is still to be accepted.
LEMMA SnapshotReleased ==
    ASSUME DeliveryInv, [DeliveryNext]_deliveryVars, manifest.state = "ready"
    PROVE  \/ manifest' = manifest /\ chunks' = chunks
           \/ manifest.id \in UploadIds /\ uploads[manifest.id].state = "committed"
              /\ UNCHANGED <<streamVars, up, fence>>
           \/ /\ Staging = {} /\ UNCHANGED <<streamVars, up, fence>>
              /\ fence # 0 => \A j \in 1..Len(up[fence]) : Handshake(up[fence][j])
  <1>1. CASE UNCHANGED outboxVars
    BY <1>1 DEF outboxVars
  <1>2. CASE Capture
    <2>1. PICK cs \in Seq(Change) : AppendChanges(cs)
      BY <1>2, CaptureAppends
    <2> QED
      BY <2>1 DEF AppendChanges
  <1>3. CASE CreateSnapshot \/ BuildNextSnapshotChunk
    BY <1>3 DEF CreateSnapshot, BuildNextSnapshotChunk
  <1>4. CASE RecvAck
    <2> DEFINE m == Head(down)
    <2>1. Acknowledge(m.committed, AckProgress(m)) /\ UNCHANGED <<streamVars, up, fence>>
      BY <1>4 DEF RecvAck
    <2>2. m \in Answer /\ m.type = "ack" /\ AnswerIsTrue(m)
      BY <1>4, Received1 DEF RecvAck, Receives
    <2>3. m.id \in {0} \cup UploadIds /\ m.done \in BOOLEAN
      BY <2>2, AnswerTypes
    <2>4. CASE m.id = 0 \/ ~m.done
      BY <2>1, <2>3, <2>4 DEF AckProgress, NoProgress, Acknowledge
    <2>5. CASE m.id # 0 /\ m.done
      <3>1. AckProgress(m) = [id |-> m.id, committed |-> TRUE]
        BY <2>5 DEF AckProgress
      <3>2. manifest.id = m.id
        BY <2>1, <3>1 DEF Acknowledge, Acknowledgeable, NoProgress
      <3>3. uploads[m.id].state = "committed"
        BY <2>2, <2>5 DEF AnswerIsTrue
      <3> QED
        BY <2>1, <2>3, <2>5, <3>2, <3>3
    <2> QED
      BY <2>3, <2>4, <2>5
  <1>5. CASE RecvSession /\ Head(down).resume
    <2>1. /\ down # <<>> /\ Head(down).type = "session"
          /\ UNCHANGED <<streamVars, up, fence>>
      BY <1>5 DEF RecvSession, Receives
    <2>2. Head(down) = down[1] /\ 1 \in 1..Len(down) /\ AnswerIsTrue(Head(down))
      <3>1. down \in Seq(Answer)
        BY DEF DeliveryInv, AnswersAreTrue
      <3> QED
        BY <2>1, <3>1, Received1
    <2>3. Staging = {}
      BY <1>5, <2>1, <2>2 DEF AnswerIsTrue
    <2> QED
      BY <2>1, <2>2, <2>3, OpeningIsQuiet
  <1> QED
    BY <1>1, <1>2, <1>3, <1>4, <1>5, StoreCases

\* The chunks that are staged stay those of the pending snapshot.
LEMMA StagedStays ==
    ASSUME DeliveryInv, [DeliveryNext]_deliveryVars, uploads' = uploads
    PROVE  StagedMatches'
  <1>1. Staging' = Staging
    BY DEF Staging
  <1> SUFFICES ASSUME NEW u \in Staging
               PROVE  /\ manifest'.id = u /\ manifest'.state = "ready"
                      /\ uploads[u].through = manifest'.through
                      /\ uploads[u].count = Len(chunks')
                      /\ Received(u) <= Len(chunks')
                      /\ \A i \in 1..Received(u) : uploads[u].chunks[i] = ChunkRecords(i-1)'
    BY <1>1 DEF StagedMatches, Received
  <1>2. /\ manifest.id = u /\ manifest.state = "ready"
        /\ uploads[u].through = manifest.through /\ uploads[u].count = Len(chunks)
        /\ Received(u) <= Len(chunks)
        /\ \A i \in 1..Received(u) : uploads[u].chunks[i] = ChunkRecords(i-1)
    BY DEF DeliveryInv, StagedMatches
  <1>3. OutboxTypeOK /\ [OutboxNext]_outboxVars /\ Len(chunks) \in Nat
    BY Bounds, StoreStep DEF OutboxTypeOK
  <1>4. u \in UploadIds /\ uploads[u].state = "staging" /\ Received(u) \in Nat
    BY Bounds, UploadTypes DEF Staging
  <1>5. manifest' = manifest /\ chunks' = chunks
    BY <1>2, <1>4, SnapshotReleased
  <1>6. ASSUME NEW i \in 1..Received(u) PROVE ChunkRecords(i-1)' = ChunkRecords(i-1)
    <2>1. i - 1 \in 0..Len(chunks)-1
      BY <1>2, <1>3, <1>4
    <2> QED
      BY <1>3, <1>5, <2>1, ChunksStay
  <1> QED
    BY <1>2, <1>5, <1>6

LEMMA IngestKeepsStaged ==
    ASSUME DeliveryInv, NEW c \in 1..MaxConns, IngestSnapshot(c), [DeliveryNext]_deliveryVars
    PROVE  StagedMatches'
  <1>0. PICK f : f = Head(up[c])
    OBVIOUS
  <1>1. /\ f.id \in UploadIds
        /\ OfPending(f) \/ uploads[f.id].state = "committed"
        /\ \/ /\ f.type = "begin" /\ f.through \in Nat /\ f.count \in Nat /\ f.records \in Nat
              /\ BeginSnapshot(f.id, f.through, f.count, f.records)
           \/ /\ f.type = "chunk" /\ f.index \in Nat /\ f.records \in SUBSET StreamRecord
              /\ AddSnapshotChunk(f.id, f.index, f.records)
           \/ f.type = "commit" /\ CommitSnapshot(f.id, f.count)
    BY <1>0, SnapshotOperation
  <1>2. /\ UNCHANGED log /\ manifest' = manifest /\ chunks' = chunks
        /\ \A i : ChunkRecords(i)' = ChunkRecords(i)
    BY DEF IngestSnapshot, outboxVars, ChunkRecords, AsRecord
  <1>a. f.id \in UploadIds /\ StreamTypeOK
    BY <1>1, Bounds
  <1>3. CASE uploads' = uploads
    BY <1>3, StagedStays
  <1>4. ASSUME uploads' # uploads, f.type = "begin", f.through \in Nat, f.count \in Nat, f.records \in Nat,
               BeginSnapshot(f.id, f.through, f.count, f.records)
        PROVE  StagedMatches'
    <2>1. /\ Staging = {} /\ uploads[f.id].state = "absent" /\ uploads'[f.id].state = "staging"
          /\ uploads'[f.id].through = f.through /\ uploads'[f.id].count = f.count
          /\ uploads'[f.id].chunks = <<>>
          /\ \A v \in UploadIds \ {f.id} : uploads'[v] = uploads[v]
      BY <1>a, <1>4, BeginStages
    <2>2. OfPending(f)
      BY <1>1, <2>1
    <2>3. Staging' = {f.id}
      BY <1>1, <2>1 DEF Staging
    <2>4. Len(chunks) \in Nat
      BY Bounds DEF OutboxTypeOK
    <2> QED
      BY <1>2, <1>4, <2>1, <2>2, <2>3, <2>4 DEF StagedMatches, OfPending, Received
  <1>5. ASSUME uploads' # uploads, f.type = "chunk", f.index \in Nat, f.records \in SUBSET StreamRecord,
               AddSnapshotChunk(f.id, f.index, f.records)
        PROVE  StagedMatches'
    <2>1. /\ uploads[f.id].state = "staging" /\ uploads'[f.id].state = "staging"
          /\ uploads'[f.id].through = uploads[f.id].through /\ uploads'[f.id].count = uploads[f.id].count
          /\ f.index = Received(f.id) /\ f.index < uploads[f.id].count
          /\ uploads'[f.id].chunks = Append(uploads[f.id].chunks, f.records)
          /\ \A v \in UploadIds \ {f.id} : uploads'[v] = uploads[v]
      BY <1>a, <1>5, ChunkStages
    <2>2. OfPending(f)
      BY <1>1, <2>1
    <2>3. Staging' = Staging /\ f.id \in Staging
      BY <1>1, <2>1 DEF Staging
    <2>4. /\ \A u \in Staging : u = manifest.id
          /\ manifest.state = "ready" /\ manifest.id = f.id
          /\ uploads[f.id].through = manifest.through /\ uploads[f.id].count = Len(chunks)
          /\ \A i \in 1..Received(f.id) : uploads[f.id].chunks[i] = ChunkRecords(i-1)
      BY <2>3 DEF DeliveryInv, StagedMatches
    <2>5. uploads[f.id].chunks \in Seq(SUBSET StreamRecord) /\ Received(f.id) \in Nat /\ Len(chunks) \in Nat
      <3>1. Len(chunks) \in Nat
        BY Bounds DEF OutboxTypeOK
      <3> QED
        BY <1>a, <3>1, UploadTypes
    <2>6. /\ Received(f.id)' = Received(f.id) + 1
          /\ \A i \in 1..Received(f.id) : uploads'[f.id].chunks[i] = uploads[f.id].chunks[i]
          /\ uploads'[f.id].chunks[Received(f.id) + 1] = f.records
      <3>1. PICK old \in Seq(SUBSET StreamRecord) : old = uploads[f.id].chunks
        BY <2>5
      <3>2. /\ Len(Append(old, f.records)) = Len(old) + 1
            /\ \A i \in 1..Len(old) : Append(old, f.records)[i] = old[i]
            /\ Append(old, f.records)[Len(old) + 1] = f.records
        BY <1>5, AppendProperties
      <3>3. /\ Received(f.id) = Len(old) /\ uploads'[f.id].chunks = Append(old, f.records)
            /\ Received(f.id)' = Len(Append(old, f.records))
        BY <2>1, <3>1 DEF Received
      <3> QED
        BY <3>1, <3>2, <3>3
    <2>7. f.records = ChunkRecords(Received(f.id))
      BY <1>5, <2>1, <2>2 DEF OfPending
    <2>8. ASSUME NEW i \in 1..Received(f.id)' PROVE uploads'[f.id].chunks[i] = ChunkRecords(i-1)
      <3>1. CASE i = Received(f.id) + 1
        <4>1. uploads'[f.id].chunks[i] = f.records
          BY <2>6, <3>1
        <4>2. i - 1 = Received(f.id)
          BY <2>5, <3>1
        <4> QED
          BY <2>7, <4>1, <4>2
      <3>2. CASE i # Received(f.id) + 1
        <4>1. i \in 1..(Received(f.id) + 1)
          BY <2>6
        <4>2. i \in 1..Received(f.id)
          BY <2>5, <3>2, <4>1
        <4>3. uploads'[f.id].chunks[i] = uploads[f.id].chunks[i]
          BY <2>6, <4>2
        <4>4. uploads[f.id].chunks[i] = ChunkRecords(i-1)
          BY <2>4, <4>2
        <4> QED
          BY <4>3, <4>4
      <3> QED
        BY <3>1, <3>2
    <2>9. Received(f.id)' <= Len(chunks)
      <3>1. PICK m \in Nat, n \in Nat : m = Received(f.id) /\ n = Len(chunks)
        BY <2>5
      <3>2. m < n /\ Received(f.id)' = m + 1
        BY <2>1, <2>4, <2>6, <3>1
      <3> QED
        BY <3>1, <3>2
    <2>10. ASSUME NEW u \in Staging' PROVE u = f.id
      BY <2>3, <2>4, <2>10
    <2>11. /\ manifest'.id = f.id /\ manifest'.state = "ready"
           /\ uploads'[f.id].through = manifest'.through /\ uploads'[f.id].count = Len(chunks')
      BY <1>2, <2>1, <2>4
    <2>12. /\ Received(f.id)' <= Len(chunks')
           /\ \A i \in 1..Received(f.id)' : uploads'[f.id].chunks[i] = ChunkRecords(i-1)'
      BY <1>2, <2>8, <2>9
    <2> QED
      BY <2>10, <2>11, <2>12 DEF StagedMatches
  <1>6. ASSUME uploads' # uploads, CommitSnapshot(f.id, f.count)
        PROVE  StagedMatches'
    <2>1. \A v \in UploadIds \ {f.id} : uploads'[v] = uploads[v]
      BY <1>a, <1>2, <1>6, CommitCommits
    <2>2. uploads'[f.id].state = "committed"
      BY <1>a, <1>2, <1>6, CommitCommits
    <2>3. CommitOutcome(f.id, f.count) = "accepted" /\ uploads[f.id].state \in {"absent", "staging", "committed"}
      BY <1>a, <1>6, UploadTypes DEF CommitSnapshot, streamVars
    <2>4. f.id \in Staging
      BY <1>1, <2>3 DEF CommitOutcome, Staging
    <2>5. Staging = {f.id}
      BY <2>4 DEF DeliveryInv, StagedMatches
    <2>6. Staging' = {}
      BY <2>1, <2>2, <2>5 DEF Staging
    <2> QED
      BY <2>6 DEF StagedMatches
  <1> QED
    BY <1>1, <1>3, <1>4, <1>5, <1>6

LEMMA StepKeepsStaged ==
    ASSUME DeliveryInv, [DeliveryNext]_deliveryVars
    PROVE  StagedMatches'
  <1>1. CASE UNCHANGED streamVars \/ ConsentChanges
    BY <1>1, StagedStays DEF streamVars, ConsentChanges, ChangeConsent
  <1>2. ASSUME NEW c \in 1..MaxConns, IngestDelta(c) PROVE StagedMatches'
    BY <1>2, DeltaKeepsStream, StagedStays
  <1>3. ASSUME NEW c \in 1..MaxConns, IngestSnapshot(c) PROVE StagedMatches'
    BY <1>3, IngestKeepsStaged
  <1> QED
    BY <1>1, <1>2, <1>3, StreamStep

-----------------------------------------------------------------------------
(***************************************************************************)
(* What a step does to the wires.                                          *)
(***************************************************************************)
\* A frame that the worker sends once there is a session.
SentFrame(f) ==
    \/ \E s \in Unsent : f = DeltaFrame(s)
    \/ /\ manifest.state = "ready"
       /\ f \in {BeginFrame, CommitFrame} \cup {ChunkFrame(i) : i \in 0..Len(chunks)-1}

Sends ==
    /\ session
    /\ UNCHANGED <<conn, session, conns, down, fence>>
    /\ \E fs \in Seq(Frame) : /\ \A i \in 1..Len(fs) : SentFrame(fs[i])
                              /\ up' = [up EXCEPT ![conn] = @ \o fs]

\* An answer is taken from the wire.
Takes ==
    /\ conn # 0 /\ down # <<>>
    /\ down' = Tail(down)
    /\ session' = (session \/ Head(down).type = "session")
    /\ UNCHANGED <<conn, conns, up, fence>>

LEMMA WhatIsSent ==
    ASSUME DeliveryInv, NEW f, SentFrame(f)
    PROVE  /\ f \in Frame /\ ~Handshake(f) /\ FrameIsTrue(f)
           /\ SnapshotFrame(f) => OfPending(f)
  <1>1. LastSeq \in Nat /\ OutboxTypeOK /\ Len(chunks) \in Nat
    BY Bounds DEF OutboxTypeOK
  <1>2. ASSUME NEW s \in 1..LastSeq
        PROVE  AsRecord(s) \in StreamRecord /\ AsRecord(s).seq = s
    BY <1>1 DEF OutboxTypeOK, AsRecord, StreamRecord, LastSeq
  <1>3. CASE \E s \in Unsent : f = DeltaFrame(s)
    <2>1. PICK s \in 1..LastSeq : f = DeltaFrame(s)
      BY <1>1, <1>3 DEF Unsent, OutboxTypeOK
    <2> QED
      BY <1>2, <2>1 DEF DeltaFrame, Frame, Handshake, SnapshotFrame, FrameIsTrue
  <1>4. ASSUME manifest.state = "ready"
        PROVE  manifest.id \in UploadIds /\ manifest.through \in Nat
    BY <1>1, <1>4, UploadIdsAssumption DEF DeliveryInv, ManifestOK, OutboxTypeOK, Manifests
  <1>5. CASE manifest.state = "ready" /\ f = BeginFrame
    <2>1. Cardinality(Content) \in Nat
      <3>1. Content \in SUBSET (1..LastSeq)
        BY <1>1 DEF Content, OutboxTypeOK
      <3>2. IsFiniteSet(1..LastSeq)
        BY <1>1, FS_Interval
      <3> QED
        BY <3>1, <3>2, FS_Subset, FS_CardinalityType
    <2> QED
      BY <1>1, <1>4, <1>5, <2>1 DEF BeginFrame, Frame, Handshake, SnapshotFrame, FrameIsTrue, OfPending
  <1>6. CASE manifest.state = "ready" /\ f = CommitFrame
    BY <1>1, <1>4, <1>6 DEF CommitFrame, Frame, Handshake, SnapshotFrame, FrameIsTrue, OfPending
  <1>7. ASSUME manifest.state = "ready", NEW i \in 0..Len(chunks)-1, f = ChunkFrame(i)
        PROVE  /\ f \in Frame /\ ~Handshake(f) /\ FrameIsTrue(f)
               /\ SnapshotFrame(f) => OfPending(f)
    <2>1. ChunkRecords(i) \in SUBSET StreamRecord
      <3>1. i + 1 \in 1..Len(chunks) /\ chunks[i+1] \subseteq 1..LastSeq
        BY <1>1 DEF OutboxTypeOK
      <3> QED
        BY <1>2, <3>1 DEF ChunkRecords
    <2>2. i \in Nat /\ i < Len(chunks)
      BY <1>1
    <2> QED
      BY <1>1, <1>4, <1>7, <2>1, <2>2 DEF ChunkFrame, Frame, Handshake, SnapshotFrame, FrameIsTrue, OfPending
  <1> QED
    BY <1>3, <1>5, <1>6, <1>7 DEF SentFrame

LEMMA ConnIsOpen ==
    ASSUME DeliveryInv
    PROVE  /\ conn \in Nat /\ fence \in Nat /\ conn <= conns /\ fence <= conns /\ conns <= MaxConns
           /\ conn # 0 => conn \in 1..MaxConns
           /\ fence # 0 => fence \in 1..MaxConns
           /\ session => conn # 0
           /\ up \in [1..MaxConns -> Seq(Frame)] /\ session \in BOOLEAN
           /\ down \in Seq(Answer)
  BY DeliveryBoundsAssumption DEF DeliveryInv, DeliveryTypeOK, SessionIsOpened, AnswersAreTrue

\* One frame sent is a sequence of one.
LEMMA SendsOne ==
    ASSUME DeliveryInv, NEW f, SentFrame(f), SendSnapshot(f),
           UNCHANGED <<conn, session, conns, down, fence>>
    PROVE  up' = up \/ Sends
  <1>1. CASE ~session
    BY <1>1 DEF SendSnapshot
  <1>2. CASE session
    <2>1. up' = [up EXCEPT ![conn] = Append(@, f)] /\ conn \in 1..MaxConns /\ up[conn] \in Seq(Frame)
      BY <1>2, ConnIsOpen DEF SendSnapshot
    <2>2. f \in Frame
      BY WhatIsSent
    <2>3. <<f>> \in Seq(Frame) /\ Len(<<f>>) = 1 /\ <<f>>[1] = f
      BY <2>2
    <2>4. Append(up[conn], f) = up[conn] \o <<f>>
      BY <2>1, <2>2, AppendIsConcat
    <2>5. up' = [up EXCEPT ![conn] = @ \o <<f>>]
      BY <2>1, <2>4
    <2>6. \A i \in 1..Len(<<f>>) : SentFrame(<<f>>[i])
      BY <2>3
    <2> QED
      BY <1>2, <2>3, <2>5, <2>6 DEF Sends
  <1> QED
    BY <1>1, <1>2, ConnIsOpen

LEMMA FlushSends ==
    ASSUME DeliveryInv, FlushOutbox
    PROVE  up' = up \/ Sends
  <1>1. UNCHANGED <<conn, session, conns, down, fence>>
    BY DEF FlushOutbox
  <1>2. CASE ~(session /\ ~syncRequired)
    BY <1>2 DEF FlushOutbox
  <1>3. CASE session /\ ~syncRequired
    <2> DEFINE fs == [i \in 1..Cardinality(Unsent) |-> DeltaFrame(InOrder(Unsent)[i])]
    <2>1. up' = [up EXCEPT ![conn] = @ \o fs]
      BY <1>3 DEF FlushOutbox
    <2>2. LastSeq \in Nat /\ Unsent \in SUBSET (1..LastSeq)
      BY Bounds DEF Unsent, OutboxTypeOK
    <2>3. \A i \in 1..Cardinality(Unsent) : InOrder(Unsent)[i] \in Unsent
      BY <2>2, InOrderIsMember
    <2>4. Cardinality(Unsent) \in Nat
      <3>1. IsFiniteSet(1..LastSeq)
        BY <2>2, FS_Interval
      <3> QED
        BY <2>2, <3>1, FS_Subset, FS_CardinalityType
    <2>5. \A i \in 1..Cardinality(Unsent) : SentFrame(fs[i])
      BY <2>3 DEF SentFrame
    <2>6. \A i \in 1..Cardinality(Unsent) : fs[i] \in Frame
      BY <2>5, WhatIsSent
    <2> HIDE DEF fs
    <2>7. fs \in Seq(Frame) /\ Len(fs) = Cardinality(Unsent)
      BY <2>4, <2>6 DEF fs
    <2> QED
      BY <1>1, <1>3, <2>1, <2>5, <2>7 DEF Sends
  <1> QED
    BY <1>2, <1>3

LEMMA SnapshotSends ==
    ASSUME DeliveryInv, SendNextSnapshotFrame
    PROVE  up' = up \/ Sends
  <1>1. UNCHANGED <<conn, session, conns, down, fence>>
    BY DEF SendNextSnapshotFrame
  <1>2. sending \in Nat /\ Len(chunks) \in Nat
    BY Bounds DEF DeliveryInv, DeliveryTypeOK, SendNextSnapshotFrame, OutboxTypeOK
  <1>3. CASE manifest.state # "ready" \/ sending > Len(chunks)
    <2>1. ~(manifest.state = "ready" /\ sending < Len(chunks))
          /\ ~(manifest.state = "ready" /\ sending = Len(chunks))
      BY <1>2, <1>3
    <2> QED
      BY <1>3, <2>1 DEF SendNextSnapshotFrame
  <1>4. CASE manifest.state = "ready" /\ sending < Len(chunks)
    <2>1. SendSnapshot(ChunkFrame(sending))
      <3>1. ~(manifest.state # "ready" \/ sending > Len(chunks)) /\ sending # Len(chunks)
        BY <1>2, <1>4
      <3> QED
        BY <1>4, <3>1 DEF SendNextSnapshotFrame
    <2>2. SentFrame(ChunkFrame(sending))
      BY <1>2, <1>4 DEF SentFrame
    <2> QED
      BY <1>1, <2>1, <2>2, SendsOne
  <1>5. CASE manifest.state = "ready" /\ sending = Len(chunks)
    <2>1. SendSnapshot(CommitFrame)
      BY <1>2, <1>5 DEF SendNextSnapshotFrame
    <2>2. SentFrame(CommitFrame)
      BY <1>5 DEF SentFrame
    <2> QED
      BY <1>1, <2>1, <2>2, SendsOne
  <1> QED
    BY <1>2, <1>3, <1>4, <1>5

LEMMA TaskSendsBegin ==
    ASSUME DeliveryInv, NEW i, TaskSends(i)
    PROVE  up' = up \/ Sends
  <1>1. UNCHANGED <<conn, session, conns, down, fence>>
    BY DEF TaskSends
  <1>2. CASE SendSnapshot(BeginFrame)
    <2>1. SentFrame(BeginFrame)
      BY DEF SentFrame, TaskSends, Prepared
    <2> QED
      BY <1>1, <1>2, <2>1, SendsOne
  <1> QED
    BY <1>2 DEF TaskSends

LEMMA WireCases ==
    ASSUME DeliveryInv, [DeliveryNext]_deliveryVars
    PROVE  \/ UNCHANGED <<conn, session, conns, up, down, fence>>
           \/ Sends \/ Takes \/ Connect
           \/ CloseSocket /\ UNCHANGED <<conns, up, fence>>
           \/ fence' = 0 /\ UNCHANGED <<conn, session, conns, up, down>>
           \/ \E c \in 1..MaxConns : Brain(c) \/ NoticeClose(c)
  <1>1. CASE FlushOutbox \/ SendNextSnapshotFrame \/ \E i \in 1..MaxTasks : TaskSends(i)
    <2>1. UNCHANGED <<conn, session, conns, down, fence>>
      BY <1>1 DEF FlushOutbox, SendNextSnapshotFrame, TaskSends
    <2> QED
      BY <1>1, <2>1, FlushSends, SnapshotSends, TaskSendsBegin
  <1>2. CASE CaptureAndFlush \/ \E i \in 1..MaxTasks : TaskBuilds(i) \/ TaskFails(i)
    BY <1>2 DEF CaptureAndFlush, TaskBuilds, TaskFails, workerVars, wireVars
  <1>3. CASE Disconnect \/ WorkerRestart \/ RecvStaleFence \/ HeartbeatRefused
    BY <1>3 DEF Disconnect, WorkerRestart, RecvStaleFence, HeartbeatRefused
  <1>4. CASE LoseLease
    BY <1>4 DEF LoseLease, workerVars, wireVars
  <1>5. CASE RecvSession
    BY <1>5 DEF RecvSession, Receives, Takes
  <1>6. CASE RecvSyncRequired
    BY <1>6, ConnIsOpen DEF RecvSyncRequired, Receives, Takes
  <1>7. CASE RecvAck \/ AckContinues
    BY <1>7, ConnIsOpen DEF RecvAck, AckContinues, Receives, Takes, wireVars
  <1>8. CASE RecvAckFails
    BY <1>8, ConnIsOpen DEF RecvAckFails, Receives, Takes, workerVars
  <1>9. CASE RecvRejected
    BY <1>9, ConnIsOpen DEF RecvRejected, Receives, Takes
  <1>10. CASE ConsentChanges \/ UNCHANGED deliveryVars
    BY <1>10 DEF ConsentChanges, deliveryVars, workerVars, wireVars
  <1>11. CASE Connect \/ \E c \in 1..MaxConns : Brain(c) \/ NoticeClose(c)
    BY <1>11
  <1> QED
    BY <1>1, <1>2, <1>3, <1>4, <1>5, <1>6, <1>7, <1>8, <1>9, <1>10, <1>11
       DEF DeliveryNext, Agent, Faults

Consumes(c) ==
    up[c] # <<>> /\ Consumed(c) /\ UNCHANGED <<conn, session, conns, fence>>

LEMMA BrainCases ==
    ASSUME NEW c \in 1..MaxConns, Brain(c)
    PROVE  BindAgent(c) \/ Consumes(c)
  <1>1. CASE OpenSession(c)
    BY <1>1 DEF OpenSession, Consumes, Consumed, NextFrame, workerVars
  <1>2. CASE RejectStale(c)
    BY <1>2 DEF RejectStale, Consumes, IngestFrame, workerVars
  <1>3. CASE IngestDelta(c)
    BY <1>3 DEF IngestDelta, Consumes, NextFrame, workerVars
  <1>4. CASE IngestSnapshot(c)
    BY <1>4 DEF IngestSnapshot, Consumes, NextFrame, workerVars
  <1> QED
    BY <1>1, <1>2, <1>3, <1>4 DEF Brain

LEMMA HelloIsBound ==
    ASSUME DeliveryInv, NEW c \in 1..MaxConns, BindAgent(c)
    PROVE  /\ Len(up[c]) = 1 /\ up[c][1].type = "hello"
           /\ up' \in [1..MaxConns -> Seq(Frame)]
           /\ Len(up'[c]) = 1 /\ up'[c][1].type = "bound" /\ up'[c][1].lastAck = up[c][1].lastAck
           /\ \A d \in 1..MaxConns \ {c} : up'[d] = up[d]
  <1>1. up[c] # <<>> /\ Head(up[c]).type = "hello" /\ up' = [up EXCEPT ![c][1].type = "bound"]
    BY DEF BindAgent, NextFrame
  <1>2. /\ Head(up[c]) = up[c][1] /\ 1 \in 1..Len(up[c]) /\ up[c][1] \in Frame
        /\ Handshake(up[c][1])
    BY <1>1, Arrived DEF Handshake
  <1>3. Len(up[c]) = 1
    BY <1>2 DEF DeliveryInv, HandshakesAreAlone
  <1>4. up[c][1] \in [type : {"hello", "bound"}, lastAck : Nat]
    BY <1>2 DEF Frame, Handshake
  <1> DEFINE g == [up[c][1] EXCEPT !.type = "bound"]
  <1>5. g \in Frame /\ g.type = "bound" /\ g.lastAck = up[c][1].lastAck
    BY <1>4 DEF Frame
  <1>6. up \in [1..MaxConns -> Seq(Frame)] /\ up[c] \in Seq(Frame)
    BY ConnIsOpen
  <1>7. up' = [up EXCEPT ![c] = [up[c] EXCEPT ![1] = g]]
    BY <1>1
  <1> HIDE DEF g
  <1>8. /\ [up[c] EXCEPT ![1] = g] \in Seq(Frame)
        /\ Len([up[c] EXCEPT ![1] = g]) = 1 /\ [up[c] EXCEPT ![1] = g][1] = g
    <2>1. 1 \in 1..Len(up[c]) /\ up[c] \in Seq(Frame) /\ g \in Frame
      BY <1>2, <1>5, <1>6
    <2>2. /\ [up[c] EXCEPT ![1] = g] \in Seq(Frame)
          /\ Len([up[c] EXCEPT ![1] = g]) = Len(up[c])
          /\ [up[c] EXCEPT ![1] = g][1] = g
      BY <2>1, ExceptSeq
    <2> QED
      BY <1>3, <2>2
  <1> QED
    BY <1>1, <1>2, <1>3, <1>5, <1>6, <1>7, <1>8

\* Each frame on the wires was there before, unless it is being sent.
LEMMA EveryFrame ==
    ASSUME DeliveryInv, [DeliveryNext]_deliveryVars
    PROVE  /\ up' \in [1..MaxConns -> Seq(Frame)]
           /\ \A c \in 1..MaxConns : \A i \in 1..Len(up'[c]) :
                \/ \E j \in 1..Len(up[c]) : up'[c][i] = up[c][j]
                \/ Sends /\ c = conn /\ SentFrame(up'[c][i])
                \/ Connect /\ c = conns + 1 /\ up'[c][i] = Hello
                \/ /\ BindAgent(c) /\ up'[c][i].type = "bound" /\ 1 \in 1..Len(up[c])
                   /\ up[c][1].type = "hello" /\ up'[c][i].lastAck = up[c][1].lastAck
  <1>1. up \in [1..MaxConns -> Seq(Frame)] /\ \A c \in 1..MaxConns : Len(up[c]) \in Nat
    BY ConnIsOpen
  <1>2. CASE up' = up
    BY <1>1, <1>2
  <1>3. CASE Sends
    <2>1. PICK fs \in Seq(Frame) : /\ \A i \in 1..Len(fs) : SentFrame(fs[i])
                                   /\ up' = [up EXCEPT ![conn] = @ \o fs]
      BY <1>3 DEF Sends
    <2>2. conn \in 1..MaxConns /\ up[conn] \in Seq(Frame)
      BY <1>3, ConnIsOpen DEF Sends
    <2>3. /\ up[conn] \o fs \in Seq(Frame) /\ Len(up[conn] \o fs) = Len(up[conn]) + Len(fs)
          /\ \A i \in 1..Len(up[conn]) + Len(fs) :
               (up[conn] \o fs)[i] = IF i <= Len(up[conn]) THEN up[conn][i] ELSE fs[i - Len(up[conn])]
      BY <2>2, ConcatProperties
    <2>4. /\ up' \in [1..MaxConns -> Seq(Frame)] /\ up'[conn] = up[conn] \o fs
          /\ \A c \in 1..MaxConns \ {conn} : up'[c] = up[c]
      BY <1>1, <2>1, <2>2, <2>3
    <2>5. ASSUME NEW i \in 1..Len(up'[conn])
          PROVE  \/ \E j \in 1..Len(up[conn]) : up'[conn][i] = up[conn][j]
                 \/ SentFrame(up'[conn][i])
      <3>1. Len(up[conn]) \in Nat /\ Len(fs) \in Nat /\ i \in 1..Len(up[conn]) + Len(fs)
        BY <1>1, <2>2, <2>3, <2>4
      <3>2. CASE i <= Len(up[conn])
        BY <2>3, <2>4, <3>1, <3>2
      <3>3. CASE i > Len(up[conn])
        <4>1. i - Len(up[conn]) \in 1..Len(fs) /\ ~(i <= Len(up[conn]))
          BY <3>1, <3>3
        <4> QED
          BY <2>1, <2>3, <2>4, <3>1, <4>1
      <3> QED
        BY <3>1, <3>2, <3>3
    <2> QED
      BY <1>3, <2>4, <2>5
  <1>4. CASE Connect
    <2>1. conns + 1 \in 1..MaxConns /\ up' = [up EXCEPT ![conns + 1] = <<Hello>>]
      BY <1>4, Bounds DEF Connect
    <2>2. Hello \in Frame
      BY Bounds DEF Hello, Frame
    <2>3. <<Hello>> \in Seq(Frame) /\ Len(<<Hello>>) = 1 /\ <<Hello>>[1] = Hello
      BY <2>2
    <2>4. /\ up' \in [1..MaxConns -> Seq(Frame)] /\ up'[conns + 1] = <<Hello>>
          /\ \A c \in 1..MaxConns \ {conns + 1} : up'[c] = up[c]
      BY <1>1, <2>1, <2>3
    <2> QED
      BY <1>4, <2>1, <2>3, <2>4
  <1>5. ASSUME NEW c \in 1..MaxConns, BindAgent(c)
        PROVE  up' \in [1..MaxConns -> Seq(Frame)] /\
               \A d \in 1..MaxConns : \A i \in 1..Len(up'[d]) :
                  \/ \E j \in 1..Len(up[d]) : up'[d][i] = up[d][j]
                  \/ /\ BindAgent(d) /\ up'[d][i].type = "bound" /\ 1 \in 1..Len(up[d])
                     /\ up[d][1].type = "hello" /\ up'[d][i].lastAck = up[d][1].lastAck
    <2>1. /\ Len(up[c]) = 1 /\ up[c][1].type = "hello"
          /\ up' \in [1..MaxConns -> Seq(Frame)]
          /\ Len(up'[c]) = 1 /\ up'[c][1].type = "bound" /\ up'[c][1].lastAck = up[c][1].lastAck
          /\ \A d \in 1..MaxConns \ {c} : up'[d] = up[d]
      BY <1>5, HelloIsBound
    <2> QED
      BY <1>5, <2>1
  <1>6. ASSUME NEW c \in 1..MaxConns, Consumes(c)
        PROVE  up' \in [1..MaxConns -> Seq(Frame)] /\
               \A d \in 1..MaxConns : \A i \in 1..Len(up'[d]) :
                  \E j \in 1..Len(up[d]) : up'[d][i] = up[d][j]
    <2>1. up' = [up EXCEPT ![c] = Tail(up[c])]
      BY <1>6 DEF Consumes, Consumed
    <2>2. /\ Tail(up[c]) \in Seq(Frame)
          /\ \A i \in 1..Len(Tail(up[c])) : i + 1 \in 1..Len(up[c]) /\ Tail(up[c])[i] = up[c][i+1]
      BY <1>6, Arrived DEF Consumes
    <2> QED
      BY <1>1, <2>1, <2>2
  <1>7. ASSUME NEW c \in 1..MaxConns, NoticeClose(c)
        PROVE  up' \in [1..MaxConns -> Seq(Frame)] /\
               \A d \in 1..MaxConns : \A i \in 1..Len(up'[d]) :
                  \E j \in 1..Len(up[d]) : up'[d][i] = up[d][j]
    <2>1. up' = [up EXCEPT ![c] = <<>>]
      BY <1>7 DEF NoticeClose
    <2> QED
      BY <1>1, <2>1
  <1>8. up' = up \/ Sends \/ Connect \/ \E c \in 1..MaxConns : Brain(c) \/ NoticeClose(c)
    BY WireCases DEF Takes
  <1>9. CASE \E c \in 1..MaxConns : Brain(c) \/ NoticeClose(c)
    <2>1. PICK c \in 1..MaxConns : BindAgent(c) \/ Consumes(c) \/ NoticeClose(c)
      BY <1>9, BrainCases
    <2>2. CASE BindAgent(c)
      BY <1>5, <2>2
    <2>3. CASE Consumes(c)
      BY <1>6, <2>3
    <2>4. CASE NoticeClose(c)
      BY <1>7, <2>4
    <2> QED
      BY <2>1, <2>2, <2>3, <2>4
  <1> QED
    BY <1>2, <1>3, <1>4, <1>8, <1>9

LEMMA FramesStayTrue ==
    ASSUME DeliveryInv, [DeliveryNext]_deliveryVars
    PROVE  FramesAreTrue'
  <1>1. /\ Committed \in Nat /\ Committed' \in Nat /\ Committed <= Committed'
        /\ LastSeq \in Nat /\ LastSeq' \in Nat /\ LastSeq <= LastSeq'
        /\ \A s \in 1..LastSeq : AsRecord(s)' = AsRecord(s)
    BY Bounds, StreamGrows, StoreStep, LogGrows
  <1>2. ASSUME NEW f \in Frame, FrameIsTrue(f)
        PROVE  FrameIsTrue(f)'
    <2>1. Handshake(f) => f.lastAck <= Committed'
      BY <1>1, <1>2, FrameTypes DEF FrameIsTrue
    <2>2. f.type = "delta" => f.record.seq \in 1..LastSeq' /\ f.record = AsRecord(f.record.seq)'
      BY <1>1, <1>2 DEF FrameIsTrue
    <2> QED
      BY <2>1, <2>2 DEF FrameIsTrue, Handshake
  <1>3. SUFFICES ASSUME NEW c \in 1..MaxConns, NEW i \in 1..Len(up'[c]), NEW f, f = up'[c][i]
                 PROVE  FrameIsTrue(f)'
    BY DEF FramesAreTrue, FrameIsTrue, Handshake
  <1>4. CASE \E j \in 1..Len(up[c]) : f = up[c][j]
    <2>1. PICK j \in 1..Len(up[c]) : f = up[c][j]
      BY <1>4
    <2>2. up[c] \in Seq(Frame)
      BY ConnIsOpen
    <2>3. f \in Frame /\ FrameIsTrue(f)
      BY <2>1, <2>2 DEF DeliveryInv, FramesAreTrue
    <2> QED
      BY <1>2, <1>3, <2>3
  <1>5. CASE SentFrame(f)
    BY <1>2, <1>3, <1>5, WhatIsSent
  <1>6. CASE f = Hello
    <2>1. f = [type |-> "hello", lastAck |-> lastAck] /\ lastAck \in Nat /\ lastAck <= Committed
      BY <1>6, Bounds DEF Hello, DeliveryInv
    <2>2. f \in Frame /\ FrameIsTrue(f)
      BY <2>1 DEF Frame, FrameIsTrue, Handshake
    <2> QED
      BY <1>2, <1>3, <2>2
  <1>7. CASE /\ f.type = "bound" /\ 1 \in 1..Len(up[c])
             /\ up[c][1].type = "hello" /\ f.lastAck = up[c][1].lastAck
    <2>1. up[c] \in Seq(Frame)
      BY ConnIsOpen
    <2>2. up[c][1] \in Frame /\ FrameIsTrue(up[c][1]) /\ Handshake(up[c][1])
      BY <1>7, <2>1 DEF DeliveryInv, FramesAreTrue, Handshake
    <2>3. f.lastAck \in Nat /\ f.lastAck <= Committed
      BY <1>7, <2>2, FrameTypes DEF FrameIsTrue
    <2>4. f.lastAck <= Committed'
      BY <1>1, <2>3
    <2> QED
      BY <1>3, <1>7, <2>4 DEF FrameIsTrue, Handshake
  <1> QED
    BY <1>3, <1>4, <1>5, <1>6, <1>7, EveryFrame

LEMMA FenceCases ==
    ASSUME DeliveryInv, [DeliveryNext]_deliveryVars
    PROVE  fence' = fence \/ fence' = 0 \/ \E c \in 1..MaxConns : BindAgent(c) /\ fence' = c
  <1>1. CASE \E c \in 1..MaxConns : Brain(c) \/ NoticeClose(c)
    BY <1>1, BrainCases DEF BindAgent, Consumes, NoticeClose
  <1> QED
    BY <1>1, WireCases DEF Sends, Takes, Connect

LEMMA FencedStays ==
    ASSUME DeliveryInv, [DeliveryNext]_deliveryVars
    PROVE  FencedFramesMatch'
  <1>1. SUFFICES ASSUME fence' # 0, NEW i \in 1..Len(up'[fence']), NEW f, f = up'[fence'][i],
                        SnapshotFrame(f)
                 PROVE  OfPending(f)' \/ uploads'[f.id].state = "committed"
    BY DEF FencedFramesMatch, OfPending, SnapshotFrame
  <1>2. SnapshotFrame(f) /\ f.type \in {"begin", "chunk", "commit"}
    BY <1>1 DEF SnapshotFrame
  <1>3. CASE \E c \in 1..MaxConns : BindAgent(c) /\ fence' = c
    BY <1>1, <1>2, <1>3, HelloIsBound
  <1>4. CASE fence' = fence
    <2>1. fence \in 1..MaxConns /\ up[fence] \in Seq(Frame)
      BY <1>1, <1>4, ConnIsOpen
    <2>2. \/ \E j \in 1..Len(up[fence]) : f = up[fence][j]
          \/ SentFrame(f)
      BY <1>1, <1>2, <1>4, <2>1, EveryFrame DEF Hello
    <2>3. f \in Frame
      BY <2>1, <2>2, WhatIsSent
    <2>4. f.id \in UploadIds
      BY <1>2, <2>3, FrameTypes
    <2>5. OfPending(f) \/ uploads[f.id].state = "committed"
      BY <1>1, <1>2, <1>4, <2>2, WhatIsSent DEF DeliveryInv, FencedFramesMatch
    <2>6. CASE uploads[f.id].state = "committed"
      BY <1>1, <2>4, <2>6, StreamGrows
    <2>7. CASE OfPending(f) /\ manifest' = manifest /\ chunks' = chunks
      <3>1. f.type = "chunk" => f.index \in 0..Len(chunks)-1
        BY <2>3, <2>7, FrameTypes, Bounds DEF OfPending, OutboxTypeOK
      <3>2. f.type = "chunk" => ChunkRecords(f.index)' = ChunkRecords(f.index)
        BY <2>7, <3>1, Bounds, StoreStep, ChunksStay
      <3> QED
        BY <1>1, <2>7, <3>2 DEF OfPending
    <2>8. CASE /\ up' = up
               /\ \A j \in 1..Len(up[fence]) : Handshake(up[fence][j])
      BY <1>1, <1>2, <1>4, <2>8 DEF Handshake
    <2>9. CASE OfPending(f) /\ uploads[manifest.id].state = "committed"
      BY <2>6, <2>9 DEF OfPending
    <2>10. CASE OfPending(f)
      BY <1>1, <1>4, <2>7, <2>8, <2>9, <2>10, SnapshotReleased DEF OfPending
    <2> QED
      BY <2>5, <2>6, <2>10
  <1> QED
    BY <1>1, <1>3, <1>4, FenceCases

-----------------------------------------------------------------------------
(***************************************************************************)
(* Connections, sessions and the fence.                                    *)
(***************************************************************************)
LEMMA SendsEffect ==
    ASSUME DeliveryInv, [DeliveryNext]_deliveryVars, Sends
    PROVE  /\ conn \in 1..MaxConns /\ session
           /\ UNCHANGED <<conn, session, conns, down, fence>>
           /\ \A c \in 1..MaxConns \ {conn} : up'[c] = up[c]
           /\ \A i \in 1..Len(up'[conn]) : ~Handshake(up'[conn][i])
  <1>1. /\ session /\ UNCHANGED <<conn, session, conns, down, fence>>
        /\ conn \in 1..MaxConns /\ conn' = conn /\ up \in [1..MaxConns -> Seq(Frame)]
    BY ConnIsOpen DEF Sends
  <1>2. \A c \in 1..MaxConns \ {conn} : up'[c] = up[c]
    BY <1>1 DEF Sends
  <1>3. ASSUME NEW i \in 1..Len(up'[conn]), Handshake(up'[conn][i]) PROVE FALSE
    <2>1. ~Connect
      BY <1>1 DEF Connect
    <2>2. \A j \in 1..Len(up[conn]) : ~Handshake(up[conn][j])
      BY <1>1 DEF DeliveryInv, SessionIsOpened
    <2>3. ~(1 \in 1..Len(up[conn]) /\ up[conn][1].type = "hello")
      BY <2>2 DEF Handshake
    <2> QED
      BY <1>1, <1>3, <2>1, <2>2, <2>3, EveryFrame, WhatIsSent
  <1> QED
    BY <1>1, <1>2, <1>3

LEMMA ConsumesEffect ==
    ASSUME DeliveryInv, NEW c \in 1..MaxConns, Consumes(c)
    PROVE  /\ UNCHANGED <<conn, session, conns, fence>> /\ up[c] # <<>>
           /\ \A d \in 1..MaxConns \ {c} : up'[d] = up[d]
           /\ up'[c] = Tail(up[c])
           /\ \A i \in 1..Len(up'[c]) : i + 1 \in 1..Len(up[c]) /\ up'[c][i] = up[c][i+1]
           /\ \A i \in 1..Len(up'[c]) : ~Handshake(up'[c][i])
           /\ Handshake(up[c][1]) => up'[c] = <<>>
  <1>1. /\ up \in [1..MaxConns -> Seq(Frame)] /\ up[c] # <<>>
        /\ up' = [up EXCEPT ![c] = Tail(up[c])]
        /\ UNCHANGED <<conn, session, conns, fence>>
    BY ConnIsOpen DEF Consumes, Consumed
  <1>2. /\ Len(up[c]) \in Nat /\ 1 \in 1..Len(up[c])
        /\ Tail(up[c]) \in Seq(Frame) /\ Len(Tail(up[c])) = Len(up[c]) - 1
        /\ \A i \in 1..Len(Tail(up[c])) : i + 1 \in 1..Len(up[c]) /\ Tail(up[c])[i] = up[c][i+1]
    BY <1>1, Arrived
  <1>3. up'[c] = Tail(up[c]) /\ \A d \in 1..MaxConns \ {c} : up'[d] = up[d]
    BY <1>1
  <1>4. \A i \in 1..Len(up[c]) : Handshake(up[c][i]) => Len(up[c]) = 1
    BY DEF DeliveryInv, HandshakesAreAlone
  <1>5. ASSUME NEW i \in 1..Len(up'[c]), Handshake(up'[c][i]) PROVE FALSE
    <2>1. i + 1 \in 1..Len(up[c]) /\ Handshake(up[c][i+1])
      BY <1>2, <1>3, <1>5
    <2>2. Len(up[c]) = 1
      BY <1>4, <2>1
    <2>3. i \in 1..0
      BY <1>2, <1>3, <2>2
    <2> QED
      BY <2>3
  <1>6. Handshake(up[c][1]) => up'[c] = <<>>
    <2>1. Handshake(up[c][1]) => Len(up'[c]) = 0
      BY <1>2, <1>3, <1>4
    <2> QED
      BY <1>2, <1>3, <2>1, EmptySeq
  <1> QED
    BY <1>1, <1>2, <1>3, <1>5, <1>6

LEMMA ConnectEffect ==
    ASSUME DeliveryInv, Connect
    PROVE  /\ conn = 0 /\ ~session /\ down = <<>> /\ UNCHANGED <<session, down, fence>>
           /\ conns' = conns + 1 /\ conn' = conns + 1 /\ conn' \in 1..MaxConns
           /\ \A d \in 1..MaxConns \ {conn'} : up'[d] = up[d]
           /\ up'[conn'] = <<Hello>> /\ Len(up'[conn']) = 1 /\ up'[conn'][1].type = "hello"
           /\ Handshake(up'[conn'][1])
  <1>1. /\ conn = 0 /\ conns' = conns + 1 /\ conn' = conns + 1 /\ conn' \in 1..MaxConns
        /\ up' = [up EXCEPT ![conns + 1] = <<Hello>>] /\ UNCHANGED <<session, down, fence>>
    BY Bounds DEF Connect
  <1>2. ~session /\ down = <<>>
    BY <1>1 DEF DeliveryInv, SessionIsOpened
  <1>3. up \in [1..MaxConns -> Seq(Frame)]
    BY ConnIsOpen
  <1>4. up'[conn'] = <<Hello>> /\ \A d \in 1..MaxConns \ {conn'} : up'[d] = up[d]
    BY <1>1, <1>3
  <1>5. Len(<<Hello>>) = 1 /\ <<Hello>>[1] = Hello /\ Hello.type = "hello"
    BY DEF Hello
  <1>6. Len(up'[conn']) = 1 /\ up'[conn'][1] = Hello
    BY <1>4, <1>5
  <1> QED
    BY <1>1, <1>2, <1>4, <1>5, <1>6 DEF Handshake

LEMMA NoticeEffect ==
    ASSUME DeliveryInv, NEW c \in 1..MaxConns, NoticeClose(c)
    PROVE  /\ c # conn /\ UNCHANGED <<conn, session, conns, down>>
           /\ \A d \in 1..MaxConns \ {c} : up'[d] = up[d]
           /\ up'[c] = <<>>
           /\ fence' = IF fence = c THEN 0 ELSE fence
  BY ConnIsOpen DEF NoticeClose, workerVars

LEMMA HandshakesStayAlone ==
    ASSUME DeliveryInv, [DeliveryNext]_deliveryVars
    PROVE  HandshakesAreAlone'
  <1>1. HandshakesAreAlone /\ conns \in Nat /\ conn <= conns
    BY Bounds, ConnIsOpen DEF DeliveryInv
  <1>2. CASE UNCHANGED <<conns, up>>
    BY <1>1, <1>2 DEF HandshakesAreAlone
  <1>3. CASE Sends
    BY <1>1, <1>3, SendsEffect DEF HandshakesAreAlone
  <1>4. CASE Connect
    <2>1. /\ conns' = conns + 1 /\ conn' = conns + 1
          /\ \A d \in 1..MaxConns \ {conn'} : up'[d] = up[d]
          /\ Len(up'[conn']) = 1
      BY <1>4, ConnectEffect
    <2> QED
      BY <1>1, <2>1 DEF HandshakesAreAlone
  <1>5. ASSUME NEW c \in 1..MaxConns, BindAgent(c) PROVE HandshakesAreAlone'
    <2>1. /\ \A d \in 1..MaxConns \ {c} : up'[d] = up[d]
          /\ Len(up'[c]) = 1 /\ UNCHANGED conns /\ up[c] # <<>>
      BY <1>5, HelloIsBound DEF BindAgent, NextFrame
    <2> QED
      BY <1>1, <2>1 DEF HandshakesAreAlone
  <1>6. ASSUME NEW c \in 1..MaxConns, Consumes(c) PROVE HandshakesAreAlone'
    BY <1>1, <1>6, ConsumesEffect DEF HandshakesAreAlone
  <1>7. ASSUME NEW c \in 1..MaxConns, NoticeClose(c) PROVE HandshakesAreAlone'
    BY <1>1, <1>7, NoticeEffect DEF HandshakesAreAlone
  <1> QED
    BY <1>2, <1>3, <1>4, <1>5, <1>6, <1>7, WireCases, BrainCases DEF Takes

\* The Brain answers an ingest frame with a true answer.
LEMMA IngestAnswers ==
    ASSUME DeliveryInv, NEW c \in 1..MaxConns, RejectStale(c) \/ IngestDelta(c) \/ IngestSnapshot(c)
    PROVE  /\ IngestFrame(c) /\ Consumes(c)
           /\ \E f \in Answer : f.type # "session" /\ AnswerIsTrue(f)' /\ Reply(c, f)
  <1>1. IngestFrame(c) /\ Consumes(c)
    BY DEF RejectStale, IngestDelta, IngestSnapshot, IngestFrame, NextFrame, Consumes, workerVars
  <1> SUFFICES \E f \in Answer : f.type # "session" /\ AnswerIsTrue(f)' /\ Reply(c, f)
    BY <1>1
  <1>2. ASSUME NEW code \in {"gap", "invariant", "stale_fence"}, NEW retryable \in BOOLEAN,
               Reply(c, Rejected(code, retryable))
        PROVE  \E f \in Answer : f.type # "session" /\ AnswerIsTrue(f)' /\ Reply(c, f)
    <2>1. Rejected(code, retryable) \in Answer /\ Rejected(code, retryable).type = "rejected"
      BY DEF Rejected, Answer
    <2> QED
      BY <1>2, <2>1 DEF AnswerIsTrue
  <1>3. ASSUME NEW n, NEW u, NEW next, NEW done \in BOOLEAN, n = Committed', n \in Nat,
               u \in {0} \cup UploadIds, next \in Nat,
               done => u \in UploadIds /\ uploads'[u].state = "committed",
               Reply(c, SnapshotAck(n, u, next, done))
        PROVE  \E f \in Answer : f.type # "session" /\ AnswerIsTrue(f)' /\ Reply(c, f)
    <2>1. PICK f : f = SnapshotAck(n, u, next, done)
      OBVIOUS
    <2>2. f = [type |-> "ack", committed |-> n, id |-> u, next |-> next, done |-> done]
      BY <2>1 DEF SnapshotAck
    <2>3. f \in Answer
      BY <1>3, <2>2 DEF Answer
    <2>4. f.type = "ack" /\ f.committed = n /\ f.id = u /\ f.done = done
      BY <2>2
    <2>5. f.committed <= Committed'
      BY <1>3, <2>4
    <2>6. AnswerIsTrue(f)'
      BY <1>3, <2>4, <2>5 DEF AnswerIsTrue
    <2> QED
      BY <1>3, <2>1, <2>3, <2>4, <2>6
  <1>4. CASE RejectStale(c)
    BY <1>2, <1>4 DEF RejectStale
  <1>5. CASE IngestDelta(c)
    <2> DEFINE r == Head(up[c]).record
    <2>1. DeltaReply(c, r)
      BY <1>5 DEF IngestDelta
    <2>2. CASE DeltaOutcome(r) \in {"gap", "invariant"}
      BY <1>2, <2>1, <2>2 DEF DeltaReply
    <2>3. CASE DeltaOutcome(r) \notin {"gap", "invariant"}
      <3>1. Reply(c, DeltaAck(checkpoint'))
        BY <2>1, <2>3 DEF DeltaReply
      <3>2. checkpoint' = Committed' /\ Committed' \in Nat
        BY <1>5, <2>3, DeltaKeepsStream
      <3>3. DeltaAck(checkpoint') = SnapshotAck(checkpoint', 0, 0, FALSE)
        BY DEF DeltaAck, SnapshotAck
      <3> QED
        BY <1>3, <3>1, <3>2, <3>3
    <2> QED
      BY <2>2, <2>3
  <1>6. CASE IngestSnapshot(c)
    <2>1. PICK u, outcome : u = Head(up[c]).id /\ SnapshotReply(c, u, outcome)
      BY <1>6 DEF IngestSnapshot
    <2>2. u \in UploadIds
      BY <1>6, <2>1, SnapshotOperation
    <2>3. StreamTypeOK' /\ Committed' \in Nat
      BY <1>6, SnapshotKeepsStream
    <2>4. Len(uploads'[u].chunks) \in Nat
      BY <2>2, <2>3 DEF StreamTypeOK
    <2>5. CASE outcome \in {"gap", "rejected", "invariant"}
      BY <1>2, <2>1, <2>5 DEF SnapshotReply
    <2>6. CASE outcome \notin {"gap", "rejected", "invariant"}
      <3>1. Reply(c, SnapshotAck(Committed', u, Len(uploads'[u].chunks), uploads'[u].state = "committed"))
        BY <2>1, <2>6 DEF SnapshotReply, Committed
      <3> QED
        BY <1>3, <2>2, <2>3, <2>4, <3>1
    <2> QED
      BY <2>5, <2>6
  <1> QED
    BY <1>4, <1>5, <1>6

LEMMA SessionStaysOpened ==
    ASSUME DeliveryInv, [DeliveryNext]_deliveryVars
    PROVE  SessionIsOpened'
  <1>1. SessionIsOpened /\ session \in BOOLEAN /\ (conn # 0 => conn \in 1..MaxConns)
    BY ConnIsOpen DEF DeliveryInv
  <1>2. CASE UNCHANGED <<conn, session, down, up>>
    BY <1>1, <1>2 DEF SessionIsOpened
  <1>3. CASE Sends
    BY <1>1, <1>3, SendsEffect DEF SessionIsOpened
  <1>4. CASE Connect
    BY <1>1, <1>4, ConnectEffect DEF SessionIsOpened
  <1>5. CASE CloseSocket
    BY <1>5 DEF CloseSocket, SessionIsOpened
  <1>6. CASE Takes
    <2>1. /\ conn # 0 /\ down # <<>> /\ down' = Tail(down) /\ UNCHANGED <<conn, up>>
          /\ session' = (session \/ Head(down).type = "session")
      BY <1>6 DEF Takes
    <2>2. /\ Head(down) = down[1] /\ Len(Tail(down)) \in Nat
          /\ \A i \in 1..Len(Tail(down)) : i + 1 \in 1..Len(down) /\ Tail(down)[i] = down[i+1]
      BY <2>1, Received1
    <2>3. ASSUME NEW i \in 1..Len(down') PROVE down'[i].type # "session"
      <3>1. i + 1 \in 1..Len(down) /\ down'[i] = down[i+1] /\ i + 1 # 1
        BY <2>1, <2>2
      <3> QED
        BY <1>1, <3>1 DEF SessionIsOpened
    <2>4. CASE ~session
      <3>1. up[conn] = <<>>
        BY <1>1, <2>1, <2>4 DEF SessionIsOpened
      <3> QED
        BY <2>1, <2>3, <3>1 DEF SessionIsOpened
    <2>5. CASE session
      BY <1>1, <2>1, <2>3, <2>5 DEF SessionIsOpened
    <2> QED
      BY <1>1, <2>4, <2>5
  <1>7. ASSUME NEW c \in 1..MaxConns, BindAgent(c) PROVE SessionIsOpened'
    <2>1. /\ Len(up[c]) = 1 /\ up[c][1].type = "hello" /\ up[c] # <<>>
          /\ Len(up'[c]) = 1 /\ up'[c][1].type = "bound"
          /\ \A d \in 1..MaxConns \ {c} : up'[d] = up[d]
          /\ UNCHANGED <<conn, session, down>>
      BY <1>7, HelloIsBound DEF BindAgent, NextFrame, workerVars
    <2>2. Handshake(up[c][1]) /\ Handshake(up'[c][1])
      BY <2>1 DEF Handshake
    <2> QED
      BY <1>1, <2>1, <2>2 DEF SessionIsOpened
  <1>8. ASSUME NEW c \in 1..MaxConns, NoticeClose(c) PROVE SessionIsOpened'
    BY <1>1, <1>8, NoticeEffect DEF SessionIsOpened
  <1>9. ASSUME NEW c \in 1..MaxConns, Consumes(c), c # conn, down' = down PROVE SessionIsOpened'
    BY <1>1, <1>9, ConsumesEffect DEF SessionIsOpened
  <1>10. ASSUME Consumes(conn), OpenSession(conn), conn \in 1..MaxConns PROVE SessionIsOpened'
    <2>1. Head(up[conn]).type = "bound" /\ up[conn] # <<>>
      BY <1>10 DEF OpenSession, NextFrame
    <2>2. Handshake(up[conn][1]) /\ 1 \in 1..Len(up[conn])
      BY <1>10, <2>1, Arrived DEF Handshake
    <2>3. ~session /\ down = <<>> /\ conn # 0
      BY <1>1, <1>10, <2>1, <2>2 DEF SessionIsOpened
    <2>4. up'[conn] = <<>> /\ UNCHANGED <<conn, session>>
      BY <1>10, <2>2, ConsumesEffect
    <2>5. PICK r, u, n : down' = down \o
               IF r THEN <<[type |-> "session", resume |-> r, committed |-> Committed, pending |-> u, next |-> n]>>
               ELSE <<[type |-> "session", resume |-> r, committed |-> Committed, pending |-> u, next |-> n],
                      [type |-> "sync", pending |-> u, next |-> n]>>
      BY <1>10 DEF OpenSession
    <2>6. \A i \in 1..Len(down') : down'[i].type = "session" => i = 1
      BY <2>3, <2>5
    <2> QED
      BY <2>3, <2>4, <2>6 DEF SessionIsOpened
  <1>11. ASSUME Consumes(conn), IngestFrame(conn), conn \in 1..MaxConns,
                NEW f, f.type # "session", down' = Append(down, f)
         PROVE  SessionIsOpened'
    <2>1. /\ Head(up[conn]) = up[conn][1] /\ 1 \in 1..Len(up[conn])
          /\ ~Handshake(up[conn][1]) /\ conn # 0
      BY <1>11, Arrived DEF IngestFrame, Handshake
    <2>2. session
      BY <1>1, <2>1 DEF SessionIsOpened
    <2>3. \A i \in 1..Len(up'[conn]) : ~Handshake(up'[conn][i])
      BY <1>11, ConsumesEffect
    <2>4. UNCHANGED <<conn, session>>
      BY <1>11, ConsumesEffect
    <2>5. \A i \in 1..Len(down) : down[i].type # "session"
      BY <1>1, <2>2 DEF SessionIsOpened
    <2>6. ASSUME NEW i \in 1..Len(down') PROVE down'[i].type # "session"
      <3>1. down \in Seq(Answer) /\ Len(down) \in Nat
        BY ConnIsOpen
      <3>2. Len(down') = Len(down) + 1 /\ down'[i] = IF i = Len(down) + 1 THEN f ELSE down[i]
        BY <1>11, <3>1
      <3> QED
        BY <1>11, <2>5, <3>1, <3>2
    <2> QED
      BY <2>1, <2>2, <2>3, <2>4, <2>6 DEF SessionIsOpened
  <1>12. ASSUME NEW c \in 1..MaxConns, OpenSession(c) PROVE SessionIsOpened'
    <2>1. Consumes(c)
      BY <1>12 DEF OpenSession, NextFrame, Consumes, Consumed, workerVars
    <2>2. CASE c = conn
      BY <1>10, <1>12, <2>1, <2>2
    <2>3. CASE c # conn
      BY <1>9, <1>12, <2>1, <2>3 DEF OpenSession
    <2> QED
      BY <2>2, <2>3
  <1>13. ASSUME NEW c \in 1..MaxConns, RejectStale(c) \/ IngestDelta(c) \/ IngestSnapshot(c)
         PROVE  SessionIsOpened'
    <2>1. IngestFrame(c) /\ Consumes(c)
      BY <1>13, IngestAnswers
    <2>2. PICK f : f.type # "session" /\ Reply(c, f)
      BY <1>13, IngestAnswers
    <2>3. CASE c = conn
      BY <1>11, <2>1, <2>2, <2>3 DEF Reply
    <2>4. CASE c # conn
      BY <1>9, <2>1, <2>2, <2>4 DEF Reply
    <2> QED
      BY <2>3, <2>4
  <1>14. CASE \E c \in 1..MaxConns : Brain(c) \/ NoticeClose(c)
    BY <1>7, <1>8, <1>12, <1>13, <1>14 DEF Brain
  <1> QED
    BY <1>2, <1>3, <1>4, <1>5, <1>6, <1>14, WireCases

LEMMA DeadFramesStayFenced ==
    ASSUME DeliveryInv, [DeliveryNext]_deliveryVars
    PROVE  DeadFramesAreFenced'
  <1>1. DeadFramesAreFenced /\ SessionIsOpened /\ (conn # 0 => conn \in 1..MaxConns)
        /\ (fence # 0 => fence \in 1..MaxConns)
    BY ConnIsOpen DEF DeliveryInv
  <1>2. CASE UNCHANGED <<conn, up, fence>>
    BY <1>1, <1>2 DEF DeadFramesAreFenced
  <1>3. CASE fence' = 0
    BY <1>3 DEF DeadFramesAreFenced
  <1>4. CASE Sends
    <2>1. /\ conn \in 1..MaxConns /\ session /\ UNCHANGED <<conn, fence>>
          /\ \A c \in 1..MaxConns \ {conn} : up'[c] = up[c]
      BY <1>4, SendsEffect
    <2>2. \A i \in 1..Len(up[conn]) : up[conn][i].type # "hello"
      BY <1>1, <2>1 DEF SessionIsOpened, Handshake
    <2> QED
      BY <1>1, <2>1, <2>2 DEF DeadFramesAreFenced
  <1>5. CASE Connect
    <2>1. 1 \in 1..Len(up'[conn']) /\ up'[conn'][1].type = "hello"
      BY <1>5, ConnectEffect
    <2> QED
      BY <2>1 DEF DeadFramesAreFenced
  <1>6. CASE CloseSocket
    BY <1>6 DEF CloseSocket, DeadFramesAreFenced
  <1>7. ASSUME NEW c \in 1..MaxConns, BindAgent(c) PROVE DeadFramesAreFenced'
    <2>1. Len(up'[c]) = 1 /\ up'[c][1].type = "bound" /\ fence' = c
      BY <1>7, HelloIsBound DEF BindAgent
    <2>2. \A i \in 1..Len(up'[c]) : Handshake(up'[c][i])
      BY <2>1 DEF Handshake
    <2> QED
      BY <2>1, <2>2 DEF DeadFramesAreFenced
  <1>8. ASSUME NEW c \in 1..MaxConns, NoticeClose(c) PROVE DeadFramesAreFenced'
    BY <1>1, <1>3, <1>8, NoticeEffect DEF DeadFramesAreFenced
  <1>9. ASSUME NEW c \in 1..MaxConns, Consumes(c), up[c][1].type # "hello" PROVE DeadFramesAreFenced'
    <2>1. /\ UNCHANGED <<conn, fence>> /\ up[c] # <<>>
          /\ \A d \in 1..MaxConns \ {c} : up'[d] = up[d]
          /\ \A i \in 1..Len(up'[c]) : i + 1 \in 1..Len(up[c]) /\ up'[c][i] = up[c][i+1]
      BY <1>9, ConsumesEffect
    <2>2. SUFFICES ASSUME fence # 0, fence # conn, conn # 0,
                          NEW i \in 1..Len(up'[fence]), ~Handshake(up'[fence][i])
                   PROVE  \E j \in 1..Len(up'[conn]) : up'[conn][j].type = "hello"
      BY <2>1 DEF DeadFramesAreFenced
    <2>3. \E j \in 1..Len(up[fence]) : ~Handshake(up[fence][j])
      BY <1>1, <2>1, <2>2
    <2>4. PICK j \in 1..Len(up[conn]) : up[conn][j].type = "hello"
      BY <1>1, <2>2, <2>3 DEF DeadFramesAreFenced
    <2>5. CASE c = conn
      <3>1. Len(up[conn]) = 1
        BY <1>1, <2>2, <2>4 DEF DeliveryInv, HandshakesAreAlone, Handshake
      <3> QED
        BY <1>9, <2>4, <2>5, <3>1
    <2>6. CASE c # conn
      BY <1>1, <2>1, <2>2, <2>4, <2>6
    <2> QED
      BY <2>5, <2>6
  <1>10. ASSUME NEW c \in 1..MaxConns, Brain(c) PROVE BindAgent(c) \/ (Consumes(c) /\ up[c][1].type # "hello")
    <2>1. CASE OpenSession(c)
      <3>1. Head(up[c]).type = "bound" /\ up[c] # <<>>
        BY <2>1 DEF OpenSession, NextFrame
      <3>2. Consumes(c)
        BY <2>1 DEF OpenSession, NextFrame, Consumes, Consumed, workerVars
      <3> QED
        BY <3>1, <3>2, Arrived
    <2>2. CASE RejectStale(c) \/ IngestDelta(c) \/ IngestSnapshot(c)
      <3>1. IngestFrame(c) /\ Consumes(c)
        BY <2>2, IngestAnswers
      <3>2. up[c] # <<>> /\ Head(up[c]).type # "hello"
        BY <3>1 DEF IngestFrame
      <3> QED
        BY <3>1, <3>2, Arrived
    <2> QED
      BY <1>10, <2>1, <2>2 DEF Brain
  <1> QED
    BY <1>2, <1>3, <1>4, <1>5, <1>6, <1>7, <1>8, <1>9, <1>10, WireCases DEF Takes

-----------------------------------------------------------------------------
(***************************************************************************)
(* The answers on their way to the Agent.                                  *)
(***************************************************************************)
LEMMA AnswerStaysTrue ==
    ASSUME DeliveryInv, [DeliveryNext]_deliveryVars, NEW i \in 1..Len(down), NEW f, f = down[i]
    PROVE  f \in Answer /\ AnswerIsTrue(f)'
  <1>1. f = down[i]
    OBVIOUS
  <1>2. f \in Answer /\ AnswerIsTrue(f)
    BY <1>1 DEF DeliveryInv, AnswersAreTrue
  <1>3. /\ Committed \in Nat /\ Committed' \in Nat /\ Committed <= Committed'
        /\ \A u \in UploadIds : uploads[u].state = "committed" => uploads'[u].state = "committed"
    BY Bounds, StreamGrows
  <1>4. f.type = "session" => f.committed <= Committed'
    BY <1>2, <1>3, AnswerTypes DEF AnswerIsTrue
  <1>5. f.type = "ack" => f.committed <= Committed' /\ (f.done => f.id \in UploadIds /\ uploads'[f.id].state = "committed")
    BY <1>2, <1>3, AnswerTypes DEF AnswerIsTrue
  <1>6. ASSUME f.type = "session", f.resume PROVE Staging' = {}
    <2>1. fence # 0 => \A j \in 1..Len(up[fence]) : Handshake(up[fence][j])
      BY <1>1, <1>6, OpeningIsQuiet
    <2>2. \A c \in 1..MaxConns : ~IngestSnapshot(c)
      <3> SUFFICES ASSUME NEW c \in 1..MaxConns, IngestSnapshot(c) PROVE FALSE
        OBVIOUS
      <3>1. c = fence /\ fence # 0 /\ up[c] # <<>> /\ SnapshotFrame(up[c][1])
        BY SnapshotOperation
      <3>2. 1 \in 1..Len(up[c])
        BY <3>1, Arrived
      <3> QED
        BY <2>1, <3>1, <3>2 DEF SnapshotFrame, Handshake
    <2>3. uploads' = uploads
      BY <2>2, StreamStep, DeltaKeepsStream DEF streamVars, ConsentChanges, ChangeConsent
    <2> QED
      BY <1>2, <1>6, <2>3 DEF AnswerIsTrue, Staging
  <1>7. AnswerIsTrue(f)'
    BY <1>4, <1>5, <1>6 DEF AnswerIsTrue
  <1> QED
    BY <1>2, <1>7

LEMMA AnswersAppended ==
    ASSUME DeliveryInv, [DeliveryNext]_deliveryVars, NEW new \in Seq(Answer), down' = down \o new,
           \A i \in 1..Len(new) : AnswerIsTrue(new[i])'
    PROVE  AnswersAreTrue'
  <1>1. /\ down \in Seq(Answer) /\ Len(down) \in Nat /\ Len(new) \in Nat
    BY ConnIsOpen
  <1>2. /\ down' \in Seq(Answer) /\ Len(down') = Len(down) + Len(new)
        /\ \A i \in 1..Len(down) + Len(new) :
              down'[i] = IF i <= Len(down) THEN down[i] ELSE new[i - Len(down)]
    BY <1>1, ConcatProperties
  <1>3. ASSUME NEW i \in 1..Len(down'), NEW f, f = down'[i]
        PROVE  AnswerIsTrue(f)'
    <2>1. CASE i <= Len(down)
      <3>1. i \in 1..Len(down) /\ f = down[i]
        BY <1>1, <1>2, <1>3, <2>1
      <3> QED
        BY <3>1, AnswerStaysTrue
    <2>2. CASE i > Len(down)
      <3>1. i - Len(down) \in 1..Len(new) /\ f = new[i - Len(down)]
        BY <1>1, <1>2, <1>3, <2>2
      <3> QED
        BY <3>1
    <2> QED
      BY <1>1, <1>2, <2>1, <2>2
  <1> QED
    BY <1>2, <1>3 DEF AnswersAreTrue, AnswerIsTrue

LEMMA PendingTypes ==
    ASSUME DeliveryInv
    PROVE  PendingId \in {0} \cup UploadIds /\ PendingNext \in Nat
  <1>1. Staging # {} => PendingId \in Staging /\ PendingId \in UploadIds
    BY DEF PendingId, Staging
  <1>2. PendingNext \in Nat
    BY <1>1, Bounds, UploadTypes DEF PendingNext
  <1> QED
    BY <1>1, <1>2 DEF PendingId

LEMMA AnswersStayTrue ==
    ASSUME DeliveryInv, [DeliveryNext]_deliveryVars
    PROVE  AnswersAreTrue'
  <1>1. down \in Seq(Answer) /\ Len(down) \in Nat
    BY ConnIsOpen
  <1>2. CASE down' = down
    <2>1. <<>> \in Seq(Answer) /\ Len(<<>>) = 0 /\ down' = down \o <<>>
      BY <1>1, <1>2, ConcatEmptySeq
    <2>2. ASSUME NEW i \in 1..Len(<<>>) PROVE AnswerIsTrue(<<>>[i])'
      BY <2>1
    <2> QED
      BY <2>1, <2>2, AnswersAppended
  <1>3. CASE CloseSocket
    <2>1. down' = <<>>
      BY <1>3 DEF CloseSocket
    <2> QED
      BY <2>1 DEF AnswersAreTrue
  <1>4. CASE Takes
    <2>1. /\ down' = Tail(down) /\ Tail(down) \in Seq(Answer)
          /\ \A i \in 1..Len(Tail(down)) : i + 1 \in 1..Len(down) /\ Tail(down)[i] = down[i+1]
      BY <1>4, Received1 DEF Takes
    <2>2. ASSUME NEW i \in 1..Len(down'), NEW f, f = down'[i]
          PROVE  AnswerIsTrue(f)'
      <3>1. i + 1 \in 1..Len(down) /\ f = down[i+1]
        BY <2>1, <2>2
      <3> QED
        BY <3>1, AnswerStaysTrue
    <2> QED
      BY <2>1, <2>2 DEF AnswersAreTrue, AnswerIsTrue
  <1>5. ASSUME NEW f \in Answer, AnswerIsTrue(f)', down' = Append(down, f)
        PROVE  AnswersAreTrue'
    <2>1. <<f>> \in Seq(Answer) /\ Len(<<f>>) = 1 /\ <<f>>[1] = f /\ down' = down \o <<f>>
      BY <1>1, <1>5, AppendIsConcat
    <2>2. ASSUME NEW i \in 1..Len(<<f>>) PROVE AnswerIsTrue(<<f>>[i])'
      <3>1. i = 1
        BY <2>1
      <3> QED
        BY <1>5, <2>1, <3>1 DEF AnswerIsTrue
    <2> QED
      BY <2>1, <2>2, AnswersAppended
  <1>6. ASSUME NEW c \in 1..MaxConns, RejectStale(c) \/ IngestDelta(c) \/ IngestSnapshot(c)
        PROVE  AnswersAreTrue'
    <2>1. PICK f \in Answer : AnswerIsTrue(f)' /\ Reply(c, f)
      BY <1>6, IngestAnswers
    <2> QED
      BY <1>2, <1>5, <2>1 DEF Reply
  <1>7. ASSUME NEW c \in 1..MaxConns, OpenSession(c), down' # down
        PROVE  AnswersAreTrue'
    <2> DEFINE r == ResumeAllowed(Head(up[c]).lastAck)
    <2>1. PICK f, g : /\ f = [type |-> "session", resume |-> r, committed |-> Committed,
                              pending |-> PendingId, next |-> PendingNext]
                      /\ g = [type |-> "sync", pending |-> PendingId, next |-> PendingNext]
                      /\ down' = down \o IF r THEN <<f>> ELSE <<f, g>>
      BY <1>7 DEF OpenSession
    <2>2. r \in BOOLEAN /\ (r => Staging = {})
      BY DEF ResumeAllowed
    <2>3. UNCHANGED streamVars /\ Committed \in Nat
      BY <1>7, Bounds DEF OpenSession
    <2>4. Committed' = Committed /\ Staging' = Staging
      BY <2>3 DEF streamVars, Committed, Staging
    <2>5. f \in Answer /\ g \in Answer
      <3>1. PendingId \in {0} \cup UploadIds /\ PendingNext \in Nat
        BY PendingTypes
      <3> HIDE DEF r
      <3>2. f \in [type : {"session"}, resume : BOOLEAN, committed : Nat, pending : {0} \cup UploadIds, next : Nat]
        BY <2>1, <2>2, <2>3, <3>1
      <3>3. g \in [type : {"sync"}, pending : {0} \cup UploadIds, next : Nat]
        BY <2>1, <3>1
      <3> QED
        BY <3>2, <3>3 DEF Answer
    <2>6. /\ f.type = "session" /\ f.committed = Committed /\ f.resume = r
          /\ g.type = "sync"
      BY <2>1
    <2>7. AnswerIsTrue(f)' /\ AnswerIsTrue(g)'
      BY <2>2, <2>3, <2>4, <2>6 DEF AnswerIsTrue
    <2>8. CASE r
      <3>1. <<f>> \in Seq(Answer) /\ Len(<<f>>) = 1 /\ <<f>>[1] = f
        BY <2>5
      <3>2. \A i \in 1..Len(<<f>>) : <<f>>[i] = f
        BY <3>1
      <3>3. ASSUME NEW i \in 1..Len(<<f>>) PROVE AnswerIsTrue(<<f>>[i])'
        BY <2>7, <3>2 DEF AnswerIsTrue
      <3> QED
        BY <2>1, <2>8, <3>1, <3>3, AnswersAppended
    <2>9. CASE ~r
      <3>1. <<f, g>> \in Seq(Answer) /\ Len(<<f, g>>) = 2 /\ <<f, g>>[1] = f /\ <<f, g>>[2] = g
        BY <2>5
      <3>2. \A i \in 1..Len(<<f, g>>) : <<f, g>>[i] = f \/ <<f, g>>[i] = g
        BY <3>1
      <3>3. ASSUME NEW i \in 1..Len(<<f, g>>) PROVE AnswerIsTrue(<<f, g>>[i])'
        BY <2>7, <3>2 DEF AnswerIsTrue
      <3> QED
        BY <2>1, <2>9, <3>1, <3>3, AnswersAppended
    <2> QED
      BY <2>8, <2>9
  <1>8. CASE \E c \in 1..MaxConns : Brain(c) \/ NoticeClose(c)
    BY <1>2, <1>6, <1>7, <1>8 DEF Brain, NoticeClose, BindAgent
  <1> QED
    BY <1>2, <1>3, <1>4, <1>8, WireCases, ConnectEffect DEF Sends

-----------------------------------------------------------------------------
(***************************************************************************)
(* Types and what the Agent believes to be committed.                      *)
(***************************************************************************)
LEMMA ConnTypes ==
    ASSUME DeliveryInv, [DeliveryNext]_deliveryVars
    PROVE  conn' \in 0..conns' /\ fence' \in 0..conns' /\ conns' \in 0..MaxConns /\ session' \in BOOLEAN
  <1>1. /\ conn \in 0..conns /\ fence \in 0..conns /\ conns \in 0..MaxConns /\ session \in BOOLEAN
        /\ conns \in Nat /\ MaxConns \in Nat
    BY Bounds DEF DeliveryInv, DeliveryTypeOK
  <1>2. CASE Connect
    BY <1>1, <1>2 DEF Connect
  <1>3. ASSUME NEW c \in 1..MaxConns, BindAgent(c)
        PROVE  fence' \in 0..conns /\ UNCHANGED <<conn, conns, session>>
    <2>1. up[c] # <<>> /\ fence' = c /\ UNCHANGED <<conn, conns, session>>
      BY <1>3 DEF BindAgent, NextFrame, workerVars
    <2>2. c <= conns
      BY <2>1 DEF DeliveryInv, HandshakesAreAlone
    <2> QED
      BY <1>1, <2>1, <2>2
  <1>4. CASE \E c \in 1..MaxConns : Brain(c) \/ NoticeClose(c)
    BY <1>1, <1>3, <1>4, BrainCases DEF Consumes, NoticeClose, workerVars
  <1>5. CASE Sends
    BY <1>1, <1>5 DEF Sends
  <1>6. CASE Takes
    <2>1. session' \in BOOLEAN
      BY <1>6 DEF Takes
    <2> QED
      BY <1>1, <1>6, <2>1 DEF Takes
  <1>7. CASE CloseSocket /\ UNCHANGED <<conns, up, fence>>
    <2>1. conn' = 0 /\ conns' = conns /\ fence' = fence
      BY <1>7 DEF CloseSocket
    <2>2. session' \in BOOLEAN
      BY <1>7 DEF CloseSocket
    <2> QED
      BY <1>1, <2>1, <2>2
  <1>8. CASE UNCHANGED <<conn, session, conns>> /\ (fence' = fence \/ fence' = 0)
    BY <1>1, <1>8
  <1> QED
    BY <1>2, <1>4, <1>5, <1>6, <1>7, <1>8, WireCases

LEMMA TaskIsFinished ==
    ASSUME NEW S, tasks \in Seq(S), NEW i \in 1..Len(tasks), Finished(i)
    PROVE  tasks' \in Seq(S) /\ tasks[i] \in S
  <1>1. Len(tasks) \in Nat /\ i \in Nat
    OBVIOUS
  <1>2. SubSeq(tasks, 1, i-1) \in Seq(S) /\ SubSeq(tasks, i+1, Len(tasks)) \in Seq(S)
    BY <1>1
  <1> QED
    BY <1>2, ConcatProperties DEF Finished

LEMMA WorkerTypes ==
    ASSUME DeliveryInv, [DeliveryNext]_deliveryVars
    PROVE  /\ syncRequired' \in BOOLEAN /\ flushing' \in BOOLEAN
           /\ tasks' \in Seq([pending : {0} \cup UploadIds, next : Nat])
           /\ sending' \in Nat \cup {None}
  <1> DEFINE Task == [pending : {0} \cup UploadIds, next : Nat]
  <1>1. /\ syncRequired \in BOOLEAN /\ flushing \in BOOLEAN
        /\ tasks \in Seq(Task) /\ sending \in Nat \cup {None} /\ session \in BOOLEAN
    BY DEF DeliveryInv, DeliveryTypeOK
  <1>2. CASE UNCHANGED <<syncRequired, flushing, tasks, sending>>
    <2>1. syncRequired' = syncRequired /\ flushing' = flushing /\ tasks' = tasks /\ sending' = sending
      BY <1>2
    <2> QED
      BY <1>1, <2>1, Zenon
  <1>3. CASE CaptureAndFlush \/ FlushOutbox
    <2>1. flushing' \in BOOLEAN /\ UNCHANGED <<syncRequired, tasks, sending>>
      BY <1>1, <1>3 DEF CaptureAndFlush, FlushOutbox
    <2> QED
      BY <1>1, <2>1
  <1>4. CASE WorkerRestart
    <2>1. syncRequired' \in BOOLEAN /\ flushing' \in BOOLEAN
      BY <1>4 DEF WorkerRestart
    <2>2. tasks' = <<>> /\ sending' = None
      BY <1>4 DEF WorkerRestart
    <2> QED
      BY <2>1, <2>2
  <1>5. ASSUME NEW i \in 1..MaxTasks, TaskSends(i) \/ TaskFails(i)
        PROVE  /\ UNCHANGED <<syncRequired, flushing>>
               /\ tasks' \in Seq(Task) /\ sending' \in Nat \cup {None}
    <2>1. i \in 1..Len(tasks) /\ Finished(i) /\ UNCHANGED <<syncRequired, flushing>>
      BY <1>1, <1>5 DEF TaskSends, TaskFails
    <2>2. tasks' \in Seq(Task) /\ tasks[i] \in Task
      BY <1>1, <2>1, TaskIsFinished
    <2>3. sending' = sending \/ sending' = tasks[i].next
      BY <1>5 DEF TaskSends, TaskFails, StartSending
    <2> QED
      BY <1>1, <2>1, <2>2, <2>3
  <1>6. CASE SendNextSnapshotFrame
    BY <1>1, <1>6 DEF SendNextSnapshotFrame
  <1>7. ASSUME NEW p \in {0} \cup UploadIds, NEW n \in Nat, HandleSyncRequired(p, n)
        PROVE  tasks' \in Seq(Task)
    <2>1. [pending |-> p, next |-> n] \in Task
      OBVIOUS
    <2> QED
      BY <1>1, <1>7, <2>1, AppendProperties DEF HandleSyncRequired
  <1>8. CASE RecvSession
    <2>1. Head(down) \in Answer /\ Head(down).type = "session"
      BY <1>8, Received1 DEF RecvSession, Receives
    <2>2. Head(down).pending \in {0} \cup UploadIds /\ Head(down).next \in Nat /\ Head(down).resume \in BOOLEAN
      BY <2>1, AnswerTypes
    <2>3. /\ tasks' = tasks \/ HandleSyncRequired(Head(down).pending, Head(down).next)
          /\ flushing' \in {flushing, TRUE} /\ sending' = sending
      BY <1>8 DEF RecvSession, Reconcile
    <2>4. syncRequired' \in BOOLEAN
      BY <1>8, <2>2 DEF RecvSession
    <2> QED
      BY <1>1, <1>7, <2>2, <2>3, <2>4
  <1>9. CASE RecvSyncRequired
    <2>1. Head(down) \in Answer /\ Head(down).type = "sync"
      BY <1>9, Received1 DEF RecvSyncRequired, Receives
    <2>2. Head(down).pending \in {0} \cup UploadIds /\ Head(down).next \in Nat
      BY <2>1, AnswerTypes
    <2>3. HandleSyncRequired(Head(down).pending, Head(down).next) /\ syncRequired' = TRUE /\ UNCHANGED <<flushing, sending>>
      BY <1>9 DEF RecvSyncRequired
    <2> QED
      BY <1>1, <1>7, <2>2, <2>3
  <1>10. CASE RecvRejected
    <2>1. tasks' = tasks \/ HandleSyncRequired(0, 0)
      BY <1>10 DEF RecvRejected
    <2>2. syncRequired' \in BOOLEAN /\ UNCHANGED <<flushing, sending>>
      BY <1>10 DEF RecvRejected
    <2> QED
      BY <1>1, <1>7, <2>1, <2>2
  <1>11. CASE AckContinues
    <2>1. Head(acks) \in Continuation
      BY <1>11, FirstContinuation DEF AckContinues
    <2>2. Head(acks).next \in Nat \cup {None} /\ Head(acks).done \in BOOLEAN
      BY <2>1 DEF Continuation
    <2>3. sending' \in {sending, Head(acks).next} /\ tasks' = tasks
      BY <1>11 DEF AckContinues, StartSending
    <2>4. flushing' \in BOOLEAN /\ syncRequired' \in BOOLEAN
      BY <1>1, <1>11, <2>2 DEF AckContinues
    <2> QED
      BY <1>1, <2>2, <2>3, <2>4
  <1>12. CASE Connect \/ RecvAck \/ RecvAckFails \/ RecvStaleFence \/ \E i \in 1..MaxTasks : TaskBuilds(i)
    BY <1>2, <1>12 DEF Connect, RecvAck, RecvAckFails, RecvStaleFence, TaskBuilds, workerVars
  <1>13. CASE Disconnect \/ LoseLease \/ HeartbeatRefused \/ \E c \in 1..MaxConns : NoticeClose(c)
    BY <1>2, <1>13 DEF Disconnect, LoseLease, HeartbeatRefused, NoticeClose, workerVars
  <1>14. CASE ConsentChanges \/ UNCHANGED deliveryVars \/ \E c \in 1..MaxConns : Brain(c)
    BY <1>2, <1>14 DEF ConsentChanges, deliveryVars, Brain, BindAgent, OpenSession, RejectStale,
                      IngestDelta, IngestSnapshot, workerVars
  <1> QED
    BY <1>1, <1>3, <1>4, <1>5, <1>6, <1>8, <1>9, <1>10, <1>11, <1>12, <1>13, <1>14
       DEF DeliveryNext, Agent, Faults

LEMMA AckedStays ==
    ASSUME DeliveryInv, [DeliveryNext]_deliveryVars
    PROVE  acked' <= Committed'
  <1>1. /\ Committed \in Nat /\ Committed' \in Nat /\ Committed <= Committed'
        /\ acked \in Nat /\ acked <= Committed
    BY Bounds, StreamGrows DEF DeliveryInv
  <1>2. CASE acked' = acked
    BY <1>1, <1>2
  <1>3. ASSUME NEW n \in Nat, n <= Committed, NEW p, Acknowledge(n, p)
        PROVE  acked' <= Committed'
    BY <1>1, <1>3 DEF Acknowledge, NewCheckpoint
  <1>4. CASE RecvAck \/ (RecvSession /\ Head(down).resume)
    <2>1. /\ Head(down) \in Answer /\ Head(down).type \in {"ack", "session"} /\ AnswerIsTrue(Head(down))
      BY <1>4, Received1 DEF RecvAck, RecvSession, Receives
    <2>2. Head(down).committed \in Nat /\ Head(down).committed <= Committed
      BY <2>1, AnswerTypes DEF AnswerIsTrue
    <2>3. UNCHANGED outboxVars \/ \E p : Acknowledge(Head(down).committed, p)
      BY <1>4, ResumeIsAcknowledged, AckIsAcknowledged
    <2> QED
      BY <1>2, <1>3, <2>2, <2>3 DEF outboxVars
  <1>5. CASE Capture
    <2>1. PICK cs \in Seq(Change) : AppendChanges(cs)
      BY <1>5, CaptureAppends
    <2> QED
      BY <1>2, <2>1 DEF AppendChanges
  <1>6. CASE CreateSnapshot \/ BuildNextSnapshotChunk \/ UNCHANGED outboxVars
    BY <1>2, <1>6 DEF CreateSnapshot, NewSnapshot, BuildNextSnapshotChunk, ConsumePage, outboxVars
  <1> QED
    BY <1>4, <1>5, <1>6, StoreCases

LEMMA LastAckStays ==
    ASSUME DeliveryInv, [DeliveryNext]_deliveryVars
    PROVE  lastAck' \in Nat /\ lastAck' <= Committed' /\ sent' \subseteq 1..LastSeq'
  <1>1. /\ Committed \in Nat /\ Committed' \in Nat /\ Committed <= Committed'
        /\ lastAck \in Nat /\ lastAck <= Committed /\ acked \in Nat /\ acked <= Committed
        /\ LastSeq \in Nat /\ LastSeq' \in Nat /\ LastSeq <= LastSeq' /\ sent \subseteq 1..LastSeq
    BY Bounds, StreamGrows, StoreStep, LogGrows DEF DeliveryInv, DeliveryTypeOK
  <1>2. sent \subseteq 1..LastSeq'
    BY <1>1
  <1>3. CASE UNCHANGED <<lastAck, sent>>
    BY <1>1, <1>2, <1>3
  <1>4. CASE FlushOutbox
    <2>1. Unsent \subseteq 1..LastSeq
      BY Bounds DEF Unsent, OutboxTypeOK
    <2>2. sent' \subseteq sent \cup Unsent /\ lastAck' = lastAck
      BY <1>4 DEF FlushOutbox
    <2> QED
      BY <1>1, <2>1, <2>2
  <1>5. CASE WorkerRestart
    BY <1>1, <1>5 DEF WorkerRestart
  <1>6. CASE RecvSession
    BY <1>1, <1>6 DEF RecvSession
  <1>7. CASE AckContinues
    <2>1. Head(acks) \in Continuation /\ Head(acks).committed <= Committed
      BY <1>7, FirstContinuation DEF AckContinues
    <2>2. Head(acks).committed \in Nat
      BY <2>1 DEF Continuation
    <2>3. lastAck' \in {lastAck, Head(acks).committed} /\ sent' \subseteq sent
      BY <1>7 DEF AckContinues
    <2> QED
      BY <1>1, <1>2, <2>1, <2>2, <2>3
  <1>8. CASE CaptureAndFlush \/ SendNextSnapshotFrame
              \/ \E i \in 1..MaxTasks : TaskBuilds(i) \/ TaskSends(i) \/ TaskFails(i)
    BY <1>3, <1>8 DEF CaptureAndFlush, SendNextSnapshotFrame, TaskBuilds, TaskSends, TaskFails, workerVars
  <1>9. CASE Connect \/ RecvSyncRequired \/ RecvAck \/ RecvAckFails \/ RecvStaleFence \/ RecvRejected
    BY <1>3, <1>9 DEF Connect, RecvSyncRequired, RecvAck, RecvAckFails, RecvStaleFence, RecvRejected, workerVars
  <1>10. CASE Disconnect \/ LoseLease \/ HeartbeatRefused \/ \E c \in 1..MaxConns : NoticeClose(c)
    BY <1>3, <1>10 DEF Disconnect, LoseLease, HeartbeatRefused, NoticeClose, workerVars
  <1>11. CASE ConsentChanges \/ UNCHANGED deliveryVars \/ \E c \in 1..MaxConns : Brain(c)
    BY <1>3, <1>11 DEF ConsentChanges, deliveryVars, Brain, BindAgent, OpenSession, RejectStale,
                      IngestDelta, IngestSnapshot, workerVars
  <1> QED
    BY <1>4, <1>5, <1>6, <1>7, <1>8, <1>9, <1>10, <1>11 DEF DeliveryNext, Agent, Faults

\* An operation that begins is waited for with what its frame said.
LEMMA WaitsTypes ==
    ASSUME DeliveryInv, NEW k \in Continuation, k.committed <= Committed, Waits(k)
    PROVE  /\ acks' \in Seq(Continuation) /\ Len(acks') <= MaxAcks
           /\ \A i \in 1..Len(acks') : acks'[i].committed <= Committed
  <1>1. acks \in Seq(Continuation) /\ \A i \in 1..Len(acks) : acks[i].committed <= Committed
    BY DEF DeliveryInv, DeliveryTypeOK, AcksAreTrue
  <1>2. acks' = Append(acks, k) /\ Len(acks) < MaxAcks /\ Len(acks) \in Nat /\ MaxAcks \in Nat
    BY <1>1, DeliveryBoundsAssumption DEF Waits
  <1>3. /\ acks' \in Seq(Continuation) /\ Len(acks') = Len(acks) + 1
        /\ \A i \in 1..Len(acks) : acks'[i] = acks[i]
        /\ acks'[Len(acks) + 1] = k
    BY <1>1, <1>2, AppendProperties
  <1>4. ASSUME NEW i \in 1..Len(acks') PROVE acks'[i].committed <= Committed
    <2>1. i \in 1..Len(acks) \/ i = Len(acks) + 1
      BY <1>2, <1>3
    <2> QED
      BY <1>1, <1>3, <2>1
  <1> QED
    BY <1>2, <1>3, <1>4

LEMMA AcksStay ==
    ASSUME DeliveryInv, [DeliveryNext]_deliveryVars
    PROVE  acks' \in Seq(Continuation) /\ Len(acks') <= MaxAcks /\ AcksAreTrue'
  <1>1. /\ Committed \in Nat /\ Committed' \in Nat /\ Committed <= Committed'
        /\ MaxAcks \in Nat /\ None = -1
    BY Bounds, StreamGrows, DeliveryBoundsAssumption
  <1>2. /\ acks \in Seq(Continuation) /\ Len(acks) <= MaxAcks /\ Len(acks) \in Nat
        /\ \A i \in 1..Len(acks) : acks[i].committed <= Committed
    BY DEF DeliveryInv, DeliveryTypeOK, AcksAreTrue
  <1>3. SUFFICES acks' \in Seq(Continuation) /\ Len(acks') <= MaxAcks
                 /\ \A i \in 1..Len(acks') : acks'[i].committed <= Committed
    <2>1. ASSUME acks' \in Seq(Continuation), \A i \in 1..Len(acks') : acks'[i].committed <= Committed
          PROVE  AcksAreTrue'
      <3>1. ASSUME NEW i \in 1..Len(acks') PROVE acks'[i].committed <= Committed'
        <4>1. acks'[i] \in Continuation
          BY <2>1, ElementOfSeq
        <4>2. acks'[i].committed \in Nat
          BY <4>1 DEF Continuation
        <4> QED
          BY <1>1, <2>1, <4>2
      <3> QED
        BY <3>1 DEF AcksAreTrue
    <2> QED
      BY <2>1
  <1>4. CASE acks' = acks
    BY <1>2, <1>4
  <1>5. CASE RecvAck
    <2> DEFINE m == Head(down)
               p == AckProgress(m)
               k == [committed |-> m.committed, done |-> p.committed,
                     next |-> IF p = NoProgress \/ p.committed THEN None ELSE m.next]
    <2>1. m \in Answer /\ m.type = "ack" /\ AnswerIsTrue(m)
      BY <1>5, Received1 DEF RecvAck, Receives
    <2>2. m.committed \in Nat /\ m.committed <= Committed /\ m.next \in Nat /\ m.done \in BOOLEAN
      BY <2>1, AnswerTypes DEF AnswerIsTrue
    <2>3. p.committed \in BOOLEAN
      BY <2>2 DEF AckProgress, NoProgress
    <2>4. k \in Continuation /\ k.committed <= Committed
      BY <2>2, <2>3 DEF Continuation
    <2>5. Waits(k)
      BY <1>5 DEF RecvAck
    <2> HIDE DEF k
    <2> QED
      BY <2>4, <2>5, WaitsTypes
  <1>6. CASE RecvSession
    <2> DEFINE k == [committed |-> 0, done |-> TRUE, next |-> None]
    <2>1. acks' = acks \/ Waits(k)
      BY <1>6 DEF RecvSession, Reconcile
    <2>2. k \in Continuation /\ k.committed <= Committed
      BY <1>1 DEF Continuation
    <2> HIDE DEF k
    <2> QED
      BY <1>4, <2>1, <2>2, WaitsTypes
  <1>7. CASE AckContinues
    <2>1. acks # <<>> /\ acks' = Tail(acks)
      BY <1>7 DEF AckContinues
    <2>2. acks' \in Seq(Continuation) /\ Len(acks') = Len(acks) - 1
      BY <2>1, FirstContinuation
    <2>3. \A i \in 1..Len(acks') : acks'[i].committed <= Committed
      BY <1>2, <2>1, FirstContinuation
    <2> QED
      BY <1>1, <1>2, <2>2, <2>3
  <1>8. CASE WorkerRestart
    <2>1. acks' = <<>>
      BY <1>8 DEF WorkerRestart
    <2> QED
      BY <1>1, <2>1
  <1>9. CASE CaptureAndFlush \/ FlushOutbox \/ Connect \/ SendNextSnapshotFrame
    BY <1>4, <1>9 DEF CaptureAndFlush, FlushOutbox, Connect, SendNextSnapshotFrame
  <1>10. CASE \E i \in 1..MaxTasks : TaskBuilds(i) \/ TaskSends(i) \/ TaskFails(i)
    BY <1>4, <1>10 DEF TaskBuilds, TaskSends, TaskFails, workerVars
  <1>11. CASE RecvSyncRequired \/ RecvAckFails \/ RecvStaleFence \/ RecvRejected
    BY <1>4, <1>11 DEF RecvSyncRequired, RecvAckFails, RecvStaleFence, RecvRejected, workerVars
  <1>12. CASE Disconnect \/ LoseLease \/ HeartbeatRefused \/ \E c \in 1..MaxConns : NoticeClose(c)
    BY <1>4, <1>12 DEF Disconnect, LoseLease, HeartbeatRefused, NoticeClose, workerVars
  <1>13. CASE ConsentChanges \/ UNCHANGED deliveryVars \/ \E c \in 1..MaxConns : Brain(c)
    BY <1>4, <1>13 DEF ConsentChanges, deliveryVars, Brain, BindAgent, OpenSession, RejectStale,
                      IngestDelta, IngestSnapshot, workerVars
  <1> QED
    BY <1>5, <1>6, <1>7, <1>8, <1>9, <1>10, <1>11, <1>12, <1>13 DEF DeliveryNext, Agent, Faults

-----------------------------------------------------------------------------
(***************************************************************************)
(* The invariant holds.                                                    *)
(***************************************************************************)
LEMMA InitDeliveryInv == DeliveryInit => DeliveryInv
  <1> SUFFICES ASSUME DeliveryInit PROVE DeliveryInv
    OBVIOUS
  <1>1. /\ SnapshotInv /\ OutboxTypeOK /\ LastSeq = 0 /\ Committed = 0 /\ Staging = {}
        /\ manifest = NoSnapshot /\ lastId = 0 /\ acked = 0 /\ outbox = {}
    BY InitSnapshotInv, InitTypeOK
       DEF DeliveryInit, OutboxInit, StreamInit, LastSeq, Committed, Staging, NoUpload
  <1>2. StreamTypeOK
    BY DEF DeliveryInit, StreamInit, StreamTypeOK, NoUpload
  <1>3. /\ conn = 0 /\ session = FALSE /\ syncRequired = FALSE /\ lastAck = 0
        /\ sent = {} /\ flushing = FALSE /\ tasks = <<>> /\ sending = None /\ acks = <<>>
        /\ conns = 0 /\ up = [c \in 1..MaxConns |-> <<>>] /\ down = <<>> /\ fence = 0
    BY DEF DeliveryInit
  <1>4. up \in [1..MaxConns -> Seq(Frame)] /\ \A c \in 1..MaxConns : up[c] = <<>>
    BY <1>3
  <1>5. DeliveryTypeOK
    <2>1. session \in BOOLEAN /\ syncRequired \in BOOLEAN /\ flushing \in BOOLEAN
      BY <1>3
    <2>2. /\ conn \in 0..conns /\ fence \in 0..conns /\ conns \in 0..MaxConns
          /\ lastAck \in 0..LastSeq /\ sent \subseteq 1..LastSeq
      BY <1>1, <1>3, DeliveryBoundsAssumption
    <2>3. tasks \in Seq([pending : {0} \cup UploadIds, next : Nat]) /\ sending \in Nat \cup {None}
      BY <1>3
    <2>4. acks \in Seq(Continuation) /\ Len(acks) <= MaxAcks
      BY <1>3, DeliveryBoundsAssumption
    <2> QED
      BY <1>1, <1>2, <1>4, <2>1, <2>2, <2>3, <2>4 DEF DeliveryTypeOK
  <1>6. OutboxRetainsUnacknowledged /\ acked <= Committed /\ lastAck <= Committed
    BY <1>1, <1>3 DEF OutboxRetainsUnacknowledged
  <1>7. ManifestOK
    BY <1>1, BoundsAssumption DEF ManifestOK, NoSnapshot
  <1>8. FramesAreTrue /\ HandshakesAreAlone
    BY <1>4 DEF FramesAreTrue, HandshakesAreAlone
  <1>9. AnswersAreTrue /\ SessionIsOpened /\ AcksAreTrue
    BY <1>3 DEF AnswersAreTrue, SessionIsOpened, AcksAreTrue
  <1>10. DeadFramesAreFenced /\ FencedFramesMatch /\ StagedMatches
    BY <1>1, <1>3 DEF DeadFramesAreFenced, FencedFramesMatch, StagedMatches
  <1>11. CanonIsPrefix
    BY <1>1 DEF CanonIsPrefix, DeliveryInit, StreamInit
  <1> QED
    BY <1>1, <1>5, <1>6, <1>7, <1>8, <1>9, <1>10, <1>11 DEF DeliveryInv

LEMMA NextDeliveryInv == DeliveryInv /\ [DeliveryNext]_deliveryVars => DeliveryInv'
  <1> SUFFICES ASSUME DeliveryInv, [DeliveryNext]_deliveryVars PROVE DeliveryInv'
    OBVIOUS
  <1>1. [OutboxNext]_outboxVars /\ OutboxTypeOK
    BY StoreStep, Bounds
  <1>2. SnapshotInv' /\ OutboxRetainsUnacknowledged' /\ ManifestOK' /\ OutboxTypeOK'
    BY <1>1, NextKeepsSnapshotInv, NextRetains, StoreKeepsManifestOK, NextTypeOK DEF DeliveryInv
  <1>3. /\ StreamTypeOK' /\ CanonIsPrefix' /\ Committed' \in Nat
    BY StreamGrows
  <1>4. /\ acked' <= Committed' /\ lastAck' \in Nat /\ lastAck' <= Committed'
        /\ sent' \subseteq 1..LastSeq'
    BY AckedStays, LastAckStays
  <1>5. lastAck' \in 0..LastSeq'
    <2>1. LastSeq' \in Nat
      BY <1>2 DEF OutboxTypeOK, LastSeq
    <2> QED
      BY <1>3, <1>4, <2>1 DEF CanonIsPrefix
  <1>6. DeliveryTypeOK'
    <2>1. /\ conn' \in 0..conns' /\ fence' \in 0..conns' /\ conns' \in 0..MaxConns
          /\ session' \in BOOLEAN
      BY ConnTypes
    <2>2. up' \in [1..MaxConns -> Seq(Frame)]
      BY EveryFrame
    <2> QED
      BY <1>2, <1>3, <1>4, <1>5, <2>1, <2>2, WorkerTypes, AcksStay DEF DeliveryTypeOK, Frame
  <1>7. FramesAreTrue' /\ AnswersAreTrue' /\ HandshakesAreAlone' /\ SessionIsOpened'
    BY FramesStayTrue, AnswersStayTrue, HandshakesStayAlone, SessionStaysOpened
  <1>8. DeadFramesAreFenced' /\ FencedFramesMatch' /\ StagedMatches'
    BY DeadFramesStayFenced, FencedStays, StepKeepsStaged
  <1> QED
    BY <1>2, <1>3, <1>4, <1>6, <1>7, <1>8, AcksStay DEF DeliveryInv

LEMMA DeliveryInvHolds == DeliverySpec => []DeliveryInv
  <1> QED
    BY InitDeliveryInv, NextDeliveryInv, PTL DEF DeliverySpec

-----------------------------------------------------------------------------
\* Whatever is lost, duplicated or late on the sockets, whichever side restarts
\* and whenever, each captured change is in the Agent's outbox or among those the
\* Brain has committed (durable-outbox.mjs acknowledge, history.py commit_delta
\* and commit_snapshot).
THEOREM NothingIsLost == DeliverySpec => []NothingLost
  <1>1. DeliveryInv => NothingLost
    <2> SUFFICES ASSUME DeliveryInv, NEW s \in 1..LastSeq, s \notin outbox
                 PROVE  s \in 1..Committed
      BY DEF NothingLost
    <2>1. /\ LastSeq \in Nat /\ acked \in Nat /\ Committed \in Nat /\ acked <= Committed
          /\ outbox = acked+1..LastSeq
      BY Bounds DEF DeliveryInv, OutboxRetainsUnacknowledged
    <2> QED
      BY <2>1
  <1> QED
    BY <1>1, DeliveryInvHolds, PTL

\* Agent and Brain agree on what each holds of the other: no acknowledgement and
\* no hello is ahead of the checkpoint, and what is staged is, chunk for chunk,
\* the beginning of the pending snapshot, so that a chunk sent again after a
\* reconnect or a restart is a duplicate and never a conflict (history.py
\* add_snapshot_chunk).
THEOREM BooksAlwaysAgree == DeliverySpec => []BooksAgree
  <1>1. DeliveryInv => BooksAgree
    <2> SUFFICES ASSUME DeliveryInv PROVE BooksAgree
      OBVIOUS
    <2>1. NeverAheadOfBrain
      BY DEF DeliveryInv, NeverAheadOfBrain, FramesAreTrue, FrameIsTrue, Handshake
    <2>2. StagedIsPending
      BY DEF DeliveryInv, StagedMatches, StagedIsPending
    <2> QED
      BY <2>1, <2>2 DEF BooksAgree, DeliveryInv
  <1> QED
    BY <1>1, DeliveryInvHolds, PTL

\* The system drives its store only as the store's own specification allows: an
\* acknowledgement taken from a frame or from a resumed session is one that
\* AgentOutbox considers.  What is proved of OutboxSpec holds of the system.
THEOREM StoreImplemented == DeliverySpec => OutboxSpec
  <1>1. DeliveryInit => OutboxInit
    BY DEF DeliveryInit
  <1>2. DeliveryInv /\ [DeliveryNext]_deliveryVars => [OutboxNext]_outboxVars
    BY StoreStep
  <1> QED
    BY <1>1, <1>2, DeliveryInvHolds, PTL DEF DeliverySpec, OutboxSpec

-----------------------------------------------------------------------------
(***************************************************************************)
(* The promise to the creator.                                             *)
(***************************************************************************)
\* What the Brain shows depends on the committed prefix only.
LEMMA AsOfStays ==
    ASSUME OutboxTypeOK, [OutboxNext]_outboxVars, NEW n \in 0..LastSeq
    PROVE  AsOf(n)' = AsOf(n)
  <1>1. LastSeq \in Nat /\ n \in Nat /\ \A s \in 1..n : log'[s] = log[s]
    BY LogGrows
  <1>2. \A s \in 1..n : \A t \in s+1..n : SameRow(log'[s], log'[t]) <=> SameRow(log[s], log[t])
    BY <1>1
  <1> QED
    BY <1>2 DEF AsOf

LEMMA ViewOfInv == DeliveryInv => View = AsOf(Committed)
  <1> SUFFICES ASSUME DeliveryInv PROVE View = AsOf(Committed)
    OBVIOUS
  <1> QED
    BY Bounds, ViewIsAsOf DEF DeliveryInv, OutboxTypeOK, StreamTypeOK

LEMMA PromiseStep ==
    ASSUME DeliveryInv, [DeliveryNext]_deliveryVars, DeliveryInv' => View' = AsOf(Committed)'
    PROVE  [Promise!PromiseNext]_Promise!promiseVars
  <1>1. /\ [OutboxNext]_outboxVars /\ LastSeq \in Nat /\ LastSeq' \in Nat
        /\ Committed \in Nat /\ Committed' \in Nat /\ Committed <= Committed'
        /\ Committed <= LastSeq /\ Committed' <= LastSeq'
    BY StoreStep, Bounds, StreamGrows, LogGrows DEF CanonIsPrefix
  <1>2. /\ View = {s \in 1..Committed : \A t \in s+1..Committed : ~SameRow(log[s], log[t])}
        /\ View' = {s \in 1..Committed' : \A t \in s+1..Committed' : ~SameRow(log'[s], log'[t])}
    BY ViewOfInv, NextDeliveryInv DEF AsOf
  <1>3. acked \in Nat /\ acked' \in Nat /\ acked' <= Committed'
    BY <1>1, Bounds, NextTypeOK, AckedStays DEF OutboxTypeOK
  <1>4. \A s \in 1..Committed : log'[s] = log[s]
    BY <1>1, Bounds, LogGrows
  <1>5. ASSUME Committed' = Committed PROVE View' = View
    BY <1>1, <1>2, <1>4, <1>5
  <1>6. CASE log' = log /\ acked' = acked
    <2>1. CASE Committed' = Committed
      BY <1>5, <1>6, <2>1 DEF Promise!promiseVars
    <2>2. CASE Committed' # Committed
      <3>1. Committed' > Committed /\ Committed' \in 1..Len(log)
        BY <1>1, <1>6, <2>2 DEF LastSeq
      <3>2. View' = Promise!Prefix(log, Committed')
        BY <1>2, <1>6 DEF Promise!Prefix, Promise!SameRow, SameRow
      <3>3. Promise!CommitUpTo(Committed')
        BY <1>6, <3>1, <3>2 DEF Promise!CommitUpTo
      <3> QED
        BY <3>1, <3>3 DEF Promise!PromiseNext
    <2> QED
      BY <2>1, <2>2
  <1>7. CASE log' = log /\ Committed' = Committed /\ acked' > acked
    <2>1. acked' \in 1..Len(log) /\ acked < acked' /\ acked' <= Committed
      BY <1>1, <1>3, <1>7 DEF LastSeq
    <2>2. Promise!Release(acked')
      BY <1>5, <1>7, <2>1 DEF Promise!Release
    <2> QED
      BY <2>1, <2>2 DEF Promise!PromiseNext
  <1>8. CASE Capture
    <2>1. PICK cs \in Seq(Change) : AppendChanges(cs)
      BY <1>8, CaptureAppends
    <2>2. /\ log \in Seq(Change) /\ log' = log \o cs /\ acked' = acked /\ Len(cs) \in Nat
          /\ Len(log') = Len(log) + Len(cs)
      BY <2>1, Bounds, AppendedLog DEF AppendChanges, OutboxTypeOK, LastSeq
    <2>3. CASE log' = log
      BY <1>6, <2>2, <2>3
    <2>4. CASE log' # log
      <3>1. cs # <<>>
        BY <2>2, <2>4, ConcatEmptySeq
      <3>2. Len(cs) > 0
        BY <2>2, <3>1, EmptySeq
      <3>3. SubSeq(log', 1, Len(log)) = log
        <4>1. /\ log' \in Seq(Change) /\ \A i \in 1..Len(log) : log'[i] = log[i]
          BY <2>1, Bounds, AppendedLog DEF LastSeq
        <4>2. Len(log) \in Nat /\ Len(log) <= Len(log')
          BY <2>2
        <4>3. /\ SubSeq(log', 1, Len(log)) \in Seq(Change)
              /\ Len(SubSeq(log', 1, Len(log))) = Len(log)
              /\ \A i \in 1..Len(log) : SubSeq(log', 1, Len(log))[i] = log[i]
          BY <4>1, <4>2
        <4> QED
          BY <2>2, <4>3, SeqEqual
      <3>4. ~\E c \in 1..MaxConns : IngestDelta(c) \/ IngestSnapshot(c)
        BY <2>4 DEF IngestDelta, IngestSnapshot, outboxVars
      <3>5. Committed' = Committed
        BY <3>4, StreamStep DEF streamVars, Committed, ConsentChanges, ChangeConsent
      <3>6. Promise!CaptureMore
        BY <1>5, <2>2, <3>2, <3>3, <3>5 DEF Promise!CaptureMore
      <3> QED
        BY <3>6 DEF Promise!PromiseNext
    <2> QED
      BY <2>3, <2>4
  <1>9. CASE CreateSnapshot \/ BuildNextSnapshotChunk \/ UNCHANGED outboxVars
    BY <1>6, <1>9 DEF CreateSnapshot, NewSnapshot, BuildNextSnapshotChunk, ConsumePage, outboxVars
  <1>10. CASE RecvAck \/ (RecvSession /\ Head(down).resume)
    <2>1. UNCHANGED outboxVars \/ \E n \in 0..MaxChanges : \E p : Acknowledge(n, p)
      BY <1>10, ResumeIsAcknowledged, AckIsAcknowledged
    <2>2. Committed' = Committed
      BY <1>10 DEF RecvAck, RecvSession, streamVars, Committed
    <2>3. CASE UNCHANGED outboxVars
      BY <1>9, <2>3
    <2>4. ASSUME NEW n \in 0..MaxChanges, NEW p, Acknowledge(n, p)
          PROVE  log' = log /\ (acked' = acked \/ acked' > acked)
      BY <1>3, <2>4, BoundsAssumption DEF Acknowledge, NewCheckpoint
    <2> QED
      BY <1>6, <1>7, <2>1, <2>2, <2>3, <2>4
  <1> QED
    BY <1>8, <1>9, <1>10, StoreCases

\* Whatever happens between worker, sockets and Brain, what the creator is shown
\* is always the state after a prefix of the captured changes, that prefix only
\* grows, and the Agent drops nothing before it is in the prefix (ADR 0004;
\* durable-outbox.mjs, history.py).
THEOREM PromiseKept == DeliverySpec => KeepsPromise
  <1>1. DeliveryInit => Promise!PromiseInit
    <2> SUFFICES ASSUME DeliveryInit PROVE Promise!PromiseInit
      OBVIOUS
    <2>1. /\ log = <<>> /\ acked = 0 /\ Committed = 0 /\ evidence = {}
          /\ \A k \in Entities : canon[k] = 0
      BY DEF DeliveryInit, OutboxInit, StreamInit, Committed
    <2>2. View = {}
      BY <2>1 DEF View
    <2> QED
      BY <2>1, <2>2 DEF Promise!PromiseInit
  <1>2. (DeliveryInv => View = AsOf(Committed))'
    BY ViewOfInv, PTL
  <1>3. DeliveryInv /\ [DeliveryNext]_deliveryVars => [Promise!PromiseNext]_Promise!promiseVars
    BY <1>2, PromiseStep
  <1> QED
    BY <1>1, <1>3, DeliveryInvHolds, PTL DEF DeliverySpec, KeepsPromise, Promise!PromiseSpec
=============================================================================
