----------------------------- MODULE AgentOutbox -----------------------------
(***************************************************************************)
(* The Agent's durable store (extension/transport/durable-outbox.mjs): the *)
(* entity rows, the outbox of unacknowledged changes, and the builder of   *)
(* as-of snapshots.  Every operation is one IndexedDB transaction and      *)
(* operations are serialised by queueMutation, so each is one action here  *)
(* and a terminated worker loses nothing this module keeps.                *)
(*                                                                         *)
(* Data.  A change is named by the source_seq it was given; the content of *)
(* an entity row is the source_seq of the change that wrote it             *)
(* (last_source_seq), 0 for no row.  A snapshot record is likewise the     *)
(* source_seq of the row it copies.  A chat, a message and their           *)
(* tombstones are all "entity" rows; coverage evidence rows are immutable  *)
(* and one per change.                                                     *)
(***************************************************************************)
EXTENDS IngestData, Sequences, FiniteSets

CONSTANTS
    PageSize,      \* SNAPSHOT_MAX_RECORDS
    MaxChanges,    \* bound: source_seqs allocated
    MaxSnapshots   \* bound: snapshot ids allocated

ASSUME PageSizeAssumption == PageSize \in Nat \ {0}
ASSUME BoundsAssumption == MaxChanges \in Nat /\ MaxSnapshots \in Nat

VARIABLES
    log,        \* history: the changes in source_seq order; the stores keep
                \* of it what outbox, rows and the coverage rows name
    rows,       \* last_source_seq of each entity row
    outbox,     \* source_seqs whose outbox row is stored
    acked,      \* meta.acknowledged_source_seq
    manifest,   \* meta.pending_snapshot and its manifest
    overrides,  \* pre-images saved for the snapshot being built
    chunks,     \* chunks written for the pending snapshot
    lastId      \* snapshot ids allocated so far

outboxVars == <<log, rows, outbox, acked, manifest, overrides, chunks, lastId>>

LastSeq == Len(log)                                  \* meta.last_source_seq

NoSnapshot == [id |-> 0, through |-> 0, state |-> "none", kind |-> "entity", after |-> 0]
Manifests == [id : Nat, through : Nat, state : {"none", "building", "ready"},
              kind : {"entity", "coverage"}, after : Nat]

NoOverrides == [k \in Entities |-> 0]

(***************************************************************************)
(* What a snapshot through n must hold: every coverage change, and of each *)
(* entity the last change, among the first n.                              *)
(***************************************************************************)
AsOf(n) == {s \in 1..n : \A t \in (s+1)..n : ~SameRow(log[s], log[t])}

OutboxInit ==
    /\ log = <<>>
    /\ rows = [k \in Entities |-> 0]
    /\ outbox = {}
    /\ acked = 0
    /\ manifest = NoSnapshot
    /\ overrides = NoOverrides
    /\ chunks = <<>>
    /\ lastId = 0

(***************************************************************************)
(* Capture.  appendChange gives the change the next source_seq, saves the  *)
(* row's pre-image if a snapshot that must contain it is being built       *)
(* (preserveSnapshotOverride), writes the row and the outbox item.  A      *)
(* change whose merge is a no-op changes nothing and is left out.          *)
(***************************************************************************)
\* Mutant: the pre-image is not saved.
PreservedOverrideForgotten(k) == overrides[k]

PreservedOverride(k) ==
    IF /\ manifest.state = "building"
       /\ rows[k] # 0
       /\ rows[k] <= manifest.through
       /\ overrides[k] = 0
    THEN rows[k] ELSE overrides[k]

Writes(cs, k) == {i \in 1..Len(cs) : WritesRow(cs[i], k)}
LastWrite(cs, k) == CHOOSE i \in Writes(cs, k) : \A j \in Writes(cs, k) : j <= i

AppendChanges(cs) ==
    /\ LastSeq + Len(cs) <= MaxChanges
    /\ log' = log \o cs
    /\ rows' = [k \in Entities |-> IF Writes(cs, k) = {} THEN rows[k]
                                   ELSE LastSeq + LastWrite(cs, k)]
    /\ overrides' = [k \in Entities |-> IF Writes(cs, k) = {} THEN overrides[k]
                                        ELSE PreservedOverride(k)]
    /\ outbox' = outbox \cup (LastSeq+1 .. LastSeq+Len(cs))
    /\ UNCHANGED <<acked, manifest, chunks, lastId>>

\* enqueue: one passively observed chat, message or delete.
Enqueue(k) == AppendChanges(<<EntityChange(k)>>)

\* enqueueMessageWithParent: the chat placeholder p, then its message m, in
\* one transaction.  A placeholder that is already known is a no-op and the
\* message alone is appended, as Enqueue does.
EnqueueMessageWithParent(p, m) == AppendChanges(<<EntityChange(p), EntityChange(m)>>)

\* commitPage: the entities of one signer page, then its coverage evidence.
CommitPage(ks, g) ==
    AppendChanges([i \in 1..Len(ks) |-> EntityChange(ks[i])] \o <<CoverageChange(g)>>)

(***************************************************************************)
(* createSnapshot: an existing pending snapshot is returned unchanged, so  *)
(* only a new one is a step.  through_seq is the last allocated source_seq *)
(* and chunks and overrides of an earlier snapshot are cleared.            *)
(***************************************************************************)
NewSnapshot ==
    /\ lastId < MaxSnapshots
    /\ lastId' = lastId + 1
    /\ manifest' = [id |-> lastId + 1, through |-> LastSeq, state |-> "building",
                    kind |-> "entity", after |-> 0]
    /\ chunks' = <<>>
    /\ overrides' = NoOverrides
    /\ UNCHANGED <<log, rows, outbox, acked>>

CreateSnapshot == manifest.state = "none" /\ NewSnapshot

(***************************************************************************)
(* buildNextSnapshotChunk.  The scan reads a page of at most PageSize rows *)
(* after its cursor, entities by key and then coverage by source_seq.  Of  *)
(* each row it takes the saved pre-image if there is one, else the row if  *)
(* it is not newer than through_seq, else nothing.  The byte budget may    *)
(* cut the page after any record; the scan of a kind ends with the page    *)
(* that is consumed whole and shorter than PageSize.                       *)
(***************************************************************************)
Remaining ==
    IF manifest.kind = "entity"
    THEN {k \in Entities : rows[k] # 0 /\ k > manifest.after}
    ELSE {s \in 1..LastSeq : log[s].kind = "coverage" /\ s > manifest.after}

Envelope(x) ==
    IF manifest.kind = "entity" /\ overrides[x] # 0 THEN overrides[x]
    ELSE LET s == IF manifest.kind = "entity" THEN rows[x] ELSE x
         IN  IF s <= manifest.through THEN s ELSE 0

Records(page) == {Envelope(x) : x \in page} \ {0}

Page ==
    {x \in Remaining : Cardinality({y \in Remaining : y <= x}) <= PageSize}

\* Mutants: a page that was cut short leaves the cursor where it was; an empty
\* page does not end the scan.
ScanAfterKeepingCursor(consumed, upto) ==
    IF ~(consumed = Remaining /\ Cardinality(consumed) < PageSize)
    THEN manifest
    ELSE IF manifest.kind = "entity"
         THEN [manifest EXCEPT !.kind = "coverage", !.after = 0]
         ELSE [manifest EXCEPT !.state = "ready"]
ScanAfterIgnoringEmpty(consumed, upto) ==
    IF consumed = {} THEN manifest
    ELSE IF ~(consumed = Remaining /\ Cardinality(consumed) < PageSize)
    THEN [manifest EXCEPT !.after = upto]
    ELSE IF manifest.kind = "entity"
         THEN [manifest EXCEPT !.kind = "coverage", !.after = 0]
         ELSE [manifest EXCEPT !.state = "ready"]

ScanAfter(consumed, upto) ==      \* the manifest once `consumed' is scanned
    IF ~(consumed = Remaining /\ Cardinality(consumed) < PageSize)
    THEN [manifest EXCEPT !.after = upto]
    ELSE IF manifest.kind = "entity"
         THEN [manifest EXCEPT !.kind = "coverage", !.after = 0]
         ELSE [manifest EXCEPT !.state = "ready"]

Written(recs) == Append(chunks, recs)

ConsumePage(consumed, upto) ==
    /\ manifest' = ScanAfter(consumed, upto)
    /\ chunks' = IF Records(consumed) = {} THEN chunks ELSE Written(Records(consumed))
    /\ overrides' = IF manifest'.state = "ready" THEN NoOverrides ELSE overrides
    /\ UNCHANGED <<log, rows, outbox, acked, lastId>>

BuildNextSnapshotChunk ==
    /\ manifest.state = "building"
    /\ \/ /\ Remaining = {}
          /\ ConsumePage({}, manifest.after)
       \/ \E upto \in Page :
            LET consumed == {x \in Page : x <= upto}
            IN  /\ consumed = Page \/ Records(consumed) # {}
                /\ ConsumePage(consumed, upto)

(***************************************************************************)
(* acknowledge.  `progress' is the snapshot progress of the ack: NoProgress *)
(* for a delta.  An ack beyond the last source_seq, for another snapshot,  *)
(* or a commit that does not cover a ready manifest throws and the         *)
(* transaction aborts.  meta.next_expected_chunk_index, which nothing      *)
(* reads, is left out.                                                     *)
(***************************************************************************)
NoProgress == [id |-> 0, committed |-> FALSE]

Acknowledgeable(committed, progress) ==
    /\ committed <= LastSeq
    /\ progress # NoProgress => manifest.state # "none" /\ manifest.id = progress.id
    /\ progress.committed => manifest.state = "ready" /\ committed >= manifest.through

\* Mutant: a late acknowledgement moves the checkpoint back.
NewCheckpointUnordered(committed) == committed

NewCheckpoint(committed) == IF committed > acked THEN committed ELSE acked

Acknowledge(committed, progress) ==
    /\ Acknowledgeable(committed, progress)
    /\ IF progress.committed
       THEN manifest' = NoSnapshot /\ chunks' = <<>> /\ overrides' = NoOverrides
       ELSE UNCHANGED <<manifest, chunks, overrides>>
    /\ IF progress = NoProgress \/ progress.committed
       THEN /\ acked' = NewCheckpoint(committed)
            /\ outbox' = {s \in outbox : s > NewCheckpoint(committed)}
       ELSE UNCHANGED <<acked, outbox>>
    /\ UNCHANGED <<log, rows, lastId>>

(***************************************************************************)
(* The store under every order of operations its callers can issue, with   *)
(* acknowledgements of any contiguous prefix the Brain could have reached. *)
(***************************************************************************)
Progresses == {NoProgress} \cup [id : 1..MaxSnapshots, committed : BOOLEAN]

Capture ==
    \/ \E k \in Entities : Enqueue(k)
    \/ \E p, m \in Entities : p # m /\ EnqueueMessageWithParent(p, m)
    \/ \E g \in Grants : CommitPage(<<>>, g)
    \/ \E k \in Entities, g \in Grants : CommitPage(<<k>>, g)

Acknowledged == \E n \in 0..MaxChanges, p \in Progresses : Acknowledge(n, p)

OutboxNext == Capture \/ CreateSnapshot \/ BuildNextSnapshotChunk \/ Acknowledged

OutboxSpec == OutboxInit /\ [][OutboxNext]_outboxVars

\* prepareSnapshot loops over buildNextSnapshotChunk until it is ready.
FairOutboxSpec == OutboxSpec /\ WF_outboxVars(BuildNextSnapshotChunk)

-----------------------------------------------------------------------------
\* Types and ranges: every source_seq stored anywhere was allocated.
OutboxTypeOK ==
    /\ log \in Seq(Change)
    /\ rows \in [Entities -> 0..LastSeq]
    /\ outbox \subseteq 1..LastSeq
    /\ acked \in 0..LastSeq
    /\ manifest \in Manifests /\ manifest.through <= LastSeq
    /\ overrides \in [Entities -> 0..LastSeq]
    /\ chunks \in Seq(SUBSET (1..LastSeq))
    /\ lastId \in Nat

\* Retention: the outbox holds exactly the changes after the acknowledged
\* sequence, so a worker that dies at any point can resend each of them.
OutboxRetainsUnacknowledged == outbox = acked+1..LastSeq

\* Snapshot consistency (ADR 0004: "a transactionally consistent full raw
\* view as of that high-water mark"): whatever was captured while the chunks
\* were being built, a ready snapshot holds exactly the rows as of through_seq.
Content == UNION {chunks[i] : i \in 1..Len(chunks)}
SnapshotIsAsOf == manifest.state = "ready" => Content = AsOf(manifest.through)

\* No record is sent twice and entities precede coverage: what the Brain's
\* staging tables reject (a duplicate entity, a kind out of order).
ChunksDisjointAndOrdered ==
    \A i, j \in 1..Len(chunks) : i < j =>
        \A s \in chunks[i], t \in chunks[j] :
            /\ ~SameRow(log[s], log[t])
            /\ s # t
            /\ log[s].kind = "coverage" => log[t].kind = "coverage"

\* The store as the Brain will read it, chunk by chunk, with its types.
SnapshotIsCut == OutboxTypeOK /\ ChunksDisjointAndOrdered

\* Termination of prepareSnapshot's loop: with finitely many changes captured
\* while it runs, a snapshot being built becomes ready, wherever the captures
\* land relative to the scan cursor.
SnapshotGetsReady == manifest.state = "building" ~> manifest.state = "ready"
=============================================================================
