----------------------------- MODULE BrainStream -----------------------------
(***************************************************************************)
(* The Brain's canonical side of one Agent stream                          *)
(* (app/persistence/history.py): the source checkpoint, the staged         *)
(* snapshot uploads and the canonical rows they merge into.  Every         *)
(* operation is one BEGIN IMMEDIATE transaction, so each is one action and *)
(* a Brain that dies between operations loses nothing this module keeps.   *)
(*                                                                         *)
(* Data.  The content of an entity is named by the source_seq of the       *)
(* change that wrote it and "newer" (updated_at, or the tombstone that     *)
(* nothing revives) is a larger source_seq.  A snapshot record is          *)
(* [seq, change].  Of coverage evidence only generation.started is kept:   *)
(* the one variant the Brain refuses unless the consent revision it        *)
(* carries is the one applied now (0: history is paused or revoked).       *)
(***************************************************************************)
EXTENDS IngestData, Integers, Sequences, FiniteSets

CONSTANT UploadIds      \* snapshot ids an Agent can use

VARIABLES
    checkpoint,  \* ingest_checkpoints.committed_source_seq, None before the first commit
    canon,       \* content of each canonical entity, 0 for none
    evidence,    \* coverage changes applied
    events,      \* raw_ingest_events: changes recorded as deltas
    uploads,     \* snapshot_uploads and the chunks received for each
    work,        \* projection_work, one item per canonical_revision
    consent      \* the applied consent revision, 0 for none

streamVars == <<checkpoint, canon, evidence, events, uploads, work, consent>>

None == -1
Committed == IF checkpoint = None THEN 0 ELSE checkpoint    \* checkpoint or 0
CanonicalRevision == Len(work)

NoUpload == [state |-> "absent", start |-> None, through |-> 0, count |-> 0,
             records |-> 0, chunks |-> <<>>]

Staging == {u \in UploadIds : uploads[u].state = "staging"}
Staged(u) == UNION {uploads[u].chunks[i] : i \in 1..Len(uploads[u].chunks)}

StreamInit ==
    /\ checkpoint = None
    /\ canon = [k \in Entities |-> 0]
    /\ evidence = {}
    /\ events = {}
    /\ uploads = [u \in UploadIds |-> NoUpload]
    /\ work = <<>>
    /\ consent \in Grants \cup {0}

Refused(r) ==    \* _apply_coverage raises InvariantViolation
    r.change.kind = "coverage" /\ r.seq \notin evidence /\ r.change.grant # consent

(***************************************************************************)
(* Merging records into the canonical rows: of an entity the newer         *)
(* content, of coverage what was not applied before.  A change of either   *)
(* allocates the next canonical_revision and one projection_work item.     *)
(***************************************************************************)
Newer(recs, k) ==
    {r.seq : r \in {x \in recs : x.change = EntityChange(k) /\ x.seq > canon[k]}}

MergedCanon(recs) ==
    [k \in Entities |-> IF Newer(recs, k) = {} THEN canon[k]
                        ELSE CHOOSE s \in Newer(recs, k) : TRUE]

MergedEvidence(recs) == evidence \cup {r.seq : r \in {x \in recs : x.change.kind = "coverage"}}

Merge(recs, kind) ==
    /\ canon' = MergedCanon(recs)
    /\ evidence' = MergedEvidence(recs)
    /\ work' = IF canon' # canon \/ evidence' # evidence THEN Append(work, kind) ELSE work

WorkKind(change) == IF change.kind = "coverage" THEN "coverage" ELSE "entity"

(***************************************************************************)
(* commit_delta.  The outcome is what the handler answers with; only       *)
(* "accepted" changes state.  The event_id of a change never changes       *)
(* between sends (the outbox stores it), so it is the source_seq here.     *)
(***************************************************************************)
\* Mutant: a change after a gap is accepted.
DeltaOutcomeWithGaps(r) ==
    IF checkpoint = None THEN "gap"
    ELSE IF r.seq \in events \/ r.seq <= checkpoint THEN "duplicate"
    ELSE IF Refused(r) THEN "invariant" ELSE "accepted"

DeltaOutcome(r) ==
    IF checkpoint = None THEN "gap"
    ELSE IF r.seq \in events \/ r.seq <= checkpoint THEN "duplicate"
    ELSE IF r.seq # checkpoint + 1 THEN "gap"
    ELSE IF Refused(r) THEN "invariant" ELSE "accepted"

CommitDelta(r) ==
    IF DeltaOutcome(r) = "accepted"
    THEN /\ Merge({r}, WorkKind(r.change))
         /\ events' = events \cup {r.seq}
         /\ checkpoint' = r.seq
         /\ UNCHANGED <<uploads, consent>>
    ELSE UNCHANGED streamVars

(***************************************************************************)
(* begin_snapshot, with the metadata of the manifest.                      *)
(***************************************************************************)
SameBegin(u, through, count, records) ==
    uploads[u].through = through /\ uploads[u].count = count /\ uploads[u].records = records

BeginOutcome(u, through, count, records) ==
    IF uploads[u].state # "absent"
    THEN IF SameBegin(u, through, count, records) THEN "duplicate" ELSE "rejected"
    ELSE IF Staging # {} THEN "rejected" ELSE "accepted"

BeginSnapshot(u, through, count, records) ==
    IF BeginOutcome(u, through, count, records) = "accepted"
    THEN /\ uploads' = [uploads EXCEPT ![u] =
                          [state |-> "staging", start |-> checkpoint, through |-> through,
                           count |-> count, records |-> records, chunks |-> <<>>]]
         /\ UNCHANGED <<checkpoint, canon, evidence, events, work, consent>>
    ELSE UNCHANGED streamVars

(***************************************************************************)
(* add_snapshot_chunk.  Chunks are indexed from 0; next_chunk_index is the *)
(* number received.  A chunk's records are of one kind.                    *)
(***************************************************************************)
IsCoverage(recs) == \E r \in recs : r.change.kind = "coverage"

Repeats(u, recs) ==     \* the staging tables' unique keys
    \E r \in recs, s \in Staged(u) : r = s \/ SameRow(r.change, s.change)

LastIsCoverage(u) ==
    uploads[u].chunks # <<>> /\ IsCoverage(uploads[u].chunks[Len(uploads[u].chunks)])

Received(u) == Len(uploads[u].chunks)      \* next_chunk_index

ChunkOutcome(u, index, recs) ==
    IF uploads[u].state = "absent" THEN "rejected"
    ELSE IF index < Received(u)
         THEN IF uploads[u].chunks[index+1] = recs THEN "duplicate" ELSE "rejected"
    ELSE IF uploads[u].state = "committed" THEN "rejected"
    ELSE IF index # Received(u) \/ index >= uploads[u].count THEN "gap"
    ELSE IF LastIsCoverage(u) /\ ~IsCoverage(recs) THEN "rejected"
    ELSE IF Repeats(u, recs) THEN "invariant" ELSE "accepted"

AddSnapshotChunk(u, index, recs) ==
    IF ChunkOutcome(u, index, recs) = "accepted"
    THEN /\ uploads' = [uploads EXCEPT ![u].chunks = Append(@, recs)]
         /\ UNCHANGED <<checkpoint, canon, evidence, events, work, consent>>
    ELSE UNCHANGED streamVars

(***************************************************************************)
(* commit_snapshot: the staged rows are merged, the checkpoint jumps to    *)
(* through_seq, the upload is committed and its staged rows are deleted    *)
(* (the chunks kept here stand for the fingerprints that remain).          *)
(***************************************************************************)
Complete(u) ==
    Received(u) = uploads[u].count /\ Cardinality(Staged(u)) = uploads[u].records

CommitOutcome(u, count) ==
    IF uploads[u].state = "absent" \/ count # uploads[u].count THEN "rejected"
    ELSE IF uploads[u].state = "committed" THEN "duplicate"
    ELSE IF \/ checkpoint # uploads[u].start
            \/ ~Complete(u)
            \/ uploads[u].through < Committed
    THEN "rejected"
    ELSE IF \E r \in Staged(u) : Refused(r) THEN "invariant" ELSE "accepted"

CommitSnapshot(u, count) ==
    IF CommitOutcome(u, count) = "accepted"
    THEN /\ Merge(Staged(u), "reseed")
         /\ checkpoint' = uploads[u].through
         /\ uploads' = [uploads EXCEPT ![u].state = "committed"]
         /\ UNCHANGED <<events, consent>>
    ELSE UNCHANGED streamVars

(***************************************************************************)
(* The creator grants, pauses or revokes history consent and the Agent     *)
(* applies the configuration that says so (module HistorySettings).        *)
(***************************************************************************)
ChangeConsent(g) ==
    /\ g # consent
    /\ consent' = g
    /\ UNCHANGED <<checkpoint, canon, evidence, events, uploads, work>>

-----------------------------------------------------------------------------
StreamRecord == [seq : Nat \ {0}, change : Change]

StreamTypeOK ==
    /\ checkpoint \in Nat \cup {None}
    /\ canon \in [Entities -> Nat]
    /\ evidence \subseteq Nat
    /\ events \subseteq Nat
    /\ uploads \in [UploadIds ->
                      [state : {"absent", "staging", "committed"}, start : Nat \cup {None},
                       through : Nat, count : Nat, records : Nat,
                       chunks : Seq(SUBSET StreamRecord)]]
    /\ work \in Seq({"entity", "coverage", "reseed"})
    /\ consent \in Grants \cup {0}
=============================================================================
