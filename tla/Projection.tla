------------------------------- MODULE Projection -------------------------------
(***************************************************************************)
(* The read model of one account: the durable projection work that commits *)
(* leave in canonical.sqlite3, the worker that replays it into one of two  *)
(* slots of projections.sqlite3 and activates the generation it built      *)
(* (ProjectionRepository in app/persistence/history.py), its scheduling    *)
(* (app/transport/manager.py), a Bridge and a reader of message pages.     *)
(*                                                                         *)
(* The two files have no common transaction, so each transaction is an     *)
(* action.  A projected conversation is the pair of revisions that wrote   *)
(* its entities and its coverage; 0 for never.                             *)
(***************************************************************************)
EXTENDS Naturals, Sequences, FiniteSets, FiniteSetsExt

CONSTANTS
    Convs,          \* conversations
    MaxRevisions,   \* bound: canonical revisions
    MaxFaults       \* bound: restarts, failures and lost acknowledgements

ASSUME ConvsAssumption == Convs \subseteq Nat \ {0}
ASSUME ProjectionBoundsAssumption == MaxRevisions \in Nat /\ MaxFaults \in Nat

VARIABLES
    history,        \* the canonical rows after each canonical_revision
    work,           \* projection_work, one item per canonical_revision
    completed,      \* items up to this revision have completed_at
    view,           \* account_heads.view_revision
    intents,        \* projection_activation_intents by target revision
    slots,          \* projection_accounts and the rows of each slot
    gens,           \* generation ids made so far
    worker,         \* the account's projection task
    scheduled,      \* it is among _projection_pending_accounts
    acking,         \* the acknowledgement of a commit is being sent
    bridge,         \* "none", "bound" or, once it has its first snapshot, "live"
    shown,          \* projected_revision of the last state.snapshot it got
    page,           \* the message page being read
    faults,
    dropped         \* history: work was left without a task to do it

canonicalVars == <<history, work, completed, view, intents>>
projectionVars == <<slots, gens>>
taskVars == <<worker, scheduled, dropped>>
readerVars == <<bridge, shown, page>>
vars == <<canonicalVars, projectionVars, taskVars, acking, readerVars, faults>>

Rows == [Convs -> [ent : Nat, cov : Nat]]
NoRows == [c \in Convs |-> [ent |-> 0, cov |-> 0]]
Canonical(r) == IF r = 0 THEN NoRows ELSE history[r]
Revision == Len(history)                  \* account_heads.canonical_revision

NoIntent == [state |-> "none", gen |-> 0, view |-> 0]
NoSlot == [gen |-> 0, projected |-> 0, read |-> 0, rows |-> NoRows]
NoPage == [phase |-> "none", auth |-> 0, gen |-> 0, projected |-> 0, read |-> 0, rows |-> NoRows]
Idle == [phase |-> "idle", target |-> 0, slot |-> 0]

ProjectionInit ==
    /\ history = <<>> /\ work = <<>> /\ completed = 0 /\ view = 0
    /\ intents = [r \in 1..MaxRevisions |-> NoIntent]
    /\ slots = [i \in 0..1 |-> NoSlot] /\ gens = 0
    /\ worker = Idle /\ scheduled = FALSE /\ dropped = FALSE
    /\ acking = FALSE
    /\ bridge = "none" /\ shown = 0 /\ page = NoPage
    /\ faults = 0

-----------------------------------------------------------------------------
(***************************************************************************)
(* Ingestion.  A commit that changes something gets the next revision and  *)
(* a work item: an entity or coverage change of one conversation, coverage *)
(* of all of them, or a snapshot, whose item only says "reseed".  The      *)
(* Agent's connection handles its messages one after the other.            *)
(***************************************************************************)
Written(rows, cs, ent, cov) ==
    [c \in Convs |-> IF c \in cs
                     THEN [ent |-> IF ent THEN Revision + 1 ELSE rows[c].ent,
                           cov |-> IF cov THEN Revision + 1 ELSE rows[c].cov]
                     ELSE rows[c]]

\* convs are the conversations that the item names, or all for coverage
\* without a conversation_id.
Commit(kind, convs, cs) ==
    /\ Revision < MaxRevisions
    /\ ~acking
    /\ history' = Append(history, Written(Canonical(Revision), cs, kind # "coverage",
                                          kind # "entity"))
    /\ work' = Append(work, [kind |-> kind, convs |-> convs])
    /\ acking' = TRUE
    /\ UNCHANGED <<completed, view, intents, projectionVars, taskVars, readerVars, faults>>

CommitDelta ==
    \/ \E c \in Convs : Commit("entity", {c}, {c}) \/ Commit("coverage", {c}, {c})
    \/ Commit("coverage", Convs, Convs)

CommitSnapshot == \E cs \in SUBSET Convs \ {{}} : Commit("reseed", {}, cs)

\* schedule_projection: a task that is still running will look once more.
Schedule ==
    /\ scheduled' = TRUE
    /\ worker' = IF worker.phase = "idle" THEN [Idle EXCEPT !.phase = "start"] ELSE worker
    /\ dropped' = (dropped /\ completed = Revision)

AckSent ==
    /\ acking /\ acking' = FALSE
    /\ Schedule
    /\ UNCHANGED <<canonicalVars, projectionVars, readerVars, faults>>

Fault == faults < MaxFaults /\ faults' = faults + 1

AckFails ==     \* the send raises, and what follows it is skipped
    /\ acking /\ acking' = FALSE
    /\ Fault
    /\ dropped' = TRUE
    /\ UNCHANGED <<canonicalVars, projectionVars, worker, scheduled, readerVars>>

-----------------------------------------------------------------------------
(***************************************************************************)
(* What is visible: the generation that canonical SQLite activated for the *)
(* current view revision, if a slot holds it.                              *)
(***************************************************************************)
Activated == {r \in 1..MaxRevisions : intents[r].state = "activated" /\ intents[r].view = view}

\* _projection_authority.
Authority == IF Activated = {} THEN 0 ELSE intents[Max(Activated)].gen

\* Mutant: the newest slot is read, activated or not.
ReadableNewest(gen) ==
    {i \in 0..1 : slots[i].gen # 0 /\ \A j \in 0..1 : slots[j].gen <= slots[i].gen}

\* _readable_projection_account.
Readable(gen) == {i \in 0..1 : gen # 0 /\ slots[i].gen = gen}

VisibleRevision ==      \* projected_revision of snapshot()
    IF Readable(Authority) = {} THEN 0
    ELSE slots[CHOOSE i \in Readable(Authority) : TRUE].projected

(***************************************************************************)
(* catch_up.  It first reads both files; the canonical read transaction    *)
(* stays open until the generation is built, so what is projected are the  *)
(* canonical rows after the last item of work.                             *)
(***************************************************************************)
Target == IF completed < Len(work) THEN Len(work) ELSE 0
PendingIntents == {r \in 1..MaxRevisions : intents[r].state = "pending"}
RecoveryTarget == IF Target # 0 THEN Target
                  ELSE IF PendingIntents # {} THEN Max(PendingIntents) ELSE 0

Active == {i \in Readable(Authority) : slots[i].read = view}

\* A generation that was committed and, because the process died, not
\* activated: it is looked for among the slots that reached the target.
Committed ==
    {i \in 0..1 : /\ RecoveryTarget # 0 /\ slots[i].gen # 0
                  /\ slots[i].projected >= RecoveryTarget /\ slots[i].read >= view}

Newest(S) ==
    CHOOSE i \in S : \A j \in S :
        \/ slots[j].projected < slots[i].projected
        \/ slots[j].projected = slots[i].projected /\ slots[j].read <= slots[i].read

Recovers ==
    /\ Committed # {}
    /\ \/ slots[Newest(Committed)].read > view
       \/ \E a \in Active : slots[a].projected >= RecoveryTarget

Furthest(S) ==
    CHOOSE i \in S : \A j \in S :
        \/ slots[j].projected < slots[i].projected
        \/ slots[j].projected = slots[i].projected /\ i <= j

BuildSlot ==
    LET used == {i \in 0..1 : slots[i].gen # 0}
    IN  IF Active # {} THEN 1 - (CHOOSE i \in Active : TRUE)
        ELSE IF used # {} THEN Furthest(used)
        ELSE 0

\* _ensure_activation_intent: INSERT OR IGNORE.
EnsuredIntents(r) ==
    [intents EXCEPT ![r] = IF @ = NoIntent THEN [@ EXCEPT !.state = "pending"] ELSE @]

CatchUp ==
    /\ worker.phase = "start"
    /\ scheduled' = FALSE
    /\ CASE Recovers ->
              /\ worker' = [worker EXCEPT !.phase = "built", !.slot = Newest(Committed)]
              /\ UNCHANGED intents
         [] ~Recovers /\ Target = 0 ->
              /\ worker' = [worker EXCEPT !.phase = "none"]
              /\ UNCHANGED intents
         [] ~Recovers /\ Target # 0 ->
              /\ worker' = [worker EXCEPT !.phase = "build", !.target = Target,
                                          !.slot = BuildSlot]
              /\ intents' = EnsuredIntents(Target)
    /\ UNCHANGED <<history, work, completed, view>>
    /\ UNCHANGED <<projectionVars, dropped, acking, readerVars, faults>>

\* The slot that is built starts from its own rows or, if it has none, from a
\* copy of the active one.
Base(i) == IF slots[i].gen = 0 /\ Active # {} THEN slots[CHOOSE a \in Active : TRUE] ELSE slots[i]

\* Mutant: only the work that is not completed is replayed.
ReplayedPending(i, target) == completed+1..target

\* Work is replayed from the revision the slot itself has reached.
Replayed(i, target) == Base(i).projected+1..target

FullReseed(i, target) ==
    Base(i).gen = 0 \/ \E r \in Replayed(i, target) : work[r].kind = "reseed"

Rebuilds(r, c) == work[r].kind = "entity" /\ c \in work[r].convs

\* _process_conversation_ids: of a conversation with entity work all is
\* projected anew, of one that is only refreshed its summary's coverage.
Projected(i, target) ==
    LET old == Base(i).rows
        new == Canonical(target)
        R == Replayed(i, target)
    IN  IF FullReseed(i, target) THEN new
        ELSE [c \in Convs |->
                IF \E r \in R : Rebuilds(r, c) THEN new[c]
                ELSE IF \E r \in R : c \in work[r].convs THEN [old[c] EXCEPT !.cov = new[c].cov]
                ELSE old[c]]

\* Mutant: the slots count their view revisions on their own.
NextViewOfSlot(i) == slots[i].read + 1

NextView(i) == view + 1

\* The projection transaction.
BuildGeneration ==
    /\ worker.phase = "build"
    /\ gens' = gens + 1
    /\ slots' = [slots EXCEPT ![worker.slot] =
                   [gen |-> gens', projected |-> worker.target, read |-> NextView(worker.slot),
                    rows |-> Projected(worker.slot, worker.target)]]
    /\ worker' = [worker EXCEPT !.phase = "built"]
    /\ UNCHANGED <<canonicalVars, scheduled, dropped, acking, readerVars, faults>>

\* _activate_committed_projection.  It raises for a generation that would make
\* the view regress.
Activate ==
    /\ worker.phase = "built"
    /\ LET s == slots[worker.slot] IN
       /\ view <= s.read
       /\ view' = s.read
       /\ completed' = IF s.projected > completed THEN s.projected ELSE completed
       /\ intents' = [r \in 1..MaxRevisions |->
                        IF r = s.projected
                        THEN [state |-> "activated", gen |-> s.gen, view |-> s.read]
                        ELSE IF r < s.projected /\ intents[r].state = "pending"
                             THEN [intents[r] EXCEPT !.state = "superseded"]
                             ELSE intents[r]]
    /\ worker' = [Idle EXCEPT !.phase = "done"]
    /\ UNCHANGED <<history, work, projectionVars, scheduled, dropped, acking, readerVars, faults>>

\* The snapshot that catch_up returns goes to the bound Bridges.
Broadcast ==
    /\ worker.phase = "done"
    /\ shown' = IF bridge = "none" THEN shown ELSE VisibleRevision
    /\ worker' = [Idle EXCEPT !.phase = "start"]
    /\ UNCHANGED <<canonicalVars, projectionVars, scheduled, dropped, acking, bridge, page, faults>>

\* Mutant: a task that found nothing ends.
LooksAgainNever == FALSE

\* There was nothing to do when catch_up looked; there may be since.
LooksAgain == scheduled

WorkerReturns ==
    /\ worker.phase = "none"
    /\ worker' = [Idle EXCEPT !.phase = IF LooksAgain THEN "start" ELSE "idle"]
    /\ scheduled' = (LooksAgain /\ scheduled)
    /\ UNCHANGED <<canonicalVars, projectionVars, dropped, acking, readerVars, faults>>

WorkerStep == CatchUp \/ BuildGeneration \/ Activate \/ Broadcast \/ WorkerReturns

\* An exception ends the task; its callback forgets what was scheduled.
WorkerFails ==
    /\ worker.phase \in {"start", "build", "built", "done"}
    /\ Fault
    /\ worker' = Idle /\ scheduled' = FALSE /\ dropped' = TRUE
    /\ UNCHANGED <<canonicalVars, projectionVars, acking, readerVars>>

-----------------------------------------------------------------------------
(***************************************************************************)
(* A Bridge binds: it is registered for broadcasts, gets its snapshot      *)
(* after an await, and then a projection is scheduled.                     *)
(***************************************************************************)
BindBridge ==
    /\ bridge = "none"
    /\ bridge' = "bound"
    /\ UNCHANGED <<canonicalVars, projectionVars, taskVars, acking, shown, page, faults>>

SendSnapshot ==
    /\ bridge = "bound"
    /\ bridge' = "live" /\ shown' = VisibleRevision
    /\ Schedule
    /\ UNCHANGED <<canonicalVars, projectionVars, acking, page, faults>>

DisconnectBridge ==
    /\ bridge # "none"
    /\ bridge' = "none" /\ shown' = 0
    /\ UNCHANGED <<canonicalVars, projectionVars, taskVars, acking, page, faults>>

(***************************************************************************)
(* get_message_page runs in a thread of its own: the authority is read     *)
(* from one file, the rows from the other, and then both once more to see  *)
(* that the revision is still the one shown.                               *)
(***************************************************************************)
ReadAuthority ==
    /\ page.phase = "none"
    /\ page' = [NoPage EXCEPT !.phase = "authority", !.auth = Authority]
    /\ UNCHANGED <<canonicalVars, projectionVars, taskVars, acking, bridge, shown, faults>>

ReadRows ==
    /\ page.phase = "authority"
    /\ IF Readable(page.auth) = {}
       THEN page' = NoPage                   \* 503, projection_unavailable
       ELSE LET s == slots[CHOOSE i \in Readable(page.auth) : TRUE]
            IN  page' = [phase |-> "rows", auth |-> 0, gen |-> s.gen, read |-> s.read,
                         projected |-> s.projected, rows |-> s.rows]
    /\ UNCHANGED <<canonicalVars, projectionVars, taskVars, acking, bridge, shown, faults>>

\* Otherwise it is 409, cursor_stale.
Serves == page.phase = "rows" /\ VisibleRevision = page.projected

EndPage ==
    /\ page.phase = "rows"
    /\ page' = NoPage
    /\ UNCHANGED <<canonicalVars, projectionVars, taskVars, acking, bridge, shown, faults>>

-----------------------------------------------------------------------------
(***************************************************************************)
(* The Brain dies and starts again; accounts with work or with an intent   *)
(* that is pending are scheduled.  ProjectionLost: create() finds no       *)
(* projections.sqlite3, or one it cannot read, and starts with an empty    *)
(* one.                                                                    *)
(***************************************************************************)
Restart ==
    /\ Fault
    /\ worker' = IF Target # 0 \/ PendingIntents # {}
                 THEN [Idle EXCEPT !.phase = "start"] ELSE Idle
    /\ scheduled' = (worker'.phase = "start")
    /\ acking' = FALSE
    /\ bridge' = "none" /\ shown' = 0 /\ page' = NoPage
    /\ UNCHANGED <<canonicalVars, gens>>

BrainRestart == Restart /\ dropped' = FALSE /\ UNCHANGED slots

\* What was completed is not work any more, so nothing is scheduled for it.
ProjectionLost ==
    /\ Restart
    /\ slots' = [i \in 0..1 |-> NoSlot]
    /\ dropped' = (completed = Revision)

ProjectionNext ==
    \/ CommitDelta \/ CommitSnapshot \/ AckSent \/ AckFails
    \/ CatchUp \/ BuildGeneration \/ Activate \/ Broadcast \/ WorkerReturns \/ WorkerFails
    \/ BindBridge \/ SendSnapshot \/ DisconnectBridge
    \/ ReadAuthority \/ ReadRows \/ EndPage
    \/ BrainRestart \/ ProjectionLost

ProjectionSpec == ProjectionInit /\ [][ProjectionNext]_vars

(***************************************************************************)
(* Fairness: the task's thread and the event loop run.                     *)
(***************************************************************************)
FairProjectionSpec ==
    /\ ProjectionSpec
    /\ WF_vars(WorkerStep) /\ WF_vars(AckSent) /\ WF_vars(SendSnapshot)

-----------------------------------------------------------------------------
Intent == [state : {"none", "pending", "activated", "superseded"}, gen : 0..gens, view : Nat]
Slot == [gen : 0..gens, projected : 0..Revision, read : Nat, rows : Rows]

ProjectionTypeOK ==
    /\ history \in Seq(Rows) /\ Revision = Len(work) /\ completed \in 0..Revision
    /\ work \in Seq([kind : {"entity", "coverage", "reseed"}, convs : SUBSET Convs])
    /\ view \in 0..gens
    /\ intents \in [1..MaxRevisions -> Intent]
    /\ slots \in [0..1 -> Slot] /\ gens \in Nat
    /\ worker.phase \in {"idle", "start", "build", "built", "done", "none"}
    /\ worker.slot \in 0..1 /\ worker.target \in 0..Revision
    /\ scheduled \in BOOLEAN /\ dropped \in BOOLEAN /\ acking \in BOOLEAN
    /\ bridge \in {"none", "bound", "live"} /\ shown \in 0..Revision
    /\ page.phase \in {"none", "authority", "rows"} /\ page.rows \in Rows
    /\ faults \in 0..MaxFaults

\* ADR 0010: the second slot is copied once, then "catches up from its own
\* projected revision, and is fully rebuilt only when a reseed intervenes".
\* However the two slots took turns, through failures and restarts, each holds
\* the canonical rows as of the revision it claims.
SlotsAreExact ==
    \A i \in 0..1 : slots[i].gen # 0 => slots[i].rows = Canonical(slots[i].projected)

\* "Committing the building slot does not expose it" (ADR 0010): a page that is
\* served was read from a generation that was activated, and is the canonical
\* rows of the revision it names, though it is read while slots are rebuilt.
PagesAreOfActivated ==
    Serves =>
        /\ page.rows = Canonical(page.projected)
        /\ \E r \in 1..MaxRevisions :
              /\ intents[r].state = "activated"
              /\ intents[r].gen = page.gen /\ intents[r].view = page.read

\* What a Bridge or a page reads was activated, with the types of all that is kept.
ReadersSeeActivated == ProjectionTypeOK /\ PagesAreOfActivated

\* "Monotonically advancing Bridge revisions" (ADR 0009): what is visible changes
\* only with a larger view revision, and never goes back to an earlier canonical
\* revision while the projection file is kept.
VisibleAdvances ==
    [][/\ view' >= view
       /\ Authority # Authority' => view' > view
       /\ VisibleRevision' < VisibleRevision => ProjectionLost]_vars

\* Whatever is committed while the task runs, between its last look and its end
\* or while a Bridge binds, a Bridge that stays bound is shown the latest
\* revision in the end, unless the task for it was lost to a failure.
RevisionsReachBridge == []<>(shown = Revision \/ bridge = "none" \/ dropped)

\* ADR 0009, "Confirmation": "Deleting `projections.sqlite3` rebuilds every read
\* model from canonical data".  Once an account has been projected and the file
\* is lost, it is readable again in the end.  The code does not keep this when all
\* work is marked done (README, Disagreements).
DeletedIsRebuilt ==
    completed > 0 /\ (\A i \in 0..1 : slots[i] = NoSlot) ~> Readable(Authority) # {}
=============================================================================
