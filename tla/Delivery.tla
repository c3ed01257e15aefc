-------------------------------- MODULE Delivery --------------------------------
(***************************************************************************)
(* Ingestion end to end: the Agent's worker and its WebSocket              *)
(* (extension/transport/agent-websocket.mjs) between the durable store of  *)
(* AgentOutbox and the Brain's socket handler (endpoints/transport_ws.py,  *)
(* transport/manager.py) over the stream of BrainStream.                   *)
(*                                                                         *)
(* Connections are numbered in the order they are opened.  Frames sent on  *)
(* a connection stay in up[c] until the Brain reads them or notices that   *)
(* the connection is closed, so frames of a dead connection can be read    *)
(* after those of a newer one.  The Agent listens to its current socket    *)
(* only.  A restarted Brain is Disconnect followed by NoticeClose.         *)
(***************************************************************************)
EXTENDS AgentOutbox, BrainStream

CONSTANTS
    MaxConns,      \* bound: connections opened
    MaxFaults,     \* bound: faults strike until connection MaxFaults+1 is opened
    MaxTasks,      \* bound: handleSyncRequired calls in progress
    MaxAcks        \* bound: acknowledgements that wait for the store

ASSUME UploadIdsAssumption == UploadIds = 1..MaxSnapshots
ASSUME DeliveryBoundsAssumption ==
    MaxConns \in Nat /\ MaxFaults \in Nat /\ MaxTasks \in Nat \ {0} /\ MaxAcks \in Nat

VARIABLES
    conn,          \* the Agent's socket, 0 for none
    session,       \* whether agent.session was accepted on it
    syncRequired,
    lastAck,       \* identity.lastAcknowledgedSourceSeq
    sent,          \* sentSourceSeqs
    flushing,      \* flushOutbox has passed its first check
    tasks,         \* handleSyncRequired calls in progress, oldest first
    sending,       \* argument of the sendNextSnapshotFrame in progress, or None
    acks,          \* what awaits the store's acknowledge, oldest first
    conns,         \* connections opened so far
    up,            \* frames on their way to the Brain, by connection
    down,          \* frames on their way to the Agent's current socket
    fence          \* the connection of the active lease, 0 for none

workerVars == <<conn, session, syncRequired, lastAck, sent, flushing, tasks, sending, acks>>
wireVars == <<conns, up, down>>
deliveryVars == <<outboxVars, streamVars, workerVars, wireVars, fence>>

-----------------------------------------------------------------------------
\* Frames.
Hello == [type |-> "hello", lastAck |-> lastAck]
AsRecord(s) == [seq |-> s, change |-> log[s]]
DeltaFrame(s) == [type |-> "delta", record |-> AsRecord(s)]
BeginFrame == [type |-> "begin", id |-> manifest.id, through |-> manifest.through,
               count |-> Len(chunks), records |-> Cardinality(Content)]
ChunkRecords(i) == {AsRecord(s) : s \in chunks[i+1]}
ChunkFrame(i) == [type |-> "chunk", id |-> manifest.id, index |-> i,
                  records |-> ChunkRecords(i)]
CommitFrame == [type |-> "commit", id |-> manifest.id, count |-> Len(chunks)]

\* sendBound: nothing is sent without a session.
SendSnapshot(frame) == up' = IF session THEN [up EXCEPT ![conn] = Append(@, frame)] ELSE up

DeltaAck(n) == [type |-> "ack", committed |-> n, id |-> 0, next |-> 0, done |-> FALSE]
SnapshotAck(n, u, next, done) ==
    [type |-> "ack", committed |-> n, id |-> u, next |-> next, done |-> done]
Rejected(code, retryable) == [type |-> "rejected", code |-> code, retryable |-> retryable]

Reply(c, frame) == down' = IF c = conn THEN Append(down, frame) ELSE down

DeliveryInit ==
    /\ OutboxInit
    /\ StreamInit
    /\ conn = 0 /\ session = FALSE /\ syncRequired = FALSE /\ lastAck = 0
    /\ sent = {} /\ flushing = FALSE /\ tasks = <<>> /\ sending = None /\ acks = <<>>
    /\ conns = 0 /\ up = [c \in 1..MaxConns |-> <<>>] /\ down = <<>>
    /\ fence = 0

-----------------------------------------------------------------------------
(***************************************************************************)
(* The Agent's worker.                                                     *)
(***************************************************************************)
\* captureDelta and captureMessageWithParent: the change is durable, then
\* flushOutbox is called.
CaptureAndFlush ==
    /\ Capture
    /\ flushing' = (flushing \/ (session /\ ~syncRequired))
    /\ UNCHANGED <<conn, session, syncRequired, lastAck, sent, tasks, sending, acks>>
    /\ UNCHANGED <<streamVars, wireVars, fence>>

\* flushOutbox: a page of the outbox is read and, if there is a session that
\* needs no snapshot by then, what was not sent on it is sent in order, without
\* an await in between.
Unsent == {s \in outbox : s > lastAck /\ s \notin sent}
InOrder(S) ==
    [i \in 1..Cardinality(S) |-> CHOOSE s \in S : Cardinality({t \in S : t <= s}) = i]

FlushOutbox ==
    /\ flushing
    /\ flushing' = FALSE
    /\ IF session /\ ~syncRequired
       THEN /\ sent' = sent \cup Unsent
            /\ up' = [up EXCEPT ![conn] = @ \o [i \in 1..Cardinality(Unsent) |->
                                               DeltaFrame(InOrder(Unsent)[i])]]
       ELSE UNCHANGED <<sent, up>>
    /\ UNCHANGED <<conn, session, syncRequired, lastAck, tasks, sending, acks>>
    /\ UNCHANGED <<outboxVars, streamVars, conns, down, fence>>

Connect ==     \* openSocket, and agent.hello once it is open
    /\ conn = 0
    /\ conns < MaxConns
    /\ conns' = conns + 1
    /\ conn' = conns'
    /\ up' = [up EXCEPT ![conns'] = <<Hello>>]
    /\ UNCHANGED <<session, syncRequired, lastAck, sent, flushing, tasks, sending, acks>>
    /\ UNCHANGED <<outboxVars, streamVars, down, fence>>

CloseSocket ==     \* handleClose
    /\ conn' = 0
    /\ session' = FALSE
    /\ down' = <<>>

\* A lost connection, as the Agent sees it.
Disconnect ==
    /\ conn # 0
    /\ conns <= MaxFaults
    /\ CloseSocket
    /\ UNCHANGED <<syncRequired, lastAck, sent, flushing, tasks, sending, acks>>
    /\ UNCHANGED <<outboxVars, streamVars, conns, up, fence>>

\* The MV3 worker is terminated: only AgentOutbox survives.
WorkerRestart ==
    /\ conns <= MaxFaults
    /\ CloseSocket
    /\ syncRequired' = FALSE
    /\ sent' = {}
    /\ flushing' = FALSE
    /\ tasks' = <<>>
    /\ sending' = None
    /\ acks' = <<>>
    /\ lastAck' = acked
    /\ UNCHANGED <<outboxVars, streamVars, conns, up, fence>>

-----------------------------------------------------------------------------
(***************************************************************************)
(* handleSyncRequired.  createSnapshot is queued before anything received  *)
(* later is, so it belongs to the receipt; then prepareSnapshot loops over *)
(* buildNextSnapshotChunk while other operations are queued between.       *)
(***************************************************************************)
CreateOrReuseSnapshot ==
    \/ CreateSnapshot
    \/ manifest.state # "none" /\ UNCHANGED outboxVars

HandleSyncRequired(pending, next) ==
    /\ Len(tasks) < MaxTasks
    /\ tasks' = Append(tasks, [pending |-> pending, next |-> next])
    /\ CreateOrReuseSnapshot

Finished(i) == tasks' = SubSeq(tasks, 1, i-1) \o SubSeq(tasks, i+1, Len(tasks))

\* sendNextSnapshotFrame is single-flight: a second call joins the first and
\* its argument is dropped.
StartSending(next) == sending' = IF sending = None THEN next ELSE sending

\* prepareSnapshot has returned.
Prepared == manifest.state = "ready"

TaskBuilds(i) ==
    /\ i <= Len(tasks)
    /\ BuildNextSnapshotChunk
    /\ UNCHANGED <<streamVars, workerVars, wireVars, fence>>

TaskSends(i) ==
    /\ i <= Len(tasks)
    /\ Prepared
    /\ Finished(i)
    /\ IF tasks[i].pending = manifest.id
       THEN StartSending(tasks[i].next) /\ UNCHANGED up
       ELSE SendSnapshot(BeginFrame) /\ UNCHANGED sending
    /\ UNCHANGED <<conn, session, syncRequired, lastAck, sent, flushing, acks>>
    /\ UNCHANGED <<outboxVars, streamVars, conns, down, fence>>

\* The snapshot was acknowledged while this call was waiting: it throws.
TaskFails(i) ==
    /\ i <= Len(tasks)
    /\ manifest.state = "none"
    /\ Finished(i)
    /\ UNCHANGED <<conn, session, syncRequired, lastAck, sent, flushing, sending, acks>>
    /\ UNCHANGED <<outboxVars, streamVars, wireVars, fence>>

\* The rest of sendNextSnapshotFrame.  It throws without a ready snapshot and
\* beyond the manifest.
SendNextSnapshotFrame ==
    /\ sending # None
    /\ sending' = None
    /\ CASE manifest.state # "ready" \/ sending > Len(chunks) -> UNCHANGED up
         [] manifest.state = "ready" /\ sending < Len(chunks) -> SendSnapshot(ChunkFrame(sending))
         [] manifest.state = "ready" /\ sending = Len(chunks) -> SendSnapshot(CommitFrame)
    /\ UNCHANGED <<conn, session, syncRequired, lastAck, sent, flushing, tasks, acks>>
    /\ UNCHANGED <<outboxVars, streamVars, conns, down, fence>>

-----------------------------------------------------------------------------
(***************************************************************************)
(* Frames the Agent receives.                                              *)
(***************************************************************************)
Receives(type) == conn # 0 /\ down # <<>> /\ Head(down).type = type

(* An acknowledgement and a session may release outbox and snapshot.  The    *)
(* store's operation is queued on receipt, before those of later frames;     *)
(* what follows it waits for it, while frames and sessions come and go.      *)
Waits(k) == Len(acks) < MaxAcks /\ acks' = Append(acks, k)

\* acceptSession, when it resumes: reconcileLocalSnapshot takes a committed
\* sequence that covers the local snapshot for its acknowledgement; if that throws
\* (the snapshot is still being built) the outbox is not flushed.
Reconcile(committed) ==
    LET covered == [id |-> manifest.id, committed |-> TRUE] IN
    IF manifest.state = "none" \/ committed < manifest.through
    THEN flushing' = TRUE /\ UNCHANGED <<acks, outboxVars>>
    ELSE /\ UNCHANGED flushing
         /\ IF Acknowledgeable(committed, covered)
            THEN /\ Acknowledge(committed, covered)
                 /\ Waits([committed |-> 0, done |-> TRUE, next |-> None])
            ELSE UNCHANGED <<acks, outboxVars>>

RecvSession ==
    /\ Receives("session")
    /\ session' = TRUE
    /\ sent' = {}
    /\ syncRequired' = ~Head(down).resume
    /\ IF Head(down).resume
       THEN Reconcile(Head(down).committed) /\ UNCHANGED tasks
       ELSE /\ HandleSyncRequired(Head(down).pending, Head(down).next)
            /\ UNCHANGED <<flushing, acks>>
    /\ down' = Tail(down)
    /\ UNCHANGED <<conn, lastAck, sending>>
    /\ UNCHANGED <<streamVars, conns, up, fence>>

RecvSyncRequired ==
    /\ Receives("sync")
    /\ syncRequired' = TRUE
    /\ HandleSyncRequired(Head(down).pending, Head(down).next)
    /\ down' = Tail(down)
    /\ UNCHANGED <<conn, session, lastAck, sent, flushing, sending, acks>>
    /\ UNCHANGED <<streamVars, conns, up, fence>>

\* Mutant: the acknowledgement of the commit is taken for that of a chunk.
AckProgressUncommitted(m) ==
    IF m.id = 0 THEN NoProgress ELSE [id |-> m.id, committed |-> FALSE]

AckProgress(m) == IF m.id = 0 THEN NoProgress ELSE [id |-> m.id, committed |-> m.done]

RecvAck ==
    /\ Receives("ack")
    /\ LET m == Head(down)
           p == AckProgress(m)
       IN  /\ Acknowledge(m.committed, p)
           /\ Waits([committed |-> m.committed, done |-> p.committed,
                     next |-> IF p = NoProgress \/ p.committed THEN None ELSE m.next])
    /\ down' = Tail(down)
    /\ UNCHANGED <<conn, session, syncRequired, lastAck, sent, flushing, tasks, sending>>
    /\ UNCHANGED <<streamVars, conns, up, fence>>

\* The store has answered: the rest of dispatch and of reconcileLocalSnapshot.
AckContinues ==
    /\ acks # <<>>
    /\ acks' = Tail(acks)
    /\ LET k == Head(acks)
       IN  /\ lastAck' = IF k.committed > lastAck THEN k.committed ELSE lastAck
           /\ sent' = {s \in sent : s > lastAck'}
           /\ syncRequired' = (syncRequired /\ ~k.done)
           /\ flushing' = (flushing \/ (k.done /\ session))
           /\ IF k.next # None THEN StartSending(k.next) ELSE UNCHANGED sending
    /\ UNCHANGED <<conn, session, tasks>>
    /\ UNCHANGED <<outboxVars, streamVars, wireVars, fence>>

RecvAckFails ==     \* acknowledge throws: the frame changes nothing
    /\ Receives("ack")
    /\ ~Acknowledgeable(Head(down).committed, AckProgress(Head(down)))
    /\ down' = Tail(down)
    /\ UNCHANGED <<outboxVars, streamVars, workerVars, conns, up, fence>>

RecvStaleFence ==     \* forceReconnect
    /\ Receives("rejected")
    /\ Head(down).code = "stale_fence"
    /\ CloseSocket
    /\ UNCHANGED <<syncRequired, lastAck, sent, flushing, tasks, sending, acks>>
    /\ UNCHANGED <<outboxVars, streamVars, conns, up, fence>>

RecvRejected ==
    /\ Receives("rejected")
    /\ Head(down).code # "stale_fence"
    /\ syncRequired' = (syncRequired \/ ~Head(down).retryable \/ Head(down).code = "gap")
    /\ IF Head(down).code = "gap"
       THEN HandleSyncRequired(0, 0)
       ELSE UNCHANGED tasks /\ UNCHANGED outboxVars
    /\ down' = Tail(down)
    /\ UNCHANGED <<conn, session, lastAck, sent, flushing, sending, acks>>
    /\ UNCHANGED <<streamVars, conns, up, fence>>

-----------------------------------------------------------------------------
(***************************************************************************)
(* The Brain's socket handler, one task per connection.                    *)
(***************************************************************************)
NextFrame(c, type) == up[c] # <<>> /\ Head(up[c]).type = type

\* bind_agent takes the lease from whoever holds it; the stream is read only
\* after the broadcast it awaits.
BindAgent(c) ==
    /\ NextFrame(c, "hello")
    /\ fence' = c
    /\ up' = [up EXCEPT ![c][1].type = "bound"]
    /\ UNCHANGED <<outboxVars, streamVars, workerVars, conns, down>>

PendingId == IF Staging = {} THEN 0 ELSE CHOOSE u \in Staging : TRUE
PendingNext == IF Staging = {} THEN 0 ELSE Received(PendingId)

ResumeAllowed(ack) == checkpoint # None /\ Staging = {} /\ ack <= checkpoint

OpenSession(c) ==
    /\ NextFrame(c, "bound")
    /\ LET resume == ResumeAllowed(Head(up[c]).lastAck)
           opened == [type |-> "session", resume |-> resume, committed |-> Committed,
                      pending |-> PendingId, next |-> PendingNext]
           sync == [type |-> "sync", pending |-> PendingId, next |-> PendingNext]
       IN  down' = IF c # conn THEN down
                   ELSE down \o IF resume THEN <<opened>> ELSE <<opened, sync>>
    /\ up' = [up EXCEPT ![c] = Tail(@)]
    /\ UNCHANGED <<outboxVars, streamVars, workerVars, conns, fence>>

IngestFrame(c) == up[c] # <<>> /\ Head(up[c]).type \in {"delta", "begin", "chunk", "commit"}
Consumed(c) == up' = [up EXCEPT ![c] = Tail(@)]

\* is_current_fence: a frame of a connection that lost the lease changes nothing.
RejectStale(c) ==
    /\ IngestFrame(c)
    /\ c # fence
    /\ Reply(c, Rejected("stale_fence", FALSE))
    /\ Consumed(c)
    /\ UNCHANGED <<outboxVars, streamVars, workerVars, conns, fence>>

\* Mutant: a refused change is acknowledged, that is skipped.
DeltaReplySkipping(c, r) ==
    Reply(c, CASE DeltaOutcome(r) = "gap" -> Rejected("gap", TRUE)
               [] DeltaOutcome(r) = "invariant" -> DeltaAck(r.seq)
               [] OTHER -> DeltaAck(checkpoint'))

DeltaReply(c, r) ==
    Reply(c, CASE DeltaOutcome(r) = "gap" -> Rejected("gap", TRUE)
               [] DeltaOutcome(r) = "invariant" -> Rejected("invariant", FALSE)
               [] OTHER -> DeltaAck(checkpoint'))

IngestDelta(c) ==
    /\ NextFrame(c, "delta") /\ c = fence
    /\ CommitDelta(Head(up[c]).record)
    /\ DeltaReply(c, Head(up[c]).record)
    /\ Consumed(c)
    /\ UNCHANGED <<outboxVars, workerVars, conns, fence>>

\* Mutant: a chunk is acknowledged as if the snapshot were committed.
SnapshotReplyEarly(c, u, outcome) ==
    Reply(c, CASE outcome = "gap" -> Rejected("gap", TRUE)
               [] outcome \in {"rejected", "invariant"} -> Rejected("invariant", FALSE)
               [] OTHER -> SnapshotAck(uploads'[u].through, u, Len(uploads'[u].chunks),
                                       uploads'[u].state = "committed"))

SnapshotReply(c, u, outcome) ==
    Reply(c, CASE outcome = "gap" -> Rejected("gap", TRUE)
               [] outcome \in {"rejected", "invariant"} -> Rejected("invariant", FALSE)
               [] OTHER -> SnapshotAck(IF checkpoint' = None THEN 0 ELSE checkpoint', u,
                                       Len(uploads'[u].chunks),
                                       uploads'[u].state = "committed"))

IngestSnapshot(c) ==
    /\ c = fence
    /\ LET f == Head(up[c]) IN
       \/ /\ NextFrame(c, "begin")
          /\ BeginSnapshot(f.id, f.through, f.count, f.records)
          /\ SnapshotReply(c, f.id, BeginOutcome(f.id, f.through, f.count, f.records))
       \/ /\ NextFrame(c, "chunk")
          /\ AddSnapshotChunk(f.id, f.index, f.records)
          /\ SnapshotReply(c, f.id, ChunkOutcome(f.id, f.index, f.records))
       \/ /\ NextFrame(c, "commit")
          /\ CommitSnapshot(f.id, f.count)
          /\ SnapshotReply(c, f.id, CommitOutcome(f.id, f.count))
    /\ Consumed(c)
    /\ UNCHANGED <<outboxVars, workerVars, conns, fence>>

\* disconnect_agent, once the handler of a connection the Agent gave up sees
\* that it is closed; what was sent on it and not read is lost.
NoticeClose(c) ==
    /\ c # conn
    /\ up[c] # <<>> \/ fence = c
    /\ up' = [up EXCEPT ![c] = <<>>]
    /\ fence' = IF fence = c THEN 0 ELSE fence
    /\ UNCHANGED <<outboxVars, streamVars, workerVars, conns, down>>

\* The lease expires (module AgentSessions) or an installation of another
\* stream takes it.
LoseLease ==
    /\ fence # 0
    /\ conns <= MaxFaults
    /\ fence' = 0
    /\ UNCHANGED <<outboxVars, streamVars, workerVars, wireVars>>

\* The next heartbeat of a session without the lease is answered by a fatal
\* protocol.error.
HeartbeatRefused ==
    /\ session
    /\ fence # conn
    /\ CloseSocket
    /\ UNCHANGED <<syncRequired, lastAck, sent, flushing, tasks, sending, acks>>
    /\ UNCHANGED <<outboxVars, streamVars, conns, up, fence>>

ConsentChanges ==
    /\ \E g \in Grants \cup {0} : ChangeConsent(g)
    /\ UNCHANGED <<outboxVars, workerVars, wireVars, fence>>

-----------------------------------------------------------------------------
Agent ==
    \/ FlushOutbox \/ Connect \/ SendNextSnapshotFrame
    \/ \E i \in 1..MaxTasks : TaskBuilds(i) \/ TaskSends(i) \/ TaskFails(i)
    \/ RecvSession \/ RecvSyncRequired \/ RecvAck \/ AckContinues
    \/ RecvAckFails \/ RecvStaleFence \/ RecvRejected

Brain(c) ==
    BindAgent(c) \/ OpenSession(c) \/ RejectStale(c) \/ IngestDelta(c) \/ IngestSnapshot(c)

Faults ==
    \/ Disconnect \/ WorkerRestart \/ LoseLease \/ HeartbeatRefused
    \/ \E c \in 1..MaxConns : NoticeClose(c)

DeliveryNext ==
    \/ CaptureAndFlush \/ Agent \/ Faults \/ ConsentChanges
    \/ \E c \in 1..MaxConns : Brain(c)

DeliverySpec == DeliveryInit /\ [][DeliveryNext]_deliveryVars

(***************************************************************************)
(* Fairness.  The worker's promise jobs, timers and message handlers run   *)
(* (a terminated worker is restarted by its alarm), the Brain's event loop *)
(* serves every open socket, and a dead connection is noticed at last.     *)
(* Nothing is assumed of captures, faults and consent.                     *)
(***************************************************************************)
Fairness ==
    /\ WF_deliveryVars(FlushOutbox)
    /\ WF_deliveryVars(Connect)
    /\ WF_deliveryVars(SendNextSnapshotFrame)
    /\ WF_deliveryVars(AckContinues)
    /\ \A i \in 1..MaxTasks : WF_deliveryVars(TaskBuilds(i) \/ TaskSends(i) \/ TaskFails(i))
    /\ WF_deliveryVars(RecvSession \/ RecvSyncRequired \/ RecvAck \/ RecvAckFails
                          \/ RecvStaleFence \/ RecvRejected)
    /\ WF_deliveryVars(HeartbeatRefused)
    /\ \A c \in 1..MaxConns : WF_deliveryVars(Brain(c)) /\ WF_deliveryVars(NoticeClose(c))

FairDeliverySpec == DeliverySpec /\ Fairness

-----------------------------------------------------------------------------
Frame ==
    [type : {"hello", "bound"}, lastAck : Nat]
    \cup [type : {"delta"}, record : StreamRecord]
    \cup [type : {"begin"}, id : UploadIds, through : Nat, count : Nat, records : Nat]
    \cup [type : {"chunk"}, id : UploadIds, index : Nat, records : SUBSET StreamRecord]
    \cup [type : {"commit"}, id : UploadIds, count : Nat]

Continuation == [committed : Nat, done : BOOLEAN, next : Nat \cup {None}]

DeliveryTypeOK ==
    /\ OutboxTypeOK
    /\ StreamTypeOK
    /\ conn \in 0..conns /\ fence \in 0..conns /\ conns \in 0..MaxConns
    /\ session \in BOOLEAN /\ syncRequired \in BOOLEAN /\ flushing \in BOOLEAN
    /\ lastAck \in 0..LastSeq /\ sent \subseteq 1..LastSeq
    /\ tasks \in Seq([pending : {0} \cup UploadIds, next : Nat])
    /\ sending \in Nat \cup {None}
    /\ acks \in Seq(Continuation) /\ Len(acks) <= MaxAcks
    /\ up \in [1..MaxConns -> Seq(Frame)]

\* ADR 0004: "Agent, Brain, and Bridge can each restart without an undetectable
\* data gap".  Whatever is lost, duplicated or late, each captured change is in
\* the Agent's outbox or in the Brain's canonical history.
NothingLost == 1..LastSeq \subseteq outbox \cup 1..Committed

\* A snapshot upload that is staged is the beginning of the Agent's pending
\* snapshot, chunk for chunk: a resend after a reconnect or a worker restart
\* is a duplicate and never a chunk_conflict.
StagedIsPending ==
    \A u \in Staging :
        /\ manifest.id = u /\ manifest.state = "ready"
        /\ uploads[u].through = manifest.through
        /\ Received(u) <= Len(chunks)
        /\ \A i \in 1..Received(u) : uploads[u].chunks[i] = ChunkRecords(i-1)

\* ADR 0010: Agent "pauses delta transmission" while a snapshot is built and
\* sent.  While an upload is staged, the checkpoint moves only by its commit.
\* The code does not keep this: a handleSyncRequired that outlives its session
\* goes on in the next one (README, Disagreements).
SnapshotPausesDeltas ==
    [][Staging # {} /\ checkpoint' # checkpoint => Staging' # Staging]_deliveryVars

\* ADR 0004: an irrecoverable gap or a failed invariant "requires a snapshot".
\* Once the Agent knows that a snapshot is required, only a committed one lifts
\* that (or the end of the worker that knew).  The code does not keep this: an
\* ordinary reconnect lifts it too (README, Disagreements).
SnapshotStaysRequired ==
    [][syncRequired /\ ~syncRequired' =>
         \/ WorkerRestart \/ \E i \in 1..Len(acks) : acks[i].done
         \/ manifest.state = "ready" /\ manifest'.state = "none"]_deliveryVars

\* What the Agent believes to be committed is: no hello on the wire claims more
\* than the Brain's checkpoint, so a stream that was not reset is never taken
\* for one that was (reason "local_reset").
NeverAheadOfBrain ==
    /\ acked <= Committed
    /\ lastAck <= Committed
    /\ \A c \in 1..MaxConns : \A i \in 1..Len(up[c]) :
         up[c][i].type \in {"hello", "bound"} => up[c][i].lastAck <= Committed

\* What Agent and Brain each hold of the other agrees, with the types of both.
BooksAgree == DeliveryTypeOK /\ NeverAheadOfBrain /\ StagedIsPending

\* The Brain's canonical rows are the state after the first Committed changes
\* in the Agent's order, the committed prefix only grows, and the Agent drops
\* nothing before it is in that prefix.
View == ({canon[k] : k \in Entities} \ {0}) \cup evidence
Promise == INSTANCE IngestPromise WITH
    captured <- log, committed <- Committed, released <- acked, view <- View
KeepsPromise == Promise!PromiseSpec

\* With history consent settled, every captured change is committed and
\* acknowledged in the end, through every loss the bounds allow.
CapturedGetsCommitted == \A n \in 1..MaxChanges : LastSeq >= n ~> acked >= n
=============================================================================
