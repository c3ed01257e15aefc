---------------------------- MODULE GraphWriter ----------------------------
(***************************************************************************)
(* The writer of one generation that is being built                        *)
(* (SQLiteGraphGenerationWriter).  The calling thread makes a fixed series *)
(* of calls inside a lease session; a heartbeat thread renews the lease    *)
(* meanwhile.  The two share the write gate, a few flags and the size of a *)
(* chunk; both need SQLite's write lock, which another connection may hold *)
(* or use to reclaim the generation when its lease has expired.            *)
(*                                                                         *)
(* The rows are numbered: 1..NodeCount are nodes, the rest are edges, all  *)
(* between the first node and the last.                                    *)
(***************************************************************************)
EXTENDS Integers

CONSTANTS NodeCount, EdgeCount,  \* the rows of the artifact
          MinChunk,              \* _MIN_GRAPH_WRITE_CHUNK
          InitialChunk,          \* _INITIAL_GRAPH_WRITE_CHUNK
          MaxUpserts,            \* how many single rows a caller writes first
          MaxFaults              \* failures of the disk

ASSUME CountsAssumption == /\ NodeCount \in Nat \ {0} /\ EdgeCount \in Nat
                           /\ InitialChunk \in Nat /\ MinChunk \in 1..InitialChunk
                           /\ MaxUpserts \in Nat /\ MaxFaults \in Nat

VARIABLES genStatus, expired, table, stats,   \* the file: the generation and its rows
          gate, lock,                      \* who holds _write_gate and the file's lock
          plan, call, left, phase, report, pos, size,  \* the calling thread
          heart, ready, stop,              \* the heartbeat thread and its events
          terminal, failed, valid, chunk,  \* what the two threads share
          deleted,   \* the row the open transaction has deleted to write it anew, or 0
          faults

fileVars == <<genStatus, expired, table, stats>>
lockVars == <<gate, lock>>
callerVars == <<plan, call, left, phase, report, pos, size>>
heartVars == <<heart, ready, stop>>
flagVars == <<terminal, failed, valid>>
writerVars == <<fileVars, lockVars, callerVars, heartVars, flagVars, chunk, deleted, faults>>

NodeRows == 1..NodeCount
EdgeRows == (NodeCount + 1)..(NodeCount + EdgeCount)
TableRows == 1..(NodeCount + EdgeCount)
EndNodes == {1, NodeCount}

\* A row is absent (0), as in the artifact (1) or an earlier version of it (2).
Empty == [r \in TableRows |-> 0]
Artifact == [r \in TableRows |-> 1]

\* The calls in order: stage_artifact, or a caller that gives up, after some single rows.
After(c, n) ==
    CASE c = "open" -> "start"
      [] c \in {"start", "upsert"} -> IF n > 0 THEN "upsert"
                                     ELSE IF plan = "stage" THEN "clear" ELSE "discard"
      [] c = "clear" -> "rows"
      [] c = "rows" -> "refresh"
      [] c = "refresh" -> "stats"
      [] c = "stats" -> "validate"
      [] OTHER -> "close"

WriterInit ==
    /\ genStatus = "building" /\ expired = FALSE /\ table = Empty /\ stats = FALSE
    /\ gate = "none" /\ lock = "none"
    /\ plan \in {"stage", "discard"} /\ left \in 0..MaxUpserts /\ call = "open"
    /\ phase = "enter" /\ report = "running" /\ pos = 0 /\ size = 0
    /\ heart = "none" /\ ready = FALSE /\ stop = FALSE
    /\ terminal = FALSE /\ failed = FALSE /\ valid = TRUE
    /\ chunk = InitialChunk /\ deleted = 0 /\ faults = 0

-----------------------------------------------------------------------------
(* Helpers.                                                                *)
Owned == {"clear", "rows", "stats", "upsert"}     \* the calls in an _owned_transaction
Renewing == {"open", "refresh"}
Ending == {"validate", "discard"}

\* _check_heartbeat raises unless this holds.
Check == ~failed /\ valid

\* Mutant: the UPDATE of _renew_owned without status='building'.
OwnerAnyStatus == TRUE

\* The UPDATE of _renew_owned finds its row.
Owner == genStatus = "building"

\* _record_operation_duration after a step that took any time: a slow one leaves
\* a smaller size, down to the minimum.  The two threads read and write it without
\* a lock, so one that read it earlier may also write a larger one again.
Resized == MinChunk..InitialChunk

\* Within BEGIN and COMMIT or ROLLBACK.
Open == phase \in {"body", "reinsert"}

\* An exception leaves the call; the session closes.
Leave == /\ call' = "close" /\ phase' = "enter" /\ report' = "error"
         /\ UNCHANGED <<plan, left, pos, size>>

Return == /\ call' = After(call, left) /\ phase' = "enter"
          /\ UNCHANGED <<plan, left, report, pos, size>>

Release(who) == /\ gate' = (IF gate = who THEN "none" ELSE gate)
                /\ lock' = (IF lock = who THEN "none" ELSE lock)

\* The rows that one INSERT of replace writes: nodes first, then edges.
Limit(p) == IF p < NodeCount THEN NodeCount ELSE NodeCount + EdgeCount
LastOf(p, n) == IF p + n > Limit(p) THEN Limit(p) ELSE p + n
\* Mutant: the slice is cut with the size of now, not with the one that pos advances by.
ChunkAtCurrentSize(p) == (p + 1)..LastOf(p, chunk)
ChunkAt(p) == (p + 1)..LastOf(p, size)

\* upsert_node, upsert_edge: a row that changes is deleted and inserted again.  Deleting
\* a node takes its edges along, so these are inserted again, too, as they were.
Incident(t, r) == {e \in EdgeRows : t[e] # 0 /\ r \in EndNodes}
Without(t, r) == [x \in TableRows |-> IF x = r \/ x \in Incident(t, r) THEN 0 ELSE t[x]]
Reinserted(t, r, v) ==
    [x \in TableRows |-> IF x = r THEN v
                         ELSE IF x \in Incident(t, r) THEN t[x] ELSE Without(t, r)[x]]
EndsExist(t) == \A r \in EndNodes : t[r] # 0

\* recompute_generation accepts what the file holds.
Recomputes == table = Artifact /\ stats

-----------------------------------------------------------------------------
(* The calling thread.  Every call checks the flags first; the check after *)
(* a transaction is the one before the next call.                          *)
EnterCall ==
    /\ call \in Owned \cup Renewing \cup Ending /\ phase = "enter"
    /\ \/ /\ Check
          /\ phase' = "gate"
          /\ IF call = "rows" THEN size' = chunk /\ chunk' \in Resized
                              ELSE UNCHANGED <<size, chunk>>
          /\ UNCHANGED <<plan, call, left, report, pos>>
       \/ ~Check /\ Leave /\ UNCHANGED chunk
    /\ UNCHANGED <<fileVars, lockVars, heartVars, flagVars, deleted, faults>>

\* _start_heartbeat: the thread is started, the caller waits until it has renewed once.
StartHeartbeat ==
    /\ call = "start" /\ phase = "enter"
    /\ heart' = "new" /\ ready' = FALSE /\ stop' = FALSE
    /\ phase' = "ready"
    /\ UNCHANGED <<fileVars, lockVars, plan, call, left, report, pos, size, flagVars, chunk, deleted, faults>>

HeartbeatIsReady ==
    /\ phase = "ready" /\ ready
    /\ Return
    /\ UNCHANGED <<fileVars, lockVars, heartVars, flagVars, chunk, deleted, faults>>

\* The write gate is taken and, for all but a renewal, the flags are checked again.
TakeGate ==
    /\ phase = "gate" /\ gate = "none"
    /\ \/ /\ call \in Renewing \/ call = "discard" \/ Check
          /\ gate' = "caller"
          /\ phase' = IF call \in Ending THEN "quiesce" ELSE "begin"
          /\ UNCHANGED <<plan, call, left, report, pos, size>>
       \/ ~Check /\ call \in Owned \cup {"validate"} /\ Leave /\ UNCHANGED gate
    /\ UNCHANGED <<fileVars, lock, heartVars, flagVars, chunk, deleted, faults>>

\* _quiesce_heartbeat_for_terminal_transition: asked to stop ...
Quiesce ==
    /\ phase = "quiesce"
    /\ terminal' = TRUE /\ stop' = TRUE
    /\ phase' = "join"
    /\ UNCHANGED <<fileVars, lockVars, plan, call, left, report, pos, size, heart, ready, failed, valid, chunk, deleted, faults>>

\* ... and joined, with the gate in hand.
Join ==
    /\ phase = "join" /\ call # "close" /\ heart \in {"none", "exited"}
    /\ heart' = "none"
    /\ phase' = "begin"
    /\ UNCHANGED <<fileVars, lockVars, plan, call, left, report, pos, size, ready, stop, flagVars, chunk, deleted, faults>>

\* Mutant: validate looks at no row count, neither of the renewal nor of its UPDATE.
BeginUncounted ==
    /\ phase = "begin" /\ lock = "none"
    /\ \/ /\ Owner \/ call \in Ending
          /\ lock' = "caller"
          /\ phase' = "body"
          /\ expired' = (expired /\ call = "discard")
          /\ UNCHANGED <<gate, plan, call, left, report, pos, size, valid>>
       \/ /\ ~Owner /\ call \notin Ending
          /\ valid' = FALSE
          /\ Leave /\ Release("caller")
          /\ UNCHANGED expired
    /\ UNCHANGED <<genStatus, table, stats, heartVars, terminal, failed, chunk, deleted, faults>>

\* BEGIN IMMEDIATE and the renewal; discard only begins.  The row counts of this
\* UPDATE and of those that end the transaction agree: no one else writes meanwhile.
Begin ==
    /\ phase = "begin" /\ lock = "none"
    /\ \/ /\ Owner \/ call = "discard"
          /\ lock' = "caller"
          /\ phase' = "body"
          /\ expired' = (expired /\ call = "discard")
          /\ UNCHANGED <<gate, plan, call, left, report, pos, size, valid>>
       \/ /\ ~Owner /\ call # "discard"
          /\ valid' = FALSE
          /\ Leave /\ Release("caller")
          /\ UNCHANGED expired
    /\ UNCHANGED <<genStatus, table, stats, heartVars, terminal, failed, chunk, deleted, faults>>

\* The wait for the file's lock ends first.
BeginTimesOut ==
    /\ phase = "begin" /\ lock = "other"
    /\ Leave /\ Release("caller")
    /\ UNCHANGED <<fileVars, heartVars, flagVars, chunk, deleted, faults>>

\* refresh: the renewal alone is committed.
CommitRenewal ==
    /\ call \in Renewing /\ phase = "body"
    /\ Return /\ Release("caller")
    /\ chunk' \in Resized
    /\ UNCHANGED <<fileVars, heartVars, flagVars, deleted, faults>>

\* replace: what the generation held is deleted.
CommitClear ==
    /\ call = "clear" /\ phase = "body" /\ Check
    /\ table' = Empty /\ stats' = FALSE
    /\ call' = After(call, left) /\ phase' = "enter" /\ pos' = 0
    /\ Release("caller")
    /\ UNCHANGED <<genStatus, expired, plan, left, report, size, heartVars, flagVars, chunk, deleted, faults>>

\* replace: one chunk of rows; the size was read before, the next chunk may be smaller.
CommitRows ==
    /\ call = "rows" /\ phase = "body" /\ Check
    /\ table' = [r \in TableRows |-> IF r \in ChunkAt(pos) THEN 1 ELSE table[r]]
    /\ pos' = LastOf(pos, size)
    /\ call' = IF pos' < NodeCount + EdgeCount THEN call ELSE After(call, left)
    /\ phase' = "enter"
    /\ Release("caller")
    /\ chunk' \in Resized
    /\ UNCHANGED <<genStatus, expired, stats, plan, left, report, size, heartVars, flagVars, deleted, faults>>

CommitStats ==
    /\ call = "stats" /\ phase = "body" /\ Check
    /\ stats' = TRUE
    /\ Return /\ Release("caller")
    /\ UNCHANGED <<genStatus, expired, table, heartVars, flagVars, chunk, deleted, faults>>

\* upsert_node and upsert_edge of a row that is not there or is the same.
CommitUpsert ==
    /\ call = "upsert" /\ phase = "body" /\ Check
    /\ \E r \in TableRows, v \in {1, 2} :
          /\ r \in EdgeRows => EndsExist(table)
          /\ table[r] \in {0, v}
          /\ table' = [table EXCEPT ![r] = v]
    /\ left' = left - 1
    /\ call' = After(call, left') /\ phase' = "enter"
    /\ Release("caller")
    /\ UNCHANGED <<genStatus, expired, stats, plan, report, pos, size, heartVars, flagVars, chunk, deleted, faults>>

\* Mutant: the deletion is committed in a transaction of its own.
DeleteChangedAlone ==
    /\ call = "upsert" /\ phase = "body"
    /\ \E r \in TableRows : table[r] # 0 /\ deleted' = r /\ table' = Without(table, r)
    /\ phase' = "reinsert"
    /\ UNCHANGED <<genStatus, expired, stats, lockVars, plan, call, left, report, pos, size, heartVars, flagVars, chunk, faults>>

\* The row has changed.  Its deletion is seen in the open transaction only, which
\* sees Without(table, deleted) from here on.
DeleteChanged ==
    /\ call = "upsert" /\ phase = "body"
    /\ \E r \in TableRows : table[r] # 0 /\ deleted' = r
    /\ phase' = "reinsert"
    /\ UNCHANGED <<fileVars, lockVars, plan, call, left, report, pos, size, heartVars, flagVars, chunk, faults>>

CommitChanged ==
    /\ call = "upsert" /\ phase = "reinsert" /\ Check
    /\ \E v \in {1, 2} : v # table[deleted] /\ table' = Reinserted(table, deleted, v)
    /\ left' = left - 1
    /\ call' = After(call, left') /\ phase' = "enter" /\ deleted' = 0
    /\ Release("caller")
    /\ UNCHANGED <<genStatus, expired, stats, plan, report, pos, size, heartVars, flagVars, chunk, faults>>

\* upsert_edge without its ends: graph_endpoint_absent.
UpsertRefused ==
    /\ call = "upsert" /\ phase = "body"
    /\ EdgeRows # {} /\ ~EndsExist(table)
    /\ Leave /\ Release("caller")
    /\ UNCHANGED <<fileVars, heartVars, flagVars, chunk, deleted, faults>>

\* _owned_transaction: the heartbeat failed while the transaction was open.
RollBack ==
    /\ call \in Owned \cup {"validate"} /\ Open /\ ~Check
    /\ Leave /\ Release("caller") /\ deleted' = 0
    /\ UNCHANGED <<fileVars, heartVars, flagVars, chunk, faults>>

CommitValidation ==
    /\ call = "validate" /\ phase = "body" /\ Check /\ Recomputes
    /\ genStatus' = (IF Owner THEN "validated" ELSE genStatus) /\ expired' = FALSE
    /\ valid' = FALSE
    /\ Return /\ Release("caller")
    /\ UNCHANGED <<table, stats, heartVars, terminal, failed, chunk, deleted, faults>>

CommitDiscard ==
    /\ call = "discard" /\ phase = "body"
    /\ valid' = FALSE
    /\ \/ Owner /\ genStatus' = "retired" /\ Return
       \/ ~Owner /\ Leave /\ UNCHANGED genStatus
    /\ Release("caller")
    /\ UNCHANGED <<expired, table, stats, heartVars, terminal, failed, chunk, deleted, faults>>

\* The disk fails under the caller.
CallerFails ==
    /\ phase = "begin" \/ Open
    /\ faults < MaxFaults /\ faults' = faults + 1
    /\ Leave /\ Release("caller") /\ deleted' = 0
    /\ UNCHANGED <<fileVars, heartVars, flagVars, chunk>>

\* lease_session ends: the heartbeat is stopped and joined, its error raised if there is no other.
CloseSession ==
    /\ call = "close" /\ phase = "enter"
    /\ stop' = TRUE /\ phase' = "join"
    /\ UNCHANGED <<fileVars, lockVars, plan, call, left, report, pos, size, heart, ready, flagVars, chunk, deleted, faults>>

SessionClosed ==
    /\ call = "close" /\ phase = "join" /\ heart \in {"none", "exited"}
    /\ heart' = "none"
    /\ call' = "ended" /\ phase' = "enter"
    /\ report' = IF report = "error" \/ failed THEN "error" ELSE "ok"
    /\ UNCHANGED <<fileVars, lockVars, plan, left, pos, size, ready, stop, flagVars, chunk, deleted, faults>>

-----------------------------------------------------------------------------
(* The heartbeat thread.                                                   *)
\* stop.wait: asked to stop, or the interval is over.
Wake ==
    /\ heart = "waiting"
    /\ heart' = IF stop THEN "exited" ELSE "trying"
    /\ UNCHANGED <<fileVars, lockVars, callerVars, ready, stop, flagVars, chunk, deleted, faults>>

\* The first renewal waits for the gate, a later one leaves when it is taken.
HeartTakesGate ==
    /\ heart \in {"new", "trying"} /\ gate = "none"
    /\ gate' = "heart" /\ heart' = "renewing"
    /\ UNCHANGED <<fileVars, lock, callerVars, ready, stop, flagVars, chunk, deleted, faults>>

\* Mutant: a later renewal blocks on the gate, as the first one does.
HeartBlocksOnGate == heart = "trying" /\ gate # "none" /\ FALSE /\ UNCHANGED writerVars

HeartFindsGateTaken ==
    /\ heart = "trying" /\ gate # "none"
    /\ heart' = "waiting"
    /\ UNCHANGED <<fileVars, lockVars, callerVars, ready, stop, flagVars, chunk, deleted, faults>>

HeartRenews ==
    /\ heart = "renewing" /\ lock = "none"
    /\ \/ /\ Owner
          /\ lock' = "heart" /\ heart' = "committing"
          /\ UNCHANGED <<gate, valid>>
       \/ /\ ~Owner
          /\ valid' = FALSE
          /\ heart' = "failing"
          /\ Release("heart")
    /\ UNCHANGED <<fileVars, callerVars, ready, stop, terminal, failed, chunk, deleted, faults>>

HeartCommits ==
    /\ heart = "committing"
    /\ expired' = FALSE
    /\ Release("heart")
    /\ chunk' \in Resized
    /\ ready' = TRUE /\ heart' = "waiting"
    /\ UNCHANGED <<genStatus, table, stats, callerVars, stop, flagVars, deleted, faults>>

\* "database is locked": tried again later, except by the first renewal.
HeartFindsLocked ==
    /\ heart = "renewing" /\ lock = "other"
    /\ heart' = IF ready THEN "waiting" ELSE "failing"
    /\ Release("heart")
    /\ UNCHANGED <<fileVars, callerVars, ready, stop, flagVars, chunk, deleted, faults>>

HeartFaults ==
    /\ heart \in {"renewing", "committing"} /\ faults < MaxFaults
    /\ faults' = faults + 1
    /\ heart' = "failing"
    /\ Release("heart")
    /\ UNCHANGED <<fileVars, callerVars, ready, stop, flagVars, chunk, deleted>>

\* The thread's except clause: the error is kept unless a terminal call has begun.
HeartFails ==
    /\ heart = "failing"
    /\ IF terminal THEN UNCHANGED <<failed, valid>> ELSE failed' = TRUE /\ valid' = FALSE
    /\ stop' = TRUE /\ ready' = TRUE /\ heart' = "exited"
    /\ UNCHANGED <<fileVars, lockVars, callerVars, terminal, chunk, deleted, faults>>

-----------------------------------------------------------------------------
(* Everything else.                                                        *)
OtherHolds ==
    /\ lock = "none" /\ lock' = "other"
    /\ UNCHANGED <<fileVars, gate, callerVars, heartVars, flagVars, chunk, deleted, faults>>

OtherReleases ==
    /\ lock = "other" /\ lock' = "none"
    /\ UNCHANGED <<fileVars, gate, callerVars, heartVars, flagVars, chunk, deleted, faults>>

LeaseExpires ==
    /\ Owner /\ ~expired /\ expired' = TRUE
    /\ UNCHANGED <<genStatus, table, stats, lockVars, callerVars, heartVars, flagVars, chunk, deleted, faults>>

\* _retire_if_still_stale of another store, in a transaction of its own.
Reclaim ==
    /\ lock = "none" /\ Owner
    /\ expired \/ report = "died"
    /\ genStatus' = "retired"
    /\ UNCHANGED <<expired, table, stats, lockVars, callerVars, heartVars, flagVars, chunk, deleted, faults>>

\* The process dies with both threads.
Die ==
    /\ call # "ended"
    /\ report' = "died" /\ call' = "ended" /\ phase' = "enter"
    /\ heart' = "none" /\ gate' = "none"
    /\ lock' = (IF lock = "other" THEN lock ELSE "none") /\ deleted' = 0
    /\ UNCHANGED <<fileVars, plan, left, pos, size, ready, stop, flagVars, chunk, faults>>

CallerStep ==
    \/ EnterCall \/ StartHeartbeat \/ HeartbeatIsReady \/ TakeGate \/ Quiesce \/ Join
    \/ Begin \/ BeginTimesOut \/ CommitRenewal \/ CommitClear \/ CommitRows \/ CommitStats
    \/ CommitUpsert \/ DeleteChanged \/ CommitChanged \/ UpsertRefused \/ RollBack \/ CommitValidation \/ CommitDiscard
    \/ CallerFails \/ CloseSession \/ SessionClosed
HeartStep ==
    \/ Wake \/ HeartTakesGate \/ HeartFindsGateTaken \/ HeartRenews \/ HeartCommits
    \/ HeartFindsLocked \/ HeartFaults \/ HeartFails
WriterNext == CallerStep \/ HeartStep \/ OtherHolds \/ OtherReleases \/ LeaseExpires \/ Reclaim \/ Die

\* Both threads run on.  Between two attempts the heartbeat waits without the
\* gate, so a caller that waits for it gets it in the end.
Fairness == WF_writerVars(CallerStep) /\ WF_writerVars(HeartStep) /\ SF_writerVars(TakeGate)
WriterSpec == WriterInit /\ [][WriterNext]_writerVars /\ Fairness

-----------------------------------------------------------------------------
WriterTypeOK ==
    /\ genStatus \in {"building", "validated", "retired"} /\ expired \in BOOLEAN
    /\ table \in [TableRows -> 0..2] /\ stats \in BOOLEAN
    /\ gate \in {"none", "caller", "heart"} /\ lock \in {"none", "caller", "heart", "other"}
    /\ plan \in {"stage", "discard"} /\ left \in 0..MaxUpserts
    /\ call \in {"open", "start", "close", "ended"} \cup Owned \cup Ending \cup Renewing
    /\ phase \in {"enter", "ready", "gate", "quiesce", "join", "begin", "body", "reinsert"}
    /\ report \in {"running", "ok", "error", "died"}
    /\ pos \in 0..(NodeCount + EdgeCount) /\ size \in 0..InitialChunk
    /\ heart \in {"none", "new", "waiting", "trying", "renewing", "committing", "failing", "exited"}
    /\ ready \in BOOLEAN /\ stop \in BOOLEAN /\ terminal \in BOOLEAN /\ failed \in BOOLEAN
    /\ valid \in BOOLEAN /\ chunk \in MinChunk..InitialChunk
    /\ deleted \in 0..(NodeCount + EdgeCount) /\ faults \in 0..MaxFaults

\* A build that reaches its validation has written every row of the artifact
\* once and nothing else, whatever became of the chunk size on the way, so the
\* recomputation never refuses it (replace, _record_operation_duration).
ValidatesWholeGraph ==
    call = "validate" \/ genStatus = "validated" => Recomputes

\* The report is what the file says, however the build was lost in between: a
\* build reported as failed is not validated, one reported as done is validated
\* (not unfinished, nor lost to a reclaimer), and one reported as given up is
\* retired.  No failure of the heartbeat is passed over
\* (lease_session, validate, discard, _heartbeat_worker).
ReportIsTrue ==
    /\ report = "error" => genStatus # "validated"
    /\ report = "ok" => /\ genStatus = IF plan = "stage" THEN "validated" ELSE "retired"
                        /\ ~failed

\* No thread, gate or lock outlives the session (_stop_heartbeat).
NothingIsLeftBehind ==
    call = "ended" => heart = "none" /\ gate = "none" /\ lock \in {"none", "other"}

\* Once the generation is validated or reclaimed its rows never change again
\* and no renewal revives it (_renew_owned, _owned_transaction).
LostIsUntouched ==
    [][genStatus # "building" => UNCHANGED <<genStatus, table, stats>>]_writerVars

\* A row that is written again never costs the file an edge, whether what follows
\* its deletion succeeds, fails or is rolled back: only replace deletes rows
\* (upsert_node, upsert_edge, _owned_transaction).
UpsertsKeepEdges ==
    [][\A e \in EdgeRows : table[e] # 0 /\ table'[e] = 0 => call = "clear"]_writerVars

\* Every session ends: the gate, the join and the file's lock never block for good.
SessionEnds == <>(call = "ended")
=============================================================================
