-------------------------------- MODULE Commands --------------------------------
(***************************************************************************)
(* Commands of the Brain to the Agent: the audit log and delivery          *)
(* (app/services/command_execution.py, issue_command and reissue_command   *)
(* in app/transport/manager.py) and the Agent's execution and its stored   *)
(* results (extension/transport/agent-command-service.mjs).                *)
(*                                                                         *)
(* The Brain's log is in SQLite.  The Agent keeps its results in memory    *)
(* and writes that whole state behind the mutation queue of its store; an  *)
(* execution is done when its write is.                                    *)
(***************************************************************************)
EXTENDS Naturals, Sequences, FiniteSets, SequencesExt

CONSTANTS
    Cmds,           \* command identities
    SendSuspends,   \* whether the Brain's socket may be under back pressure
    MaxAttempts,    \* bound: deliveries of a command
    MaxConns,       \* bound: connections opened
    MaxFaults       \* bound: faults strike until connection MaxFaults+1 is opened

ASSUME SendSuspendsAssumption == SendSuspends \in BOOLEAN
ASSUME CommandBoundsAssumption ==
    MaxAttempts \in Nat \ {0} /\ MaxConns \in Nat /\ MaxFaults \in Nat

VARIABLES
    log,            \* the Brain's record of each command
    sending,        \* issue or reissue awaiting its send, with its own copy of the record
    expired,        \* commands whose deadline has passed
    fence,          \* the connection of the active lease, 0 for none
    mem, disk,      \* the Agent's results and those pending, in memory and stored
    writes,         \* saveCommandState calls in the mutation queue
    phase,          \* of the execution in flight of each command
    waiting,        \* deliveries that wait for it
    executions,     \* times the executor has performed the command
    results,        \* results made for it
    torn,           \* history: a worker died after the action, before its write
    conn, session, conns, up, down

logVars == <<log, sending, expired, fence>>
agentVars == <<mem, disk, writes, phase, waiting, executions, results, torn>>
netVars == <<conn, session, conns, up, down>>
commandVars == <<logVars, agentVars, netVars>>

Statuses == {"accepted", "succeeded", "failed"}
NoResult == [id |-> 0, status |-> "none"]
NoRecord == [state |-> "none", result |-> NoResult, applied |-> 0, attempts |-> 0]
NoState == [records |-> [c \in Cmds |-> NoResult], pending |-> {}]
NoSend == <<>>

CommandsInit ==
    /\ log = [c \in Cmds |-> NoRecord] /\ sending = NoSend /\ expired = {} /\ fence = 0
    /\ mem = NoState /\ disk = NoState /\ writes = <<>>
    /\ phase = [c \in Cmds |-> "idle"] /\ waiting = [c \in Cmds |-> 0]
    /\ executions = [c \in Cmds |-> 0] /\ results = [c \in Cmds |-> 0] /\ torn = {}
    /\ conn = 0 /\ session = FALSE /\ conns = 0
    /\ up = [k \in 1..MaxConns |-> <<>>] /\ down = <<>>

-----------------------------------------------------------------------------
(***************************************************************************)
(* The Brain's log.                                                        *)
(***************************************************************************)
Open == {"issued", "accepted"}

\* Mutant: a late result reopens the record.
IsLateNever(r) == FALSE

IsLate(r) == r.state \in {"unknown", "failed"}

\* record_result: the first result is kept, and is the state unless it is late.
Recorded(r, result) ==
    IF r.result # NoResult THEN r
    ELSE [r EXCEPT !.result = result, !.applied = @ + 1,
                   !.state = IF IsLate(r) THEN @ ELSE result.status]

\* Without back pressure the event loop does not leave a send.
Free == SendSuspends \/ sending = NoSend

Reply(c, frame) == down' = IF c = conn THEN Append(down, frame) ELSE down
ToAgent(type, cmd, result) == [type |-> type, cmd |-> cmd, result |-> result]

\* The common end of issue and reissue, under the lock: the record is saved
\* and sent to the lease's connection, 0 when there is none to be used.
Deliver(cmd, record, target) ==
    /\ sending = NoSend
    /\ IF cmd \in expired \/ target = 0
       THEN /\ log' = [log EXCEPT ![cmd] = [record EXCEPT
                          !.state = IF cmd \in expired THEN "unknown" ELSE "failed"]]
            /\ UNCHANGED sending
       ELSE LET saved == [record EXCEPT !.attempts = @ + 1] IN
            /\ log' = [log EXCEPT ![cmd] = saved]
            /\ sending' = <<[cmd |-> cmd, record |-> saved, conn |-> target]>>
    /\ UNCHANGED <<expired, fence, agentVars, netVars>>

\* A stale or lost lease is not used.
Targets == {0, fence}

Issue(cmd) ==
    /\ log[cmd].state = "none"
    /\ \E target \in Targets : Deliver(cmd, [log[cmd] EXCEPT !.state = "issued"], target)

Reissuable(r) == r.state \in Open

Reissue(cmd) ==
    /\ Reissuable(log[cmd]) /\ log[cmd].attempts < MaxAttempts
    /\ \E target \in Targets : Deliver(cmd, log[cmd], target)

\* The send returns with the frame out, or raises when the socket is gone: the
\* call's own copy of the record is saved.
FinishSend ==
    /\ sending # NoSend
    /\ LET s == sending[1] IN
       /\ \/ log' = [log EXCEPT ![s.cmd] = s.record]
          \/ s.conn # conn /\ log' = [log EXCEPT ![s.cmd] = [s.record EXCEPT !.state = "failed"]]
       /\ Reply(s.conn, ToAgent("execute", s.cmd, NoResult))
    /\ sending' = NoSend
    /\ UNCHANGED <<expired, fence, agentVars, conn, session, conns, up>>

DeadlinePasses(cmd) ==
    /\ log[cmd].state # "none" /\ cmd \notin expired
    /\ expired' = expired \cup {cmd}
    /\ UNCHANGED <<log, sending, fence, agentVars, netVars>>

\* Mutant: only commands without any result expire.
ExpirableIssued(r) == r.state = "issued"

Expirable(r) == r.state \in Open

Expire ==
    /\ Free
    /\ \E cmd \in expired : Expirable(log[cmd])
    /\ log' = [c \in Cmds |-> IF c \in expired /\ Expirable(log[c])
                              THEN [log[c] EXCEPT !.state = "unknown"] ELSE log[c]]
    /\ UNCHANGED <<sending, expired, fence, agentVars, netVars>>

-----------------------------------------------------------------------------
(***************************************************************************)
(* The Brain's socket handler.                                             *)
(***************************************************************************)
\* Under the lock of issue and reissue.
BindAgent(k) ==
    /\ sending = NoSend
    /\ up[k] # <<>> /\ Head(up[k]).type = "hello"
    /\ fence' = k
    /\ up' = [up EXCEPT ![k][1].type = "bound"]
    /\ UNCHANGED <<log, sending, expired, agentVars, conn, session, conns, down>>

OpenSession(k) ==     \* after the broadcast in bind_agent
    /\ Free
    /\ up[k] # <<>> /\ Head(up[k]).type = "bound"
    /\ Reply(k, ToAgent("session", 0, NoResult))
    /\ up' = [up EXCEPT ![k] = Tail(@)]
    /\ UNCHANGED <<logVars, agentVars, conn, session, conns>>

RecordResult(k) ==
    /\ Free
    /\ up[k] # <<>> /\ Head(up[k]).type = "result" /\ k = fence
    /\ LET f == Head(up[k]) IN
       /\ log' = [log EXCEPT ![f.cmd] = Recorded(@, f.result)]
       /\ Reply(k, ToAgent("ack", f.cmd, f.result))
    /\ up' = [up EXCEPT ![k] = Tail(@)]
    /\ UNCHANGED <<sending, expired, fence, agentVars, conn, session, conns>>

CloseSocket == conn' = 0 /\ session' = FALSE /\ down' = <<>>

RejectStale(k) ==     \* the lease was lost: a fatal protocol.error
    /\ Free
    /\ up[k] # <<>> /\ Head(up[k]).type = "result" /\ k # fence
    /\ up' = [up EXCEPT ![k] = Tail(@)]
    /\ IF k = conn THEN CloseSocket ELSE UNCHANGED <<conn, session, down>>
    /\ UNCHANGED <<logVars, agentVars, conns>>

NoticeClose(k) ==     \* disconnect_agent, under the same lock
    /\ sending = NoSend
    /\ k # conn
    /\ up[k] # <<>> \/ fence = k
    /\ up' = [up EXCEPT ![k] = <<>>]
    /\ fence' = IF fence = k THEN 0 ELSE fence
    /\ UNCHANGED <<log, sending, expired, agentVars, conn, session, conns, down>>

BrainCrash ==
    /\ conns <= MaxFaults
    /\ sending' = NoSend /\ fence' = 0
    /\ up' = [k \in 1..MaxConns |-> <<>>]
    /\ CloseSocket
    /\ UNCHANGED <<log, expired, agentVars, conns>>

-----------------------------------------------------------------------------
(***************************************************************************)
(* The Agent.                                                              *)
(***************************************************************************)
Connect ==
    /\ conn = 0
    /\ conns < MaxConns
    /\ conns' = conns + 1 /\ conn' = conns'
    /\ up' = [up EXCEPT ![conns'] = <<ToAgent("hello", 0, NoResult)>>]
    /\ UNCHANGED <<logVars, agentVars, session, down>>

Disconnect ==
    /\ conn # 0
    /\ conns <= MaxFaults
    /\ CloseSocket
    /\ UNCHANGED <<logVars, agentVars, conns, up>>

WorkerRestart ==
    /\ conns <= MaxFaults
    /\ torn' = torn \cup {c \in Cmds : phase[c] = "performed"}
    /\ mem' = disk /\ writes' = <<>>
    /\ phase' = [c \in Cmds |-> "idle"] /\ waiting' = [c \in Cmds |-> 0]
    /\ CloseSocket
    /\ UNCHANGED <<logVars, disk, executions, results, conns, up>>

ResultFrames(state, cmds) ==
    [i \in 1..Cardinality(cmds) |->
        LET c == SetToSeq(cmds)[i] IN ToAgent("result", c, state.records[c])]

\* Mutant: pending results are sent only when they are made.
ResentNone(state) == {}

\* resendCommandResults.
Resent(state) == state.pending

RecvSession ==
    /\ conn # 0 /\ down # <<>> /\ ~session /\ Head(down).type = "session"
    /\ session' = TRUE
    /\ up' = [up EXCEPT ![conn] = @ \o ResultFrames(mem, Resent(mem))]
    /\ down' = Tail(down)
    /\ UNCHANGED <<logVars, agentVars, conn, conns>>

\* "Expected agent.session": a command was sent while bind_agent awaited.
RecvTooEarly ==
    /\ conn # 0 /\ down # <<>> /\ ~session /\ Head(down).type # "session"
    /\ CloseSocket
    /\ UNCHANGED <<logVars, agentVars, conns, up>>

\* Mutant: what was executed before is not looked up.
KnownNone(c) == FALSE

Known(c) == mem.records[c] # NoResult

\* execute: a delivery joins the execution in flight, else is answered with
\* the stored result, else executes.
RecvExecute ==
    /\ conn # 0 /\ down # <<>> /\ session /\ Head(down).type = "execute"
    /\ LET c == Head(down).cmd IN
       IF phase[c] = "idle" /\ Known(c)
       THEN /\ up' = [up EXCEPT ![conn] = Append(@, ToAgent("result", c, mem.records[c]))]
            /\ UNCHANGED <<phase, waiting>>
       ELSE /\ waiting' = [waiting EXCEPT ![c] = @ + 1]
            /\ phase' = [phase EXCEPT ![c] = IF @ = "idle" THEN "started" ELSE @]
            /\ UNCHANGED up
    /\ down' = Tail(down)
    /\ UNCHANGED <<torn, logVars, mem, disk, writes, executions, results, conn, session, conns>>

\* The result is known in memory at once, and pending until acknowledged.
Perform(c) ==
    /\ phase[c] = "started"
    /\ phase' = [phase EXCEPT ![c] = "performed"]
    /\ results' = [results EXCEPT ![c] = @ + 1]
    /\ \E status \in Statuses, performed \in BOOLEAN :
          /\ ~performed => status = "failed"      \* refused by the policy or the deadline
          /\ executions' = [executions EXCEPT ![c] = IF performed THEN @ + 1 ELSE @]
          /\ mem' = [records |-> [mem.records EXCEPT
                                    ![c] = [id |-> results'[c], status |-> status]],
                     pending |-> mem.pending \cup {c}]
    /\ writes' = Append(writes, [state |-> mem', done |-> {c}])
    /\ UNCHANGED <<torn, logVars, disk, waiting, netVars>>

\* A write commits; an execution that waited for it ends, and each delivery
\* is answered on the session there is by now.
CommitWrite ==
    /\ writes # <<>>
    /\ disk' = Head(writes).state
    /\ writes' = Tail(writes)
    /\ LET done == Head(writes).done
           frames(c) == [i \in 1..waiting[c] |-> ToAgent("result", c, mem.records[c])]
       IN  /\ phase' = [c \in Cmds |-> IF c \in done THEN "idle" ELSE phase[c]]
           /\ waiting' = [c \in Cmds |-> IF c \in done THEN 0 ELSE waiting[c]]
           /\ up' = IF session /\ done # {}
                    THEN [up EXCEPT ![conn] = @ \o frames(CHOOSE c \in done : TRUE)] ELSE up
    /\ UNCHANGED <<torn, logVars, mem, executions, results, conn, session, conns, down>>

\* acknowledge: only the result that is stored is compacted.
Covers(c, result) == mem.records[c].id = result.id

RecvAck ==
    /\ conn # 0 /\ down # <<>> /\ session /\ Head(down).type = "ack"
    /\ LET c == Head(down).cmd IN
       IF Covers(c, Head(down).result) /\ c \in mem.pending
       THEN /\ mem' = [mem EXCEPT !.pending = @ \ {c}]
            /\ writes' = Append(writes, [state |-> mem', done |-> {}])
       ELSE UNCHANGED <<mem, writes>>
    /\ down' = Tail(down)
    /\ UNCHANGED <<torn, logVars, disk, phase, waiting, executions, results, conn, session, conns, up>>

Brain(k) == BindAgent(k) \/ OpenSession(k) \/ RecordResult(k) \/ RejectStale(k)
Receive == RecvSession \/ RecvTooEarly \/ RecvExecute \/ RecvAck

CommandsNext ==
    \/ \E c \in Cmds : Issue(c) \/ Reissue(c) \/ DeadlinePasses(c) \/ Perform(c)
    \/ FinishSend \/ Expire \/ BrainCrash
    \/ \E k \in 1..MaxConns : Brain(k) \/ NoticeClose(k)
    \/ Connect \/ Disconnect \/ WorkerRestart \/ Receive \/ CommitWrite

CommandsSpec == CommandsInit /\ [][CommandsNext]_commandVars

(***************************************************************************)
(* Fairness: both event loops run, the sweeper sweeps, time passes, the    *)
(* Agent's alarms reconnect it.  Nothing is assumed of who issues.         *)
(***************************************************************************)
FairCommandsSpec ==
    /\ CommandsSpec
    /\ WF_commandVars(Connect) /\ WF_commandVars(Receive) /\ WF_commandVars(CommitWrite)
    /\ WF_commandVars(FinishSend) /\ WF_commandVars(Expire)
    /\ \A c \in Cmds : WF_commandVars(Perform(c)) /\ WF_commandVars(DeadlinePasses(c))
    /\ \A k \in 1..MaxConns : WF_commandVars(Brain(k)) /\ WF_commandVars(NoticeClose(k))

-----------------------------------------------------------------------------
Result == [id : Nat, status : Statuses \cup {"none"}]
State == [records : [Cmds -> Result], pending : SUBSET Cmds]
Record == [state : Statuses \cup {"none", "issued", "unknown"}, result : Result,
           applied : 0..1, attempts : 0..MaxAttempts]

CommandsTypeOK ==
    /\ log \in [Cmds -> Record]
    /\ sending # NoSend => sending[1].record \in Record /\ sending[1].conn \in 1..conns
    /\ expired \subseteq Cmds /\ torn \subseteq Cmds
    /\ mem \in State /\ disk \in State
    /\ \A i \in 1..Len(writes) : writes[i].state \in State /\ writes[i].done \subseteq Cmds
    /\ phase \in [Cmds -> {"idle", "started", "performed"}]
    /\ waiting \in [Cmds -> Nat] /\ executions \in [Cmds -> Nat] /\ results \in [Cmds -> Nat]
    /\ \A c \in Cmds : executions[c] <= results[c]
    /\ conns \in 0..MaxConns /\ conn \in 0..conns /\ fence \in 0..conns /\ session \in BOOLEAN

\* "duplicate command_id executes once, including concurrent delivery"
\* (command-execution.test.mjs), and "terminal result and dedup survive
\* restart": however often a command is delivered, on whatever connections,
\* unless the worker died between its action and the write of its result.
ExecutesOnceUnlessTorn == \A c \in Cmds \ torn : executions[c] <= 1

\* "Agent may compact the persisted result only after ack" (ADR 0006): once the
\* Agent no longer offers a result, the Brain has one.
CompactedIsRecorded ==
    \A c \in Cmds : disk.records[c] # NoResult /\ c \notin disk.pending =>
        log[c].result # NoResult

\* What was executed and what was recorded are the same, with the types of both.
ExecutedAndRecorded == CommandsTypeOK /\ ExecutesOnceUnlessTorn /\ CompactedIsRecorded

\* "A late result is audited without reopening" (test_command_execution.py):
\* neither the outcome of a command nor its recorded result is ever revised.
OutcomeIsFinal ==
    [][\A c \in Cmds : /\ log[c].state \notin Open \cup {"none"} => log'[c].state = log[c].state
                       /\ log[c].result # NoResult => log'[c].result = log[c].result]_commandVars

\* Commands are kept durable (ADR 0009): a recorded result stays recorded.  The
\* code does not keep this when a send suspends (README, Disagreements).
ResultIsKept ==
    [][\A c \in Cmds : log[c].result # NoResult => log'[c].result = log[c].result]_commandVars

\* "Timeout becomes an auditable unknown/failed command state": no command
\* stays open for ever.
CommandsSettle == \A c \in Cmds : log[c].state \in Open ~> log[c].state \notin Open

\* "Agent persists terminal results until acknowledged": a stored result
\* reaches the Brain's log, through reconnects, restarts and lost acknowledgements.
ResultsReachBrain == \A c \in Cmds : disk.records[c] # NoResult ~> log[c].result # NoResult
=============================================================================
