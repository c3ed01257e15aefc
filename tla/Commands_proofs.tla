---------------------------- MODULE Commands_proofs ----------------------------
(***************************************************************************)
(* Proofs about commands, for every set of commands and every number of    *)
(* deliveries, connections and faults: a command is executed once, what    *)
(* the Agent compacts the Brain has recorded, and an outcome is final.     *)
(***************************************************************************)
EXTENDS Commands, FiniteSetTheorems, SequenceTheorems, TLAPS

\* What is on the wire: a result frame carries a result that was made.
Frame(types) == [type : types, cmd : Cmds \cup {0}, result : Result]
IsMade(result) == result.status \in Statuses
UpFrames == {f \in Frame({"hello", "bound", "result"}) :
                f.type = "result" => f.cmd \in Cmds /\ IsMade(f.result)}
DownFrames == {f \in Frame({"session", "execute", "ack"}) : f.type # "session" => f.cmd \in Cmds}

\* A state of the Agent: what is pending has a result.
Stored == {s \in State : /\ IsFiniteSet(s.pending)
                         /\ \A c \in Cmds : s.records[c] = NoResult \/ IsMade(s.records[c])
                         /\ \A c \in s.pending : IsMade(s.records[c])}
Write == [state : Stored, done : SUBSET Cmds]
Phases == {"idle", "started", "performed"}

AgentTypes ==
    /\ mem \in Stored /\ disk \in Stored /\ writes \in Seq(Write)
    /\ phase \in [Cmds -> Phases] /\ torn \subseteq Cmds
    /\ waiting \in [Cmds -> Nat] /\ executions \in [Cmds -> Nat] /\ results \in [Cmds -> Nat]
    /\ \A c \in Cmds : executions[c] <= results[c]

UpTypes ==
    /\ up \in [1..MaxConns -> Seq(UpFrames)]
    /\ \A k \in 1..MaxConns : up[k] # <<>> => k <= conns
ConnTypes ==
    /\ conns \in 0..MaxConns /\ conn \in 0..conns /\ fence \in 0..conns
    /\ session \in BOOLEAN
    /\ session => conn # 0
NetTypes == UpTypes /\ down \in Seq(DownFrames) /\ ConnTypes

\* A record of the log, of the log itself or of a send: it counts a result it
\* has and no delivery before it is issued.
Consistent(r) ==
    /\ r \in Record
    /\ r.result = NoResult => r.applied = 0
    /\ r.state = "none" => r.attempts = 0
    /\ r.state = "succeeded" => r.result # NoResult

Sent == [cmd : Cmds, record : Record, conn : Nat]

LogTypes ==
    /\ log \in [Cmds -> Record] /\ expired \subseteq Cmds
    /\ \A c \in Cmds : Consistent(log[c])
    /\ sending \in Seq(Sent) /\ Len(sending) <= 1
    /\ sending # NoSend =>
          /\ sending[1].conn \in 1..conns
          /\ Consistent(sending[1].record) /\ sending[1].record.state \in Open

-----------------------------------------------------------------------------
(***************************************************************************)
(* What is executed.                                                       *)
(***************************************************************************)
Holds(s, c) == s.records[c] # NoResult

\* The states from the disk over the writes in the queue to the memory only
\* gain results, and a write that ends an execution holds its result.
ResultsGrow ==
    /\ \A c \in Cmds : Holds(disk, c) => Holds(mem, c)
    /\ \A c \in Cmds : \A i \in 1..Len(writes) :
          /\ Holds(disk, c) => Holds(writes[i].state, c)
          /\ Holds(writes[i].state, c) => Holds(mem, c)
          /\ \A j \in i..Len(writes) : Holds(writes[i].state, c) => Holds(writes[j].state, c)
    /\ \A i \in 1..Len(writes) : \A c \in writes[i].done : Holds(writes[i].state, c)

\* An execution starts where no result is; until its result is stored the
\* command is in flight or was never performed.
ExecutionIsKnown ==
    \A c \in Cmds :
        /\ phase[c] = "started" => ~Holds(mem, c)
        /\ c \notin torn => executions[c] <= 1
        /\ c \notin torn /\ phase[c] # "performed" /\ ~Holds(disk, c) => executions[c] = 0

ExecutionInv == AgentTypes /\ NetTypes /\ LogTypes /\ ResultsGrow /\ ExecutionIsKnown

(***************************************************************************)
(* What is recorded.                                                       *)
(***************************************************************************)
\* Without back pressure a send's copy of the record is the record.
SendIsCurrent == sending # NoSend => sending[1].record = log[sending[1].cmd]

\* The Brain has the results a state does not offer any more.
Compacts(s) == \A c \in Cmds : Holds(s, c) /\ c \notin s.pending => log[c].result # NoResult

RecordInv ==
    /\ SendIsCurrent
    /\ \A i \in 1..Len(down) : down[i].type = "ack" => log[down[i].cmd].result # NoResult
    /\ Compacts(mem) /\ Compacts(disk)
    /\ \A i \in 1..Len(writes) : Compacts(writes[i].state)

CommandInv == ExecutionInv /\ RecordInv

-----------------------------------------------------------------------------
(***************************************************************************)
(* Which steps touch what.                                                 *)
(***************************************************************************)
\* Only five actions are of the Agent's own state.
LEMMA AgentActs ==
    ASSUME [CommandsNext]_commandVars
    PROVE  \/ UNCHANGED agentVars
           \/ WorkerRestart \/ RecvExecute \/ RecvAck \/ CommitWrite
           \/ \E c \in Cmds : Perform(c)
<1>1. CASE UNCHANGED commandVars
  BY <1>1 DEF commandVars
<1>2. CASE \E c \in Cmds : Issue(c) \/ Reissue(c) \/ DeadlinePasses(c)
  BY <1>2 DEF Issue, Reissue, DeadlinePasses, Deliver
<1>3. CASE FinishSend \/ Expire \/ BrainCrash \/ Connect \/ Disconnect
  BY <1>3 DEF FinishSend, Expire, BrainCrash, Connect, Disconnect
<1>4. CASE \E k \in 1..MaxConns : Brain(k) \/ NoticeClose(k)
  BY <1>4 DEF Brain, BindAgent, OpenSession, RecordResult, RejectStale, NoticeClose
<1>5. CASE RecvSession \/ RecvTooEarly
  BY <1>5 DEF RecvSession, RecvTooEarly
<1> QED
  BY <1>1, <1>2, <1>3, <1>4, <1>5 DEF CommandsNext, Receive

\* Only six are of the Brain's log.
LEMMA LogActs ==
    ASSUME [CommandsNext]_commandVars
    PROVE  \/ UNCHANGED <<log, sending, expired>>
           \/ FinishSend \/ Expire \/ BrainCrash
           \/ \E c \in Cmds : Issue(c) \/ Reissue(c) \/ DeadlinePasses(c)
           \/ \E k \in 1..MaxConns : RecordResult(k)
<1>1. CASE UNCHANGED commandVars
  BY <1>1 DEF commandVars, logVars
<1>2. CASE \E c \in Cmds : Perform(c)
  BY <1>2 DEF Perform, logVars
<1>3. CASE Connect \/ Disconnect \/ WorkerRestart \/ CommitWrite
  BY <1>3 DEF Connect, Disconnect, WorkerRestart, CommitWrite, logVars
<1>4. CASE \E k \in 1..MaxConns : BindAgent(k) \/ OpenSession(k) \/ RejectStale(k) \/ NoticeClose(k)
  BY <1>4 DEF BindAgent, OpenSession, RejectStale, NoticeClose, logVars
<1>5. CASE Receive
  BY <1>5 DEF Receive, RecvSession, RecvTooEarly, RecvExecute, RecvAck, logVars
<1> QED
  BY <1>1, <1>2, <1>3, <1>4, <1>5 DEF CommandsNext, Brain

-----------------------------------------------------------------------------
(***************************************************************************)
(* The Brain's log.                                                        *)
(***************************************************************************)
\* The end of issue and reissue keeps the log consistent.
LEMMA DeliverLogs ==
    ASSUME LogTypes, NetTypes, NEW cmd \in Cmds, NEW record \in Record, NEW target \in Targets,
           record.state \in Open, record.attempts < MaxAttempts,
           record.result = NoResult => record.applied = 0,
           Deliver(cmd, record, target)
    PROVE  LogTypes'
<1> DEFINE saved == [record EXCEPT !.attempts = @ + 1]
           closed == [record EXCEPT !.state = IF cmd \in expired THEN "unknown" ELSE "failed"]
<1>1. Consistent(saved) /\ saved.state = record.state
  BY CommandBoundsAssumption DEF Consistent, Record, Open
<1>2. Consistent(closed)
  BY DEF Consistent, Record, Statuses, Open
<1>3. CASE cmd \in expired \/ target = 0
  <2>1. log' = [log EXCEPT ![cmd] = closed] /\ UNCHANGED <<sending, expired, conns>>
    BY <1>3 DEF Deliver, netVars
  <2> QED
    BY <2>1, <1>2 DEF LogTypes, Consistent
<1>4. CASE ~(cmd \in expired \/ target = 0)
  <2>1. /\ log' = [log EXCEPT ![cmd] = saved] /\ UNCHANGED <<expired, conns>>
        /\ sending' = <<[cmd |-> cmd, record |-> saved, conn |-> target]>>
    BY <1>4 DEF Deliver, netVars
  <2>2. log' \in [Cmds -> Record] /\ \A c \in Cmds : Consistent(log'[c])
    BY <2>1, <1>1 DEF LogTypes, Consistent
  <2>3. target \in 1..conns
    BY <1>4 DEF Targets, NetTypes, ConnTypes
  <2>4. [cmd |-> cmd, record |-> saved, conn |-> target] \in Sent
    BY <1>1, <2>3 DEF Sent, Consistent, NetTypes, ConnTypes
  <2>5. PICK s \in Sent : /\ s = [cmd |-> cmd, record |-> saved, conn |-> target]
                          /\ sending' = <<s>>
    BY <2>1, <2>4
  <2>6. sending' \in Seq(Sent) /\ Len(sending') <= 1 /\ sending'[1] = s
    BY <2>5
  <2>7. sending'[1].conn \in 1..conns' /\ sending'[1].record = saved
    BY <2>5, <2>6, <2>3, <2>1
  <2> QED
    BY <2>1, <2>2, <2>6, <2>7, <1>1 DEF LogTypes
<1> QED
  BY <1>3, <1>4

\* A recorded result keeps a record consistent, and a result it has.
LEMMA RecordedIsConsistent ==
    ASSUME NEW r, Consistent(r), NEW result \in Result, IsMade(result)
    PROVE  /\ Consistent(Recorded(r, result))
           /\ Recorded(r, result).result # NoResult
           /\ r.result # NoResult => Recorded(r, result) = r
           /\ r.state \notin Open \cup {"none"} => Recorded(r, result).state = r.state
<1>1. result # NoResult
  BY DEF IsMade, NoResult, Statuses
<1>2. CASE r.result # NoResult
  BY <1>2 DEF Recorded
<1>3. CASE r.result = NoResult
  <2>1. Recorded(r, result) = [r EXCEPT !.result = result, !.applied = @ + 1,
                                        !.state = IF IsLate(r) THEN @ ELSE result.status]
    BY <1>3 DEF Recorded
  <2>2. r.applied = 0 /\ r.state # "succeeded" /\ r \in Record
    BY <1>3 DEF Consistent
  <2>3. Recorded(r, result) \in Record
    <3>1. PICK state : state = IF IsLate(r) THEN r.state ELSE result.status
      OBVIOUS
    <3>2. Recorded(r, result) = [r EXCEPT !.result = result, !.applied = 1, !.state = state]
      BY <2>1, <2>2, <3>1 DEF Record
    <3>3. state \in Statuses \cup {"none", "issued", "unknown"}
      BY <2>2, <3>1 DEF Record, IsMade
    <3>4. 1 \in 0..1
      OBVIOUS
    <3> QED
      BY <2>2, <3>2, <3>3, <3>4 DEF Record
  <2>4. /\ Recorded(r, result).result = result
        /\ Recorded(r, result).state = IF IsLate(r) THEN r.state ELSE result.status
        /\ Recorded(r, result).attempts = r.attempts
    BY <2>1, <2>2 DEF Record
  <2>5. Recorded(r, result).state # "none"
    BY <2>4 DEF IsMade, Statuses, IsLate
  <2>6. r.state \notin Open \cup {"none"} => IsLate(r)
    BY <2>2 DEF Record, Statuses, Open, IsLate
  <2> QED
    BY <2>3, <2>4, <2>5, <2>6, <1>1, <1>3 DEF Consistent
<1> QED
  BY <1>2, <1>3

\* Connections are only ever opened.
LEMMA OnlyConnects ==
    ASSUME [CommandsNext]_commandVars
    PROVE  UNCHANGED conns \/ (Connect /\ conns' = conns + 1)
<1>1. CASE UNCHANGED commandVars
  BY <1>1 DEF commandVars, netVars
<1>2. CASE \E c \in Cmds : Issue(c) \/ Reissue(c) \/ DeadlinePasses(c)
  BY <1>2 DEF Issue, Reissue, Deliver, DeadlinePasses, netVars
<1>3. CASE \E c \in Cmds : Perform(c)
  BY <1>3 DEF Perform, netVars
<1>4. CASE FinishSend \/ Expire \/ BrainCrash
  BY <1>4 DEF FinishSend, Expire, BrainCrash, netVars
<1>5. CASE Connect \/ Disconnect \/ WorkerRestart \/ CommitWrite
  BY <1>5 DEF Connect, Disconnect, WorkerRestart, CommitWrite
<1>6. CASE \E k \in 1..MaxConns : Brain(k) \/ NoticeClose(k)
  BY <1>6 DEF Brain, BindAgent, OpenSession, RecordResult, RejectStale, NoticeClose
<1>7. CASE Receive
  BY <1>7 DEF Receive, RecvSession, RecvTooEarly, RecvExecute, RecvAck
<1> QED
  BY <1>1, <1>2, <1>3, <1>4, <1>5, <1>6, <1>7 DEF CommandsNext

LEMMA ConnsGrow ==
    ASSUME NetTypes, [CommandsNext]_commandVars
    PROVE  conns <= conns' /\ conns \in Nat /\ conns' \in Nat
<1>1. conns \in Nat
  BY CommandBoundsAssumption DEF NetTypes, ConnTypes
<1> QED
  BY <1>1, OnlyConnects

LEMMA LogStep ==
    ASSUME LogTypes, NetTypes, [CommandsNext]_commandVars
    PROVE  LogTypes'
<1>c. conns <= conns' /\ conns \in Nat /\ conns' \in Nat
  BY ConnsGrow
<1>1. CASE UNCHANGED <<log, sending, expired>>
  BY <1>1, <1>c DEF LogTypes, Consistent
<1>2. CASE FinishSend
  <2>e. sending # <<>>
    BY <1>2 DEF FinishSend, NoSend
  <2>1. sending \in Seq(Sent) /\ Len(sending) = 1
    <3>1. sending \in Seq(Sent) /\ Len(sending) <= 1
      BY DEF LogTypes
    <3>2. Len(sending) \in Nat \ {0}
      BY <2>e, <3>1, EmptySeq
    <3>3. \A n \in Nat \ {0} : n <= 1 => n = 1
      OBVIOUS
    <3> QED
      BY <3>1, <3>2, <3>3
  <2> USE <1>2 DEF FinishSend
  <2>2. PICK s \in Sent : s = sending[1]
    BY <2>1
  <2>3. Consistent(s.record) /\ s.record.state \in Open /\ s.cmd \in Cmds
    BY <2>2 DEF LogTypes, Sent
  <2>4. Consistent([s.record EXCEPT !.state = "failed"])
    BY <2>3 DEF Consistent, Record, Statuses
  <2>5. \E r : Consistent(r) /\ log' = [log EXCEPT ![s.cmd] = r]
    BY <2>2, <2>3, <2>4
  <2>6. log' \in [Cmds -> Record] /\ \A c \in Cmds : Consistent(log'[c])
    BY <2>3, <2>5 DEF LogTypes, Consistent
  <2>7. sending' = <<>>
    BY DEF NoSend
  <2>8. sending' \in Seq(Sent) /\ Len(sending') <= 1
    BY <2>7
  <2> QED
    BY <2>6, <2>7, <2>8 DEF LogTypes, NoSend
<1>3. CASE Expire
  <2> USE <1>3 DEF Expire
  <2>1. \A c \in Cmds : log'[c] = IF c \in expired /\ Expirable(log[c])
                                  THEN [log[c] EXCEPT !.state = "unknown"] ELSE log[c]
    OBVIOUS
  <2>2. \A c \in Cmds : Consistent(log'[c])
    BY <2>1 DEF LogTypes, Consistent, Record
  <2>3. log' \in [Cmds -> Record]
    BY <2>2 DEF Consistent
  <2> QED
    BY <2>2, <2>3, <1>c DEF LogTypes
<1>4. CASE BrainCrash
  <2>1. sending' = <<>> /\ UNCHANGED <<log, expired>>
    BY <1>4 DEF BrainCrash, NoSend
  <2>2. sending' \in Seq(Sent) /\ Len(sending') <= 1
    BY <2>1
  <2> QED
    BY <2>1, <2>2 DEF LogTypes, NoSend, Consistent
<1>5. ASSUME NEW cmd \in Cmds, Issue(cmd) PROVE LogTypes'
  <2>1. PICK target \in Targets : Deliver(cmd, [log[cmd] EXCEPT !.state = "issued"], target)
    BY <1>5 DEF Issue
  <2>2. /\ Consistent(log[cmd]) /\ log[cmd].state = "none"
        /\ log[cmd].attempts = 0
    BY <1>5 DEF Issue, LogTypes, Consistent
  <2>3. PICK r : r = [log[cmd] EXCEPT !.state = "issued"]
    OBVIOUS
  <2>4. /\ r \in Record /\ r.state \in Open /\ r.attempts = 0
        /\ r.result = NoResult => r.applied = 0
    BY <2>2, <2>3 DEF Consistent, Record, Open
  <2>5. r.attempts < MaxAttempts
    BY <2>4, CommandBoundsAssumption
  <2>6. Deliver(cmd, r, target)
    BY <2>1, <2>3
  <2> QED
    BY <2>4, <2>5, <2>6, DeliverLogs
<1>6. ASSUME NEW cmd \in Cmds, Reissue(cmd) PROVE LogTypes'
  <2>1. PICK target \in Targets : Deliver(cmd, log[cmd], target)
    BY <1>6 DEF Reissue
  <2>2. /\ Consistent(log[cmd]) /\ log[cmd].state \in Open /\ log[cmd].attempts < MaxAttempts
    BY <1>6 DEF Reissue, Reissuable, LogTypes
  <2>3. PICK r : r = log[cmd]
    OBVIOUS
  <2>4. /\ r \in Record /\ r.state \in Open /\ r.attempts < MaxAttempts
        /\ r.result = NoResult => r.applied = 0
    BY <2>2, <2>3 DEF Consistent
  <2>5. Deliver(cmd, r, target)
    BY <2>1, <2>3
  <2> QED
    BY <2>4, <2>5, DeliverLogs
<1>7. CASE \E c \in Cmds : DeadlinePasses(c)
  <2>1. UNCHANGED <<log, sending>> /\ expired' \subseteq Cmds
    BY <1>7 DEF DeadlinePasses, LogTypes
  <2> QED
    BY <2>1, <1>c DEF LogTypes, Consistent
<1>8. ASSUME NEW k \in 1..MaxConns, RecordResult(k) PROVE LogTypes'
  <2> USE <1>8 DEF RecordResult
  <2>1. up[k] \in Seq(UpFrames) /\ up[k] # <<>>
    BY DEF NetTypes, UpTypes
  <2>2. PICK f \in UpFrames : f = Head(up[k])
    BY <2>1
  <2>3. f.cmd \in Cmds /\ f.result \in Result /\ IsMade(f.result)
    BY <2>2 DEF UpFrames, Frame
  <2>4. log' = [log EXCEPT ![f.cmd] = Recorded(log[f.cmd], f.result)]
    BY <2>2
  <2>5. Consistent(Recorded(log[f.cmd], f.result))
    BY <2>3, RecordedIsConsistent DEF LogTypes
  <2> DEFINE record == Recorded(log[f.cmd], f.result)
  <2>6. log' \in [Cmds -> Record] /\ \A c \in Cmds : Consistent(log'[c])
    <3>1. record \in Record
      BY <2>5 DEF Consistent
    <3>2. log \in [Cmds -> Record] /\ \A c \in Cmds : Consistent(log[c])
      BY DEF LogTypes
    <3>3. log' = [log EXCEPT ![f.cmd] = record] /\ Consistent(record)
      BY <2>4, <2>5
    <3> HIDE DEF record
    <3>4. log' \in [Cmds -> Record]
      BY <2>3, <3>1, <3>2, <3>3
    <3>5. ASSUME NEW c \in Cmds PROVE log'[c] = record \/ log'[c] = log[c]
      BY <3>2, <3>3
    <3> QED
      BY <3>2, <3>3, <3>4, <3>5, Zenon
  <2> QED
    BY <2>6, <1>c DEF LogTypes
<1> QED
  BY <1>1, <1>2, <1>3, <1>4, <1>5, <1>6, <1>7, <1>8, LogActs

-----------------------------------------------------------------------------
(***************************************************************************)
(* The Agent's own state.                                                  *)
(***************************************************************************)
LEMMA CurrentDown ==
    ASSUME NetTypes, down # <<>>
    PROVE  /\ Head(down) \in DownFrames /\ Tail(down) \in Seq(DownFrames)
           /\ Head(down).type # "session" => Head(down).cmd \in Cmds
           /\ Head(down) = down[1] /\ Len(down) \in Nat \ {0}
<1>1. down \in Seq(DownFrames)
  BY DEF NetTypes
<1>2. Head(down) \in DownFrames /\ Tail(down) \in Seq(DownFrames) /\ Head(down) = down[1]
  BY <1>1
<1>3. Len(down) \in Nat \ {0}
  BY <1>1, EmptySeq
<1> QED
  BY <1>2, <1>3 DEF DownFrames

LEMMA CurrentWrite ==
    ASSUME AgentTypes, writes # <<>>
    PROVE  /\ Head(writes) \in Write /\ Tail(writes) \in Seq(Write) /\ Head(writes) = writes[1]
           /\ Len(writes) \in Nat \ {0} /\ Len(Tail(writes)) = Len(writes) - 1
           /\ \A i \in 1..Len(Tail(writes)) : Tail(writes)[i] = writes[i + 1]
           /\ Head(writes).state \in Stored /\ Head(writes).done \subseteq Cmds
<1>1. writes \in Seq(Write)
  BY DEF AgentTypes
<1>2. Head(writes) \in Write /\ Tail(writes) \in Seq(Write) /\ Head(writes) = writes[1]
  BY <1>1
<1>3. Len(writes) \in Nat \ {0}
  BY <1>1, EmptySeq
<1>4. Len(Tail(writes)) = Len(writes) - 1 /\ \A i \in 1..Len(Tail(writes)) : Tail(writes)[i] = writes[i + 1]
  BY <1>1
<1> QED
  BY <1>2, <1>3, <1>4 DEF Write

\* The memory an execution leaves.
LEMMA PerformStores ==
    ASSUME AgentTypes, NEW c \in Cmds, Perform(c)
    PROVE  /\ mem' \in Stored /\ Holds(mem', c) /\ c \in mem'.pending
           /\ \A d \in Cmds \ {c} : mem'.records[d] = mem.records[d]
           /\ mem'.pending = mem.pending \cup {c}
           /\ writes' = Append(writes, [state |-> mem', done |-> {c}])
           /\ results' = [results EXCEPT ![c] = results[c] + 1]
           /\ executions' \in [Cmds -> Nat] /\ executions'[c] \in {executions[c], executions[c] + 1}
           /\ \A d \in Cmds \ {c} : executions'[d] = executions[d]
           /\ phase[c] = "started" /\ phase' = [phase EXCEPT ![c] = "performed"]
           /\ UNCHANGED <<torn, disk, waiting>>
<1>1. PICK status \in Statuses, performed \in BOOLEAN :
        /\ executions' = [executions EXCEPT ![c] = IF performed THEN executions[c] + 1
                                                   ELSE executions[c]]
        /\ mem' = [records |-> [mem.records EXCEPT
                                  ![c] = [id |-> results'[c], status |-> status]],
                   pending |-> mem.pending \cup {c}]
  BY DEF Perform
<1>2. /\ results' = [results EXCEPT ![c] = results[c] + 1]
      /\ writes' = Append(writes, [state |-> mem', done |-> {c}])
      /\ phase[c] = "started" /\ phase' = [phase EXCEPT ![c] = "performed"]
      /\ UNCHANGED <<torn, disk, waiting>>
  BY DEF Perform
<1>3. results \in [Cmds -> Nat] /\ results'[c] \in Nat /\ executions \in [Cmds -> Nat]
  BY <1>2 DEF AgentTypes
<1>4. PICK result \in Result : result = [id |-> results'[c], status |-> status]
  BY <1>3 DEF Result
<1>5. IsMade(result) /\ result # NoResult
  BY <1>4 DEF IsMade, NoResult, Statuses
<1>6. /\ mem \in State /\ IsFiniteSet(mem.pending)
      /\ \A d \in Cmds : mem.records[d] = NoResult \/ IsMade(mem.records[d])
      /\ \A d \in mem.pending : IsMade(mem.records[d])
  BY DEF AgentTypes, Stored
<1>7. mem.records \in [Cmds -> Result] /\ mem.pending \subseteq Cmds
  BY <1>6 DEF State
<1>8. /\ mem' = [records |-> [mem.records EXCEPT ![c] = result], pending |-> mem.pending \cup {c}]
      /\ mem'.records[c] = result
      /\ \A d \in Cmds \ {c} : mem'.records[d] = mem.records[d]
      /\ mem'.pending = mem.pending \cup {c}
  BY <1>1, <1>4, <1>7
<1>9. mem' \in State
  BY <1>7, <1>8 DEF State
<1>10. IsFiniteSet(mem'.pending)
  BY <1>6, <1>8, FS_AddElement
<1>11. mem' \in Stored
  <2>1. \A d \in Cmds : mem'.records[d] = NoResult \/ IsMade(mem'.records[d])
    BY <1>5, <1>6, <1>8
  <2>2. \A d \in mem'.pending : IsMade(mem'.records[d])
    BY <1>5, <1>6, <1>7, <1>8
  <2> QED
    BY <1>9, <1>10, <2>1, <2>2 DEF Stored
<1>12. executions'[c] \in {executions[c], executions[c] + 1} /\ executions' \in [Cmds -> Nat]
  BY <1>1, <1>3
<1>13. \A d \in Cmds \ {c} : executions'[d] = executions[d]
  BY <1>1, <1>3
<1> QED
  BY <1>2, <1>5, <1>8, <1>11, <1>12, <1>13 DEF Holds

\* The memory an acknowledgement leaves: at most one result is not pending any more.
LEMMA AckStores ==
    ASSUME AgentTypes, NetTypes, RecvAck
    PROVE  LET c == Head(down).cmd IN
           /\ c \in Cmds /\ down # <<>> /\ Head(down).type = "ack"
           /\ UNCHANGED <<disk, phase, waiting, executions, results, torn>>
           /\ \/ UNCHANGED <<mem, writes>>
              \/ /\ mem' \in Stored /\ mem'.records = mem.records
                 /\ mem'.pending = mem.pending \ {c}
                 /\ writes' = Append(writes, [state |-> mem', done |-> {}])
<1> DEFINE c == Head(down).cmd
<1>1. /\ down # <<>> /\ Head(down).type = "ack"
      /\ UNCHANGED <<disk, phase, waiting, executions, results, torn>>
  BY DEF RecvAck
<1>2. c \in Cmds
  BY <1>1, CurrentDown
<1>3. \/ UNCHANGED <<mem, writes>>
      \/ /\ mem' = [mem EXCEPT !.pending = mem.pending \ {c}]
         /\ writes' = Append(writes, [state |-> mem', done |-> {}])
  BY DEF RecvAck
<1>4. ASSUME mem' = [mem EXCEPT !.pending = mem.pending \ {c}]
      PROVE  mem' \in Stored /\ mem'.records = mem.records /\ mem'.pending = mem.pending \ {c}
  <2>1. /\ mem \in State /\ IsFiniteSet(mem.pending)
        /\ \A d \in Cmds : mem.records[d] = NoResult \/ IsMade(mem.records[d])
        /\ \A d \in mem.pending : IsMade(mem.records[d])
    BY DEF AgentTypes, Stored
  <2>2. mem' \in State /\ mem'.records = mem.records /\ mem'.pending = mem.pending \ {c}
    BY <1>4, <2>1 DEF State
  <2>3. IsFiniteSet(mem'.pending)
    BY <2>1, <2>2, FS_RemoveElement
  <2> QED
    BY <2>1, <2>2, <2>3 DEF Stored
<1> QED
  BY <1>1, <1>2, <1>3, <1>4

LEMMA AgentStep ==
    ASSUME AgentTypes, NetTypes, [CommandsNext]_commandVars
    PROVE  AgentTypes'
<1>1. CASE UNCHANGED agentVars
  BY <1>1 DEF agentVars, AgentTypes
<1>2. CASE WorkerRestart
  <2>1. /\ mem' = disk /\ UNCHANGED <<disk, executions, results>> /\ writes' = <<>>
        /\ phase' = [c \in Cmds |-> "idle"] /\ waiting' = [c \in Cmds |-> 0]
        /\ torn' \subseteq Cmds
    BY <1>2 DEF WorkerRestart, AgentTypes
  <2>2. writes' \in Seq(Write)
    BY <2>1
  <2> QED
    BY <2>1, <2>2 DEF AgentTypes, Phases
<1>3. CASE RecvExecute
  <2> DEFINE c == Head(down).cmd
  <2>1. c \in Cmds
    BY <1>3, CurrentDown DEF RecvExecute
  <2>2. UNCHANGED <<torn, mem, disk, writes, executions, results>>
    BY <1>3 DEF RecvExecute
  <2>3. \/ UNCHANGED <<phase, waiting>>
        \/ /\ waiting' = [waiting EXCEPT ![c] = waiting[c] + 1]
           /\ phase' = [phase EXCEPT ![c] = IF phase[c] = "idle" THEN "started" ELSE phase[c]]
    BY <1>3 DEF RecvExecute
  <2>4. phase' \in [Cmds -> Phases] /\ waiting' \in [Cmds -> Nat]
    BY <2>1, <2>3 DEF AgentTypes, Phases
  <2> QED
    BY <2>2, <2>4 DEF AgentTypes
<1>4. CASE RecvAck
  <2>1. PICK c \in Cmds :
          /\ UNCHANGED <<disk, phase, waiting, executions, results, torn>>
          /\ \/ UNCHANGED <<mem, writes>>
             \/ mem' \in Stored /\ writes' = Append(writes, [state |-> mem', done |-> {}])
    BY <1>4, AckStores
  <2>2. mem' \in Stored => [state |-> mem', done |-> {}] \in Write
    BY DEF Write
  <2>3. mem' \in Stored
    BY <2>1 DEF AgentTypes
  <2>4. writes' \in Seq(Write)
    <3>1. CASE UNCHANGED writes
      BY <3>1 DEF AgentTypes
    <3>2. CASE writes' = Append(writes, [state |-> mem', done |-> {}])
      BY <2>2, <2>3, <3>2, AppendProperties DEF AgentTypes
    <3> QED
      BY <2>1, <3>1, <3>2
  <2> QED
    BY <2>1, <2>3, <2>4 DEF AgentTypes
<1>5. CASE CommitWrite
  <2> DEFINE done == Head(writes).done
  <2>1. /\ disk' = Head(writes).state /\ writes' = Tail(writes)
        /\ phase' = [c \in Cmds |-> IF c \in done THEN "idle" ELSE phase[c]]
        /\ waiting' = [c \in Cmds |-> IF c \in done THEN 0 ELSE waiting[c]]
        /\ UNCHANGED <<torn, mem, executions, results>>
    BY <1>5 DEF CommitWrite
  <2>2. disk' \in Stored /\ writes' \in Seq(Write)
    BY <1>5, <2>1, CurrentWrite DEF CommitWrite
  <2>3. phase' \in [Cmds -> Phases] /\ waiting' \in [Cmds -> Nat]
    BY <2>1 DEF AgentTypes, Phases
  <2> QED
    BY <2>1, <2>2, <2>3 DEF AgentTypes
<1>6. ASSUME NEW c \in Cmds, Perform(c) PROVE AgentTypes'
  <2>1. /\ mem' \in Stored /\ writes' = Append(writes, [state |-> mem', done |-> {c}])
        /\ results' = [results EXCEPT ![c] = results[c] + 1]
        /\ executions' \in [Cmds -> Nat] /\ executions'[c] \in {executions[c], executions[c] + 1}
        /\ \A d \in Cmds \ {c} : executions'[d] = executions[d]
        /\ phase' = [phase EXCEPT ![c] = "performed"]
        /\ UNCHANGED <<torn, disk, waiting>>
    BY <1>6, PerformStores
  <2>2. [state |-> mem', done |-> {c}] \in Write
    BY <2>1 DEF Write
  <2>3. writes' \in Seq(Write)
    BY <2>1, <2>2 DEF AgentTypes
  <2>4. results' \in [Cmds -> Nat] /\ phase' \in [Cmds -> Phases]
    BY <2>1 DEF AgentTypes, Phases
  <2>5. \A d \in Cmds : executions'[d] <= results'[d]
    BY <2>1 DEF AgentTypes
  <2> QED
    BY <2>1, <2>3, <2>4, <2>5 DEF AgentTypes
<1> QED
  BY <1>1, <1>2, <1>3, <1>4, <1>5, <1>6, AgentActs

-----------------------------------------------------------------------------
(***************************************************************************)
(* The wire.                                                               *)
(***************************************************************************)
\* SetToSeq lists a finite set.
LEMMA Listing ==
    ASSUME NEW S, IsFiniteSet(S)
    PROVE  Cardinality(S) \in Nat /\ SetToSeq(S) \in [1..Cardinality(S) -> S]
<1>1. Cardinality(S) \in Nat /\ ExistsBijection(1..Cardinality(S), S)
  BY FS_CardinalityType
<1>2. \E f \in [1..Cardinality(S) -> S] : IsInjective(f)
  BY <1>1 DEF ExistsBijection, Bijection, Injection, IsInjective
<1> QED
  BY <1>1, <1>2 DEF SetToSeq

LEMMA MadeFrame ==
    ASSUME NEW s \in Stored, NEW c \in Cmds, Holds(s, c)
    PROVE  ToAgent("result", c, s.records[c]) \in UpFrames
<1>1. s \in State /\ IsMade(s.records[c])
  BY DEF Stored, Holds
<1>2. s.records[c] \in Result
  BY <1>1 DEF State
<1> QED
  BY <1>1, <1>2 DEF UpFrames, Frame, ToAgent

\* Results that are resent were made.
LEMMA PendingFrames ==
    ASSUME NEW s \in Stored
    PROVE  ResultFrames(s, Resent(s)) \in Seq(UpFrames)
<1> DEFINE n == Cardinality(s.pending)
           list == SetToSeq(s.pending)
<1>1. IsFiniteSet(s.pending) /\ s.pending \subseteq Cmds /\ \A c \in s.pending : IsMade(s.records[c])
  BY DEF Stored, State
<1>2. n \in Nat /\ list \in [1..n -> s.pending]
  BY <1>1, Listing
<1>3. \A i \in 1..n : list[i] \in Cmds /\ Holds(s, list[i])
  BY <1>1, <1>2 DEF Holds, IsMade, NoResult, Statuses
<1>4. \A i \in 1..n : ToAgent("result", list[i], s.records[list[i]]) \in UpFrames
  BY <1>3, MadeFrame
<1>5. ResultFrames(s, Resent(s)) = [i \in 1..n |-> ToAgent("result", list[i], s.records[list[i]])]
  BY DEF ResultFrames, Resent
<1>6. [i \in 1..n |-> ToAgent("result", list[i], s.records[list[i]])] \in [1..n -> UpFrames]
  BY <1>4
<1> HIDE DEF n, list
<1> QED
  BY <1>2, <1>5, <1>6, SeqDef

\* One connection's frames are set.
LEMMA UpSet ==
    ASSUME UpTypes, NEW k \in 1..MaxConns, NEW q \in Seq(UpFrames),
           conns \in Nat, conns' \in Nat, conns <= conns',
           q # <<>> => k <= conns',
           up' = [up EXCEPT ![k] = q]
    PROVE  UpTypes'
<1>1. up' \in [1..MaxConns -> Seq(UpFrames)]
  BY DEF UpTypes
<1>2. \A j \in 1..MaxConns : up'[j] # <<>> => j <= conns'
  BY DEF UpTypes
<1> QED
  BY <1>1, <1>2 DEF UpTypes

LEMMA CurrentUp ==
    ASSUME NetTypes, NEW k \in 1..MaxConns, up[k] # <<>>
    PROVE  /\ up[k] \in Seq(UpFrames) /\ Head(up[k]) \in UpFrames /\ Tail(up[k]) \in Seq(UpFrames)
           /\ k <= conns /\ k \in 1..conns
           /\ Head(up[k]).type = "result" => /\ Head(up[k]).cmd \in Cmds
                                             /\ Head(up[k]).result \in Result
                                             /\ IsMade(Head(up[k]).result)
<1>1. up[k] \in Seq(UpFrames) /\ k <= conns
  BY DEF NetTypes, UpTypes
<1>2. Head(up[k]) \in UpFrames /\ Tail(up[k]) \in Seq(UpFrames)
  BY <1>1
<1>3. k \in 1..conns
  BY <1>1, CommandBoundsAssumption DEF NetTypes, ConnTypes
<1> QED
  BY <1>1, <1>2, <1>3 DEF UpFrames, Frame

\* The socket in use is one of those opened.
LEMMA CurrentConn ==
    ASSUME NetTypes, conn # 0
    PROVE  conn \in 1..MaxConns /\ conn <= conns /\ up[conn] \in Seq(UpFrames)
<1>1. conn \in 1..MaxConns /\ conn <= conns
  BY CommandBoundsAssumption DEF NetTypes, ConnTypes
<1> QED
  BY <1>1 DEF NetTypes, UpTypes

LEMMA UpActs ==
    ASSUME [CommandsNext]_commandVars
    PROVE  \/ UNCHANGED up
           \/ BrainCrash \/ Connect \/ RecvSession \/ RecvExecute \/ CommitWrite
           \/ \E k \in 1..MaxConns : Brain(k) \/ NoticeClose(k)
<1>1. CASE UNCHANGED commandVars
  BY <1>1 DEF commandVars, netVars
<1>2. CASE \E c \in Cmds : Issue(c) \/ Reissue(c) \/ DeadlinePasses(c)
  BY <1>2 DEF Issue, Reissue, Deliver, DeadlinePasses, netVars
<1>3. CASE \E c \in Cmds : Perform(c)
  BY <1>3 DEF Perform, netVars
<1>4. CASE FinishSend \/ Expire \/ Disconnect \/ WorkerRestart
  BY <1>4 DEF FinishSend, Expire, Disconnect, WorkerRestart, netVars
<1>5. CASE RecvTooEarly \/ RecvAck
  BY <1>5 DEF RecvTooEarly, RecvAck
<1> QED
  BY <1>1, <1>2, <1>3, <1>4, <1>5 DEF CommandsNext, Receive

LEMMA UpStep ==
    ASSUME AgentTypes, NetTypes, ResultsGrow, [CommandsNext]_commandVars
    PROVE  UpTypes'
<1>c. UpTypes /\ conns <= conns' /\ conns \in Nat /\ conns' \in Nat
  BY ConnsGrow DEF NetTypes
<1>1. CASE UNCHANGED up
  BY <1>1, <1>c DEF UpTypes
<1>2. CASE BrainCrash
  <2>1. up' = [k \in 1..MaxConns |-> <<>>]
    BY <1>2 DEF BrainCrash
  <2>2. <<>> \in Seq(UpFrames)
    OBVIOUS
  <2> QED
    BY <2>1, <2>2 DEF UpTypes
<1>3. CASE Connect
  <2>1. /\ conns < MaxConns /\ conns' = conns + 1
        /\ up' = [up EXCEPT ![conns'] = <<ToAgent("hello", 0, NoResult)>>]
    BY <1>3 DEF Connect
  <2>2. NoResult \in Result
    BY DEF NoResult, Result
  <2>3. ToAgent("hello", 0, NoResult) \in UpFrames
    BY <2>2 DEF ToAgent, UpFrames, Frame
  <2>4. <<ToAgent("hello", 0, NoResult)>> \in Seq(UpFrames)
    BY <2>3
  <2>5. PICK k \in 1..MaxConns : k = conns'
    BY <2>1, <1>c, CommandBoundsAssumption
  <2>6. up' = [up EXCEPT ![k] = <<ToAgent("hello", 0, NoResult)>>] /\ k <= conns'
    BY <2>1, <2>5
  <2> QED
    BY <2>4, <2>6, <1>c, UpSet
<1>4. CASE RecvSession
  <2>1. conn # 0 /\ up' = [up EXCEPT ![conn] = up[conn] \o ResultFrames(mem, Resent(mem))]
    BY <1>4 DEF RecvSession
  <2>2. conn \in 1..MaxConns /\ conn <= conns /\ up[conn] \in Seq(UpFrames)
    BY <2>1, CurrentConn
  <2>3. ResultFrames(mem, Resent(mem)) \in Seq(UpFrames)
    BY PendingFrames DEF AgentTypes
  <2>4. up[conn] \o ResultFrames(mem, Resent(mem)) \in Seq(UpFrames)
    BY <2>2, <2>3, ConcatProperties
  <2>5. conn <= conns'
    BY <2>2, <1>c
  <2> QED
    BY <2>1, <2>2, <2>4, <2>5, <1>c, UpSet
<1>5. CASE RecvExecute
  <2>1. conn # 0 /\ down # <<>> /\ Head(down).type = "execute"
    BY <1>5 DEF RecvExecute
  <2>2. PICK c \in Cmds : c = Head(down).cmd
    BY <2>1, CurrentDown
  <2>3. \/ UNCHANGED up
        \/ /\ Holds(mem, c)
           /\ up' = [up EXCEPT ![conn] = Append(up[conn], ToAgent("result", c, mem.records[c]))]
    BY <1>5, <2>2 DEF RecvExecute, Known, Holds
  <2>4. conn \in 1..MaxConns /\ conn <= conns /\ up[conn] \in Seq(UpFrames)
    BY <2>1, CurrentConn
  <2>5. CASE Holds(mem, c)
    <3>1. ToAgent("result", c, mem.records[c]) \in UpFrames
      BY <2>5, MadeFrame DEF AgentTypes
    <3>2. Append(up[conn], ToAgent("result", c, mem.records[c])) \in Seq(UpFrames)
      BY <3>1, <2>4, AppendProperties
    <3>3. conn <= conns'
      BY <2>4, <1>c
    <3> QED
      BY <3>2, <3>3, <2>3, <2>4, <1>c, <1>1, UpSet
  <2> QED
    BY <2>3, <2>5, <1>1
<1>6. CASE CommitWrite
  <2> DEFINE done == Head(writes).done
             frames(c) == [i \in 1..waiting[c] |-> ToAgent("result", c, mem.records[c])]
  <2>1. /\ writes # <<>>
        /\ up' = IF session /\ done # {}
                 THEN [up EXCEPT ![conn] = up[conn] \o frames(CHOOSE c \in done : TRUE)] ELSE up
    BY <1>6 DEF CommitWrite
  <2>2. CASE session /\ done # {}
    <3>1. conn \in 1..MaxConns /\ conn <= conns /\ up[conn] \in Seq(UpFrames)
      BY <2>2, CurrentConn DEF NetTypes, ConnTypes
    <3>2. done \subseteq Cmds /\ done = writes[1].done /\ 1 \in 1..Len(writes)
      BY <2>1, CurrentWrite
    <3>3. PICK c \in Cmds : c \in done /\ c = CHOOSE d \in done : TRUE
      BY <2>2, <3>2
    <3>4. Holds(mem, c)
      BY <3>2, <3>3 DEF ResultsGrow
    <3>5. ToAgent("result", c, mem.records[c]) \in UpFrames
      BY <3>4, MadeFrame DEF AgentTypes
    <3>6. waiting[c] \in Nat
      BY DEF AgentTypes
    <3>7. frames(c) \in Seq(UpFrames)
      BY <3>5, <3>6
    <3>8. up[conn] \o frames(c) \in Seq(UpFrames)
      BY <3>1, <3>7, ConcatProperties
    <3>9. up' = [up EXCEPT ![conn] = up[conn] \o frames(c)]
      BY <2>1, <2>2, <3>3
    <3>10. conn <= conns'
      BY <3>1, <1>c
    <3> QED
      BY <3>1, <3>8, <3>9, <3>10, <1>c, UpSet
  <2>3. CASE ~(session /\ done # {})
    BY <2>1, <2>3, <1>1
  <2> QED
    BY <2>2, <2>3
<1>7. ASSUME NEW k \in 1..MaxConns, Brain(k) \/ NoticeClose(k) PROVE UpTypes'
  <2>1. CASE NoticeClose(k)
    <3>1. up' = [up EXCEPT ![k] = <<>>] /\ <<>> \in Seq(UpFrames)
      BY <2>1 DEF NoticeClose
    <3> QED
      BY <3>1, <1>c, UpSet
  <2>2. CASE BindAgent(k)
    <3>1. /\ up[k] # <<>> /\ up' = [up EXCEPT ![k] = [up[k] EXCEPT ![1] = [up[k][1] EXCEPT !.type = "bound"]]]
      BY <2>2 DEF BindAgent
    <3>2. up[k] \in Seq(UpFrames) /\ up[k][1] = Head(up[k]) /\ Head(up[k]) \in UpFrames /\ k <= conns
      BY <3>1, CurrentUp
    <3>3. [up[k][1] EXCEPT !.type = "bound"] \in UpFrames
      BY <3>2 DEF UpFrames, Frame
    <3>4. PICK f \in UpFrames : f = [up[k][1] EXCEPT !.type = "bound"]
      BY <3>3
    <3>5. [up[k] EXCEPT ![1] = f] \in Seq(UpFrames)
      <4>1. 1 \in 1..Len(up[k])
        BY <3>1, <3>2, EmptySeq
      <4> QED
        BY <3>2, <4>1, ExceptSeq
    <3>6. k <= conns'
      BY <3>2, <1>c
    <3> QED
      BY <3>1, <3>4, <3>5, <3>6, <1>c, UpSet
  <2>3. CASE OpenSession(k) \/ RecordResult(k) \/ RejectStale(k)
    <3>1. up[k] # <<>> /\ up' = [up EXCEPT ![k] = Tail(up[k])]
      BY <2>3 DEF OpenSession, RecordResult, RejectStale
    <3>2. PICK q \in Seq(UpFrames) : q = Tail(up[k])
      BY <3>1, CurrentUp
    <3>3. k <= conns'
      BY <3>1, CurrentUp, <1>c
    <3> QED
      BY <3>1, <3>2, <3>3, <1>c, UpSet
  <2> QED
    BY <1>7, <2>1, <2>2, <2>3 DEF Brain
<1> QED
  BY <1>1, <1>2, <1>3, <1>4, <1>5, <1>6, <1>7, UpActs

\* What the Agent has yet to receive is lost, received, or appended to; an
\* acknowledgement is appended when its command's result is on record.
LEMMA DownMoves ==
    ASSUME NetTypes, LogTypes, [CommandsNext]_commandVars
    PROVE  \/ down' \in {down, <<>>}
           \/ down # <<>> /\ down' = Tail(down)
           \/ \E f \in DownFrames :
                 /\ down' = Append(down, f)
                 /\ f.type = "ack" => f.cmd \in Cmds /\ log'[f.cmd].result # NoResult
<1>0. NoResult \in Result
  BY DEF NoResult, Result
<1>1. CASE UNCHANGED commandVars
  BY <1>1 DEF commandVars, netVars
<1>2. CASE \E c \in Cmds : Issue(c) \/ Reissue(c) \/ DeadlinePasses(c)
  BY <1>2 DEF Issue, Reissue, Deliver, DeadlinePasses, netVars
<1>3. CASE (\E c \in Cmds : Perform(c)) \/ CommitWrite \/ Expire \/ Connect
  BY <1>3 DEF Perform, CommitWrite, Expire, Connect, netVars
<1>4. CASE BrainCrash \/ Disconnect \/ WorkerRestart \/ RecvTooEarly
  BY <1>4 DEF BrainCrash, Disconnect, WorkerRestart, RecvTooEarly, CloseSocket
<1>5. CASE RecvSession \/ RecvExecute \/ RecvAck
  BY <1>5 DEF RecvSession, RecvExecute, RecvAck
<1>6. CASE FinishSend
  <2> DEFINE s == sending[1]
  <2>1. sending # <<>> /\ Reply(s.conn, ToAgent("execute", s.cmd, NoResult))
    BY <1>6 DEF FinishSend, NoSend
  <2>2. sending \in Seq(Sent)
    BY DEF LogTypes
  <2>3. s \in Sent
    BY <2>1, <2>2, EmptySeq
  <2>4. s.cmd \in Cmds
    BY <2>3 DEF Sent
  <2>5. ToAgent("execute", s.cmd, NoResult) \in DownFrames
    BY <2>4, <1>0 DEF ToAgent, DownFrames, Frame
  <2>6. PICK f \in DownFrames : f = ToAgent("execute", s.cmd, NoResult)
    BY <2>5
  <2>7. f.type # "ack"
    BY <2>6 DEF ToAgent
  <2> QED
    BY <2>1, <2>6, <2>7 DEF Reply
<1>7. ASSUME NEW k \in 1..MaxConns, OpenSession(k) \/ RejectStale(k) \/ NoticeClose(k) \/ BindAgent(k)
      PROVE  \/ down' \in {down, <<>>}
             \/ \E f \in DownFrames : down' = Append(down, f) /\ f.type # "ack"
  <2>1. PICK f : f = ToAgent("session", 0, NoResult)
    OBVIOUS
  <2>2. f \in DownFrames /\ f.type # "ack"
    BY <1>0, <2>1 DEF ToAgent, DownFrames, Frame
  <2> QED
    BY <1>7, <2>1, <2>2 DEF OpenSession, RejectStale, NoticeClose, BindAgent, Reply, CloseSocket
<1>8. ASSUME NEW k \in 1..MaxConns, RecordResult(k)
      PROVE  \/ down' = down
             \/ \E f \in DownFrames : /\ down' = Append(down, f)
                                      /\ f.cmd \in Cmds /\ log'[f.cmd].result # NoResult
  <2>1. up[k] # <<>> /\ Head(up[k]).type = "result"
    BY <1>8 DEF RecordResult
  <2>2. PICK f : f = Head(up[k])
    OBVIOUS
  <2>3. f.cmd \in Cmds /\ f.result \in Result /\ IsMade(f.result)
    BY <2>1, <2>2, CurrentUp
  <2>4. /\ log' = [log EXCEPT ![f.cmd] = Recorded(log[f.cmd], f.result)]
        /\ Reply(k, ToAgent("ack", f.cmd, f.result))
    BY <1>8, <2>2 DEF RecordResult
  <2>5. log'[f.cmd].result # NoResult
    BY <2>3, <2>4, RecordedIsConsistent DEF LogTypes
  <2>6. ToAgent("ack", f.cmd, f.result) \in DownFrames /\ ToAgent("ack", f.cmd, f.result).cmd = f.cmd
    BY <2>3 DEF ToAgent, DownFrames, Frame
  <2> QED
    BY <2>3, <2>4, <2>5, <2>6 DEF Reply
<1> QED
  BY <1>1, <1>2, <1>3, <1>4, <1>5, <1>6, <1>7, <1>8 DEF CommandsNext, Brain, Receive

\* How the socket and the lease move.
LEMMA ConnMoves ==
    ASSUME NetTypes, [CommandsNext]_commandVars
    PROVE  /\ fence' \in {fence, 0} \/ fence' \in 1..conns
           /\ \/ UNCHANGED <<conn, session>>
              \/ conn' = 0 /\ session' = FALSE
              \/ conn # 0 /\ conn' = conn /\ session' = TRUE
              \/ Connect
<1>1. CASE UNCHANGED commandVars
  BY <1>1 DEF commandVars, netVars, logVars
<1>2. CASE \E c \in Cmds : Issue(c) \/ Reissue(c) \/ DeadlinePasses(c)
  BY <1>2 DEF Issue, Reissue, Deliver, DeadlinePasses, netVars
<1>3. CASE (\E c \in Cmds : Perform(c)) \/ CommitWrite \/ Expire \/ FinishSend
  BY <1>3 DEF Perform, CommitWrite, Expire, FinishSend, netVars, logVars
<1>4. CASE BrainCrash \/ Disconnect \/ WorkerRestart \/ RecvTooEarly
  BY <1>4 DEF BrainCrash, Disconnect, WorkerRestart, RecvTooEarly, CloseSocket, logVars
<1>5. CASE RecvSession \/ RecvExecute \/ RecvAck \/ Connect
  BY <1>5 DEF RecvSession, RecvExecute, RecvAck, Connect, logVars
<1>6. ASSUME NEW k \in 1..MaxConns, Brain(k) \/ NoticeClose(k)
      PROVE  /\ fence' \in {fence, 0} \/ fence' \in 1..conns
             /\ UNCHANGED <<conn, session>> \/ (conn' = 0 /\ session' = FALSE)
  <2>1. CASE BindAgent(k)
    <3>1. up[k] # <<>> /\ fence' = k /\ UNCHANGED <<conn, session>>
      BY <2>1 DEF BindAgent
    <3> QED
      BY <3>1, CurrentUp
  <2>2. CASE OpenSession(k) \/ RecordResult(k) \/ NoticeClose(k)
    BY <2>2 DEF OpenSession, RecordResult, NoticeClose, logVars
  <2>3. CASE RejectStale(k)
    BY <2>3 DEF RejectStale, CloseSocket, logVars
  <2> QED
    BY <1>6, <2>1, <2>2, <2>3 DEF Brain
<1> QED
  BY <1>1, <1>2, <1>3, <1>4, <1>5, <1>6 DEF CommandsNext, Receive

LEMMA NetStep ==
    ASSUME AgentTypes, NetTypes, LogTypes, ResultsGrow, [CommandsNext]_commandVars
    PROVE  NetTypes'
<1>1. UpTypes'
  BY UpStep
<1>2. down' \in Seq(DownFrames)
  <2>1. down \in Seq(DownFrames) /\ <<>> \in Seq(DownFrames)
    BY DEF NetTypes
  <2>2. CASE down' \in {down, <<>>}
    BY <2>1, <2>2
  <2>3. CASE down # <<>> /\ down' = Tail(down)
    BY <2>3, CurrentDown
  <2>4. CASE \E f \in DownFrames : down' = Append(down, f)
    BY <2>1, <2>4, AppendProperties
  <2> QED
    BY <2>2, <2>3, <2>4, DownMoves
<1>3. ConnTypes'
  <2>1. /\ conns \in 0..MaxConns /\ conn \in 0..conns /\ fence \in 0..conns
        /\ session \in BOOLEAN
        /\ session => conn # 0
    BY DEF NetTypes, ConnTypes
  <2>2. conns <= conns' /\ conns \in Nat /\ conns' \in Nat
    BY ConnsGrow
  <2>3. CASE Connect
    <3>1. /\ conn = 0 /\ conns < MaxConns /\ conns' = conns + 1 /\ conn' = conns'
          /\ UNCHANGED <<fence, session>>
      BY <2>3 DEF Connect, logVars
    <3>2. conns' \in 0..MaxConns /\ conn' \in 0..conns' /\ fence' \in 0..conns' /\ conn' # 0
      BY <2>1, <2>2, <3>1, CommandBoundsAssumption
    <3> QED
      BY <2>1, <3>1, <3>2 DEF ConnTypes
  <2>4. CASE ~Connect
    <3>1. conns' = conns
      BY <2>4, OnlyConnects
    <3>2. /\ fence' \in {fence, 0} \/ fence' \in 1..conns
          /\ \/ UNCHANGED <<conn, session>>
             \/ conn' = 0 /\ session' = FALSE
             \/ conn # 0 /\ conn' = conn /\ session' = TRUE
      BY <2>4, ConnMoves
    <3>3. fence' \in 0..conns' /\ conn' \in 0..conns' /\ conns' \in 0..MaxConns
      BY <2>1, <2>2, <3>1, <3>2
    <3>4. /\ session' \in BOOLEAN
          /\ session' => conn' # 0
      <4>1. CASE UNCHANGED <<conn, session>>
        BY <2>1, <4>1
      <4>2. CASE conn' = 0 /\ session' = FALSE
        BY <4>2
      <4>3. CASE conn # 0 /\ conn' = conn /\ session' = TRUE
        BY <4>3
      <4> QED
        BY <3>2, <4>1, <4>2, <4>3
    <3> QED
      BY <3>3, <3>4 DEF ConnTypes
  <2> QED
    BY <2>3, <2>4
<1> QED
  BY <1>1, <1>2, <1>3 DEF NetTypes

-----------------------------------------------------------------------------
(***************************************************************************)
(* What is executed.                                                       *)
(***************************************************************************)
\* A write of the whole memory joins the queue.
LEMMA Queued ==
    ASSUME AgentTypes, mem' \in Stored, NEW done \in SUBSET Cmds,
           writes' = Append(writes, [state |-> mem', done |-> done])
    PROVE  /\ Len(writes) \in Nat /\ Len(writes') = Len(writes) + 1
           /\ \A i \in 1..Len(writes) : writes'[i] = writes[i]
           /\ writes'[Len(writes) + 1].state = mem' /\ writes'[Len(writes) + 1].done = done
<1>1. PICK w : w = [state |-> mem', done |-> done]
  OBVIOUS
<1>2. w \in Write /\ writes \in Seq(Write) /\ writes' = Append(writes, w)
  BY <1>1 DEF Write, AgentTypes
<1>3. /\ Len(writes') = Len(writes) + 1 /\ writes'[Len(writes) + 1] = w
      /\ \A i \in 1..Len(writes) : writes'[i] = writes[i]
  BY <1>2, AppendProperties
<1>4. Len(writes) \in Nat
  BY <1>2
<1> QED
  BY <1>1, <1>3, <1>4

LEMMA QueuedGrows ==
    ASSUME AgentTypes, ResultsGrow, mem' \in Stored, NEW done \in SUBSET Cmds,
           writes' = Append(writes, [state |-> mem', done |-> done]), disk' = disk,
           \A c \in Cmds : Holds(mem, c) => Holds(mem', c),
           \A c \in done : Holds(mem', c)
    PROVE  ResultsGrow'
<1> PICK n \in Nat : n = Len(writes)
  BY Queued
<1>1. /\ Len(writes') = n + 1 /\ \A i \in 1..n : writes'[i] = writes[i]
      /\ writes'[n + 1].state = mem' /\ writes'[n + 1].done = done
  BY Queued
<1>2. \A c \in Cmds : Holds(disk', c) => Holds(mem', c)
  BY DEF ResultsGrow
<1>3. ASSUME NEW c \in Cmds, NEW i \in 1..n + 1
      PROVE  /\ Holds(disk', c) => Holds(writes'[i].state, c)
             /\ Holds(writes'[i].state, c) => Holds(mem', c)
             /\ \A j \in i..n + 1 : Holds(writes'[i].state, c) => Holds(writes'[j].state, c)
  <2>1. CASE i = n + 1
    <3>1. \A j \in i..n + 1 : j = i
      BY <2>1
    <3> QED
      BY <1>1, <1>2, <2>1, <3>1
  <2>2. CASE i # n + 1
    <3>1. i \in 1..n
      BY <2>2
    <3>2. \A j \in i..n + 1 : j = n + 1 \/ (j \in i..n /\ j \in 1..n)
      BY <3>1
    <3> QED
      BY <1>1, <3>1, <3>2 DEF ResultsGrow
  <2> QED
    BY <2>1, <2>2
<1>4. \A i \in 1..n + 1 : \A c \in writes'[i].done : Holds(writes'[i].state, c)
  <2>1. \A i \in 1..n + 1 : i = n + 1 \/ i \in 1..n
    OBVIOUS
  <2> QED
    BY <1>1, <2>1 DEF ResultsGrow
<1> QED
  BY <1>1, <1>2, <1>3, <1>4 DEF ResultsGrow

LEMMA GrowStep ==
    ASSUME AgentTypes, NetTypes, ResultsGrow, [CommandsNext]_commandVars
    PROVE  ResultsGrow'
<1>1. CASE UNCHANGED <<mem, disk, writes>>
  BY <1>1 DEF ResultsGrow
<1>2. CASE WorkerRestart
  <2>1. mem' = disk /\ disk' = disk /\ writes' = <<>>
    BY <1>2 DEF WorkerRestart
  <2>2. Len(writes') = 0 /\ \A i \in 1..0 : FALSE
    BY <2>1
  <2> QED
    BY <2>1, <2>2 DEF ResultsGrow
<1>3. CASE RecvAck
  <2>1. \/ UNCHANGED <<mem, disk, writes>>
        \/ /\ mem' \in Stored /\ mem'.records = mem.records /\ disk' = disk
           /\ writes' = Append(writes, [state |-> mem', done |-> {}])
    BY <1>3, AckStores
  <2>2. mem'.records = mem.records => \A c \in Cmds : Holds(mem, c) => Holds(mem', c)
    BY DEF Holds
  <2>3. {} \in SUBSET Cmds /\ \A c \in {} : Holds(mem', c)
    OBVIOUS
  <2> QED
    BY <1>1, <2>1, <2>2, <2>3, QueuedGrows
<1>4. ASSUME NEW c \in Cmds, Perform(c) PROVE ResultsGrow'
  <2>1. /\ mem' \in Stored /\ Holds(mem', c) /\ disk' = disk
        /\ \A d \in Cmds \ {c} : mem'.records[d] = mem.records[d]
        /\ writes' = Append(writes, [state |-> mem', done |-> {c}])
    BY <1>4, PerformStores
  <2>2. \A d \in Cmds : Holds(mem, d) => Holds(mem', d)
    BY <2>1 DEF Holds
  <2>3. {c} \in SUBSET Cmds /\ \A d \in {c} : Holds(mem', d)
    BY <2>1
  <2> QED
    BY <2>1, <2>2, <2>3, QueuedGrows
<1>5. CASE CommitWrite
  <2>1. writes # <<>> /\ disk' = Head(writes).state /\ writes' = Tail(writes) /\ mem' = mem
    BY <1>5 DEF CommitWrite
  <2>2. PICK n \in Nat \ {0} : n = Len(writes)
    BY <2>1, CurrentWrite
  <2>3. /\ disk' = writes[1].state /\ Len(writes') = n - 1
        /\ \A i \in 1..n - 1 : writes'[i] = writes[i + 1]
    BY <2>1, <2>2, CurrentWrite
  <2>4. 1 \in 1..n /\ \A i \in 1..n : i \in 1..n
    BY <2>2
  <2>5. \A c \in Cmds : \A i \in 1..n :
          /\ Holds(writes[1].state, c) => Holds(writes[i].state, c)
          /\ Holds(writes[i].state, c) => Holds(mem, c)
          /\ \A j \in i..n : Holds(writes[i].state, c) => Holds(writes[j].state, c)
    BY <2>2, <2>4 DEF ResultsGrow
  <2>6. \A i \in 1..n - 1 : i + 1 \in 1..n /\ \A j \in i..n - 1 : j \in 1..n - 1 /\ j + 1 \in i + 1..n
    BY <2>2
  <2>7. \A c \in Cmds : Holds(disk', c) => Holds(mem', c)
    BY <2>1, <2>3, <2>4, <2>5
  <2>8. \A c \in Cmds : \A i \in 1..n - 1 :
          /\ Holds(disk', c) => Holds(writes'[i].state, c)
          /\ Holds(writes'[i].state, c) => Holds(mem', c)
          /\ \A j \in i..n - 1 : Holds(writes'[i].state, c) => Holds(writes'[j].state, c)
    BY <2>1, <2>3, <2>5, <2>6
  <2>9. \A i \in 1..n - 1 : \A c \in writes'[i].done : Holds(writes'[i].state, c)
    BY <2>2, <2>3, <2>6 DEF ResultsGrow
  <2> QED
    BY <2>3, <2>7, <2>8, <2>9 DEF ResultsGrow
<1>6. CASE UNCHANGED agentVars \/ RecvExecute
  BY <1>1, <1>6 DEF agentVars, RecvExecute
<1> QED
  BY <1>2, <1>3, <1>4, <1>5, <1>6, AgentActs

LEMMA ExecutionStep ==
    ASSUME AgentTypes, NetTypes, ResultsGrow, ExecutionIsKnown, [CommandsNext]_commandVars
    PROVE  ExecutionIsKnown'
<1>t. /\ phase \in [Cmds -> Phases] /\ executions \in [Cmds -> Nat]
      /\ \A c \in Cmds : Holds(disk, c) => Holds(mem, c)
  BY DEF AgentTypes, ResultsGrow
<1>1. CASE UNCHANGED <<mem, disk, phase, executions, torn>>
  BY <1>1 DEF ExecutionIsKnown
<1>2. CASE WorkerRestart
  <2>1. /\ mem' = disk /\ UNCHANGED <<disk, executions>>
        /\ phase' = [c \in Cmds |-> "idle"]
        /\ torn' = torn \cup {c \in Cmds : phase[c] = "performed"}
    BY <1>2 DEF WorkerRestart
  <2>2. \A c \in Cmds : phase'[c] = "idle" /\ (c \notin torn' => c \notin torn /\ phase[c] # "performed")
    BY <2>1
  <2> QED
    BY <2>1, <2>2 DEF ExecutionIsKnown
<1>3. CASE RecvExecute
  <2>1. PICK c : c = Head(down).cmd
    OBVIOUS
  <2>2. c \in Cmds
    BY <1>3, <2>1, CurrentDown DEF RecvExecute
  <2>3. UNCHANGED <<mem, disk, executions, torn>>
    BY <1>3 DEF RecvExecute
  <2>4. \/ phase' = phase
        \/ /\ phase' = [phase EXCEPT ![c] = IF phase[c] = "idle" THEN "started" ELSE phase[c]]
           /\ phase[c] = "idle" => ~Holds(mem, c)
    BY <1>3, <2>1 DEF RecvExecute, Known, Holds
  <2>5. ASSUME NEW d \in Cmds
        PROVE  /\ phase'[d] = "started" => ~Holds(mem, d)
               /\ phase'[d] # "performed" => phase[d] # "performed"
    BY <2>2, <2>4, <1>t DEF ExecutionIsKnown
  <2> QED
    BY <2>3, <2>5 DEF ExecutionIsKnown
<1>4. CASE RecvAck
  <2>1. /\ UNCHANGED <<disk, phase, executions, torn>>
        /\ mem' = mem \/ mem'.records = mem.records
    BY <1>4, AckStores
  <2>2. \A c \in Cmds : Holds(mem', c) = Holds(mem, c)
    BY <2>1 DEF Holds
  <2> QED
    BY <2>1, <2>2 DEF ExecutionIsKnown
<1>5. CASE CommitWrite
  <2> DEFINE done == Head(writes).done
  <2>1. /\ writes # <<>> /\ disk' = Head(writes).state
        /\ phase' = [c \in Cmds |-> IF c \in done THEN "idle" ELSE phase[c]]
        /\ UNCHANGED <<mem, executions, torn>>
    BY <1>5 DEF CommitWrite
  <2>2. disk' = writes[1].state /\ done = writes[1].done /\ done \subseteq Cmds /\ 1 \in 1..Len(writes)
    BY <2>1, CurrentWrite
  <2>3. \A c \in Cmds : Holds(disk, c) => Holds(disk', c)
    BY <2>2 DEF ResultsGrow
  <2>4. \A c \in done : Holds(disk', c)
    BY <2>2 DEF ResultsGrow
  <2>5. ASSUME NEW c \in Cmds
        PROVE  /\ phase'[c] = "started" => phase[c] = "started"
               /\ phase'[c] # "performed" /\ ~Holds(disk', c) => phase[c] # "performed" /\ ~Holds(disk, c)
    BY <2>1, <2>3, <2>4
  <2> QED
    BY <2>1, <2>5 DEF ExecutionIsKnown
<1>6. ASSUME NEW c \in Cmds, Perform(c) PROVE ExecutionIsKnown'
  <2>1. /\ Holds(mem', c) /\ \A d \in Cmds \ {c} : mem'.records[d] = mem.records[d]
        /\ executions'[c] \in {executions[c], executions[c] + 1}
        /\ \A d \in Cmds \ {c} : executions'[d] = executions[d]
        /\ phase[c] = "started" /\ phase' = [phase EXCEPT ![c] = "performed"]
        /\ UNCHANGED <<torn, disk>>
    BY <1>6, PerformStores
  <2>2. c \notin torn => executions[c] = 0
    BY <2>1, <1>t DEF ExecutionIsKnown
  <2>3. c \notin torn => executions'[c] <= 1
    BY <2>1, <2>2
  <2>4. phase'[c] = "performed" /\ \A d \in Cmds \ {c} : phase'[d] = phase[d]
    BY <2>1, <1>t
  <2>5. \A d \in Cmds \ {c} : Holds(mem', d) = Holds(mem, d)
    BY <2>1 DEF Holds
  <2> QED
    BY <2>1, <2>3, <2>4, <2>5 DEF ExecutionIsKnown
<1> QED
  BY <1>1, <1>2, <1>3, <1>4, <1>5, <1>6, AgentActs DEF agentVars

LEMMA ExecutionInit == CommandsInit => ExecutionInv
<1> SUFFICES ASSUME CommandsInit PROVE ExecutionInv
  OBVIOUS
<1> USE DEF CommandsInit
<1>1. NoResult \in Result
  BY DEF NoResult, Result
<1>2. NoState \in Stored
  <2>1. NoState \in State /\ NoState.pending = {} /\ \A c \in Cmds : NoState.records[c] = NoResult
    BY <1>1 DEF NoState, State
  <2> QED
    BY <2>1, FS_EmptySet DEF Stored
<1>3. AgentTypes
  BY <1>2 DEF AgentTypes, Phases
<1>4. NetTypes
  <2>1. up \in [1..MaxConns -> Seq(UpFrames)] /\ down \in Seq(DownFrames)
    OBVIOUS
  <2>2. \A k \in 1..MaxConns : up[k] = <<>>
    OBVIOUS
  <2>3. conns \in 0..MaxConns /\ conn \in 0..conns /\ fence \in 0..conns
    BY CommandBoundsAssumption
  <2>4. session = FALSE
    OBVIOUS
  <2> QED
    BY <2>1, <2>2, <2>3, <2>4 DEF NetTypes, UpTypes, ConnTypes
<1>5. LogTypes
  <2>1. Consistent(NoRecord)
    BY <1>1, CommandBoundsAssumption DEF Consistent, NoRecord, Record, NoResult
  <2>2. NoRecord \in Record /\ sending = <<>>
    BY <2>1 DEF Consistent, NoSend
  <2>3. sending \in Seq(Sent) /\ Len(sending) <= 1
    BY <2>2
  <2> QED
    BY <2>1, <2>2, <2>3 DEF LogTypes, NoSend
<1>6. \A c \in Cmds : ~Holds(mem, c) /\ ~Holds(disk, c)
  BY DEF Holds, NoState
<1>7. ResultsGrow /\ ExecutionIsKnown
  <2>1. Len(writes) = 0 /\ \A i \in 1..0 : FALSE
    OBVIOUS
  <2> QED
    BY <1>6, <2>1 DEF ResultsGrow, ExecutionIsKnown
<1> QED
  BY <1>3, <1>4, <1>5, <1>7 DEF ExecutionInv

LEMMA ExecutionInvariant == CommandsSpec => []ExecutionInv
<1>1. ExecutionInv /\ [CommandsNext]_commandVars => ExecutionInv'
  BY AgentStep, NetStep, LogStep, GrowStep, ExecutionStep DEF ExecutionInv
<1> QED
  BY <1>1, ExecutionInit, PTL DEF CommandsSpec

-----------------------------------------------------------------------------
(***************************************************************************)
(* What is recorded.  From here on a send is one step of the event loop:   *)
(* under back pressure a recorded result may be overwritten.               *)
(***************************************************************************)
\* The end of issue and reissue changes a record that is open or new, and
\* leaves its result alone.
LEMMA DeliverKeeps ==
    ASSUME LogTypes, NetTypes, NEW cmd \in Cmds, NEW record \in Record, NEW target \in Targets,
           Deliver(cmd, record, target), record.result = log[cmd].result
    PROVE  /\ SendIsCurrent'
           /\ log'[cmd].result = log[cmd].result
           /\ \A c \in Cmds \ {cmd} : log'[c] = log[c]
<1>0. log \in [Cmds -> Record] /\ sending = NoSend
  BY DEF LogTypes, Deliver
<1>1. CASE cmd \in expired \/ target = 0
  <2>1. /\ log' = [log EXCEPT ![cmd] = [record EXCEPT
                      !.state = IF cmd \in expired THEN "unknown" ELSE "failed"]]
        /\ sending' = NoSend
    BY <1>0, <1>1 DEF Deliver
  <2>2. log'[cmd].result = record.result
    BY <1>0, <2>1 DEF Record
  <2> QED
    BY <1>0, <2>1, <2>2 DEF SendIsCurrent
<1>2. CASE ~(cmd \in expired \/ target = 0)
  <2>1. PICK saved : saved = [record EXCEPT !.attempts = @ + 1]
    OBVIOUS
  <2>2. /\ log' = [log EXCEPT ![cmd] = saved]
        /\ sending' = <<[cmd |-> cmd, record |-> saved, conn |-> target]>>
    BY <1>2, <2>1 DEF Deliver
  <2>3. saved.result = record.result
    BY <2>1 DEF Record
  <2>4. sending'[1].cmd = cmd /\ sending'[1].record = saved /\ log'[cmd] = saved
    BY <1>0, <2>2
  <2> QED
    BY <1>0, <2>2, <2>3, <2>4 DEF SendIsCurrent
<1> QED
  BY <1>1, <1>2

LEMMA OutcomeKept ==
    ASSUME SendSuspends = FALSE, LogTypes, NetTypes, SendIsCurrent, [CommandsNext]_commandVars
    PROVE  /\ SendIsCurrent'
           /\ \A c \in Cmds :
                 /\ log[c].state \notin Open \cup {"none"} => log'[c].state = log[c].state
                 /\ log[c].result # NoResult => log'[c].result = log[c].result
<1>t. log \in [Cmds -> Record] /\ \A c \in Cmds : Consistent(log[c])
  BY DEF LogTypes
<1>1. CASE UNCHANGED <<log, sending, expired>>
  BY <1>1 DEF SendIsCurrent
<1>2. CASE FinishSend
  <2>1. sending # <<>> /\ sending' = NoSend
    BY <1>2 DEF FinishSend, NoSend
  <2>2. sending \in Seq(Sent)
    BY DEF LogTypes
  <2>3. PICK s \in Sent : s = sending[1]
    BY <2>1, <2>2, EmptySeq
  <2>4. s.cmd \in Cmds /\ s.record = log[s.cmd] /\ s.record.state \in Open
    BY <2>1, <2>3 DEF Sent, SendIsCurrent, LogTypes, NoSend
  <2>5. \/ log' = [log EXCEPT ![s.cmd] = s.record]
        \/ log' = [log EXCEPT ![s.cmd] = [s.record EXCEPT !.state = "failed"]]
    BY <1>2, <2>3 DEF FinishSend
  <2>6. log'[s.cmd].result = log[s.cmd].result
    BY <1>t, <2>4, <2>5 DEF Record
  <2>7. \A c \in Cmds \ {s.cmd} : log'[c] = log[c]
    BY <1>t, <2>5
  <2> QED
    BY <2>1, <2>4, <2>6, <2>7 DEF SendIsCurrent
<1>3. CASE Expire
  <2>1. sending = NoSend /\ sending' = sending
    BY <1>3 DEF Expire, Free
  <2>2. log' = [c \in Cmds |-> IF c \in expired /\ Expirable(log[c])
                               THEN [log[c] EXCEPT !.state = "unknown"] ELSE log[c]]
    BY <1>3 DEF Expire
  <2>3. \A c \in Cmds : \/ log'[c] = log[c]
                        \/ log[c].state \in Open /\ log'[c].result = log[c].result
    BY <1>t, <2>2 DEF Expirable, Record
  <2> QED
    BY <2>1, <2>3 DEF SendIsCurrent
<1>4. CASE BrainCrash
  BY <1>4 DEF BrainCrash, SendIsCurrent
<1>5. ASSUME NEW cmd \in Cmds, Issue(cmd)
      PROVE  /\ SendIsCurrent' /\ log[cmd].state = "none"
             /\ log'[cmd].result = log[cmd].result
             /\ \A c \in Cmds \ {cmd} : log'[c] = log[c]
  <2>1. PICK target \in Targets : Deliver(cmd, [log[cmd] EXCEPT !.state = "issued"], target)
    BY <1>5 DEF Issue
  <2>2. PICK r : r = [log[cmd] EXCEPT !.state = "issued"]
    OBVIOUS
  <2>3. r \in Record /\ r.result = log[cmd].result
    BY <1>t, <2>2 DEF Record
  <2>4. Deliver(cmd, r, target)
    BY <2>1, <2>2
  <2> QED
    BY <1>5, <2>3, <2>4, DeliverKeeps DEF Issue
<1>6. ASSUME NEW cmd \in Cmds, Reissue(cmd)
      PROVE  /\ SendIsCurrent' /\ log[cmd].state \in Open
             /\ log'[cmd].result = log[cmd].result
             /\ \A c \in Cmds \ {cmd} : log'[c] = log[c]
  <2>1. PICK target \in Targets : Deliver(cmd, log[cmd], target)
    BY <1>6 DEF Reissue
  <2>2. PICK r \in Record : r = log[cmd]
    BY <1>t
  <2>3. Deliver(cmd, r, target)
    BY <2>1, <2>2
  <2>4. log[cmd].state \in Open
    BY <1>6 DEF Reissue, Reissuable
  <2> QED
    BY <2>2, <2>3, <2>4, DeliverKeeps
<1>7. CASE \E c \in Cmds : DeadlinePasses(c)
  BY <1>7 DEF DeadlinePasses, SendIsCurrent
<1>8. ASSUME NEW k \in 1..MaxConns, RecordResult(k)
      PROVE  /\ SendIsCurrent'
             /\ \A c \in Cmds :
                   /\ log[c].state \notin Open \cup {"none"} => log'[c].state = log[c].state
                   /\ log[c].result # NoResult => log'[c].result = log[c].result
  <2>1. up[k] # <<>> /\ Head(up[k]).type = "result"
    BY <1>8 DEF RecordResult
  <2>2. PICK f : f = Head(up[k])
    OBVIOUS
  <2>3. f.cmd \in Cmds /\ f.result \in Result /\ IsMade(f.result)
    BY <2>1, <2>2, CurrentUp
  <2>4. log' = [log EXCEPT ![f.cmd] = Recorded(log[f.cmd], f.result)]
    BY <1>8, <2>2 DEF RecordResult
  <2>5. sending = NoSend /\ sending' = sending
    BY <1>8 DEF RecordResult, Free
  <2>6. /\ log[f.cmd].result # NoResult => Recorded(log[f.cmd], f.result) = log[f.cmd]
        /\ log[f.cmd].state \notin Open \cup {"none"} =>
              Recorded(log[f.cmd], f.result).state = log[f.cmd].state
    BY <1>t, <2>3, RecordedIsConsistent
  <2> QED
    BY <1>t, <2>3, <2>4, <2>5, <2>6 DEF SendIsCurrent
<1>9. Open = {"issued", "accepted"}
  BY DEF Open
<1> QED
  BY <1>1, <1>2, <1>3, <1>4, <1>5, <1>6, <1>7, <1>8, <1>9, LogActs

LEMMA RecordStep ==
    ASSUME SendSuspends = FALSE, ExecutionInv, RecordInv, [CommandsNext]_commandVars
    PROVE  RecordInv'
<1>t. LogTypes /\ NetTypes /\ AgentTypes /\ SendIsCurrent /\ ResultsGrow
  BY DEF ExecutionInv, RecordInv
<1>s. SendIsCurrent' /\ \A c \in Cmds : log[c].result # NoResult => log'[c].result # NoResult
  BY <1>t, OutcomeKept
<1>d. \A i \in 1..Len(down') : down'[i].type = "ack" => log'[down'[i].cmd].result # NoResult
  <2>1. \A i \in 1..Len(down) : /\ down[i] \in DownFrames
                                /\ down[i].type = "ack" => down[i].cmd \in Cmds
    BY <1>t DEF NetTypes, DownFrames
  <2>2. \A i \in 1..Len(down) : down[i].type = "ack" => log'[down[i].cmd].result # NoResult
    BY <2>1, <1>s DEF RecordInv
  <2>3. CASE down' = down
    BY <2>2, <2>3
  <2>4. CASE down' = <<>>
    BY <2>4
  <2>5. CASE down # <<>> /\ down' = Tail(down)
    <3>1. down \in Seq(DownFrames)
      BY <1>t DEF NetTypes
    <3>2. \A i \in 1..Len(down') : i + 1 \in 1..Len(down) /\ down'[i] = down[i + 1]
      BY <2>5, <3>1, EmptySeq
    <3> QED
      BY <2>2, <3>2
  <2>6. ASSUME NEW f \in DownFrames, down' = Append(down, f),
               f.type = "ack" => f.cmd \in Cmds /\ log'[f.cmd].result # NoResult
        PROVE  \A i \in 1..Len(down') : down'[i].type = "ack" => log'[down'[i].cmd].result # NoResult
    <3>1. down \in Seq(DownFrames) /\ Len(down) \in Nat
      BY <1>t DEF NetTypes
    <3>2. /\ Len(down') = Len(down) + 1 /\ down'[Len(down) + 1] = f
          /\ \A i \in 1..Len(down) : down'[i] = down[i]
      BY <2>6, <3>1, AppendProperties
    <3>3. \A i \in 1..Len(down') : i = Len(down) + 1 \/ i \in 1..Len(down)
      BY <3>1, <3>2
    <3> QED
      BY <2>2, <2>6, <3>2, <3>3
  <2> QED
    BY <1>t, <2>3, <2>4, <2>5, <2>6, DownMoves
<1>c. /\ \A c \in Cmds : Holds(mem, c) /\ c \notin mem.pending => log'[c].result # NoResult
      /\ \A c \in Cmds : Holds(disk, c) /\ c \notin disk.pending => log'[c].result # NoResult
      /\ \A i \in 1..Len(writes) : \A c \in Cmds :
            Holds(writes[i].state, c) /\ c \notin writes[i].state.pending => log'[c].result # NoResult
  BY <1>s DEF RecordInv, Compacts
<1>m. ASSUME mem' \in Stored, NEW done \in SUBSET Cmds, disk' = disk,
             writes' = Append(writes, [state |-> mem', done |-> done]),
             \A c \in Cmds : Holds(mem', c) /\ c \notin mem'.pending => log'[c].result # NoResult
      PROVE  RecordInv'
  <2>1. PICK n \in Nat : n = Len(writes)
    BY <1>t, <1>m, Queued
  <2>2. /\ Len(writes') = n + 1 /\ writes'[n + 1].state = mem'
        /\ \A i \in 1..n : writes'[i] = writes[i]
    BY <1>t, <1>m, <2>1, Queued
  <2>3. \A i \in 1..n + 1 : i = n + 1 \/ i \in 1..n
    OBVIOUS
  <2>4. \A i \in 1..n + 1 : \A c \in Cmds :
           Holds(writes'[i].state, c) /\ c \notin writes'[i].state.pending => log'[c].result # NoResult
    BY <1>c, <1>m, <2>1, <2>2, <2>3
  <2> QED
    BY <1>s, <1>d, <1>c, <1>m, <2>2, <2>4 DEF RecordInv, Compacts
<1>1. CASE UNCHANGED <<mem, disk, writes>>
  BY <1>1, <1>s, <1>d, <1>c DEF RecordInv, Compacts
<1>2. CASE WorkerRestart
  <2>1. mem' = disk /\ disk' = disk /\ writes' = <<>>
    BY <1>2 DEF WorkerRestart
  <2>2. Len(writes') = 0 /\ \A i \in 1..0 : FALSE
    BY <2>1
  <2> QED
    BY <2>1, <2>2, <1>s, <1>d, <1>c DEF RecordInv, Compacts
<1>3. CASE RecvAck
  <2>1. PICK c : c = Head(down).cmd
    OBVIOUS
  <2>2. /\ c \in Cmds /\ down # <<>> /\ Head(down).type = "ack"
        /\ UNCHANGED disk
        /\ \/ UNCHANGED <<mem, writes>>
           \/ /\ mem' \in Stored /\ mem'.records = mem.records
              /\ mem'.pending = mem.pending \ {c}
              /\ writes' = Append(writes, [state |-> mem', done |-> {}])
    BY <1>t, <1>3, <2>1, AckStores
  <2>3. log[c].result # NoResult
    <3>1. Head(down) = down[1] /\ 1 \in 1..Len(down)
      BY <1>t, <2>2, CurrentDown
    <3> QED
      BY <2>1, <2>2, <3>1 DEF RecordInv
  <2>4. ASSUME mem'.records = mem.records, mem'.pending = mem.pending \ {c}
        PROVE  \A d \in Cmds : Holds(mem', d) /\ d \notin mem'.pending => log'[d].result # NoResult
    BY <1>s, <1>c, <2>2, <2>3, <2>4 DEF Holds
  <2>5. {} \in SUBSET Cmds
    OBVIOUS
  <2> QED
    BY <1>1, <1>m, <2>2, <2>4, <2>5
<1>4. ASSUME NEW c \in Cmds, Perform(c) PROVE RecordInv'
  <2>1. /\ mem' \in Stored /\ disk' = disk /\ mem'.pending = mem.pending \cup {c}
        /\ \A d \in Cmds \ {c} : mem'.records[d] = mem.records[d]
        /\ writes' = Append(writes, [state |-> mem', done |-> {c}])
    BY <1>t, <1>4, PerformStores
  <2>2. \A d \in Cmds : Holds(mem', d) /\ d \notin mem'.pending => log'[d].result # NoResult
    BY <1>c, <2>1 DEF Holds
  <2>3. {c} \in SUBSET Cmds
    OBVIOUS
  <2> QED
    BY <1>m, <2>1, <2>2, <2>3
<1>5. CASE CommitWrite
  <2>1. writes # <<>> /\ disk' = Head(writes).state /\ writes' = Tail(writes) /\ mem' = mem
    BY <1>5 DEF CommitWrite
  <2>2. PICK n \in Nat \ {0} : n = Len(writes)
    BY <1>t, <2>1, CurrentWrite
  <2>3. /\ disk' = writes[1].state /\ Len(writes') = n - 1
        /\ \A i \in 1..n - 1 : writes'[i] = writes[i + 1]
    BY <1>t, <2>1, <2>2, CurrentWrite
  <2>4. 1 \in 1..n /\ \A i \in 1..n - 1 : i + 1 \in 1..n
    BY <2>2
  <2>5. /\ \A c \in Cmds : Holds(disk', c) /\ c \notin disk'.pending => log'[c].result # NoResult
        /\ \A i \in 1..n - 1 : \A c \in Cmds :
              Holds(writes'[i].state, c) /\ c \notin writes'[i].state.pending => log'[c].result # NoResult
    BY <1>c, <2>2, <2>3, <2>4
  <2> QED
    BY <2>1, <2>3, <2>5, <1>s, <1>d, <1>c DEF RecordInv, Compacts
<1>6. CASE UNCHANGED agentVars \/ RecvExecute
  BY <1>1, <1>6 DEF agentVars, RecvExecute
<1> QED
  BY <1>t, <1>2, <1>3, <1>4, <1>5, <1>6, AgentActs

LEMMA CommandInvariant ==
    ASSUME SendSuspends = FALSE
    PROVE  CommandsSpec => []CommandInv
<1>1. CommandsInit => CommandInv
  <2> SUFFICES ASSUME CommandsInit PROVE CommandInv
    OBVIOUS
  <2>1. Len(down) = 0 /\ Len(writes) = 0 /\ \A i \in 1..0 : FALSE
    BY DEF CommandsInit
  <2>2. \A c \in Cmds : ~Holds(mem, c) /\ ~Holds(disk, c)
    BY DEF CommandsInit, NoState, Holds
  <2>3. RecordInv
    BY <2>1, <2>2 DEF RecordInv, SendIsCurrent, Compacts, CommandsInit
  <2> QED
    BY <2>3, ExecutionInit DEF CommandInv
<1>2. CommandInv /\ [CommandsNext]_commandVars => CommandInv'
  BY AgentStep, NetStep, LogStep, GrowStep, ExecutionStep, RecordStep DEF ExecutionInv, CommandInv
<1> QED
  BY <1>1, <1>2, PTL DEF CommandsSpec

-----------------------------------------------------------------------------
LEMMA TypesImplied == ExecutionInv => CommandsTypeOK
<1> SUFFICES ASSUME ExecutionInv PROVE CommandsTypeOK
  OBVIOUS
<1>1. AgentTypes /\ NetTypes /\ LogTypes
  BY DEF ExecutionInv
<1>2. mem \in State /\ disk \in State
  BY <1>1 DEF AgentTypes, Stored
<1>3. \A i \in 1..Len(writes) : writes[i].state \in State /\ writes[i].done \subseteq Cmds
  <2>1. \A i \in 1..Len(writes) : writes[i] \in Write
    BY <1>1 DEF AgentTypes
  <2> QED
    BY <2>1 DEF Write, Stored
<1>4. sending # NoSend => sending[1].record \in Record /\ sending[1].conn \in 1..conns
  BY <1>1 DEF LogTypes, Consistent
<1>5. /\ conns \in 0..MaxConns /\ conn \in 0..conns /\ fence \in 0..conns
      /\ session \in BOOLEAN
  BY <1>1 DEF NetTypes, ConnTypes
<1>6. /\ phase \in [Cmds -> {"idle", "started", "performed"}] /\ torn \subseteq Cmds
      /\ waiting \in [Cmds -> Nat] /\ executions \in [Cmds -> Nat] /\ results \in [Cmds -> Nat]
      /\ \A c \in Cmds : executions[c] <= results[c]
  BY <1>1 DEF AgentTypes, Phases
<1>7. log \in [Cmds -> Record] /\ expired \subseteq Cmds
  BY <1>1 DEF LogTypes
<1> QED
  BY <1>2, <1>3, <1>4, <1>5, <1>6, <1>7 DEF CommandsTypeOK

\* A command is executed at most once, on whatever connections and however
\* often it is delivered, unless the worker died between its action and the
\* write of its result: execute of agent-command-service.mjs.  With or without
\* back pressure in the Brain.
THEOREM ExecutedOnce == CommandsSpec => [](CommandsTypeOK /\ ExecutesOnceUnlessTorn)
<1>1. ExecutionInv => ExecutesOnceUnlessTorn
  BY DEF ExecutionInv, ExecutionIsKnown, ExecutesOnceUnlessTorn
<1> QED
  BY <1>1, ExecutionInvariant, TypesImplied, PTL

\* Where a send does not suspend, the Agent moreover compacts a result only
\* after the Brain has recorded it: acknowledge and record_result.
THEOREM ExecutionIsRecorded ==
    ASSUME SendSuspends = FALSE
    PROVE  CommandsSpec => []ExecutedAndRecorded
<1>1. CommandInv => ExecutesOnceUnlessTorn /\ CompactedIsRecorded
  BY DEF CommandInv, ExecutionInv, ExecutionIsKnown, ExecutesOnceUnlessTorn, RecordInv,
         Compacts, Holds, CompactedIsRecorded
<1>2. CommandInv => ExecutedAndRecorded
  BY <1>1, TypesImplied DEF CommandInv, ExecutedAndRecorded
<1> QED
  BY <1>2, CommandInvariant, PTL

\* Where a send does not suspend, neither the outcome of a command nor its
\* recorded result is ever revised, by a late or repeated result, a reissue, the
\* end of its send, the deadline or a crash: record_result, reissue and expire.
THEOREM OutcomeStands ==
    ASSUME SendSuspends = FALSE
    PROVE  CommandsSpec => OutcomeIsFinal
<1>1. CommandInv /\ [CommandsNext]_commandVars =>
        [\A c \in Cmds : /\ log[c].state \notin Open \cup {"none"} => log'[c].state = log[c].state
                         /\ log[c].result # NoResult => log'[c].result = log[c].result]_commandVars
  BY OutcomeKept DEF CommandInv, ExecutionInv, RecordInv
<1> QED
  BY <1>1, CommandInvariant, PTL DEF CommandsSpec, OutcomeIsFinal
=============================================================================
