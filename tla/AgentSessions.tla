---------------------------- MODULE AgentSessions ----------------------------
(****************************************************************************)
(* Leases, presence and what Bridges are told of them, as                    *)
(* InMemoryTransportManager (src/app/transport/manager.py) keeps them and    *)
(* the two sockets of src/app/api/endpoints/transport_ws.py use them.        *)
(*                                                                           *)
(* Everything runs on one event loop, so the tasks change places only at an  *)
(* await: at the lock _agent_command_lock, at a send to a Bridge, at a close *)
(* and at the sweeper's sleep.  A connection is one Agent socket with the    *)
(* task that serves it and the lease it was given; the sweeper is _sweep;    *)
(* a command is whichever issue_command or reissue_command holds the lock    *)
(* across its send.  Ages stand for clock readings: age is the time since a  *)
(* lease's last heartbeat, aged the same as the sweeper's pass sees it, with *)
(* the reading of the clock it took when it began.                           *)
(*                                                                           *)
(* A send whose content is not kept here, a presence.state for one, is only  *)
(* a wait, and any task may be slow.                                         *)
(*                                                                           *)
(* One account is modelled.  The others share with it the sweeper and the     *)
(* lock, and show only as the time these take: the sweeper may stay between   *)
(* any two of its steps while another account's Bridges are told, the lock    *)
(* may be held by another account's command.                                 *)
(****************************************************************************)
EXTENDS Naturals, Sequences, FiniteSets, SequencesExt

CONSTANTS Connections,   \* Agent sockets, each used once
          Bridges,       \* Bridge sockets, each used once
          Timeout,       \* lease_timeout_seconds, in ticks
          PresenceTTL,   \* PRESENCE_TTL_SECONDS, in ticks
          MaxCasts,      \* how many broadcasts are under way at once
          MaxFaults      \* how many passes fail on the command store

ASSUME SessionsAssumption ==
    /\ Timeout \in Nat \ {0}
    /\ PresenceTTL \in Nat \ {0}

None == "none"

Sweeper == "sweeper"
Command == "command"

\* Every task has a name of its own
ASSUME NamesAssumption ==
    /\ None \notin Connections
    /\ Connections \cap Bridges = {}
    /\ {Sweeper, Command} \cap (Connections \cup Bridges) = {}

Owners == Connections \cup Bridges \cup {Sweeper}
Unknown == [freshness |-> "unknown", ttl |-> 0]

Blank == [status |-> None, of |-> None]

VARIABLES
    status,     \* lease.status of connection c
    age,        \* ticks since lease.last_heartbeat_at, up to 2 * Timeout
    task,       \* where connection c's _agent_socket is
    active,     \* the connection of the account's entry in active_agents
    line,       \* holder and waiters of _agent_command_lock, in order
    presence,   \* the account's presence record
    bridges,    \* the manager's bridges, in the order of their binding
    greeted,    \* how far Bridge b's _bridge_socket has greeted it
    casts,      \* the broadcast each task is in, if any
    shown,      \* the last agent.state that Bridge b got
    overtaken,  \* the Bridges that got it after a newer one
    sweep,      \* the sweeper's pass
    faults      \* passes failed so far

watching == <<bridges, greeted, shown, overtaken>>
vars == <<status, age, task, active, line, presence, bridges, greeted,
          casts, shown, overtaken, sweep, faults>>

----------------------------------------------------------------------------
(* Broadcasts *)

\* agent_state_payload: what tells one agent.state from another here
AgentState(act, st) ==
    IF act = None THEN [status |-> "disconnected", of |-> None]
    ELSE [status |-> st[act],
          of |-> IF st[act] = "disconnected" THEN None ELSE act]

NoCast == [state |-> Blank, left |-> <<>>, older |-> {}, outrun |-> {}]

InFlight(o) == casts[o].left # <<>>

\* An agent.state its owner sends and awaits: the payload is made now, the
\* Bridges are listed now, and each is sent to in turn.  older notes which
\* broadcasts it follows while they are still under way.
Cast(o, state, targets) ==
    /\ Cardinality({p \in Owners : InFlight(p)}) < MaxCasts
    /\ casts' = IF targets = <<>> THEN casts ELSE
           [p \in Owners |->
               IF p = o
               THEN [state |-> state, left |-> targets, outrun |-> {},
                     older |-> {q \in Owners \ {o} : InFlight(q)}]
               ELSE [casts[p] EXCEPT !.older = @ \ {o}]]

\* broadcast_agent_state
Broadcast(o, act, st) == Cast(o, AgentState(act, st), bridges)

\* One send of a broadcast and the wait it may cost.  The owner goes on when the
\* last one is over.
Send(o) ==
    LET cast == casts[o]
        b    == Head(cast.left)
        last == Tail(cast.left) = <<>>
        Outran(p) == p \in cast.older /\ Contains(casts[p].left, b)
    IN /\ InFlight(o)
       /\ casts' = [p \in Owners |->
              CASE p = o /\ last -> NoCast
                [] p = o /\ ~last -> [cast EXCEPT !.left = Tail(@)]
                [] p # o /\ Outran(p) -> [casts[p] EXCEPT !.outrun = @ \cup {b}]
                [] OTHER -> casts[p]]
       /\ shown' = [shown EXCEPT ![b] = cast.state]
       /\ overtaken' = IF b \in cast.outrun THEN overtaken \cup {b}
                                            ELSE overtaken \ {b}
       /\ UNCHANGED <<status, age, task, active, line, presence, bridges, greeted,
                      sweep, faults>>

----------------------------------------------------------------------------
(* The Agent's socket *)

\* asyncio.Lock is taken at once when it is free, and serves its waiters in order
Waits(t) == line # <<>> /\ line' = Append(line, t)
Locks(t) == \/ line = <<>> /\ line' = line
            \/ line # <<>> /\ Head(line) = t /\ line' = Tail(line)
Queues(t) == Contains(line, t)

\* The sockets are alike: the next Agent to connect takes some unused one
Unused(c) == task[c] = "none" /\ c = CHOOSE d \in Connections : task[d] = "none"

\* agent.hello, authenticated: bind_agent makes the lease; the lock is not free
Hello(c) ==
    /\ Unused(c)
    /\ Waits(c)
    /\ task' = [task EXCEPT ![c] = "binding"]
    /\ UNCHANGED <<status, age, active, presence, watching, casts, sweep, faults>>

\* bind_agent under the lock: the account's previous lease is over.  The age of
\* a lease that is not active is not looked at again.
BindAgent(c) ==
    /\ IF Queues(c) THEN task[c] = "binding" ELSE Unused(c)
    /\ Locks(c)
    /\ status' = [d \in Connections |->
                     CASE d = c -> "connected"
                       [] d # c /\ d = active -> "disconnected"
                       [] OTHER -> status[d]]
    /\ age' = IF active = None THEN age ELSE [age EXCEPT ![active] = 0]
    /\ active' = c
    /\ task' = [task EXCEPT ![c] = "serving"]
    /\ Broadcast(c, c, status')
    /\ UNCHANGED <<presence, watching, sweep, faults>>

\* The socket's task reads a frame only when no broadcast of its own is left
Reads(c) == task[c] = "serving" /\ ~InFlight(c)

\* is_current_fence
IsCurrentFence(c) == active = c /\ status[c] # "disconnected"

\* What the sweeper's pass made of c's age, it is young again: its heartbeat is
\* later than the pass's reading of the clock
Refreshed(c) == IF sweep.who = c THEN [sweep EXCEPT !.aged = 0] ELSE sweep

\* Mutant: only a change of the configuration is broadcast.
HeartbeatUntold(c) ==
    /\ Reads(c)
    /\ IsCurrentFence(c)
    /\ age' = [age EXCEPT ![c] = 0]
    /\ sweep' = Refreshed(c)
    /\ status' = [status EXCEPT ![c] = "connected"]
    /\ UNCHANGED <<task, active, line, presence, watching, casts, faults>>

\* agent.heartbeat from the current lease: it is connected again, whatever the
\* sweeper made of it
Heartbeat(c) ==
    /\ Reads(c)
    /\ IsCurrentFence(c)
    /\ age' = [age EXCEPT ![c] = 0]
    /\ sweep' = Refreshed(c)
    /\ status' = [status EXCEPT ![c] = "connected"]
    /\ IF status[c] # "connected" THEN Broadcast(c, active, status')
                                  ELSE UNCHANGED casts
    /\ UNCHANGED <<task, active, line, presence, watching, faults>>

\* Mutant: the record the sweeper may hold is changed in place.
ObservePresenceInPlace(c) ==
    /\ Reads(c)
    /\ IsCurrentFence(c)
    /\ presence' = [freshness |-> "current", ttl |-> PresenceTTL]
    /\ UNCHANGED <<status, age, task, active, line, watching, casts, sweep, faults>>

\* presence.observed from the current lease, later than the one before: an older
\* one is refused and nothing changes.  The record is replaced by a new one,
\* whatever the sweeper holds of the old.
ObservePresence(c) ==
    /\ Reads(c)
    /\ IsCurrentFence(c)
    /\ presence' = [freshness |-> "current", ttl |-> PresenceTTL]
    /\ sweep' = [sweep EXCEPT !.due = FALSE]
    /\ UNCHANGED <<status, age, task, active, line, watching, casts, faults>>

\* The socket is lost, the Agent or the sweeper closed it, or a frame came on
\* it after its lease was over; the lock is not free
Ends(c) ==
    /\ Reads(c)
    /\ Waits(c)
    /\ task' = [task EXCEPT ![c] = "ending"]
    /\ UNCHANGED <<status, age, active, presence, watching, casts, sweep, faults>>

\* disconnect_agent under the lock.  The entry of active_agents stays, for the
\* sweeper to retire; a lease the sweeper retired is not found any more.
DisconnectAgent(c) ==
    /\ IF Queues(c) THEN task[c] = "ending" ELSE Reads(c)
    /\ Locks(c)
    /\ task' = [task EXCEPT ![c] = "ended"]
    /\ IF active = c
       THEN /\ status' = [status EXCEPT ![c] = "disconnected"]
            /\ Broadcast(c, active, status')
       ELSE UNCHANGED <<status, casts>>
    /\ UNCHANGED <<age, active, presence, watching, sweep, faults>>

\* issue_command or reissue_command takes the lock, or waits for it, ...
IssueCommand ==
    /\ ~Queues(Command)
    /\ line' = Append(line, Command)
    /\ UNCHANGED <<status, age, task, active, presence, watching, casts, sweep, faults>>

\* ... and leaves it when its send is over
CommandSent ==
    /\ Queues(Command)
    /\ Locks(Command)
    /\ UNCHANGED <<status, age, task, active, presence, watching, casts, sweep, faults>>

----------------------------------------------------------------------------
(* The Bridge's socket *)

\* bridge.hello: bind_bridge.  The session, the snapshot and the presence go out
\* first and carry nothing of what is kept here, ...
BindBridge(b) ==
    /\ greeted[b] = "none"
    /\ greeted' = [greeted EXCEPT ![b] = "bound"]
    /\ bridges' = Append(bridges, b)
    /\ UNCHANGED <<status, age, task, active, line, presence, casts, shown,
                   overtaken, sweep, faults>>

\* ... and then the Agent's state
GreetBridge(b) ==
    /\ greeted[b] = "bound"
    /\ greeted' = [greeted EXCEPT ![b] = "told"]
    /\ Cast(b, AgentState(active, status), <<b>>)
    /\ UNCHANGED <<status, age, task, active, line, presence, bridges, shown,
                   overtaken, sweep, faults>>

----------------------------------------------------------------------------
(* The sweeper *)

\* who: the lease the pass listed, aged: its age at the pass's clock reading,
\* due: whether the presence record had run out by then and is still the one
Resting == [at |-> "sleep", who |-> None, aged |-> 0, due |-> FALSE]

Sweeps(at) == sweep.at = at /\ ~InFlight(Sweeper)

\* Mutant: a disconnected lease is passed over before its age is looked at.
BeginPassLive ==
    /\ Sweeps("sleep")
    /\ sweep' = IF active # None /\ status[active] # "disconnected"
                THEN [at |-> "lease", who |-> active, aged |-> age[active], due |-> FALSE]
                ELSE [Resting EXCEPT !.at = "presence"]
    /\ UNCHANGED <<status, age, task, active, line, presence, watching, casts, faults>>

\* expire(utc_now()): the commands expire first, then the leases are listed
BeginPass ==
    /\ Sweeps("sleep")
    /\ sweep' = [at |-> IF active = None THEN "presence" ELSE "lease",
                 who |-> active,
                 aged |-> IF active = None THEN 0 ELSE age[active],
                 due |-> presence.freshness = "current" /\ presence.ttl = 0]
    /\ UNCHANGED <<status, age, task, active, line, presence, watching, casts, faults>>

\* commands.expire raises: nothing catches it, and nothing starts _sweep again
PassFails ==
    /\ Sweeps("sleep")
    /\ faults < MaxFaults
    /\ faults' = faults + 1
    /\ sweep' = [sweep EXCEPT !.at = "dead"]
    /\ UNCHANGED <<status, age, task, active, line, presence, watching, casts>>

To(at) == [sweep EXCEPT !.at = at]
LeasesDone == [sweep EXCEPT !.at = "presence", !.who = None, !.aged = 0]

Desired == IF sweep.aged >= Timeout THEN "stale" ELSE "connected"

\* Mutant: a disconnected lease is judged by its age too.
JudgeAll(c) ==
    /\ status' = [status EXCEPT ![c] = Desired]
    /\ IF status' = status THEN UNCHANGED casts
                           ELSE Broadcast(Sweeper, active, status')
    /\ sweep' = LeasesDone
    /\ UNCHANGED <<age, active>>

\* The end of the loop's body: a lease that is not disconnected becomes stale or
\* connected by its age
Judge(c) ==
    /\ status' = IF status[c] = "disconnected" THEN status
                 ELSE [status EXCEPT ![c] = Desired]
    /\ IF status' = status THEN UNCHANGED casts
                           ELSE Broadcast(Sweeper, active, status')
    /\ sweep' = LeasesDone
    /\ UNCHANGED <<age, active>>

\* A lease young enough is judged at once ...
SweepLease ==
    /\ Sweeps("lease")
    /\ sweep.aged < 2 * Timeout
    /\ Judge(sweep.who)
    /\ UNCHANGED <<task, line, presence, watching, faults>>

\* ... for the end of an old one the sweeper needs the lock, and may wait for it
SweepWaits ==
    /\ Sweeps("lease")
    /\ sweep.aged >= 2 * Timeout
    /\ Waits(Sweeper)
    /\ sweep' = To("lock")
    /\ UNCHANGED <<status, age, task, active, presence, watching, casts, faults>>

\* Mutant: the age is not looked at again under the lock.
RetireAtOnce(c) ==
    /\ active = c
    /\ active' = None
    /\ status' = [status EXCEPT ![c] = "disconnected"]
    /\ age' = [age EXCEPT ![c] = 0]
    /\ sweep' = To("closing")
    /\ UNCHANGED casts

\* When it has it the sweeper looks again: the lease may have been superseded or
\* refreshed meanwhile
Superseded == /\ active # sweep.who
              /\ sweep' = LeasesDone
              /\ UNCHANGED <<status, age, active, casts>>

Retire(c) == /\ active = c
             /\ sweep.aged >= 2 * Timeout
             /\ active' = None
             /\ status' = [status EXCEPT ![c] = "disconnected"]
             /\ age' = [age EXCEPT ![c] = 0]
             /\ sweep' = To("closing")
             /\ UNCHANGED casts

Spare(c) == /\ active = c
            /\ sweep.aged < 2 * Timeout
            /\ Judge(c)

SweepLocked ==
    /\ \/ Sweeps("lock")
       \/ Sweeps("lease") /\ sweep.aged >= 2 * Timeout
    /\ Locks(Sweeper)
    /\ Superseded \/ Retire(sweep.who) \/ Spare(sweep.who)
    /\ UNCHANGED <<task, presence, watching, faults>>

\* After the loop the retired lease's socket is closed, and after that close
\* the Bridges get what the account's state is by then
SweepReports ==
    /\ Sweeps("closing")
    /\ Broadcast(Sweeper, active, status)
    /\ sweep' = LeasesDone
    /\ UNCHANGED <<status, age, task, active, line, presence, watching, faults>>

\* The presence record is listed only now, and judged by the old clock reading
SweepPresence ==
    /\ Sweeps("presence")
    /\ sweep' = Resting
    /\ IF sweep.due
       THEN presence' = [presence EXCEPT !.freshness = "unknown"]
       ELSE UNCHANGED presence
    /\ UNCHANGED <<status, age, task, active, line, watching, casts, faults>>

----------------------------------------------------------------------------

Older(n) == IF n < 2 * Timeout THEN n + 1 ELSE n

\* Time passes for the leases someone will look at
Tick ==
    /\ age' = [c \in Connections |->
           IF active = c \/ task[c] = "binding" THEN Older(age[c]) ELSE age[c]]
    /\ presence' = [presence EXCEPT !.ttl = IF @ = 0 THEN 0 ELSE @ - 1]
    /\ UNCHANGED <<status, task, active, line, watching, casts, sweep, faults>>

Init ==
    /\ status = [c \in Connections |-> "disconnected"]
    /\ age = [c \in Connections |-> 0]
    /\ task = [c \in Connections |-> "none"]
    /\ active = None
    /\ line = <<>>
    /\ presence = Unknown
    /\ bridges = <<>>
    /\ greeted = [b \in Bridges |-> "none"]
    /\ casts = [o \in Owners |-> NoCast]
    /\ shown = [b \in Bridges |-> Blank]
    /\ overtaken = {}
    /\ sweep = Resting
    /\ faults = 0

Pass ==
    \/ BeginPass
    \/ SweepLease
    \/ SweepWaits
    \/ SweepLocked
    \/ SweepReports
    \/ SweepPresence

Next ==
    \/ \E c \in Connections : \/ Hello(c)
                              \/ BindAgent(c)
                              \/ Heartbeat(c)
                              \/ ObservePresence(c)
                              \/ Ends(c)
                              \/ DisconnectAgent(c)
    \/ IssueCommand
    \/ CommandSent
    \/ \E b \in Bridges : \/ BindBridge(b)
                          \/ GreetBridge(b)
    \/ \E o \in Owners : Send(o)
    \/ Pass
    \/ PassFails
    \/ Tick

\* The loop runs every task that is ready: the sweeper's timer fires, the lock
\* is handed to whoever waits for it, a send ends (the server gives a dead peer
\* up).  Nothing makes an Agent connect, speak or leave.
Fairness ==
    /\ WF_vars(Pass)
    /\ WF_vars(CommandSent)
    /\ \A c \in Connections :
           WF_vars(Queues(c) /\ (BindAgent(c) \/ DisconnectAgent(c)))
    /\ \A o \in Owners : WF_vars(Send(o))

Spec == Init /\ [][Next]_vars
FairSpec == Spec /\ Fairness

----------------------------------------------------------------------------
(* What is checked *)

Statuses == {"connected", "stale", "disconnected"}
Places == {"sleep", "lease", "lock", "closing", "presence", "dead"}

\* Types of what decides about leases
LeaseTypeOK ==
    /\ status \in [Connections -> Statuses]
    /\ age \in [Connections -> Nat]
    /\ task \in [Connections -> {"none", "binding", "serving", "ending", "ended"}]
    /\ active \in Connections \cup {None}
    /\ sweep \in [at : Places, who : Connections \cup {None}, aged : Nat, due : BOOLEAN]

Bound(c) == task[c] \in {"serving", "ending", "ended"}

\* The account has one live writer at most: a lease that is bound and not
\* disconnected is the active one, so that commands, frames and the Bridges'
\* view all mean the same connection.
OneLiveWriter ==
    \A c \in Connections : Bound(c) /\ status[c] # "disconnected" => active = c

\* A lease that was superseded, retired or disconnected is never live again,
\* whatever the sweeper still holds of it: only a new hello makes a live one.
FencedForGood ==
    [][\A c \in Connections :
          Bound(c) /\ status[c] = "disconnected" => status'[c] = "disconnected"]_vars

\* The sweeper retires a lease only when its Agent has been silent for twice the
\* timeout: a heartbeat that comes while the sweeper waits for the lock, or for
\* another account's Bridges, keeps it.
RetiredOnlyWhenSilent ==
    [][active # None /\ active' = None => age[active] >= 2 * Timeout]_vars

\* What is still to be sent to b, or still to be announced by the sweeper
Underway(b) ==
    \/ \E o \in Owners : Contains(casts[o].left, b)
    \/ sweep.at = "closing"

\* The last agent.state that a Bridge was sent is what the Brain holds, once none
\* is under way to it: every change is broadcast, and no Bridge falls between a
\* broadcast's list and its own greeting.  The one exception is a broadcast whose
\* send was held up while a later one went past it.
BridgesAreTold ==
    \A b \in Bridges :
        greeted[b] = "told" /\ b \notin overtaken /\ ~Underway(b)
            => shown[b] = AgentState(active, status)

\* Leases and what Bridges were told of them, with the types they have.
SessionsAgree == LeaseTypeOK /\ OneLiveWriter /\ BridgesAreTold

\* An observation of presence stands for its full time: the sweeper, which judges
\* it by a reading of the clock that is old by then, never hides one that came
\* after that reading.
PresenceLastsItsTime ==
    [][presence.freshness = "current" /\ presence'.freshness = "unknown"
          => presence.ttl = 0]_vars

\* An Agent that stays silent loses its lease, unless the sweeper has died of a
\* failed pass.
SilentIsRetired ==
    \A c \in Connections :
        (active = c /\ age[c] = 2 * Timeout)
            ~> (active # c \/ age[c] = 0 \/ sweep.at = "dead")
=============================================================================
