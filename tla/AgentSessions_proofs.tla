------------------------- MODULE AgentSessions_proofs -------------------------
(****************************************************************************)
(* What AgentSessions promises of leases, presence and Bridges, for any      *)
(* number of connections and Bridges and any timeout: one live writer, no    *)
(* way back for a fenced lease, no retirement of a lease that was heard      *)
(* from, no presence hidden before its time, and Bridges that are told what  *)
(* the Brain holds.                                                          *)
(****************************************************************************)
EXTENDS AgentSessions, TLAPS

\* A lease that is active, or that the sweeper holds, was bound
OnlyBound ==
    /\ active # None => Bound(active)
    /\ sweep.who # None => Bound(sweep.who)

\* The sweeper thinks a lease no older than it is, and judges one it holds
PassIsBehind ==
    /\ active # None /\ sweep.who = active => sweep.aged =< age[active]
    /\ sweep.at \in {"lease", "lock"} => sweep.who # None

LeaseInv == LeaseTypeOK /\ OnlyBound /\ PassIsBehind /\ OneLiveWriter

\* Before the first hello no lease is bound.
LEMMA InitLeases == Init => LeaseInv
  BY NamesAssumption DEF Init, LeaseInv, LeaseTypeOK, OnlyBound, PassIsBehind,
     OneLiveWriter, Statuses, Places, Resting, Bound

Fenced == \A c \in Connections :
              Bound(c) /\ status[c] = "disconnected" => status'[c] = "disconnected"
Silent == active # None /\ active' = None => age[active] >= 2 * Timeout

\* Every step keeps the invariant and does what the two action properties ask.
LEMMA StepLeases == LeaseInv /\ [Next]_vars => LeaseInv' /\ Fenced /\ Silent
<1> SUFFICES ASSUME LeaseInv, [Next]_vars PROVE LeaseInv' /\ Fenced /\ Silent
  OBVIOUS
<1> USE NamesAssumption, SessionsAssumption
    DEF LeaseInv, LeaseTypeOK, OnlyBound, PassIsBehind, OneLiveWriter, Bound,
        Fenced, Silent, Statuses, Places
<1>1. ASSUME NEW c \in Connections, Hello(c) PROVE LeaseInv' /\ Fenced /\ Silent
  BY <1>1 DEF Hello, Unused
<1>2. ASSUME NEW c \in Connections, BindAgent(c) PROVE LeaseInv' /\ Fenced /\ Silent
  <2>1. /\ task[c] \in {"none", "binding"}
        /\ active' = c
        /\ sweep' = sweep
        /\ task' = [task EXCEPT ![c] = "serving"]
    BY <1>2 DEF BindAgent, Unused
  <2>2. \A d \in Connections : status'[d] = IF d = c THEN "connected"
                                 ELSE IF d = active THEN "disconnected" ELSE status[d]
    BY <1>2 DEF BindAgent
  <2>3. status' \in [Connections -> Statuses]
    BY <1>2 DEF BindAgent
  <2>4. age' \in [Connections -> Nat]
    BY <1>2 DEF BindAgent
  <2>5. c # active /\ c # sweep.who
    BY <2>1
  <2> QED
    BY <2>1, <2>2, <2>3, <2>4, <2>5
<1>3. ASSUME NEW c \in Connections, Heartbeat(c) PROVE LeaseInv' /\ Fenced /\ Silent
  BY <1>3 DEF Heartbeat, IsCurrentFence, Refreshed
<1>4. ASSUME NEW c \in Connections, ObservePresence(c) PROVE LeaseInv' /\ Fenced /\ Silent
  BY <1>4 DEF ObservePresence
<1>5. ASSUME NEW c \in Connections, Ends(c) PROVE LeaseInv' /\ Fenced /\ Silent
  BY <1>5 DEF Ends, Reads
<1>6. ASSUME NEW c \in Connections, DisconnectAgent(c) PROVE LeaseInv' /\ Fenced /\ Silent
  BY <1>6 DEF DisconnectAgent, Reads
<1>7. ASSUME IssueCommand \/ CommandSent PROVE LeaseInv' /\ Fenced /\ Silent
  BY <1>7 DEF IssueCommand, CommandSent
<1>8. ASSUME NEW b \in Bridges, BindBridge(b) \/ GreetBridge(b)
      PROVE  LeaseInv' /\ Fenced /\ Silent
  BY <1>8 DEF BindBridge, GreetBridge
<1>9. ASSUME NEW o \in Owners, Send(o) PROVE LeaseInv' /\ Fenced /\ Silent
  BY <1>9 DEF Send
<1>10. ASSUME BeginPass PROVE LeaseInv' /\ Fenced /\ Silent
  BY <1>10 DEF BeginPass
<1>11. ASSUME SweepLease PROVE LeaseInv' /\ Fenced /\ Silent
  BY <1>11 DEF SweepLease, Sweeps, Judge, Desired, LeasesDone
<1>12. ASSUME SweepWaits PROVE LeaseInv' /\ Fenced /\ Silent
  BY <1>12 DEF SweepWaits, Sweeps, To
<1>13. ASSUME SweepLocked PROVE LeaseInv' /\ Fenced /\ Silent
  <2>1. CASE Superseded
    BY <1>13, <2>1 DEF SweepLocked, Superseded, LeasesDone
  <2>2. CASE Retire(sweep.who)
    BY <1>13, <2>2 DEF SweepLocked, Sweeps, Retire, To
  <2>3. CASE Spare(sweep.who)
    BY <1>13, <2>3 DEF SweepLocked, Sweeps, Spare, Judge, Desired, LeasesDone
  <2> QED
    BY <1>13, <2>1, <2>2, <2>3 DEF SweepLocked
<1>14. ASSUME SweepReports PROVE LeaseInv' /\ Fenced /\ Silent
  BY <1>14 DEF SweepReports, LeasesDone
<1>15. ASSUME SweepPresence PROVE LeaseInv' /\ Fenced /\ Silent
  BY <1>15 DEF SweepPresence, Resting
<1>16. ASSUME PassFails PROVE LeaseInv' /\ Fenced /\ Silent
  BY <1>16 DEF PassFails, Sweeps
<1>17. ASSUME Tick PROVE LeaseInv' /\ Fenced /\ Silent
  BY <1>17 DEF Tick, Older
<1>18. ASSUME UNCHANGED vars PROVE LeaseInv' /\ Fenced /\ Silent
  BY <1>18 DEF vars
<1> QED
  BY ONLY [Next]_vars, <1>1, <1>2, <1>3, <1>4, <1>5, <1>6, <1>7, <1>8, <1>9, <1>10,
     <1>11, <1>12, <1>13, <1>14, <1>15, <1>16, <1>17, <1>18 DEF Next, Pass

\* Every reachable state has at most one live lease, and it is the active one
\* (bind_agent and expire of manager.py).
THEOREM OneWriterIsLive == Spec => []OneLiveWriter
<1>1. LeaseInv => OneLiveWriter
  BY DEF LeaseInv
<1> QED
  BY InitLeases, StepLeases, <1>1, PTL DEF Spec

\* A fenced lease stays fenced: neither the sweeper nor a late heartbeat revives
\* it.
THEOREM FencesHold == Spec => FencedForGood
<1>1. LeaseInv /\ [Next]_vars
          => [\A c \in Connections :
                 Bound(c) /\ status[c] = "disconnected" => status'[c] = "disconnected"]_vars
  BY StepLeases DEF Fenced
<1> QED
  BY InitLeases, StepLeases, <1>1, PTL DEF Spec, FencedForGood

\* The sweeper retires no lease that was heard from within twice the timeout.
THEOREM OnlySilentLeasesRetire == Spec => RetiredOnlyWhenSilent
<1>1. LeaseInv /\ [Next]_vars
          => [active # None /\ active' = None => age[active] >= 2 * Timeout]_vars
  BY StepLeases DEF Silent
<1> QED
  BY InitLeases, StepLeases, <1>1, PTL DEF Spec, RetiredOnlyWhenSilent

----------------------------------------------------------------------------
(* What the Bridges were told.                                              *)
(*                                                                          *)
(* A broadcast carries the state it was made of, and may be held up at any  *)
(* Bridge while later ones start, and end.  What keeps the Bridges right is *)
(* that of the broadcasts on their way to one Bridge the newest carries the *)
(* current state: each of the others either has a newer one behind it or    *)
(* was already outrun by one, and the Bridge is then marked overtaken when  *)
(* it gets there.                                                           *)

Current == AgentState(active, status)
AgentStates == [status : Statuses \cup {None}, of : Connections \cup {None}]
Targets(o, b) == Contains(casts[o].left, b)

\* Types of the broadcasts and of what the Bridges got
TellTypeOK ==
    /\ casts \in [Owners -> [state : AgentStates, left : Seq(Bridges),
                             older : SUBSET Owners, outrun : SUBSET Bridges]]
    /\ greeted \in [Bridges -> {"none", "bound", "told"}]
    /\ bridges \in Seq(Bridges)
    /\ shown \in [Bridges -> AgentStates]
    /\ overtaken \in SUBSET Bridges

\* A task that is about to broadcast is in no broadcast of its own
IdleTasks ==
    /\ \A c \in Connections :
           task[c] \in {"none", "binding", "ending"} => ~InFlight(c)
    /\ \A b \in Bridges : greeted[b] # "told" => ~InFlight(b)

\* The list of Bridges is that of the bound ones, and only those are sent to
Listed ==
    /\ \A b \in Bridges : greeted[b] # "none" <=> Contains(bridges, b)
    /\ \A o \in Owners, b \in Bridges : Targets(o, b) => greeted[b] # "none"
    /\ \A o \in Owners : o \notin casts[o].older

\* Of the broadcasts to a Bridge, one that nothing newer follows or outran
\* carries what the Brain holds; the sweeper's own report may still be to come
NewestIsCurrent ==
    sweep.at # "closing" =>
        \A o \in Owners, b \in Bridges :
            Targets(o, b) =>
                \/ b \in casts[o].outrun
                \/ \E p \in Owners : Targets(p, b) /\ o \in casts[p].older
                \/ casts[o].state = Current

TellInv == TellTypeOK /\ IdleTasks /\ Listed /\ NewestIsCurrent /\ BridgesAreTold

\* The state of a lease is one an agent.state can carry.
LEMMA CurrentType == LeaseTypeOK => Current \in AgentStates
  BY NamesAssumption DEF LeaseTypeOK, Current, AgentStates, AgentState, Statuses

\* What a broadcast adds to the ones under way: its own list and state, after
\* all of the others, which go on as they were.
LEMMA CastAdds ==
    ASSUME TellInv, NEW o \in Owners, ~InFlight(o), NEW s \in AgentStates,
           NEW ts \in Seq(Bridges), Cast(o, s, ts)
    PROVE  /\ casts' \in [Owners -> [state : AgentStates, left : Seq(Bridges),
                                     older : SUBSET Owners, outrun : SUBSET Bridges]]
           /\ casts'[o].left = ts
           /\ ts # <<>> => /\ casts'[o].state = s
                           /\ \A p \in Owners \ {o} :
                                  InFlight(p) => p \in casts'[o].older
           /\ \A p \in Owners \ {o} : /\ casts'[p].left = casts[p].left
                                      /\ casts'[p].state = casts[p].state
                                      /\ casts'[p].outrun = casts[p].outrun
           /\ \A p, q \in Owners \ {o} :
                  q \in casts[p].older => q \in casts'[p].older
           /\ \A p \in Owners : p \notin casts'[p].older
<1> USE DEF TellInv, TellTypeOK, Listed
<1>1. CASE ts = <<>>
  <2>1. casts' = casts
    BY <1>1 DEF Cast
  <2> QED
    BY <1>1, <2>1 DEF InFlight
<1>2. CASE ts # <<>>
  <2>1. casts' = [p \in Owners |->
               IF p = o
               THEN [state |-> s, left |-> ts, outrun |-> {},
                     older |-> {q \in Owners \ {o} : InFlight(q)}]
               ELSE [casts[p] EXCEPT !.older = @ \ {o}]]
    BY <1>2 DEF Cast
  <2>2. casts'[o] = [state |-> s, left |-> ts, outrun |-> {},
                     older |-> {q \in Owners \ {o} : InFlight(q)}]
    BY <2>1
  <2>3. \A p \in Owners \ {o} : casts'[p] = [casts[p] EXCEPT !.older = @ \ {o}]
    BY <2>1
  <2>4. casts'[o] \in [state : AgentStates, left : Seq(Bridges),
                       older : SUBSET Owners, outrun : SUBSET Bridges]
    BY <2>2
  <2>5. ASSUME NEW p \in Owners \ {o}
        PROVE  /\ casts'[p] \in [state : AgentStates, left : Seq(Bridges),
                                 older : SUBSET Owners, outrun : SUBSET Bridges]
               /\ casts'[p].left = casts[p].left
               /\ casts'[p].state = casts[p].state
               /\ casts'[p].outrun = casts[p].outrun
               /\ casts'[p].older = casts[p].older \ {o}
    <3>1. casts[p] \in [state : AgentStates, left : Seq(Bridges),
                        older : SUBSET Owners, outrun : SUBSET Bridges]
      OBVIOUS
    <3>2. casts'[p] = [casts[p] EXCEPT !.older = @ \ {o}]
      BY <2>3
    <3> QED
      BY ONLY <3>1, <3>2
  <2>6. casts' \in [Owners -> [state : AgentStates, left : Seq(Bridges),
                              older : SUBSET Owners, outrun : SUBSET Bridges]]
    BY <2>1, <2>4, <2>5
  <2>7. \A p \in Owners : p \notin casts'[p].older
    BY <2>2, <2>5
  <2>8. \A p, q \in Owners \ {o} : q \in casts[p].older => q \in casts'[p].older
    BY <2>5
  <2> QED
    BY <1>2, <2>2, <2>5, <2>6, <2>7, <2>8
<1> QED
  BY <1>1, <1>2

\* A broadcast of the current state, to all the Bridges whenever that state is
\* new, leaves no Bridge in the dark: it is the newest wherever it is to go.
LEMMA CastSpeaks ==
    ASSUME TellInv, NEW o \in Owners, ~InFlight(o), NEW ts \in Seq(Bridges),
           Current' \in AgentStates, Cast(o, Current', ts),
           shown' = shown, overtaken' = overtaken,
           \A b \in Bridges : greeted'[b] = "told" => greeted[b] = "told" \/ Contains(ts, b),
           \/ \A b \in Bridges : greeted[b] # "none" => Contains(ts, b)
           \/ Current' = Current /\ sweep'.at = sweep.at
    PROVE  NewestIsCurrent' /\ BridgesAreTold'
<1>1. /\ casts'[o].left = ts
      /\ ts # <<>> => /\ casts'[o].state = Current'
                      /\ \A p \in Owners \ {o} : InFlight(p) => p \in casts'[o].older
      /\ \A p \in Owners \ {o} : /\ casts'[p].left = casts[p].left
                                 /\ casts'[p].state = casts[p].state
                                 /\ casts'[p].outrun = casts[p].outrun
      /\ \A p, q \in Owners \ {o} : q \in casts[p].older => q \in casts'[p].older
  BY CastAdds
<1>2. \A p \in Owners, b \in Bridges :
          Targets(p, b)' <=> IF p = o THEN Contains(ts, b) ELSE Targets(p, b)
  BY <1>1 DEF Targets
<1>3. \A b \in Bridges : Contains(ts, b) => ts # <<>>
  BY DEF Contains
<1>4. \A p \in Owners, b \in Bridges : Targets(p, b) => InFlight(p) /\ p # o
  BY DEF Targets, InFlight, Contains
<1>5. ASSUME NEW p \in Owners, NEW b \in Bridges, Targets(p, b)', sweep'.at # "closing"
      PROVE  \/ b \in casts'[p].outrun
             \/ \E q \in Owners : Targets(q, b)' /\ p \in casts'[q].older
             \/ casts'[p].state = Current'
  <2>1. CASE p = o
    BY <1>1, <1>2, <1>3, <1>5, <2>1
  <2>2. CASE p # o /\ Contains(ts, b)
    BY <1>1, <1>2, <1>3, <1>4, <1>5, <2>2
  <2>3. CASE p # o /\ ~Contains(ts, b)
    <3>1. Targets(p, b) /\ greeted[b] # "none"
      BY <1>2, <1>5, <2>3 DEF TellInv, Listed
    <3>2. Current' = Current /\ sweep.at # "closing"
      BY <1>5, <2>3, <3>1
    <3>3. \/ b \in casts[p].outrun
          \/ \E q \in Owners : Targets(q, b) /\ p \in casts[q].older
          \/ casts[p].state = Current
      BY <3>1, <3>2 DEF TellInv, NewestIsCurrent
    <3> QED
      BY <1>1, <1>2, <1>4, <2>3, <3>1, <3>2, <3>3
  <2> QED
    BY <2>1, <2>2, <2>3
<1>6. ASSUME NEW b \in Bridges, greeted'[b] = "told", b \notin overtaken', ~Underway(b)'
      PROVE  shown'[b] = Current'
  <2>1. ~Contains(ts, b) /\ sweep'.at # "closing"
    BY <1>1, <1>6 DEF Underway
  <2>2. greeted[b] = "told"
    BY <1>6, <2>1
  <2>3. Current' = Current /\ sweep.at # "closing"
    BY <2>1, <2>2
  <2>4. \A p \in Owners : ~Contains(casts[p].left, b)
    <3>1. \A p \in Owners : ~Contains(casts'[p].left, b)
      BY <1>6 DEF Underway
    <3> QED
      BY <1>1, <1>4, <3>1 DEF Targets
  <2>5. ~Underway(b)
    BY <2>3, <2>4 DEF Underway
  <2> QED
    BY <1>6, <2>2, <2>3, <2>5 DEF TellInv, BridgesAreTold, Current
<1> QED
  BY <1>5, <1>6 DEF NewestIsCurrent, BridgesAreTold, Current

\* A step that starts and ends no broadcast keeps the Bridges right when it
\* leaves the state alone, or leaves the telling of it to the sweeper.
LEMMA QuietTells ==
    ASSUME TellInv, casts' = casts, shown' = shown, overtaken' = overtaken,
           \A b \in Bridges : greeted'[b] = "told" => greeted[b] = "told",
           \/ sweep'.at = "closing"
           \/ Current' = Current /\ sweep.at # "closing"
    PROVE  NewestIsCurrent' /\ BridgesAreTold'
<1>1. CASE sweep'.at = "closing"
  BY <1>1 DEF NewestIsCurrent, BridgesAreTold, Underway
<1>2. CASE Current' = Current /\ sweep.at # "closing"
  <2>1. NewestIsCurrent'
    BY <1>2 DEF TellInv, NewestIsCurrent, Targets
  <2>2. ASSUME NEW b \in Bridges, greeted'[b] = "told", b \notin overtaken', ~Underway(b)'
        PROVE  shown'[b] = Current'
    <3>1. ~Underway(b)
      BY <1>2, <2>2 DEF Underway
    <3> QED
      BY <1>2, <2>2, <3>1 DEF TellInv, BridgesAreTold, Current
  <2> QED
    BY <2>1, <2>2 DEF BridgesAreTold, Current
<1> QED
  BY <1>1, <1>2

\* What one send leaves of the broadcasts: the sender's list is shorter by its
\* head, and the older ones still to come there are outrun.
LEMMA SendTakes ==
    ASSUME TellTypeOK, NEW o \in Owners, Send(o)
    PROVE  LET b == Head(casts[o].left) IN
           /\ b \in Bridges /\ Targets(o, b)
           /\ casts' \in [Owners -> [state : AgentStates, left : Seq(Bridges),
                                     older : SUBSET Owners, outrun : SUBSET Bridges]]
           /\ \A c \in Bridges : Contains(casts'[o].left, c) => Targets(o, c)
           /\ \A c \in Bridges : Targets(o, c) /\ c # b => Contains(casts'[o].left, c)
           /\ InFlight(o)' => casts'[o] = [casts[o] EXCEPT !.left = Tail(@)]
           /\ casts'[o].older \in {casts[o].older, {}}
           /\ \A p \in Owners \ {o} :
                  /\ casts'[p].left = casts[p].left
                  /\ casts'[p].state = casts[p].state
                  /\ casts'[p].older = casts[p].older
                  /\ casts'[p].outrun = IF p \in casts[o].older /\ Targets(p, b)
                                        THEN casts[p].outrun \cup {b}
                                        ELSE casts[p].outrun
<1> DEFINE b == Head(casts[o].left)
           last == Tail(casts[o].left) = <<>>
           C == [state : AgentStates, left : Seq(Bridges),
                 older : SUBSET Owners, outrun : SUBSET Bridges]
<1>1. /\ casts \in [Owners -> C] /\ casts[o].left \in Seq(Bridges)
      /\ casts[o].left # <<>>
  BY DEF TellTypeOK, Send, InFlight
<1>2. /\ b \in Bridges /\ Tail(casts[o].left) \in Seq(Bridges)
      /\ b = casts[o].left[1] /\ 1 \in 1..Len(casts[o].left)
      /\ Len(Tail(casts[o].left)) = Len(casts[o].left) - 1
      /\ \A i \in 1..(Len(casts[o].left) - 1) : Tail(casts[o].left)[i] = casts[o].left[i+1]
      /\ Len(casts[o].left) \in Nat \ {0}
  BY <1>1
<1>3. casts' = [p \in Owners |->
              CASE p = o /\ last -> NoCast
                [] p = o /\ ~last -> [casts[o] EXCEPT !.left = Tail(@)]
                [] p # o /\ (p \in casts[o].older /\ Targets(p, b))
                       -> [casts[p] EXCEPT !.outrun = @ \cup {b}]
                [] OTHER -> casts[p]]
  BY DEF Send, Targets
<1>4. casts'[o] = IF last THEN NoCast ELSE [casts[o] EXCEPT !.left = Tail(@)]
  BY <1>3
<1>5. casts'[o] \in C /\ casts'[o].left = Tail(casts[o].left)
      /\ casts'[o].older \in {casts[o].older, {}}
  <2>1. CASE last
    <3>1. NoCast \in C /\ NoCast.left = <<>> /\ NoCast.older = {}
      BY DEF NoCast, Blank, AgentStates
    <3> QED
      BY <1>4, <2>1, <3>1
  <2>2. CASE ~last
    BY <1>1, <1>2, <1>4, <2>2
  <2> QED
    BY <2>1, <2>2
<1>6. ASSUME NEW p \in Owners \ {o}
      PROVE  /\ casts'[p] \in C
             /\ casts'[p].left = casts[p].left
             /\ casts'[p].state = casts[p].state
             /\ casts'[p].older = casts[p].older
             /\ casts'[p].outrun = IF p \in casts[o].older /\ Targets(p, b)
                                   THEN casts[p].outrun \cup {b}
                                   ELSE casts[p].outrun
  <2>1. casts[p] \in C
    BY <1>1
  <2>2. casts'[p] = IF p \in casts[o].older /\ Targets(p, b)
                    THEN [casts[p] EXCEPT !.outrun = @ \cup {b}] ELSE casts[p]
    BY <1>3
  <2> QED
    BY <1>2, <2>1, <2>2
<1>7. casts' \in [Owners -> C]
  BY <1>3, <1>5, <1>6
<1>8. Targets(o, b)
  BY <1>2 DEF Targets, Contains
<1>9. ASSUME NEW c \in Bridges, Contains(casts'[o].left, c) PROVE Targets(o, c)
  BY <1>2, <1>5, <1>9 DEF Targets, Contains
<1>10. ASSUME NEW c \in Bridges, Targets(o, c), c # b PROVE Contains(casts'[o].left, c)
  <2>1. PICK i \in 1..Len(casts[o].left) : casts[o].left[i] = c
    BY <1>10 DEF Targets, Contains
  <2>2. i # 1
    BY <1>2, <1>10, <2>1
  <2>3. i - 1 \in 1..Len(Tail(casts[o].left)) /\ Tail(casts[o].left)[i-1] = c
    BY <1>2, <2>1, <2>2
  <2> QED
    BY <1>5, <2>3 DEF Contains
<1>11. InFlight(o)' => casts'[o] = [casts[o] EXCEPT !.left = Tail(@)]
  BY <1>4, <1>5 DEF InFlight
<1> QED
  BY <1>2, <1>5, <1>6, <1>7, <1>8, <1>9, <1>10, <1>11

\* A send keeps the Bridges right: what follows the newest broadcast there is
\* outrun, and a Bridge that the newest one reaches has the current state.
LEMMA SendTells ==
    ASSUME TellInv, NEW o \in Owners, Send(o)
    PROVE  TellInv'
<1> DEFINE b == Head(casts[o].left)
<1>1. /\ b \in Bridges /\ Targets(o, b)
      /\ casts' \in [Owners -> [state : AgentStates, left : Seq(Bridges),
                                older : SUBSET Owners, outrun : SUBSET Bridges]]
      /\ \A c \in Bridges : Contains(casts'[o].left, c) => Targets(o, c)
      /\ \A c \in Bridges : Targets(o, c) /\ c # b => Contains(casts'[o].left, c)
      /\ InFlight(o)' => casts'[o] = [casts[o] EXCEPT !.left = Tail(@)]
      /\ casts'[o].older \in {casts[o].older, {}}
      /\ \A p \in Owners \ {o} :
             /\ casts'[p].left = casts[p].left
             /\ casts'[p].state = casts[p].state
             /\ casts'[p].older = casts[p].older
             /\ casts'[p].outrun = IF p \in casts[o].older /\ Targets(p, b)
                                   THEN casts[p].outrun \cup {b}
                                   ELSE casts[p].outrun
  BY SendTakes DEF TellInv
<1>2. /\ shown' = [shown EXCEPT ![b] = casts[o].state]
      /\ overtaken' = IF b \in casts[o].outrun THEN overtaken \cup {b} ELSE overtaken \ {b}
      /\ UNCHANGED <<status, task, active, bridges, greeted, sweep>>
      /\ InFlight(o)
  BY DEF Send
<1>3. Current' = Current
  BY <1>2 DEF Current, AgentState
<1>4. TellTypeOK'
  BY <1>1, <1>2 DEF TellInv, TellTypeOK
<1>5. \A p \in Owners, c \in Bridges : Targets(p, c)' => Targets(p, c)
  BY <1>1 DEF Targets
<1>6. \A p \in Owners, c \in Bridges : Targets(p, c) /\ (p = o => c # b) => Targets(p, c)'
  BY <1>1 DEF Targets
<1>7. Listed'
  <2>1. \A p \in Owners : p \notin casts'[p].older
    BY <1>1 DEF TellInv, Listed
  <2> QED
    BY <1>2, <1>5, <2>1 DEF TellInv, Listed
<1>8. IdleTasks'
  <2>1. \A p \in Owners : InFlight(p)' => InFlight(p)
    BY <1>1, <1>2 DEF InFlight
  <2> QED
    BY <1>2, <2>1 DEF TellInv, IdleTasks, Owners
<1>9. NewestIsCurrent'
  <2> SUFFICES ASSUME sweep.at # "closing", NEW p \in Owners, NEW c \in Bridges, Targets(p, c)'
               PROVE  \/ c \in casts'[p].outrun
                      \/ \E q \in Owners : Targets(q, c)' /\ p \in casts'[q].older
                      \/ casts'[p].state = Current
    BY <1>2, <1>3 DEF NewestIsCurrent
  <2>1. Targets(p, c)
    BY <1>5
  <2>2. casts'[p].state = casts[p].state /\ casts[p].outrun \subseteq casts'[p].outrun
    <3>1. CASE p = o
      <4>1. InFlight(o)'
        BY <3>1 DEF Targets, InFlight, Contains
      <4> QED
        BY <1>1, <3>1, <4>1 DEF TellInv, TellTypeOK
    <3>2. CASE p # o
      BY <1>1, <3>2
    <3> QED
      BY <3>1, <3>2
  <2>3. \/ c \in casts[p].outrun
        \/ \E q \in Owners : Targets(q, c) /\ p \in casts[q].older
        \/ casts[p].state = Current
    BY <2>1 DEF TellInv, NewestIsCurrent
  <2>4. ASSUME NEW q \in Owners, Targets(q, c), p \in casts[q].older
        PROVE  \/ c \in casts'[p].outrun
               \/ Targets(q, c)' /\ p \in casts'[q].older
    <3>1. p # q
      BY <2>4 DEF TellInv, Listed
    <3>2. CASE q = o /\ c = b
      BY <1>1, <2>1, <2>4, <3>1, <3>2
    <3>3. CASE q = o /\ c # b
      <4>1. Targets(q, c)'
        BY <1>6, <2>4, <3>3
      <4>2. InFlight(o)'
        BY <3>3, <4>1 DEF Targets, InFlight, Contains
      <4>3. casts'[o].older = casts[o].older
        BY <1>1, <4>2 DEF TellInv, TellTypeOK
      <4> QED
        BY <2>4, <3>3, <4>1, <4>3
    <3>4. CASE q # o
      BY <1>1, <1>6, <2>4, <3>4
    <3> QED
      BY <3>2, <3>3, <3>4
  <2> QED
    BY <2>2, <2>3, <2>4
<1>10. BridgesAreTold'
  <2> SUFFICES ASSUME NEW c \in Bridges, greeted[c] = "told", c \notin overtaken', ~Underway(c)'
               PROVE  shown'[c] = Current
    BY <1>2, <1>3 DEF BridgesAreTold, Current
  <2>1. \A p \in Owners : ~Targets(p, c)'
    BY DEF Underway, Targets
  <2>2. \A p \in Owners : Targets(p, c) => p = o /\ c = b
    BY <1>6, <2>1
  <2>3. sweep.at # "closing"
    BY <1>2 DEF Underway
  <2>4. CASE c = b
    <3>1. b \notin casts[o].outrun
      BY <1>2, <2>4
    <3>2. \A q \in Owners : Targets(q, b) => o \notin casts[q].older
      BY <2>2, <2>4 DEF TellInv, Listed
    <3>3. casts[o].state = Current
      BY <1>1, <2>3, <3>1, <3>2 DEF TellInv, NewestIsCurrent
    <3> QED
      BY <1>1, <1>2, <2>4, <3>3 DEF TellInv, TellTypeOK
  <2>5. CASE c # b
    <3>1. ~Underway(c)
      BY <2>2, <2>3, <2>5 DEF Underway, Targets
    <3>2. c \notin overtaken /\ shown'[c] = shown[c]
      BY <1>1, <1>2, <2>5 DEF TellInv, TellTypeOK
    <3> QED
      BY <3>1, <3>2 DEF TellInv, BridgesAreTold, Current
  <2> QED
    BY <2>4, <2>5
<1> QED
  BY <1>4, <1>7, <1>8, <1>9, <1>10 DEF TellInv

Idle(c) == task[c] \in {"none", "binding", "ending"}

\* A step that does not touch a broadcast, and the tasks of it.
LEMMA QuietKeeps ==
    ASSUME TellInv, casts' = casts, UNCHANGED watching,
           \A c \in Connections : Idle(c)' => ~InFlight(c),
           \/ sweep'.at = "closing"
           \/ Current' = Current /\ sweep.at # "closing"
    PROVE  TellInv'
<1>1. NewestIsCurrent' /\ BridgesAreTold'
  BY QuietTells DEF watching
<1>2. TellTypeOK' /\ Listed'
  BY DEF TellInv, TellTypeOK, Listed, Targets, watching
<1>3. IdleTasks'
  BY DEF TellInv, IdleTasks, InFlight, Idle, watching
<1> QED
  BY <1>1, <1>2, <1>3 DEF TellInv

\* A broadcast that a connection or the sweeper makes of the state it leaves.
LEMMA BroadcastKeeps ==
    ASSUME TellInv, NEW o \in Connections \cup {Sweeper}, ~InFlight(o), LeaseTypeOK',
           Broadcast(o, active', status'), UNCHANGED watching,
           \A c \in Connections : Idle(c)' => c # o /\ ~InFlight(c)
    PROVE  TellInv'
<1>1. o \in Owners /\ o \notin Bridges
  BY NamesAssumption DEF Owners
<1>2. bridges \in Seq(Bridges)
  BY DEF TellInv, TellTypeOK
<1>3. Current' \in AgentStates
  <2>1. (LeaseTypeOK => Current \in AgentStates)'
    BY CurrentType, PTL
  <2> QED
    BY <2>1
<1>4. Cast(o, Current', bridges)
  BY DEF Broadcast, Current, AgentState
<1>5. NewestIsCurrent' /\ BridgesAreTold'
  BY <1>1, <1>2, <1>3, <1>4, CastSpeaks DEF TellInv, Listed, watching
<1>6. /\ casts' \in [Owners -> [state : AgentStates, left : Seq(Bridges),
                                older : SUBSET Owners, outrun : SUBSET Bridges]]
      /\ casts'[o].left = bridges
      /\ \A p \in Owners \ {o} : casts'[p].left = casts[p].left
      /\ \A p \in Owners : p \notin casts'[p].older
  BY <1>1, <1>2, <1>3, <1>4, CastAdds
<1>7. TellTypeOK'
  BY <1>6 DEF TellInv, TellTypeOK, watching
<1>8. Listed'
  BY <1>6 DEF TellInv, Listed, Targets, watching
<1>9. IdleTasks'
  BY <1>1, <1>6 DEF TellInv, IdleTasks, InFlight, Idle, Owners, watching
<1> QED
  BY <1>5, <1>7, <1>8, <1>9 DEF TellInv

\* Before the first hello nobody is told anything.
LEMMA InitTells == Init => TellInv
<1> SUFFICES ASSUME Init PROVE TellInv
  OBVIOUS
<1>1. /\ \A o \in Owners : casts[o].left = <<>> /\ casts[o].older = {}
      /\ \A b \in Bridges : greeted[b] = "none"
      /\ \A o \in Owners, b \in Bridges : ~Targets(o, b)
      /\ bridges = <<>>
  BY DEF Init, NoCast, Targets, Contains
<1>2. TellTypeOK
  <2>1. NoCast \in [state : AgentStates, left : Seq(Bridges),
                    older : SUBSET Owners, outrun : SUBSET Bridges]
    BY DEF NoCast, Blank, AgentStates
  <2>2. Blank \in AgentStates
    BY DEF Blank, AgentStates
  <2> QED
    BY <2>1, <2>2 DEF Init, TellTypeOK
<1>3. IdleTasks /\ NewestIsCurrent /\ BridgesAreTold
  <2>1. IdleTasks
    BY <1>1 DEF IdleTasks, InFlight, Owners
  <2>2. NewestIsCurrent
    BY <1>1 DEF NewestIsCurrent
  <2>3. BridgesAreTold
    BY <1>1 DEF BridgesAreTold
  <2> QED
    BY <2>1, <2>2, <2>3
<1>4. Listed
  BY <1>1 DEF Listed, Contains
<1> QED
  BY <1>2, <1>3, <1>4 DEF TellInv

\* Every step keeps the Bridges right.
LEMMA StepTells == LeaseInv /\ TellInv /\ [Next]_vars => TellInv'
<1> SUFFICES ASSUME LeaseInv, TellInv, [Next]_vars PROVE TellInv'
  OBVIOUS
<1>a. LeaseTypeOK /\ LeaseTypeOK'
  BY StepLeases DEF LeaseInv
<1>b. \A c \in Connections : Idle(c) => ~InFlight(c)
  BY DEF TellInv, IdleTasks, Idle
<1>1. ASSUME NEW c \in Connections, Hello(c) PROVE TellInv'
  <2>1. \A d \in Connections : Idle(d)' => Idle(d)
    BY <1>a, <1>1 DEF Hello, Unused, Idle, LeaseTypeOK
  <2>2. Current' = Current
    BY <1>1 DEF Hello, Current, AgentState
  <2> QED
    BY <1>1, <1>b, <2>1, <2>2, QuietKeeps DEF Hello
<1>2. ASSUME NEW c \in Connections, BindAgent(c) PROVE TellInv'
  <2>1. Idle(c) /\ active' = c /\ task' = [task EXCEPT ![c] = "serving"] /\ UNCHANGED watching
    BY <1>2 DEF BindAgent, Unused, Idle
  <2>2. ~InFlight(c)
    BY <1>b, <2>1
  <2>3. \A d \in Connections : Idle(d)' => d # c /\ ~InFlight(d)
    BY <1>a, <1>b, <2>1 DEF Idle, LeaseTypeOK
  <2>4. Broadcast(c, active', status')
    BY <1>2, <2>1 DEF BindAgent
  <2> QED
    BY <1>a, <2>1, <2>2, <2>3, <2>4, BroadcastKeeps
<1>3. ASSUME NEW c \in Connections, Heartbeat(c) PROVE TellInv'
  <2>1. /\ task[c] = "serving" /\ ~InFlight(c) /\ task' = task
        /\ active' = active /\ active = c
        /\ status' = [status EXCEPT ![c] = "connected"] /\ UNCHANGED watching
    BY <1>3 DEF Heartbeat, Reads, IsCurrentFence
  <2>2. \A d \in Connections : Idle(d)' => d # c /\ ~InFlight(d)
    BY <1>b, <2>1 DEF Idle
  <2>3. CASE status[c] # "connected"
    <3>1. Broadcast(c, active', status')
      BY <1>3, <2>1, <2>3 DEF Heartbeat
    <3> QED
      BY <1>a, <2>1, <2>2, <3>1, BroadcastKeeps
  <2>4. CASE status[c] = "connected"
    <3>1. casts' = casts /\ sweep'.at = sweep.at
      BY <1>a, <1>3, <2>4 DEF Heartbeat, Refreshed, LeaseTypeOK
    <3>2. status' = status
      BY <1>a, <2>1, <2>4 DEF LeaseTypeOK
    <3>3. Current' = Current
      BY <2>1, <3>2 DEF Current, AgentState
    <3> QED
      BY <2>1, <2>2, <3>1, <3>3, QuietKeeps
  <2> QED
    BY <2>3, <2>4
<1>4. ASSUME NEW c \in Connections, ObservePresence(c) PROVE TellInv'
  <2>1. Current' = Current /\ sweep'.at = sweep.at
    BY <1>a, <1>4 DEF ObservePresence, Current, AgentState, LeaseTypeOK
  <2>2. \A d \in Connections : Idle(d)' => ~InFlight(d)
    BY <1>4, <1>b DEF ObservePresence, Idle
  <2> QED
    BY <1>4, <2>1, <2>2, QuietKeeps DEF ObservePresence
<1>5. ASSUME NEW c \in Connections, Ends(c) PROVE TellInv'
  <2>1. \A d \in Connections : Idle(d)' => ~InFlight(d)
    BY <1>a, <1>5, <1>b DEF Ends, Reads, Idle, LeaseTypeOK
  <2>2. Current' = Current
    BY <1>5 DEF Ends, Current, AgentState
  <2> QED
    BY <1>5, <2>1, <2>2, QuietKeeps DEF Ends
<1>6. ASSUME NEW c \in Connections, DisconnectAgent(c) PROVE TellInv'
  <2>1. /\ ~InFlight(c) /\ task' = [task EXCEPT ![c] = "ended"]
        /\ UNCHANGED watching /\ active' = active /\ sweep' = sweep
    BY <1>6, <1>b DEF DisconnectAgent, Reads, Idle
  <2>2. \A d \in Connections : Idle(d)' => d # c /\ ~InFlight(d)
    BY <1>a, <1>b, <2>1 DEF Idle, LeaseTypeOK
  <2>3. CASE active = c
    <3>1. Broadcast(c, active', status')
      BY <1>6, <2>1, <2>3 DEF DisconnectAgent
    <3> QED
      BY <1>a, <2>1, <2>2, <3>1, BroadcastKeeps
  <2>4. CASE active # c
    <3>1. status' = status /\ casts' = casts
      BY <1>6, <2>4 DEF DisconnectAgent
    <3>2. Current' = Current
      BY <2>1, <3>1 DEF Current, AgentState
    <3> QED
      BY <2>1, <2>2, <3>1, <3>2, QuietKeeps
  <2> QED
    BY <2>3, <2>4
<1>7. ASSUME IssueCommand \/ CommandSent \/ Tick \/ UNCHANGED vars PROVE TellInv'
  <2>1. UNCHANGED <<status, active, task, casts, sweep>> /\ UNCHANGED watching
    BY <1>7 DEF IssueCommand, CommandSent, Tick, vars, watching
  <2>2. Current' = Current
    BY <2>1 DEF Current, AgentState
  <2>3. \A d \in Connections : Idle(d)' => ~InFlight(d)
    BY <1>b, <2>1 DEF Idle
  <2> QED
    BY <2>1, <2>2, <2>3, QuietKeeps
<1>8. ASSUME NEW b \in Bridges, BindBridge(b) PROVE TellInv'
  <2>1. /\ greeted[b] = "none" /\ greeted' = [greeted EXCEPT ![b] = "bound"]
        /\ bridges' = Append(bridges, b)
        /\ UNCHANGED <<status, active, task, casts, shown, overtaken, sweep>>
    BY <1>8 DEF BindBridge
  <2>2. \A d \in Bridges : Contains(Append(bridges, b), d) <=> Contains(bridges, d) \/ d = b
    <3>1. bridges \in Seq(Bridges)
      BY DEF TellInv, TellTypeOK
    <3>2. /\ Len(Append(bridges, b)) = Len(bridges) + 1 /\ Len(bridges) \in Nat
          /\ Append(bridges, b)[Len(bridges) + 1] = b
          /\ \A i \in 1..Len(bridges) : Append(bridges, b)[i] = bridges[i]
      BY <3>1
    <3>3. \A i : i \in 1..(Len(bridges) + 1) <=> i \in 1..Len(bridges) \/ i = Len(bridges) + 1
      BY <3>2
    <3> QED
      BY <3>2, <3>3 DEF Contains
  <2>3. TellTypeOK'
    BY <2>1 DEF TellInv, TellTypeOK
  <2>4. Listed'
    BY <2>1, <2>2 DEF TellInv, TellTypeOK, Listed, Targets
  <2>5. IdleTasks'
    BY <2>1 DEF TellInv, TellTypeOK, IdleTasks, InFlight
  <2>6. Current' = Current
    BY <2>1 DEF Current, AgentState
  <2>7. NewestIsCurrent' /\ BridgesAreTold'
    BY <2>1, <2>6, QuietTells DEF TellInv, TellTypeOK
  <2> QED
    BY <2>3, <2>4, <2>5, <2>7 DEF TellInv
<1>9. ASSUME NEW b \in Bridges, GreetBridge(b) PROVE TellInv'
  <2>1. /\ greeted[b] = "bound" /\ greeted' = [greeted EXCEPT ![b] = "told"]
        /\ Cast(b, Current, <<b>>)
        /\ UNCHANGED <<status, active, task, bridges, shown, overtaken, sweep>>
    BY <1>9 DEF GreetBridge, Current
  <2>2. Current' = Current /\ Current \in AgentStates
    BY <1>a, <2>1, CurrentType DEF Current, AgentState
  <2>3. b \in Owners /\ b \notin Connections /\ ~InFlight(b) /\ <<b>> \in Seq(Bridges)
    BY <2>1, NamesAssumption DEF Owners, TellInv, IdleTasks
  <2>4. \A d : Contains(<<b>>, d) <=> d = b
    BY DEF Contains
  <2>5. /\ casts' \in [Owners -> [state : AgentStates, left : Seq(Bridges),
                                  older : SUBSET Owners, outrun : SUBSET Bridges]]
        /\ casts'[b].left = <<b>>
        /\ \A p \in Owners \ {b} : casts'[p].left = casts[p].left
        /\ \A p \in Owners : p \notin casts'[p].older
    <3>1. PICK ts \in Seq(Bridges) : ts = <<b>>
      BY <2>3
    <3>2. Cast(b, Current, ts)
      BY <2>1, <3>1
    <3>3. /\ casts' \in [Owners -> [state : AgentStates, left : Seq(Bridges),
                                    older : SUBSET Owners, outrun : SUBSET Bridges]]
          /\ casts'[b].left = ts
          /\ \A p \in Owners \ {b} : casts'[p].left = casts[p].left
          /\ \A p \in Owners : p \notin casts'[p].older
      BY <2>2, <2>3, <3>2, CastAdds
    <3> QED
      BY <3>1, <3>3
  <2>6. \A d \in Bridges : greeted'[d] = IF d = b THEN "told" ELSE greeted[d]
    BY <2>1 DEF TellInv, TellTypeOK
  <2>7. NewestIsCurrent' /\ BridgesAreTold'
    BY <2>1, <2>2, <2>3, <2>4, <2>6, CastSpeaks
  <2>8. TellTypeOK'
    BY <2>1, <2>5 DEF TellInv, TellTypeOK
  <2>9. Listed'
    BY <2>1, <2>4, <2>5, <2>6 DEF TellInv, Listed, Targets
  <2>10. IdleTasks'
    BY <2>1, <2>3, <2>5, <2>6 DEF TellInv, IdleTasks, InFlight, Owners
  <2> QED
    BY <2>7, <2>8, <2>9, <2>10 DEF TellInv
<1>10. ASSUME NEW o \in Owners, Send(o) PROVE TellInv'
  BY <1>10, SendTells
<1>11. ASSUME BeginPass \/ SweepWaits \/ SweepPresence \/ PassFails PROVE TellInv'
  <2>1. UNCHANGED <<status, active, task, casts>> /\ UNCHANGED watching /\ sweep.at # "closing"
    BY <1>11 DEF BeginPass, SweepWaits, SweepPresence, PassFails, Sweeps, watching
  <2>2. Current' = Current
    BY <2>1 DEF Current, AgentState
  <2>3. \A d \in Connections : Idle(d)' => ~InFlight(d)
    BY <1>b, <2>1 DEF Idle
  <2> QED
    BY <2>1, <2>2, <2>3, QuietKeeps
<1>12. ASSUME NEW c, Judge(c), task' = task, UNCHANGED watching,
              ~InFlight(Sweeper), sweep.at # "closing"
       PROVE  TellInv'
  <2>1. active' = active
    BY <1>12 DEF Judge
  <2>2. \A d \in Connections : Idle(d)' => d # Sweeper /\ ~InFlight(d)
    BY <1>b, <1>12, NamesAssumption DEF Idle
  <2>3. CASE status' = status
    <3>1. casts' = casts
      BY <1>12, <2>3 DEF Judge
    <3>2. Current' = Current
      BY <2>1, <2>3 DEF Current, AgentState
    <3> QED
      BY <1>12, <2>2, <3>1, <3>2, QuietKeeps
  <2>4. CASE status' # status
    <3>1. Broadcast(Sweeper, active', status')
      BY <1>12, <2>1, <2>4 DEF Judge
    <3> QED
      BY <1>a, <1>12, <2>2, <3>1, BroadcastKeeps
  <2> QED
    BY <2>3, <2>4
<1>13. ASSUME SweepLease PROVE TellInv'
  BY <1>12, <1>13 DEF SweepLease, Sweeps
<1>14. ASSUME SweepLocked PROVE TellInv'
  <2>1. task' = task /\ UNCHANGED watching /\ ~InFlight(Sweeper) /\ sweep.at # "closing"
    BY <1>14 DEF SweepLocked, Sweeps
  <2>2. \A d \in Connections : Idle(d)' => ~InFlight(d)
    BY <1>b, <2>1 DEF Idle
  <2>3. CASE Superseded
    <3>1. Current' = Current /\ casts' = casts
      BY <2>3 DEF Superseded, Current, AgentState
    <3> QED
      BY <2>1, <2>2, <3>1, QuietKeeps
  <2>4. CASE Retire(sweep.who)
    <3>1. casts' = casts /\ sweep'.at = "closing"
      BY <1>a, <2>4 DEF Retire, To, LeaseTypeOK
    <3> QED
      BY <2>1, <2>2, <3>1, QuietKeeps
  <2>5. CASE Spare(sweep.who)
    BY <1>12, <2>1, <2>5 DEF Spare
  <2> QED
    BY <1>14, <2>3, <2>4, <2>5 DEF SweepLocked
<1>15. ASSUME SweepReports PROVE TellInv'
  <2>1. /\ UNCHANGED <<status, active, task>> /\ UNCHANGED watching /\ ~InFlight(Sweeper)
        /\ Broadcast(Sweeper, active', status')
    BY <1>15 DEF SweepReports, Sweeps
  <2>2. \A d \in Connections : Idle(d)' => d # Sweeper /\ ~InFlight(d)
    BY <1>b, <2>1, NamesAssumption DEF Idle
  <2> QED
    BY <1>a, <2>1, <2>2, BroadcastKeeps
<1> QED
  BY ONLY [Next]_vars, <1>1, <1>2, <1>3, <1>4, <1>5, <1>6, <1>7, <1>8, <1>9, <1>10,
     <1>11, <1>13, <1>14, <1>15 DEF Next, Pass

\* The last agent.state that a Bridge was sent is what the Brain holds, whatever
\* connects, ends or is retired while broadcasts are under way: every change of a
\* lease is broadcast, a Bridge is in the list before it is greeted, and only a
\* broadcast that was passed by a later one can leave it with something older
\* (broadcast_agent_state and _bridge_socket).  With it the one live writer and
\* the types of the leases.
THEOREM BridgesFollowTheLease == Spec => []SessionsAgree
<1>1. Init => LeaseInv /\ TellInv
  BY InitLeases, InitTells
<1>2. LeaseInv /\ TellInv /\ [Next]_vars => (LeaseInv /\ TellInv)'
  BY StepLeases, StepTells
<1>3. LeaseInv /\ TellInv => SessionsAgree
  BY DEF LeaseInv, TellInv, SessionsAgree
<1> QED
  BY <1>1, <1>2, <1>3, PTL DEF Spec

----------------------------------------------------------------------------
(* Presence.                                                                *)

\* What the sweeper found run out at its reading of the clock still is: an
\* observation since then takes it out of the sweeper's hand
DueIsOver ==
    /\ presence \in [freshness : {"current", "unknown"}, ttl : Nat]
    /\ sweep.due => presence.ttl = 0

\* Every step keeps that.
LEMMA StepPresence ==
    LeaseTypeOK /\ LeaseTypeOK' /\ DueIsOver /\ [Next]_vars
        => /\ DueIsOver'
           /\ presence.freshness = "current" /\ presence'.freshness = "unknown"
                  => presence.ttl = 0
<1> SUFFICES ASSUME LeaseTypeOK, LeaseTypeOK', DueIsOver, [Next]_vars
             PROVE  /\ DueIsOver'
                    /\ presence.freshness = "current" /\ presence'.freshness = "unknown"
                           => presence.ttl = 0
  OBVIOUS
<1> USE DEF DueIsOver
<1>1. CASE \E c \in Connections : ObservePresence(c)
  BY <1>1, SessionsAssumption DEF ObservePresence, LeaseTypeOK
<1>2. CASE BeginPass
  BY <1>2 DEF BeginPass
<1>3. CASE SweepPresence
  BY <1>3 DEF SweepPresence, Resting
<1>4. CASE Tick
  <2>1. /\ presence' = [presence EXCEPT !.ttl = IF @ = 0 THEN 0 ELSE @ - 1]
        /\ sweep' = sweep
    BY <1>4 DEF Tick
  <2> QED
    BY <2>1
<1>5. ASSUME presence' = presence, sweep'.due \in {sweep.due, FALSE}
      PROVE  /\ DueIsOver'
             /\ presence.freshness = "current" /\ presence'.freshness = "unknown"
                    => presence.ttl = 0
  BY <1>5
<1>6. ASSUME NEW c \in Connections, \/ Hello(c) \/ BindAgent(c) \/ Ends(c) \/ DisconnectAgent(c)
      PROVE  presence' = presence /\ sweep' = sweep
  BY <1>6 DEF Hello, BindAgent, Ends, DisconnectAgent
<1>7. ASSUME NEW c \in Connections, Heartbeat(c)
      PROVE  presence' = presence /\ sweep'.due = sweep.due
  BY <1>7 DEF Heartbeat, Refreshed, LeaseTypeOK
<1>8. ASSUME NEW b \in Bridges, BindBridge(b) \/ GreetBridge(b)
      PROVE  presence' = presence /\ sweep' = sweep
  BY <1>8 DEF BindBridge, GreetBridge
<1>9. ASSUME IssueCommand \/ CommandSent \/ UNCHANGED vars \/ \E o \in Owners : Send(o)
      PROVE  presence' = presence /\ sweep' = sweep
  BY <1>9 DEF IssueCommand, CommandSent, vars, Send
<1>10. ASSUME SweepLease \/ SweepWaits \/ SweepLocked \/ SweepReports \/ PassFails
       PROVE  presence' = presence /\ sweep'.due = sweep.due
  <2>1. sweep' \in {LeasesDone, To("lock"), To("closing"), To("dead")} /\ presence' = presence
    BY <1>10 DEF SweepLease, SweepWaits, SweepLocked, SweepReports, PassFails, Judge,
       Superseded, Retire, Spare, To
  <2> QED
    BY <2>1 DEF LeasesDone, To, LeaseTypeOK
<1> QED
  BY ONLY [Next]_vars, <1>1, <1>2, <1>3, <1>4, <1>5, <1>6, <1>7, <1>8, <1>9, <1>10
  DEF Next, Pass

\* The sweeper hides no presence before its time, old as its reading of the clock
\* may be when it comes to it (expire of manager.py).
THEOREM PresenceStands == Spec => PresenceLastsItsTime
<1>1. Init => LeaseInv /\ DueIsOver
  BY InitLeases DEF Init, DueIsOver, Unknown, Resting
<1>2. LeaseInv /\ DueIsOver /\ [Next]_vars => (LeaseInv /\ DueIsOver)'
  BY StepLeases, StepPresence DEF LeaseInv
<1>3. LeaseInv /\ DueIsOver /\ [Next]_vars
          => [presence.freshness = "current" /\ presence'.freshness = "unknown"
                 => presence.ttl = 0]_vars
  BY StepLeases, StepPresence DEF LeaseInv
<1> QED
  BY <1>1, <1>2, <1>3, PTL DEF Spec, PresenceLastsItsTime
=============================================================================
