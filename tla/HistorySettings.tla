---------------------------- MODULE HistorySettings ----------------------------
(***************************************************************************)
(* The creator's history settings and the configuration that carries them  *)
(* to the Agent: the settings endpoints (app/api/endpoints/history.py),    *)
(* publication and confirmation (app/transport/manager.py,                 *)
(* app/services/agent_configuration.py, history_settings in                *)
(* app/persistence/history.py) and the Agent's configuration client        *)
(* (extension/transport/agent-config-client.mjs).                          *)
(*                                                                         *)
(* A configuration document is its history policy; documents are numbered  *)
(* by revision, the last one published is the one required, and revision 0 *)
(* stands for the Agent's bundled configuration.  The Brain is one event   *)
(* loop: what a handler does up to its next await that can suspend is one  *)
(* action.  Settings, documents and the installation's record are SQLite   *)
(* rows, everything else dies with the Brain's process.                    *)
(***************************************************************************)
EXTENDS Naturals, Sequences, SequencesExt

CONSTANTS
    Consents,       \* consent revisions
    MaxUpdates,     \* bound: changes of the settings
    MaxConns,       \* bound: connections opened
    MaxFaults       \* bound: faults strike until connection MaxFaults+1 is opened

ASSUME ConsentsAssumption == Consents \subseteq Nat \ {0}
ASSUME SettingsBoundsAssumption ==
    MaxUpdates \in Nat /\ MaxConns \in Nat /\ MaxFaults \in Nat

VARIABLES
    settings,       \* history_settings of the account
    docs,           \* config_documents: their history policies by revision
    confirmed,      \* applied_config_revision of the installation's record
    publications,   \* publish_history_settings calls that have yet to bind
    fence,          \* the connection of the active lease, 0 for none
    leaseApplied,   \* applied_config_revision of the lease, also of a disconnected one
    applied,        \* the Agent's persisted configuration
    conn,           \* the Agent's socket, 0 for none
    session,        \* whether agent.session was accepted on it
    required,       \* revision the Agent was told last
    due,            \* a call of requireConfig or its retry timer waits to fetch
    fetch,          \* the fetch in progress
    conns, up, down,
    torn            \* history: settings whose document was never published

brainVars == <<settings, docs, confirmed, publications, fence, leaseApplied>>
agentVars == <<applied, conn, session, required, due, fetch>>
settingsVars == <<brainVars, agentVars, conns, up, down, torn>>

States == {"not_started", "running", "paused", "revoked"}

NoFetch == [want |-> 0, got |-> 0, live |-> FALSE, valid |-> FALSE]

\* An account nobody changed settings of, whose Agent is new or has applied the
\* bootstrap document on an earlier connection.
SettingsInit ==
    /\ applied \in 0..1
    /\ settings = [revision |-> 0, desired |-> "not_started", consent |-> 0, required |-> applied,
                   effective |-> "not_applied", effConfig |-> applied, effSettings |-> 0]
    /\ docs = <<[enabled |-> FALSE, consent |-> 0]>>     \* bootstrap
    /\ confirmed = applied /\ publications = <<>>
    /\ fence = 0 /\ leaseApplied = 0
    /\ conn = 0 /\ session = FALSE /\ required = 0
    /\ due = FALSE /\ fetch = NoFetch
    /\ conns = 0 /\ up = [c \in 1..MaxConns |-> <<>>] /\ down = <<>>
    /\ torn = {}

-----------------------------------------------------------------------------
(***************************************************************************)
(* Settings in the Brain's database.  Each operation is one transaction;   *)
(* it maps the settings to the new ones.                                   *)
(***************************************************************************)
Policy(s) == [enabled |-> s.desired = "running", consent |-> s.consent]
Updated(desired, consent) ==
    [settings EXCEPT !.revision = @ + 1, !.desired = desired, !.consent = consent,
                     !.required = 0]

\* Mutant: a publication binds its document to whatever the settings are now.
BindableAny(s, revision, doc) == TRUE

\* bind_history_config: only while the settings are those published.
Bindable(s, revision, doc) == s.revision = revision /\ s.required \in {0, doc}
Bound(s, doc) == [s EXCEPT !.required = doc]

\* mark_history_config_applied.
Confirms(s, doc) == s.required = doc

EffectiveState(s) == IF s.desired = "not_started" THEN "not_applied" ELSE s.desired
Marked(s, doc) ==
    IF doc # 0 /\ Confirms(s, doc)
    THEN [s EXCEPT !.effective = EffectiveState(s), !.effConfig = doc,
                   !.effSettings = s.revision]
    ELSE s

\* configuration_aligned of system.state, and what _apply_coverage asks for.
Aligned ==
    /\ settings.required # 0 /\ settings.required = settings.effConfig
    /\ settings.revision = settings.effSettings
    /\ settings.desired = settings.effective

(***************************************************************************)
(* The creator changes the settings: PUT with or without a new consent, or *)
(* DELETE of the consent.  The update and the publication of the document  *)
(* are two transactions without a suspension between them, so that only    *)
(* the death of the process can come between; then the publication waits   *)
(* for a broadcast.                                                        *)
(***************************************************************************)
Change(desired, consent) ==
    /\ settings.revision < MaxUpdates
    /\ \/ desired = "running" /\ consent # 0
       \/ desired = "paused"
       \/ desired = "revoked" /\ consent = 0
    /\ consent \in {0, settings.consent} \cup Consents
    /\ consent = 0 => desired = "revoked" \/ settings.consent = 0
    /\ settings' = Updated(desired, consent)

UpdateSettings ==
    /\ \E desired \in States, consent \in Consents \cup {0} : Change(desired, consent)
    /\ docs' = Append(docs, Policy(settings'))
    /\ publications' = Append(publications, [doc |-> Len(docs'), revision |-> settings'.revision])
    /\ UNCHANGED <<torn, confirmed, fence, leaseApplied, agentVars, conns, up, down>>

\* The broadcast is over: the document is bound, confirmed if the lease, connected
\* or not, says that the Agent has it by now, and signalled.  A publication that was
\* overtaken ends with 409.
Signal == [type |-> "available", rev |-> Len(docs)]
Send(c, frame) == down' = IF c = conn THEN Append(down, frame) ELSE down

Publish(i) ==
    /\ i <= Len(publications)
    /\ publications' = RemoveAt(publications, i)
    /\ LET p == publications[i] IN
       IF Bindable(settings, p.revision, p.doc)
       THEN /\ settings' = LET b == Bound(settings, p.doc)
                           IN  IF leaseApplied = p.doc THEN Marked(b, p.doc) ELSE b
            /\ IF fence # 0 THEN Send(fence, Signal) ELSE UNCHANGED down
       ELSE UNCHANGED <<settings, down>>
    /\ UNCHANGED <<torn, docs, confirmed, fence, leaseApplied, agentVars, conns, up>>

-----------------------------------------------------------------------------
(***************************************************************************)
(* The Brain's socket handler.                                             *)
(***************************************************************************)
\* Mutant: an echo of an older revision rolls the record back.
EchoAny(rev) == rev

\* _record_echo: a heartbeat that is late does not roll the record back, but an
\* Agent without a configuration does.
Echo(rev) == IF rev = 0 \/ rev >= confirmed THEN rev ELSE confirmed

\* Mutant: a hello leaves the settings to their publication.
BoundAtHelloNever(s) == s

\* bind_agent: settings that no document is bound to yet, because their
\* publication has not come that far or died, are bound to the required one.
BoundAtHello(s) == IF s.required = 0 THEN Bound(s, Len(docs)) ELSE s

BindAgent(c) ==
    /\ up[c] # <<>> /\ Head(up[c]).type = "hello"
    /\ confirmed' = Echo(Head(up[c]).rev)
    /\ settings' = LET b == BoundAtHello(settings)
                   IN  IF confirmed' = Len(docs) THEN Marked(b, Len(docs)) ELSE b
    /\ fence' = c
    /\ leaseApplied' = confirmed'
    /\ up' = [up EXCEPT ![c][1].type = "bound"]
    /\ UNCHANGED <<torn, docs, publications, agentVars, conns, down>>

OpenSession(c) ==     \* after the broadcast in bind_agent
    /\ up[c] # <<>> /\ Head(up[c]).type = "bound"
    /\ Send(c, [type |-> "session", rev |-> Len(docs)])
    /\ up' = [up EXCEPT ![c] = Tail(@)]
    /\ UNCHANGED <<torn, brainVars, agentVars, conns>>

\* agent.heartbeat and config.applied with outcome "applied" both tell what
\* the Agent applied; a late report is ignored as a late heartbeat is.
RecordApplied(c) ==
    /\ up[c] # <<>> /\ Head(up[c]).type \in {"heartbeat", "applied"} /\ c = fence
    /\ confirmed' = Echo(Head(up[c]).rev)
    /\ leaseApplied' = confirmed'
    /\ settings' = IF Head(up[c]).type = "heartbeat" \/ confirmed' = Head(up[c]).rev
                   THEN Marked(settings, confirmed') ELSE settings
    /\ up' = [up EXCEPT ![c] = Tail(@)]
    /\ UNCHANGED <<torn, docs, publications, fence, agentVars, conns, down>>

\* clearSessionAuthorization: the retry timer is cleared and the result of a
\* fetch in progress will not be used.
CloseSocket ==
    /\ conn' = 0
    /\ session' = FALSE
    /\ due' = FALSE
    /\ fetch' = [fetch EXCEPT !.live = FALSE]
    /\ down' = <<>>

\* A frame of a connection that lost the lease: a fatal protocol.error.
RejectStale(c) ==
    /\ up[c] # <<>> /\ Head(up[c]).type \in {"heartbeat", "applied"} /\ c # fence
    /\ up' = [up EXCEPT ![c] = Tail(@)]
    /\ IF c = conn
       THEN CloseSocket
       ELSE UNCHANGED <<conn, session, due, fetch, down>>
    /\ UNCHANGED <<torn, brainVars, applied, required, conns>>

NoticeClose(c) ==     \* disconnect_agent
    /\ c # conn
    /\ up[c] # <<>> \/ fence = c
    /\ up' = [up EXCEPT ![c] = <<>>]
    /\ fence' = IF fence = c THEN 0 ELSE fence
    /\ UNCHANGED <<torn, settings, docs, confirmed, publications, leaseApplied, agentVars, conns, down>>

RetireLease ==     \* a disconnected lease is swept (module AgentSessions)
    /\ fence = 0 /\ leaseApplied # 0
    /\ leaseApplied' = 0
    /\ UNCHANGED <<torn, settings, docs, confirmed, publications, fence, agentVars, conns, up, down>>

-----------------------------------------------------------------------------
(***************************************************************************)
(* The Agent.                                                              *)
(***************************************************************************)
Connect ==
    /\ conn = 0
    /\ conns < MaxConns
    /\ conns' = conns + 1 /\ conn' = conns'
    /\ up' = [up EXCEPT ![conns'] = <<[type |-> "hello", rev |-> applied]>>]
    /\ UNCHANGED <<torn, brainVars, applied, session, required, due, fetch, down>>

Disconnect ==
    /\ conn # 0
    /\ conns <= MaxFaults
    /\ CloseSocket
    /\ UNCHANGED <<torn, brainVars, applied, required, conns, up>>

WorkerRestart ==     \* the persisted configuration is loaded again
    /\ conns <= MaxFaults
    /\ conn' = 0 /\ session' = FALSE /\ due' = FALSE /\ down' = <<>>
    /\ fetch' = NoFetch
    /\ required' = 0
    /\ UNCHANGED <<torn, brainVars, applied, conns, up>>

\* requireConfig, called with force for a signal but not for a session.
RecvSession ==
    /\ conn # 0 /\ down # <<>> /\ ~session /\ Head(down).type = "session"
    /\ session' = TRUE
    /\ IF Head(down).rev # applied
       THEN required' = Head(down).rev /\ due' = TRUE
       ELSE UNCHANGED <<required, due>>
    /\ down' = Tail(down)
    /\ UNCHANGED <<torn, brainVars, applied, conn, fetch, conns, up>>

RecvAvailable ==
    /\ conn # 0 /\ down # <<>> /\ session
    /\ required' = Head(down).rev
    /\ due' = TRUE
    /\ down' = Tail(down)
    /\ UNCHANGED <<torn, brainVars, applied, conn, session, fetch, conns, up>>

\* "Expected agent.session": the signal was sent while bind_agent awaited.
RecvTooEarly ==
    /\ conn # 0 /\ down # <<>> /\ ~session /\ Head(down).type # "session"
    /\ CloseSocket
    /\ UNCHANGED <<torn, brainVars, applied, required, conns, up>>

\* requireConfig starts a fetch unless one is in progress; the Brain answers
\* with the document required when it reads the request, or does not answer.
StartFetch ==
    /\ due /\ session /\ fetch = NoFetch
    /\ due' = FALSE
    /\ fetch' = [want |-> required, got |-> 0, live |-> TRUE, valid |-> FALSE]
    /\ UNCHANGED <<torn, brainVars, applied, conn, session, required, conns, up, down>>

GetConfig ==
    /\ fetch # NoFetch /\ fetch.got = 0
    /\ fetch' = [fetch EXCEPT !.got = Len(docs)]
    /\ UNCHANGED <<torn, brainVars, applied, conn, session, required, due, conns, up, down>>

\* The answer is looked at on the session that asked, and must be the document
\* the fetch was started for.
Valid == fetch.live /\ fetch.got = fetch.want

Validate ==
    /\ ~fetch.valid /\ fetch.got # 0 /\ Valid
    /\ fetch' = [fetch EXCEPT !.valid = TRUE]
    /\ UNCHANGED <<torn, brainVars, applied, conn, session, required, due, conns, up, down>>

\* Persisted, then reported on the session there is by now, if any.
Activate ==
    /\ fetch.valid
    /\ applied' = fetch.want
    /\ up' = IF session THEN [up EXCEPT ![conn] = Append(@, [type |-> "applied", rev |-> applied'])]
             ELSE up
    /\ due' = (due \/ (session /\ required # fetch.want))
    /\ fetch' = NoFetch
    /\ UNCHANGED <<torn, brainVars, conn, session, required, conns, down>>

\* No answer, or one that is not valid: the retry timer is set if there is a
\* session, else the next session asks.
FetchFails ==
    /\ fetch # NoFetch /\ ~fetch.valid
    /\ \/ ~fetch.live
       \/ fetch.got # 0 /\ ~Valid
       \/ fetch.got = 0 /\ conns <= MaxFaults
    /\ fetch' = NoFetch
    /\ due' = (due \/ session)
    /\ UNCHANGED <<torn, brainVars, applied, conn, session, required, conns, up, down>>

SendHeartbeat ==     \* one at a time on its way
    /\ session
    /\ \A i \in 1..Len(up[conn]) : up[conn][i].type # "heartbeat"
    /\ up' = [up EXCEPT ![conn] = Append(@, [type |-> "heartbeat", rev |-> applied])]
    /\ UNCHANGED <<torn, brainVars, agentVars, conns, down>>

-----------------------------------------------------------------------------
(***************************************************************************)
(* The Brain's process dies and is started again: its sockets close and    *)
(* publications in progress are forgotten.  CrashInUpdate: between the     *)
(* update of the settings and the publication of their document.           *)
(***************************************************************************)
Die ==
    /\ conns <= MaxFaults
    /\ publications' = <<>>
    /\ fence' = 0 /\ leaseApplied' = 0
    /\ up' = [c \in 1..MaxConns |-> <<>>]
    /\ CloseSocket
    /\ UNCHANGED <<docs, confirmed, applied, required, conns>>

BrainCrash == Die /\ UNCHANGED <<settings, torn>>

CrashInUpdate ==
    /\ \E desired \in States, consent \in Consents \cup {0} : Change(desired, consent)
    /\ torn' = torn \cup {settings'.revision}
    /\ Die

Agent ==
    \/ Connect \/ RecvSession \/ RecvAvailable \/ RecvTooEarly
    \/ StartFetch \/ GetConfig \/ Validate \/ Activate \/ FetchFails \/ SendHeartbeat

Brain(c) == BindAgent(c) \/ OpenSession(c) \/ RecordApplied(c) \/ RejectStale(c)

SettingsNext ==
    \/ UpdateSettings \/ Agent
    \/ Disconnect \/ WorkerRestart \/ BrainCrash \/ CrashInUpdate \/ RetireLease
    \/ \E i \in 1..MaxUpdates : Publish(i)
    \/ \E c \in 1..MaxConns : Brain(c) \/ NoticeClose(c)

SettingsSpec == SettingsInit /\ [][SettingsNext]_settingsVars

(***************************************************************************)
(* Fairness: the event loops of both sides run, and the Agent's alarms     *)
(* reconnect it; a Brain asked for the configuration again and again       *)
(* answers at last.  Heartbeats are sent on a timer.  Nothing is assumed of *)
(* the creator or of faults.                                               *)
(***************************************************************************)
FairSettingsSpec ==
    /\ SettingsSpec
    /\ WF_settingsVars(Connect) /\ WF_settingsVars(RecvSession \/ RecvAvailable \/ RecvTooEarly)
    /\ WF_settingsVars(StartFetch) /\ SF_settingsVars(GetConfig)
    /\ WF_settingsVars(Validate \/ Activate \/ FetchFails)
    /\ WF_settingsVars(Publish(1)) /\ WF_settingsVars(SendHeartbeat)
    /\ \A c \in 1..MaxConns : WF_settingsVars(Brain(c)) /\ WF_settingsVars(NoticeClose(c))

-----------------------------------------------------------------------------
SettingsTypeOK ==
    /\ settings \in [revision : 0..MaxUpdates, desired : States, consent : Consents \cup {0},
                     required : 0..Len(docs),
                     effective : {"not_applied", "running", "paused", "revoked"},
                     effConfig : 0..Len(docs), effSettings : 0..MaxUpdates]
    /\ docs \in Seq([enabled : BOOLEAN, consent : Consents \cup {0}])
    /\ confirmed \in 0..Len(docs) /\ leaseApplied \in 0..Len(docs) /\ applied \in 0..Len(docs)
    /\ publications \in Seq([doc : 1..Len(docs), revision : 1..MaxUpdates])
    /\ conn \in 0..conns /\ fence \in 0..conns /\ session \in BOOLEAN /\ due \in BOOLEAN
    /\ required \in 0..Len(docs)
    /\ torn \subseteq 1..MaxUpdates
    /\ fetch \in [want : 0..Len(docs), got : 0..Len(docs), live : BOOLEAN, valid : BOOLEAN]

\* "Advance desired history settings to effective only after Agent
\* confirmation" (mark_history_config_applied): when the settings are shown
\* aligned, what the Agent runs is their policy.  Revoked or paused settings
\* shown as effective mean an Agent that acquires nothing any more.  The code
\* keeps it only for settings whose document was published (README,
\* Disagreements).
AlignedMeansApplied == Aligned => applied # 0 /\ docs[applied] = Policy(settings)

\* The same, but for settings whose document was never published.
PublishedAlignedMeansApplied == settings.revision \notin torn => AlignedMeansApplied

\* The Brain never takes for applied what the Agent has not persisted, so a
\* worker that restarts is not behind its record.
ConfirmedIsApplied == confirmed <= applied /\ settings.effConfig <= applied

\* The settings that are shown are true, of the types declared.
SettingsAreTrue == SettingsTypeOK /\ PublishedAlignedMeansApplied /\ ConfirmedIsApplied

\* A late report "must never regress the installation/effective history
\* revision" (record_report): whatever echo, report, hello or publication comes
\* late or from a dead connection, neither what is effective nor what the
\* installation is known to run falls back to an older document; only an Agent
\* without a configuration empties the record.
LateReportsNeverRegress ==
    [][/\ settings'.effConfig >= settings.effConfig
       /\ settings'.effSettings >= settings.effSettings
       /\ confirmed' >= confirmed \/ confirmed' = 0]_settingsVars

\* ADR 0005: required and applied configuration are "eventually consistent".
\* Every change of the settings, or a later one, takes effect in the end,
\* though publications are overtaken or die and signals are lost.
SettingsTakeEffect ==
    \A r \in 1..MaxUpdates : settings.revision = r ~> settings.effSettings >= r
=============================================================================
