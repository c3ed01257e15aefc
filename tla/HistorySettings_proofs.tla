----------------------- MODULE HistorySettings_proofs -----------------------
(***************************************************************************)
(* Theorems about HistorySettings, for any number of changes, connections  *)
(* and faults.  The argument: documents are only appended, so whatever the *)
(* Agent runs, reports or fetches is a document of the past, and settings  *)
(* are only ever bound to the last document; when that one is effective,   *)
(* the Agent must have applied it, and it is the policy of the settings    *)
(* unless the Brain died before publishing theirs.                         *)
(***************************************************************************)
EXTENDS HistorySettings, SequenceTheorems, TLAPS

NewestDoc == Len(docs)
Documents == [enabled : BOOLEAN, consent : Consents \cup {0}]
SettingsRows ==
    [revision : Nat, desired : States, consent : Consents \cup {0}, required : Nat,
     effective : {"not_applied", "running", "paused", "revoked"},
     effConfig : Nat, effSettings : Nat]
Publications == [doc : Nat, revision : Nat]
Reports == [type : {"hello", "bound", "heartbeat", "applied"}, rev : Nat]
Notices == [type : {"session", "available"}, rev : Nat]

\* Settings that are bound to no document or to the last one, and of which
\* nothing is effective that the Agent, at document a, has not applied.
Fit(s, a, last) ==
    /\ s \in SettingsRows
    /\ s.revision <= MaxUpdates /\ s.effSettings <= s.revision
    /\ s.effConfig <= a /\ s.required \in {0, last}

\* What the Brain keeps.
DocsInv ==
    /\ docs \in Seq(Documents) /\ docs # <<>>
    /\ torn \subseteq 1..MaxUpdates
    /\ settings.revision \notin torn => docs[NewestDoc] = Policy(settings)
BrainInv ==
    /\ Fit(settings, applied, NewestDoc)
    /\ confirmed \in Nat /\ confirmed <= applied
    /\ leaseApplied \in Nat /\ leaseApplied <= applied
PublicationInv ==
    /\ publications \in Seq(Publications)
    /\ \A i \in 1..Len(publications) :
          /\ publications[i].doc \in 1..NewestDoc
          /\ publications[i].revision \in 1..settings.revision
          /\ publications[i].revision = settings.revision => publications[i].doc = NewestDoc

\* What the Agent runs, and what it has fetched to run next.
AgentInv ==
    /\ applied \in Nat /\ applied <= NewestDoc
    /\ required \in Nat /\ required <= NewestDoc
    /\ due \in BOOLEAN
    /\ fetch \in [want : Nat, got : Nat, live : BOOLEAN, valid : BOOLEAN]
    /\ fetch.want <= NewestDoc /\ fetch.got <= NewestDoc
    /\ fetch.got # 0 => applied <= fetch.got
    /\ fetch.valid => fetch.got # 0 /\ fetch.got = fetch.want

\* What is on the wire.
SocketInv ==
    /\ conns \in Nat /\ conns <= MaxConns
    /\ conn \in Nat /\ conn <= conns /\ fence \in Nat /\ fence <= conns
    /\ session \in BOOLEAN
    /\ session => conn # 0
UpInv ==
    /\ up \in [1..MaxConns -> Seq(Reports)]
    /\ \A c \in 1..MaxConns : conns < c => up[c] = <<>>
    /\ \A c \in 1..MaxConns : \A i \in 1..Len(up[c]) : up[c][i].rev <= applied
DownInv ==
    /\ down \in Seq(Notices)
    /\ \A i \in 1..Len(down) : down[i].rev <= NewestDoc

SettingsInv ==
    DocsInv /\ BrainInv /\ PublicationInv /\ AgentInv /\ SocketInv /\ UpInv /\ DownInv

-----------------------------------------------------------------------------
(***************************************************************************)
(* The operations on the settings' row.                                    *)
(***************************************************************************)
\* What every operation that is not a change of the creator's does to a row.
Advances(s, t) ==
    /\ t.revision = s.revision /\ t.desired = s.desired /\ t.consent = s.consent
    /\ t.effConfig >= s.effConfig /\ t.effSettings >= s.effSettings

LEMMA FitAdvances ==
    ASSUME NEW s, NEW t, NEW a \in Nat, NEW last \in Nat, Fit(s, a, last), Fit(t, a, last),
           Advances(s, t), NEW u, Fit(u, a, last), Advances(t, u)
    PROVE  Advances(s, u)
  BY DEF Advances, Fit, SettingsRows

\* Binding the last document keeps a row fit.
LEMMA BoundFits ==
    ASSUME NEW s, NEW a \in Nat, NEW last \in Nat, Fit(s, a, last)
    PROVE  Fit(Bound(s, last), a, last) /\ Advances(s, Bound(s, last))
<1> DEFINE t == Bound(s, last)
<1>1. /\ t \in SettingsRows
      /\ t.revision = s.revision /\ t.desired = s.desired /\ t.consent = s.consent
      /\ t.effConfig = s.effConfig /\ t.effSettings = s.effSettings /\ t.required = last
  BY DEF Bound, Fit, SettingsRows
<1> QED
  BY <1>1 DEF Fit, Advances, SettingsRows

\* A document the Agent applied is marked effective only if it is the one
\* required, which is the last: nothing that was effective is newer.
LEMMA MarkedFits ==
    ASSUME NEW s, NEW a \in Nat, NEW last \in Nat, a <= last, Fit(s, a, last),
           NEW doc \in Nat, doc <= a
    PROVE  Fit(Marked(s, doc), a, last) /\ Advances(s, Marked(s, doc))
<1> DEFINE t == Marked(s, doc)
<1>1. CASE doc # 0 /\ Confirms(s, doc)
  <2>1. EffectiveState(s) \in {"not_applied", "running", "paused", "revoked"}
    BY DEF EffectiveState, Fit, SettingsRows, States
  <2>2. t = [s EXCEPT !.effective = EffectiveState(s), !.effConfig = doc,
                      !.effSettings = s.revision]
    BY <1>1 DEF Marked
  <2> HIDE DEF t
  <2>3. /\ t \in SettingsRows
        /\ t.revision = s.revision /\ t.desired = s.desired /\ t.consent = s.consent
        /\ t.effConfig = doc /\ t.effSettings = s.revision /\ t.required = s.required
    BY <2>1, <2>2 DEF Fit, SettingsRows
  <2>4. doc = last
    BY <1>1 DEF Confirms, Fit
  <2>5. t.effConfig >= s.effConfig /\ t.effSettings >= s.effSettings
    BY <2>3, <2>4 DEF Fit, SettingsRows
  <2> QED
    BY <2>3, <2>4, <2>5 DEF Fit, Advances, SettingsRows, t
<1>2. CASE ~(doc # 0 /\ Confirms(s, doc))
  <2>1. t = s
    BY <1>2 DEF Marked
  <2> QED
    BY <2>1 DEF Fit, Advances, SettingsRows
<1> QED
  BY <1>1, <1>2

\* The creator's change.
LEMMA ChangeFits ==
    ASSUME SettingsInv, NEW desired \in States, NEW consent \in Consents \cup {0},
           Change(desired, consent), NEW last \in Nat
    PROVE  /\ Fit(settings', applied, last)
           /\ settings'.revision = settings.revision + 1
           /\ settings'.effConfig = settings.effConfig
           /\ settings'.effSettings = settings.effSettings
<1>1. /\ settings' = [settings EXCEPT !.revision = @ + 1, !.desired = desired,
                                       !.consent = consent, !.required = 0]
      /\ settings.revision < MaxUpdates
  BY DEF Change, Updated
<1>2. /\ settings \in SettingsRows /\ settings.effSettings <= settings.revision
      /\ settings.effConfig <= applied
  BY DEF SettingsInv, BrainInv, Fit
<1>3. PICK n \in Nat : n = settings.revision + 1
  BY <1>2 DEF SettingsRows
<1>4. settings' = [settings EXCEPT !.revision = n, !.desired = desired,
                                   !.consent = consent, !.required = 0]
  BY <1>1, <1>3
<1>5. /\ settings' \in SettingsRows
      /\ settings'.revision = n
      /\ settings'.effConfig = settings.effConfig
      /\ settings'.effSettings = settings.effSettings
      /\ settings'.required = 0
  BY <1>2, <1>4 DEF SettingsRows
<1> QED
  BY <1>1, <1>2, <1>3, <1>5, SettingsBoundsAssumption DEF Fit, SettingsRows

\* What the invariant says of the numbers.
LEMMA Numbers ==
    ASSUME SettingsInv
    PROVE  /\ NewestDoc \in Nat \ {0} /\ applied \in Nat /\ applied <= NewestDoc
           /\ Fit(settings, applied, NewestDoc)
           /\ settings.revision \in Nat /\ settings.effConfig \in Nat
           /\ settings.effSettings \in Nat
  BY EmptySeq, LenProperties DEF SettingsInv, DocsInv, BrainInv, AgentInv, NewestDoc, Fit, SettingsRows

-----------------------------------------------------------------------------
(***************************************************************************)
(* What is on the wire.                                                    *)
(***************************************************************************)
\* A frame is taken, or a connection's frames are dropped.
LEMMA TakenUp ==
    ASSUME SettingsInv, NEW c \in 1..MaxConns, up[c] # <<>>,
           up' = [up EXCEPT ![c] = Tail(@)], UNCHANGED <<conns, applied>>
    PROVE  UpInv'
<1>1. up[c] \in Seq(Reports) /\ conns >= c
  BY SettingsBoundsAssumption DEF SettingsInv, UpInv, SocketInv
<1>2. /\ Tail(up[c]) \in Seq(Reports) /\ Len(Tail(up[c])) = Len(up[c]) - 1
      /\ \A i \in 1..Len(Tail(up[c])) : Tail(up[c])[i] = up[c][i + 1]
  BY <1>1, HeadTailProperties
<1>3. \A i \in 1..Len(Tail(up[c])) : Tail(up[c])[i].rev <= applied
  BY <1>1, <1>2, LenProperties DEF SettingsInv, UpInv
<1> QED
  BY <1>1, <1>2, <1>3 DEF SettingsInv, UpInv, SocketInv

LEMMA DroppedUp ==
    ASSUME SettingsInv, NEW c \in 1..MaxConns,
           up' = [up EXCEPT ![c] = <<>>], UNCHANGED <<conns, applied>>
    PROVE  UpInv'
  BY EmptySeq DEF SettingsInv, UpInv

\* The Agent reports no more than it applied.
LEMMA ReportedUp ==
    ASSUME SettingsInv, session, NEW r \in Reports, r.rev <= applied', applied' \in Nat,
           up' = [up EXCEPT ![conn] = Append(@, r)], UNCHANGED conns, applied <= applied'
    PROVE  UpInv'
<1>1. conn \in 1..MaxConns /\ conn <= conns
  BY SettingsBoundsAssumption DEF SettingsInv, SocketInv
<1>2. up[conn] \in Seq(Reports) /\ up \in [1..MaxConns -> Seq(Reports)]
  BY <1>1 DEF SettingsInv, UpInv
<1>3. /\ Append(up[conn], r) \in Seq(Reports) /\ Len(Append(up[conn], r)) = Len(up[conn]) + 1
      /\ \A i \in 1..Len(up[conn]) : Append(up[conn], r)[i] = up[conn][i]
      /\ Append(up[conn], r)[Len(up[conn]) + 1] = r
  BY <1>2, AppendProperties
<1>4. up' \in [1..MaxConns -> Seq(Reports)] /\ up'[conn] = Append(up[conn], r)
      /\ \A c \in 1..MaxConns \ {conn} : up'[c] = up[c]
  BY <1>1, <1>2, <1>3
<1>5. ASSUME NEW c \in 1..MaxConns, NEW i \in 1..Len(up'[c])
      PROVE  up'[c][i].rev <= applied'
  <2>1. CASE c # conn
    <3>1. up'[c] = up[c] /\ up[c] \in Seq(Reports) /\ i \in 1..Len(up[c])
      BY <1>2, <1>4, <1>5, <2>1
    <3>2. up[c][i] \in Reports /\ up[c][i].rev <= applied
      BY <3>1, ElementOfSeq DEF SettingsInv, UpInv
    <3>3. up[c][i].rev \in Nat
      BY <3>2 DEF Reports
    <3> QED
      BY <3>1, <3>2, <3>3 DEF SettingsInv, AgentInv
  <2>2. CASE c = conn /\ i = Len(up[conn]) + 1
    BY <1>3, <1>4, <2>2
  <2>3. CASE c = conn /\ i # Len(up[conn]) + 1
    <3>1. i \in 1..Len(up[conn]) /\ up'[c][i] = up[conn][i]
      BY <1>2, <1>3, <1>4, <1>5, <2>3, LenProperties
    <3>2. up[conn][i] \in Reports /\ up[conn][i].rev <= applied
      BY <1>1, <1>2, <3>1, ElementOfSeq DEF SettingsInv, UpInv
    <3>3. up[conn][i].rev \in Nat
      BY <3>2 DEF Reports
    <3> QED
      BY <3>1, <3>2, <3>3 DEF SettingsInv, AgentInv
  <2> QED
    BY <2>1, <2>2, <2>3
<1>6. \A c \in 1..MaxConns : conns' < c => up'[c] = <<>>
  BY <1>1, <1>4 DEF SettingsInv, UpInv, SocketInv
<1> QED
  BY <1>4, <1>5, <1>6 DEF UpInv

\* The head of a connection's frames.
LEMMA HeadUp ==
    ASSUME SettingsInv, NEW c \in 1..MaxConns, up[c] # <<>>
    PROVE  /\ Head(up[c]) \in Reports /\ Head(up[c]).rev <= applied /\ c <= conns
           /\ Head(up[c]).rev \in Nat
<1>1. up[c] \in Seq(Reports) /\ c <= conns
  BY SettingsBoundsAssumption DEF SettingsInv, UpInv, SocketInv
<1>2. Head(up[c]) = up[c][1] /\ 1 \in 1..Len(up[c]) /\ Head(up[c]) \in Reports
  BY <1>1, HeadTailProperties, LenProperties, EmptySeq
<1>3. Head(up[c]).rev <= applied
  BY <1>2 DEF SettingsInv, UpInv
<1> QED
  BY <1>1, <1>2, <1>3 DEF Reports

\* The Brain tells of documents that are.
LEMMA ToldDown ==
    ASSUME SettingsInv, NEW c, NEW n \in Notices, n.rev = NewestDoc, Send(c, n), UNCHANGED docs
    PROVE  DownInv'
<1>1. down \in Seq(Notices)
  BY DEF SettingsInv, DownInv
<1>2. CASE c = conn
  <2>1. down' = Append(down, n)
    BY <1>2 DEF Send
  <2>2. /\ down' \in Seq(Notices) /\ Len(down') = Len(down) + 1
        /\ \A i \in 1..Len(down) : down'[i] = down[i]
        /\ down'[Len(down) + 1] = n
    BY <1>1, <2>1, AppendProperties
  <2>3. \A i \in 1..Len(down') : i \in 1..Len(down) \/ i = Len(down) + 1
    BY <1>1, <2>2, LenProperties
  <2>4. \A i \in 1..Len(down') : down'[i].rev <= NewestDoc
    BY <2>2, <2>3, Numbers DEF SettingsInv, DownInv
  <2> QED
    BY <2>2, <2>4 DEF DownInv, NewestDoc
<1>3. CASE c # conn
  BY <1>3 DEF Send, SettingsInv, DownInv, NewestDoc
<1> QED
  BY <1>2, <1>3

LEMMA TakenDown ==
    ASSUME SettingsInv, down # <<>>, down' = Tail(down), UNCHANGED docs
    PROVE  DownInv'
<1>1. down \in Seq(Notices)
  BY DEF SettingsInv, DownInv
<1>2. /\ Tail(down) \in Seq(Notices) /\ Len(Tail(down)) = Len(down) - 1
      /\ \A i \in 1..Len(Tail(down)) : Tail(down)[i] = down[i + 1]
  BY <1>1, HeadTailProperties
<1>3. \A i \in 1..Len(Tail(down)) : Tail(down)[i].rev <= NewestDoc
  BY <1>1, <1>2, LenProperties DEF SettingsInv, DownInv
<1> QED
  BY <1>2, <1>3 DEF DownInv, NewestDoc

LEMMA HeadDown ==
    ASSUME SettingsInv, down # <<>>
    PROVE  Head(down).rev \in Nat /\ Head(down).rev <= NewestDoc
<1>1. down \in Seq(Notices)
  BY DEF SettingsInv, DownInv
<1>2. Head(down) = down[1] /\ 1 \in 1..Len(down) /\ Head(down) \in Notices
  BY <1>1, HeadTailProperties, LenProperties, EmptySeq
<1> QED
  BY <1>2 DEF SettingsInv, DownInv, Notices

\* Without a connection there is no session.
LEMMA NoSession ==
    ASSUME SettingsInv, conns' = conns, fence' \in {0, fence}, conn' = 0, session' = FALSE
    PROVE  SocketInv'
<1>1. session' \in BOOLEAN /\ ~session'
  OBVIOUS
<1>2. /\ conns' \in Nat /\ conns' <= MaxConns
      /\ conn' \in Nat /\ conn' <= conns' /\ fence' \in Nat /\ fence' <= conns'
  BY DEF SettingsInv, SocketInv
<1> QED
  BY <1>1, <1>2, Zenon DEF SocketInv

\* The Agent's socket closes.
LEMMA ClosedSocket ==
    ASSUME SettingsInv, CloseSocket, UNCHANGED <<docs, applied, required>>
    PROVE  AgentInv' /\ DownInv' /\ conn' = 0 /\ session' = FALSE
<1>1. down' = <<>> /\ DownInv'
  BY EmptySeq DEF CloseSocket, DownInv
<1>2. AgentInv'
  BY DEF SettingsInv, AgentInv, CloseSocket, NewestDoc
<1> QED
  BY <1>1, <1>2 DEF CloseSocket

-----------------------------------------------------------------------------
(***************************************************************************)
(* One step.  A step the Brain's rows have no part in leaves their half of *)
(* the invariant alone, and one of the Agent's leaves the other.           *)
(***************************************************************************)
Standing == UNCHANGED <<torn, settings, docs, confirmed, publications, leaseApplied>>
NoRegress ==
    /\ settings'.effConfig >= settings.effConfig
    /\ settings'.effSettings >= settings.effSettings
    /\ confirmed' >= confirmed \/ confirmed' = 0

LEMMA BrainStands ==
    ASSUME SettingsInv, Standing, applied' \in Nat, applied <= applied'
    PROVE  DocsInv' /\ BrainInv' /\ PublicationInv' /\ NoRegress
<1>1. DocsInv' /\ PublicationInv'
  BY DEF SettingsInv, Standing, DocsInv, PublicationInv, NewestDoc, Policy
<1>2. BrainInv'
  <2>1. settings.effConfig \in Nat /\ applied \in Nat
    BY Numbers
  <2> QED
    BY <2>1 DEF SettingsInv, Standing, BrainInv, NewestDoc, Fit
<1>3. NoRegress
  BY Numbers DEF NoRegress, Standing, SettingsInv, BrainInv
<1> QED
  BY <1>1, <1>2, <1>3

LEMMA AgentStands ==
    ASSUME SettingsInv, UNCHANGED <<agentVars, docs>>
    PROVE  AgentInv'
  BY DEF SettingsInv, AgentInv, agentVars, NewestDoc

\* Documents are appended: what the Agent holds stays a document of the past.
LEMMA AgentBehind ==
    ASSUME SettingsInv, UNCHANGED agentVars, NEW d \in Documents, docs' = Append(docs, d)
    PROVE  /\ AgentInv' /\ NewestDoc' = NewestDoc + 1 /\ docs' \in Seq(Documents)
           /\ docs' # <<>> /\ docs'[NewestDoc'] = d
<1>1. docs \in Seq(Documents)
  BY DEF SettingsInv, DocsInv
<1>2. /\ docs' \in Seq(Documents) /\ Len(docs') = Len(docs) + 1 /\ docs'[Len(docs) + 1] = d
  BY <1>1, AppendProperties
<1>3. NewestDoc' = NewestDoc + 1 /\ docs' # <<>>
  BY <1>1, <1>2, LenProperties, EmptySeq DEF NewestDoc
<1>4. AgentInv'
  <2>1. NewestDoc \in Nat
    BY Numbers
  <2>2. /\ applied \in Nat /\ required \in Nat /\ fetch.want \in Nat /\ fetch.got \in Nat
    BY DEF SettingsInv, AgentInv
  <2>3. applied <= NewestDoc' /\ required <= NewestDoc' /\ fetch.want <= NewestDoc'
        /\ fetch.got <= NewestDoc'
    BY <1>3, <2>1, <2>2 DEF SettingsInv, AgentInv
  <2> QED
    BY <2>3 DEF SettingsInv, AgentInv, agentVars
<1> QED
  BY <1>2, <1>3, <1>4 DEF NewestDoc

LEMMA DownBehind ==
    ASSUME SettingsInv, UNCHANGED down, NewestDoc' = NewestDoc + 1
    PROVE  DownInv'
<1>1. down \in Seq(Notices) /\ \A i \in 1..Len(down) : down[i] \in Notices
  BY ElementOfSeq DEF SettingsInv, DownInv
<1>2. ASSUME NEW i \in 1..Len(down)
      PROVE  down[i].rev <= NewestDoc'
  <2>1. down[i].rev \in Nat /\ down[i].rev <= NewestDoc
    BY <1>1, <1>2 DEF SettingsInv, DownInv, Notices
  <2> QED
    BY <2>1, Numbers
<1> QED
  BY <1>1, <1>2 DEF DownInv

\* The settings' row moves while documents and publications stay.
LEMMA RowMoves ==
    ASSUME SettingsInv, UNCHANGED <<docs, applied, torn>>, Fit(settings', applied, NewestDoc),
           Advances(settings, settings'), confirmed' \in Nat, confirmed' <= applied,
           leaseApplied' \in Nat, leaseApplied' <= applied
    PROVE  DocsInv' /\ BrainInv'
<1>1. settings'.revision = settings.revision /\ Policy(settings') = Policy(settings)
  BY DEF Advances, Policy
<1>2. DocsInv'
  BY <1>1 DEF SettingsInv, DocsInv, NewestDoc, Policy
<1>3. BrainInv'
  BY DEF BrainInv, NewestDoc
<1> QED
  BY <1>2, <1>3

LEMMA UpdateSettingsKeeps ==
    ASSUME SettingsInv, UpdateSettings
    PROVE  SettingsInv' /\ NoRegress
<1>1. PICK desired \in States, consent \in Consents \cup {0} : Change(desired, consent)
  BY DEF UpdateSettings
<1>2. PICK d : d = Policy(settings')
  OBVIOUS
<1>3. d \in Documents
  BY <1>1, <1>2 DEF Change, Updated, Policy, Documents
<1>4. /\ docs' = Append(docs, d)
      /\ publications' = Append(publications, [doc |-> Len(docs'), revision |-> settings'.revision])
      /\ UNCHANGED <<torn, confirmed, fence, leaseApplied, agentVars, conns, up, down>>
  BY <1>2 DEF UpdateSettings
<1>5. /\ AgentInv' /\ NewestDoc' = NewestDoc + 1 /\ docs' \in Seq(Documents)
      /\ docs' # <<>> /\ docs'[NewestDoc'] = d
  BY <1>3, <1>4, AgentBehind
<1>6. PICK n \in Nat : n = NewestDoc' /\ n \in Nat \ {0}
  BY <1>5, Numbers
<1>7. /\ Fit(settings', applied, n)
      /\ settings'.revision = settings.revision + 1
      /\ settings'.effConfig = settings.effConfig
      /\ settings'.effSettings = settings.effSettings
  BY <1>1, ChangeFits
<1>8. DocsInv'
  BY <1>2, <1>4, <1>5 DEF SettingsInv, DocsInv, Policy
<1>9. BrainInv'
  BY <1>4, <1>6, <1>7 DEF SettingsInv, BrainInv, NewestDoc, agentVars
<1>10. PublicationInv'
  <2> DEFINE p == [doc |-> n, revision |-> settings'.revision]
  <2>1. p \in Publications /\ p.doc = n /\ p.revision = settings'.revision
    BY <1>6, <1>7, Numbers DEF Publications
  <2>2. publications \in Seq(Publications) /\ publications' = Append(publications, p)
    BY <1>4, <1>6 DEF SettingsInv, PublicationInv, NewestDoc
  <2> HIDE DEF p
  <2>3. /\ publications' \in Seq(Publications) /\ Len(publications') = Len(publications) + 1
        /\ \A i \in 1..Len(publications) : publications'[i] = publications[i]
        /\ publications'[Len(publications) + 1] = p
    BY <2>1, <2>2, AppendProperties
  <2>4. ASSUME NEW i \in 1..Len(publications')
        PROVE  /\ publications'[i].doc \in 1..NewestDoc'
               /\ publications'[i].revision \in 1..settings'.revision
               /\ (publications'[i].revision = settings'.revision) =>
                      publications'[i].doc = NewestDoc'
    <3>1. CASE i = Len(publications) + 1
      BY <1>6, <1>7, <2>1, <2>3, <3>1, Numbers
    <3>2. CASE i \in 1..Len(publications)
      <4>1. /\ publications[i].doc \in 1..NewestDoc
            /\ publications[i].revision \in 1..settings.revision
        BY <3>2 DEF SettingsInv, PublicationInv
      <4>2. publications'[i] = publications[i]
        BY <2>3, <3>2
      <4>3. PICK m \in Nat, q \in Nat : m = settings.revision /\ q = NewestDoc
        BY Numbers
      <4>4. PICK a \in 1..q, b \in 1..m :
                a = publications[i].doc /\ b = publications[i].revision
        BY <4>1, <4>3
      <4>5. NewestDoc' = q + 1 /\ settings'.revision = m + 1
        BY <1>5, <1>7, <4>3
      <4>6. a \in 1..q + 1 /\ b \in 1..m + 1 /\ b # m + 1
        BY <4>3, <4>4
      <4> QED
        BY <4>2, <4>4, <4>5, <4>6
    <3> QED
      BY <2>2, <2>3, <2>4, <3>1, <3>2, LenProperties
  <2> QED
    BY <2>3, <2>4 DEF PublicationInv
<1>11. SocketInv' /\ UpInv'
  BY <1>4 DEF SettingsInv, SocketInv, UpInv, agentVars
<1>12. DownInv'
  BY <1>4, <1>5, DownBehind
<1>13. NoRegress
  BY <1>4, <1>7, Numbers DEF NoRegress, SettingsInv, BrainInv
<1> QED
  BY <1>5, <1>8, <1>9, <1>10, <1>11, <1>12, <1>13 DEF SettingsInv

LEMMA PublishKeeps ==
    ASSUME SettingsInv, NEW k \in 1..MaxUpdates, Publish(k)
    PROVE  SettingsInv' /\ NoRegress
<1>1. /\ k \in 1..Len(publications) /\ publications \in Seq(Publications)
      /\ publications' = RemoveAt(publications, k)
      /\ UNCHANGED <<torn, docs, confirmed, fence, leaseApplied, agentVars, conns, up>>
  BY DEF Publish, SettingsInv, PublicationInv
<1>2. PICK p : p = publications[k]
  OBVIOUS
<1>3. /\ p.doc \in 1..NewestDoc /\ p.revision \in 1..settings.revision
      /\ p.revision = settings.revision => p.doc = NewestDoc
  BY <1>1, <1>2 DEF SettingsInv, PublicationInv
<1>4. PublicationInv' \/ settings'.revision # settings.revision
  <2>1. /\ Len(publications) \in Nat
        /\ publications' = SubSeq(publications, 1, k - 1)
                               \o SubSeq(publications, k + 1, Len(publications))
    BY <1>1, LenProperties DEF RemoveAt
  <2> DEFINE l == SubSeq(publications, 1, k - 1)
             r == SubSeq(publications, k + 1, Len(publications))
  <2>2. /\ l \in Seq(Publications) /\ Len(l) = k - 1
        /\ \A i \in 1..(k - 1) : l[i] = publications[i]
    BY <1>1, <2>1, SubSeqProperties
  <2>3. /\ r \in Seq(Publications) /\ Len(r) = Len(publications) - k
        /\ \A i \in 1..(Len(publications) - k) : r[i] = publications[k + i]
    BY <1>1, <2>1, SubSeqProperties
  <2>4. publications' = l \o r
    BY <2>1
  <2> HIDE DEF l, r
  <2>5. /\ publications' \in Seq(Publications) /\ Len(publications') = Len(l) + Len(r)
        /\ \A i \in 1..(Len(l) + Len(r)) :
              publications'[i] = IF i <= Len(l) THEN l[i] ELSE r[i - Len(l)]
    BY <2>2, <2>3, <2>4, ConcatProperties
  <2>6. ASSUME NEW i \in 1..Len(publications')
        PROVE  \E j \in 1..Len(publications) : publications'[i] = publications[j]
    <3>1. PICK m \in Nat : m = Len(publications) /\ k <= m
      BY <1>1, <2>1
    <3>2. i \in 1..(m - 1) /\ k \in Nat \ {0} /\ Len(l) = k - 1 /\ Len(r) = m - k
      BY <2>2, <2>3, <2>5, <2>6, <3>1
    <3>3. CASE i <= k - 1
      <4>1. i \in 1..(k - 1) /\ i \in 1..m
        BY <3>1, <3>2, <3>3
      <4>2. publications'[i] = l[i]
        BY <2>5, <2>6, <3>2, <3>3
      <4> QED
        BY <2>2, <3>1, <4>1, <4>2
    <3>4. CASE i > k - 1
      <4>1. PICK j \in Nat : j = i - (k - 1)
        BY <3>2, <3>4
      <4>2. j \in 1..(m - k) /\ k + j = i + 1 /\ i + 1 \in 1..m
        BY <3>1, <3>2, <3>4, <4>1
      <4>3. publications'[i] = r[j]
        BY <2>5, <2>6, <3>2, <3>4, <4>1
      <4>4. r[j] = publications[i + 1]
        BY <2>3, <3>1, <4>2
      <4> QED
        BY <3>1, <4>2, <4>3, <4>4
    <3> QED
      BY <3>2, <3>3, <3>4
  <2> QED
    BY <1>1, <2>5, <2>6 DEF SettingsInv, PublicationInv, NewestDoc
<1>5. CASE Bindable(settings, p.revision, p.doc)
  <2> DEFINE b == Bound(settings, p.doc)
  <2>1. p.doc = NewestDoc
    BY <1>3, <1>5 DEF Bindable
  <2>2. Fit(b, applied, NewestDoc) /\ Advances(settings, b)
    BY <2>1, Numbers, BoundFits
  <2>3. /\ settings' = IF leaseApplied = p.doc THEN Marked(b, p.doc) ELSE b
        /\ IF fence # 0 THEN Send(fence, Signal) ELSE UNCHANGED down
    BY <1>2, <1>5 DEF Publish
  <2> HIDE DEF b
  <2>4. Fit(settings', applied, NewestDoc) /\ Advances(settings, settings')
    <3>1. CASE leaseApplied = p.doc
      <4>1. p.doc \in Nat /\ p.doc <= applied
        BY <3>1 DEF SettingsInv, BrainInv
      <4>2. Fit(Marked(b, p.doc), applied, NewestDoc) /\ Advances(b, Marked(b, p.doc))
        BY <2>2, <4>1, Numbers, MarkedFits
      <4> QED
        BY <2>2, <2>3, <3>1, <4>2, Numbers, FitAdvances
    <3>2. CASE leaseApplied # p.doc
      BY <2>2, <2>3, <3>2
    <3> QED
      BY <3>1, <3>2
  <2>5. DocsInv' /\ BrainInv'
    BY <1>1, <2>4, RowMoves DEF SettingsInv, BrainInv, agentVars
  <2>6. DownInv'
    <3>1. Signal \in Notices /\ Signal.rev = NewestDoc
      BY Numbers DEF Signal, Notices, NewestDoc
    <3> QED
      BY <1>1, <2>3, <3>1, ToldDown DEF SettingsInv, DownInv, NewestDoc
  <2>7. NoRegress
    BY <1>1, <2>4 DEF NoRegress, Advances, SettingsInv, BrainInv
  <2>8. PublicationInv'
    BY <1>4, <2>4 DEF Advances
  <2> QED
    BY <1>1, <2>5, <2>6, <2>7, <2>8, AgentStands
    DEF SettingsInv, SocketInv, UpInv, agentVars
<1>6. CASE ~Bindable(settings, p.revision, p.doc)
  <2>1. UNCHANGED <<settings, down>>
    BY <1>2, <1>6 DEF Publish
  <2>2. DocsInv' /\ BrainInv' /\ PublicationInv'
    BY <1>1, <1>4, <2>1 DEF SettingsInv, DocsInv, BrainInv, agentVars, NewestDoc, Policy
  <2>3. NoRegress
    BY <1>1, <2>1, Numbers DEF NoRegress, SettingsInv, BrainInv
  <2> QED
    BY <1>1, <2>1, <2>2, <2>3, AgentStands
    DEF SettingsInv, SocketInv, UpInv, DownInv, agentVars, NewestDoc
<1> QED
  BY <1>5, <1>6

\* What a frame makes of the record.
LEMMA EchoKept ==
    ASSUME SettingsInv, NEW rev \in Nat, rev <= applied
    PROVE  /\ Echo(rev) \in Nat /\ Echo(rev) <= applied
           /\ Echo(rev) >= confirmed \/ Echo(rev) = 0
  BY DEF Echo, SettingsInv, BrainInv

LEMMA BindAgentKeeps ==
    ASSUME SettingsInv, NEW c \in 1..MaxConns, BindAgent(c)
    PROVE  SettingsInv' /\ NoRegress
<1>1. /\ up[c] # <<>> /\ confirmed' = Echo(Head(up[c]).rev)
      /\ fence' = c /\ leaseApplied' = confirmed'
      /\ up' = [up EXCEPT ![c][1].type = "bound"]
      /\ UNCHANGED <<torn, docs, publications, agentVars, conns, down>>
  BY DEF BindAgent
<1>2. /\ confirmed' \in Nat /\ confirmed' <= applied
      /\ confirmed' >= confirmed \/ confirmed' = 0
  BY <1>1, HeadUp, EchoKept
<1>3. Fit(settings', applied, NewestDoc) /\ Advances(settings, settings')
  <2> DEFINE b == BoundAtHello(settings)
  <2>1. Fit(b, applied, NewestDoc) /\ Advances(settings, b)
    <3>1. CASE settings.required = 0
      BY <3>1, Numbers, BoundFits DEF BoundAtHello, NewestDoc
    <3>2. CASE settings.required # 0
      BY <3>2, Numbers DEF BoundAtHello, Advances
    <3> QED
      BY <3>1, <3>2
  <2>2. settings' = IF confirmed' = Len(docs) THEN Marked(b, Len(docs)) ELSE b
    BY DEF BindAgent
  <2> HIDE DEF b
  <2>3. CASE confirmed' = NewestDoc
    <3>1. Fit(Marked(b, NewestDoc), applied, NewestDoc) /\ Advances(b, Marked(b, NewestDoc))
      BY <1>2, <2>1, <2>3, Numbers, MarkedFits
    <3> QED
      BY <2>1, <2>2, <2>3, <3>1, Numbers, FitAdvances DEF NewestDoc
  <2>4. CASE confirmed' # NewestDoc
    BY <2>1, <2>2, <2>4 DEF NewestDoc
  <2> QED
    BY <2>3, <2>4
<1>4. DocsInv' /\ BrainInv'
  BY <1>1, <1>2, <1>3, RowMoves DEF agentVars
<1>5. PublicationInv'
  BY <1>1, <1>3 DEF SettingsInv, PublicationInv, Advances, NewestDoc
<1>6. UpInv'
  <2>1. up[c] \in Seq(Reports) /\ 1 \in 1..Len(up[c]) /\ c <= conns /\ up[c][1] \in Reports
    BY <1>1, HeadUp, LenProperties, EmptySeq, ElementOfSeq DEF SettingsInv, UpInv
  <2> DEFINE r == [up[c][1] EXCEPT !.type = "bound"]
  <2>2. r \in Reports /\ r.rev = up[c][1].rev
    BY <2>1 DEF Reports
  <2>3. up' = [up EXCEPT ![c] = [up[c] EXCEPT ![1] = r]]
    BY <1>1
  <2> HIDE DEF r
  <2>4. /\ [up[c] EXCEPT ![1] = r] \in Seq(Reports) /\ Len([up[c] EXCEPT ![1] = r]) = Len(up[c])
        /\ \A i \in 1..Len(up[c]) :
              [up[c] EXCEPT ![1] = r][i] = IF i = 1 THEN r ELSE up[c][i]
    BY <2>1, <2>2, ExceptSeq
  <2>5. \A i \in 1..Len(up[c]) : [up[c] EXCEPT ![1] = r][i].rev <= applied
    BY <2>1, <2>2, <2>4 DEF SettingsInv, UpInv
  <2> QED
    BY <1>1, <2>1, <2>3, <2>4, <2>5 DEF SettingsInv, UpInv, SocketInv, agentVars
<1>7. SocketInv'
  BY <1>1, HeadUp DEF SettingsInv, SocketInv, agentVars
<1>8. DownInv'
  BY <1>1 DEF SettingsInv, DownInv, NewestDoc
<1>9. NoRegress
  BY <1>2, <1>3 DEF NoRegress, Advances
<1> QED
  BY <1>1, <1>4, <1>5, <1>6, <1>7, <1>8, <1>9, AgentStands DEF SettingsInv

LEMMA RecordAppliedKeeps ==
    ASSUME SettingsInv, NEW c \in 1..MaxConns, RecordApplied(c)
    PROVE  SettingsInv' /\ NoRegress
<1>1. /\ up[c] # <<>> /\ confirmed' = Echo(Head(up[c]).rev) /\ leaseApplied' = confirmed'
      /\ settings' \in {Marked(settings, confirmed'), settings}
      /\ up' = [up EXCEPT ![c] = Tail(@)]
      /\ UNCHANGED <<torn, docs, publications, fence, agentVars, conns, down>>
  BY DEF RecordApplied
<1>2. /\ confirmed' \in Nat /\ confirmed' <= applied
      /\ confirmed' >= confirmed \/ confirmed' = 0
  BY <1>1, HeadUp, EchoKept
<1>3. Fit(settings', applied, NewestDoc) /\ Advances(settings, settings')
  <2>1. CASE settings' = settings
    BY <2>1, Numbers DEF Advances
  <2>2. CASE settings' = Marked(settings, confirmed')
    BY <1>2, <2>2, Numbers, MarkedFits
  <2> QED
    BY <1>1, <2>1, <2>2
<1>4. DocsInv' /\ BrainInv'
  BY <1>1, <1>2, <1>3, RowMoves DEF agentVars
<1>5. PublicationInv'
  BY <1>1, <1>3 DEF SettingsInv, PublicationInv, Advances, NewestDoc
<1>6. UpInv'
  BY <1>1, TakenUp DEF agentVars
<1>7. SocketInv' /\ DownInv'
  BY <1>1 DEF SettingsInv, SocketInv, DownInv, agentVars, NewestDoc
<1>8. NoRegress
  BY <1>2, <1>3 DEF NoRegress, Advances
<1> QED
  BY <1>1, <1>4, <1>5, <1>6, <1>7, <1>8, AgentStands DEF SettingsInv

LEMMA RejectStaleKeeps ==
    ASSUME SettingsInv, NEW c \in 1..MaxConns, RejectStale(c)
    PROVE  SettingsInv' /\ NoRegress
<1>1. /\ up[c] # <<>> /\ up' = [up EXCEPT ![c] = Tail(@)]
      /\ CloseSocket \/ UNCHANGED <<conn, session, due, fetch, down>>
      /\ UNCHANGED <<torn, brainVars, applied, required, conns>>
  BY DEF RejectStale
<1>2. DocsInv' /\ BrainInv' /\ PublicationInv' /\ NoRegress
  BY <1>1, BrainStands, Numbers DEF Standing, brainVars
<1>3. UpInv'
  BY <1>1, TakenUp
<1>4. AgentInv' /\ DownInv' /\ SocketInv'
  <2>1. CASE CloseSocket
    <3>1. UNCHANGED <<docs, applied, required>> /\ UNCHANGED <<conns, fence>>
      BY <1>1 DEF brainVars
    <3>2. AgentInv' /\ DownInv' /\ conn' = 0 /\ session' = FALSE
      BY <2>1, <3>1, ClosedSocket
    <3> QED
      BY <3>1, <3>2, NoSession
  <2>2. CASE UNCHANGED <<conn, session, due, fetch, down>>
    BY <1>1, <2>2 DEF SettingsInv, SocketInv, AgentInv, DownInv, brainVars, NewestDoc
  <2> QED
    BY <1>1, <2>1, <2>2
<1> QED
  BY <1>2, <1>3, <1>4 DEF SettingsInv

LEMMA NoticeCloseKeeps ==
    ASSUME SettingsInv, NEW c \in 1..MaxConns, NoticeClose(c)
    PROVE  SettingsInv' /\ NoRegress
<1>1. /\ up' = [up EXCEPT ![c] = <<>>] /\ fence' \in {0, fence}
      /\ UNCHANGED <<torn, settings, docs, confirmed, publications, leaseApplied, agentVars,
                     conns, down>>
  BY DEF NoticeClose
<1>2. DocsInv' /\ BrainInv' /\ PublicationInv' /\ NoRegress
  BY <1>1, BrainStands, Numbers DEF Standing, agentVars
<1>3. UpInv'
  BY <1>1, DroppedUp DEF agentVars
<1> QED
  BY <1>1, <1>2, <1>3, AgentStands DEF SettingsInv, SocketInv, DownInv, agentVars, NewestDoc

LEMMA RetireLeaseKeeps ==
    ASSUME SettingsInv, RetireLease
    PROVE  SettingsInv' /\ NoRegress
<1>1. /\ leaseApplied' = 0
      /\ UNCHANGED <<torn, settings, docs, confirmed, publications, fence, agentVars, conns, up, down>>
  BY DEF RetireLease
<1>2. DocsInv' /\ BrainInv' /\ PublicationInv' /\ NoRegress
  <2>1. UNCHANGED <<settings, docs, confirmed, publications, torn, applied>>
    BY <1>1 DEF agentVars
  <2>2. DocsInv' /\ PublicationInv' /\ NoRegress
    BY <2>1, Numbers DEF SettingsInv, BrainInv, DocsInv, PublicationInv, NewestDoc, Policy, NoRegress
  <2>3. BrainInv'
    BY <1>1, <2>1, Numbers DEF SettingsInv, BrainInv, NewestDoc, Fit
  <2> QED
    BY <2>2, <2>3
<1> QED
  BY <1>1, <1>2, AgentStands DEF SettingsInv, SocketInv, UpInv, DownInv, agentVars, NewestDoc

\* The Agent opens a connection with what it applied; the loss of one.
LEMMA ConnectKeeps ==
    ASSUME SettingsInv, Connect
    PROVE  SettingsInv' /\ NoRegress
<1>1. /\ conns < MaxConns /\ conns' = conns + 1 /\ conn' = conns'
      /\ up' = [up EXCEPT ![conns'] = <<[type |-> "hello", rev |-> applied]>>]
      /\ UNCHANGED <<torn, brainVars, applied, session, required, due, fetch, down>>
  BY DEF Connect
<1>2. DocsInv' /\ BrainInv' /\ PublicationInv' /\ NoRegress
  BY <1>1, BrainStands, Numbers DEF Standing, brainVars
<1>3. conns' \in 1..MaxConns /\ SocketInv'
  BY <1>1, SettingsBoundsAssumption DEF SettingsInv, SocketInv, brainVars
<1>4. UpInv'
  <2> DEFINE hello == [type |-> "hello", rev |-> applied]
  <2>1. hello \in Reports /\ hello.rev = applied
    BY Numbers DEF Reports
  <2> HIDE DEF hello
  <2>2. <<hello>> \in Seq(Reports) /\ Len(<<hello>>) = 1 /\ <<hello>>[1] = hello
    BY <2>1
  <2>3. \A i \in 1..Len(<<hello>>) : <<hello>>[i].rev <= applied
    BY <2>1, <2>2, Numbers
  <2>4. up' = [up EXCEPT ![conns'] = <<hello>>]
    BY <1>1 DEF hello
  <2>5. up' \in [1..MaxConns -> Seq(Reports)] /\ up'[conns'] = <<hello>>
        /\ \A c \in 1..MaxConns \ {conns'} : up'[c] = up[c]
    BY <1>3, <2>2, <2>4 DEF SettingsInv, UpInv
  <2>6. \A c \in 1..MaxConns : conns' < c => c # conns' /\ conns < c
    BY <1>1, SettingsBoundsAssumption DEF SettingsInv, SocketInv
  <2> QED
    BY <1>1, <2>3, <2>5, <2>6 DEF SettingsInv, UpInv
<1>5. AgentInv' /\ DownInv'
  BY <1>1 DEF SettingsInv, AgentInv, DownInv, brainVars, NewestDoc
<1> QED
  BY <1>2, <1>3, <1>4, <1>5 DEF SettingsInv

LEMMA DisconnectKeeps ==
    ASSUME SettingsInv, Disconnect \/ RecvTooEarly
    PROVE  SettingsInv' /\ NoRegress
<1>1. CloseSocket /\ UNCHANGED <<torn, brainVars, applied, required, conns, up>>
  BY DEF Disconnect, RecvTooEarly
<1>2. DocsInv' /\ BrainInv' /\ PublicationInv' /\ NoRegress
  BY <1>1, BrainStands, Numbers DEF Standing, brainVars
<1>3. AgentInv' /\ DownInv' /\ SocketInv'
  <2>1. UNCHANGED <<docs, applied, required>> /\ UNCHANGED <<conns, fence>>
    BY <1>1 DEF brainVars
  <2>2. AgentInv' /\ DownInv' /\ conn' = 0 /\ session' = FALSE
    BY <1>1, <2>1, ClosedSocket
  <2> QED
    BY <2>1, <2>2, NoSession
<1> QED
  BY <1>1, <1>2, <1>3 DEF SettingsInv, UpInv

LEMMA WorkerRestartKeeps ==
    ASSUME SettingsInv, WorkerRestart
    PROVE  SettingsInv' /\ NoRegress
<1>1. /\ conn' = 0 /\ session' = FALSE /\ due' = FALSE /\ down' = <<>>
      /\ fetch' = NoFetch /\ required' = 0
      /\ UNCHANGED <<torn, brainVars, applied, conns, up>>
  BY DEF WorkerRestart
<1>2. DocsInv' /\ BrainInv' /\ PublicationInv' /\ NoRegress
  BY <1>1, BrainStands, Numbers DEF Standing, brainVars
<1>3. AgentInv'
  <2>1. applied' = applied /\ NewestDoc' = NewestDoc
    BY <1>1 DEF brainVars, NewestDoc
  <2>2. fetch' = [want |-> 0, got |-> 0, live |-> FALSE, valid |-> FALSE]
    BY <1>1 DEF NoFetch
  <2>3. /\ fetch' \in [want : Nat, got : Nat, live : BOOLEAN, valid : BOOLEAN]
        /\ fetch'.want = 0 /\ fetch'.got = 0 /\ fetch'.valid = FALSE
    BY <2>2
  <2>4. required' = 0 /\ due' \in BOOLEAN
    BY <1>1
  <2>5. /\ fetch'.want <= NewestDoc' /\ fetch'.got <= NewestDoc'
        /\ applied' \in Nat /\ applied' <= NewestDoc' /\ required' \in Nat /\ required' <= NewestDoc'
    BY <2>1, <2>3, <2>4, Numbers
  <2> QED
    BY <2>3, <2>4, <2>5, Zenon DEF AgentInv
<1>4. UNCHANGED <<fence, conns, applied, up>>
  BY <1>1 DEF brainVars
<1>5. SocketInv'
  BY <1>1, <1>4, NoSession
<1>6. UpInv' /\ DownInv'
  BY <1>1, <1>4, EmptySeq DEF SettingsInv, UpInv, DownInv
<1> QED
  BY <1>2, <1>3, <1>5, <1>6 DEF SettingsInv

\* The Agent is told which document is required.
LEMMA OpenSessionKeeps ==
    ASSUME SettingsInv, NEW c \in 1..MaxConns, OpenSession(c)
    PROVE  SettingsInv' /\ NoRegress
<1> DEFINE told == [type |-> "session", rev |-> Len(docs)]
<1>1. /\ up[c] # <<>> /\ Send(c, told) /\ up' = [up EXCEPT ![c] = Tail(@)]
      /\ UNCHANGED <<torn, brainVars, agentVars, conns>>
  BY DEF OpenSession
<1>2. told \in Notices /\ told.rev = NewestDoc
  BY Numbers DEF Notices, NewestDoc
<1> HIDE DEF told
<1>3. DocsInv' /\ BrainInv' /\ PublicationInv' /\ NoRegress
  BY <1>1, BrainStands, Numbers DEF Standing, brainVars, agentVars
<1>4. UpInv'
  BY <1>1, TakenUp DEF agentVars
<1>5. DownInv'
  BY <1>1, <1>2, ToldDown DEF brainVars
<1>6. AgentInv' /\ SocketInv'
  BY <1>1, AgentStands DEF SettingsInv, SocketInv, brainVars, agentVars
<1> QED
  BY <1>3, <1>4, <1>5, <1>6 DEF SettingsInv

LEMMA ReceiveKeeps ==
    ASSUME SettingsInv, RecvSession \/ RecvAvailable
    PROVE  SettingsInv' /\ NoRegress
<1>1. /\ down # <<>> /\ down' = Tail(down) /\ conn # 0
      /\ required' \in {required, Head(down).rev} /\ due' \in BOOLEAN
      /\ session' \in BOOLEAN
      /\ UNCHANGED <<torn, brainVars, applied, conn, fetch, conns, up>>
  BY DEF RecvSession, RecvAvailable, SettingsInv, AgentInv, SocketInv
<1>2. DocsInv' /\ BrainInv' /\ PublicationInv' /\ NoRegress
  BY <1>1, BrainStands, Numbers DEF Standing, brainVars
<1>3. DownInv'
  BY <1>1, TakenDown DEF brainVars
<1>4. AgentInv'
  BY <1>1, HeadDown DEF SettingsInv, AgentInv, brainVars, NewestDoc
<1>5. SocketInv' /\ UpInv'
  BY <1>1 DEF SettingsInv, SocketInv, UpInv, brainVars
<1> QED
  BY <1>2, <1>3, <1>4, <1>5 DEF SettingsInv

\* A fetch begins, is answered, is looked at, fails.
LEMMA FetchKeeps ==
    ASSUME SettingsInv, StartFetch \/ GetConfig \/ Validate \/ FetchFails
    PROVE  SettingsInv' /\ NoRegress
<1>1. UNCHANGED <<torn, brainVars, applied, conn, session, required, conns, up, down>>
  BY SMTT(30) DEF StartFetch, GetConfig, Validate, FetchFails
<1>2. DocsInv' /\ BrainInv' /\ PublicationInv' /\ NoRegress
  BY <1>1, BrainStands, Numbers DEF Standing, brainVars
<1>3. SocketInv' /\ UpInv' /\ DownInv'
  BY <1>1 DEF SettingsInv, SocketInv, UpInv, DownInv, brainVars, NewestDoc
<1>4. UNCHANGED <<docs, applied, required>>
  BY <1>1 DEF brainVars
<1>5. ASSUME StartFetch PROVE AgentInv'
  <2>1. due' = FALSE /\ fetch' = [want |-> required, got |-> 0, live |-> TRUE, valid |-> FALSE]
    BY <1>5 DEF StartFetch
  <2>2. required \in Nat /\ required <= NewestDoc
    BY DEF SettingsInv, AgentInv
  <2>3. /\ fetch' \in [want : Nat, got : Nat, live : BOOLEAN, valid : BOOLEAN]
        /\ fetch'.want = required /\ fetch'.got = 0 /\ fetch'.valid = FALSE
    BY <2>1, <2>2
  <2>4. NewestDoc' = NewestDoc /\ applied' = applied /\ required' = required
    BY <1>4 DEF NewestDoc
  <2>5. due' \in BOOLEAN
    BY <2>1
  <2>6. /\ fetch'.want <= NewestDoc' /\ fetch'.got <= NewestDoc'
        /\ applied' \in Nat /\ applied' <= NewestDoc' /\ required' \in Nat /\ required' <= NewestDoc'
    BY <2>2, <2>3, <2>4, Numbers
  <2> QED
    BY <2>3, <2>5, <2>6, Zenon DEF AgentInv
<1>6. ASSUME GetConfig PROVE AgentInv'
  <2>1. due' = due /\ fetch' = [fetch EXCEPT !.got = NewestDoc] /\ fetch.got = 0
    BY <1>6 DEF GetConfig, NewestDoc
  <2> QED
    BY <1>4, <2>1, Numbers DEF SettingsInv, AgentInv, NewestDoc
<1>7. ASSUME Validate PROVE AgentInv'
  <2>1. /\ due' = due /\ fetch' = [fetch EXCEPT !.valid = TRUE]
        /\ fetch.got # 0 /\ fetch.got = fetch.want
    BY <1>7 DEF Validate, Valid
  <2> QED
    BY <1>4, <2>1 DEF SettingsInv, AgentInv, NewestDoc
<1>8. ASSUME FetchFails PROVE AgentInv'
  <2>1. due' \in BOOLEAN /\ fetch' = [want |-> 0, got |-> 0, live |-> FALSE, valid |-> FALSE]
    BY <1>8 DEF FetchFails, NoFetch, SettingsInv, AgentInv, SocketInv
  <2> QED
    BY <1>4, <2>1, Numbers DEF SettingsInv, AgentInv, NewestDoc
<1> QED
  BY <1>2, <1>3, <1>5, <1>6, <1>7, <1>8 DEF SettingsInv

\* What was fetched is run: never an older document.
LEMMA ActivateKeeps ==
    ASSUME SettingsInv, Activate
    PROVE  SettingsInv' /\ NoRegress
<1> DEFINE r == [type |-> "applied", rev |-> fetch.want]
<1>1. /\ applied' = fetch.want /\ fetch' = NoFetch /\ due' \in BOOLEAN
      /\ up' = IF session THEN [up EXCEPT ![conn] = Append(@, r)] ELSE up
      /\ UNCHANGED <<torn, brainVars, conn, session, required, conns, down>>
  BY DEF Activate, SettingsInv, AgentInv, SocketInv
<1>2. /\ fetch.want \in Nat /\ fetch.want <= NewestDoc /\ applied <= fetch.want
      /\ required \in Nat /\ required <= NewestDoc
  BY DEF Activate, SettingsInv, AgentInv
<1>3. r \in Reports /\ r.rev = fetch.want
  BY <1>2 DEF Reports
<1> HIDE DEF r
<1>4. DocsInv' /\ BrainInv' /\ PublicationInv' /\ NoRegress
  BY <1>1, <1>2, BrainStands DEF Standing, brainVars
<1>5. UpInv'
  <2>1. CASE session
    <3>1. /\ applied' \in Nat /\ applied <= applied' /\ r.rev <= applied' /\ conns' = conns
          /\ up' = [up EXCEPT ![conn] = Append(@, r)]
      BY <1>1, <1>2, <1>3, <2>1
    <3> QED
      BY <1>3, <2>1, <3>1, ReportedUp
  <2>2. CASE ~session
    <3>1. ASSUME NEW c \in 1..MaxConns, NEW i \in 1..Len(up[c])
          PROVE  up[c][i].rev <= fetch.want
      <4>1. up[c] \in Seq(Reports) /\ up[c][i].rev <= applied
        BY DEF SettingsInv, UpInv
      <4>2. up[c][i] \in Reports
        BY <4>1, ElementOfSeq
      <4>3. up[c][i].rev \in Nat
        BY <4>2 DEF Reports
      <4> QED
        BY <1>2, <4>1, <4>3, Numbers
    <3> QED
      BY <1>1, <2>2, <3>1 DEF SettingsInv, UpInv
  <2> QED
    BY <2>1, <2>2
<1>6. AgentInv'
  BY <1>1, <1>2, Numbers DEF AgentInv, NoFetch, brainVars, NewestDoc
<1>7. SocketInv' /\ DownInv'
  BY <1>1 DEF SettingsInv, SocketInv, DownInv, brainVars, NewestDoc
<1> QED
  BY <1>4, <1>5, <1>6, <1>7 DEF SettingsInv

LEMMA SendHeartbeatKeeps ==
    ASSUME SettingsInv, SendHeartbeat
    PROVE  SettingsInv' /\ NoRegress
<1> DEFINE r == [type |-> "heartbeat", rev |-> applied]
<1>1. /\ session /\ up' = [up EXCEPT ![conn] = Append(@, r)]
      /\ UNCHANGED <<torn, brainVars, agentVars, conns, down>>
  BY DEF SendHeartbeat
<1>2. r \in Reports /\ r.rev = applied
  BY Numbers DEF Reports
<1> HIDE DEF r
<1>3. DocsInv' /\ BrainInv' /\ PublicationInv' /\ NoRegress
  BY <1>1, BrainStands, Numbers DEF Standing, brainVars, agentVars
<1>4. UpInv'
  <2>1. applied' \in Nat /\ applied <= applied' /\ r.rev <= applied' /\ conns' = conns
    BY <1>1, <1>2, Numbers DEF agentVars
  <2> QED
    BY <1>1, <1>2, <2>1, ReportedUp
<1>5. AgentInv' /\ SocketInv' /\ DownInv'
  BY <1>1, AgentStands DEF SettingsInv, SocketInv, DownInv, brainVars, agentVars, NewestDoc
<1> QED
  BY <1>3, <1>4, <1>5 DEF SettingsInv

\* The Brain's process dies, and what it had not written is gone.
LEMMA DiedWith ==
    ASSUME SettingsInv, Die
    PROVE  /\ PublicationInv' /\ AgentInv' /\ SocketInv' /\ UpInv' /\ DownInv'
           /\ confirmed' = confirmed /\ leaseApplied' = 0 /\ UNCHANGED <<docs, applied>>
<1>1. /\ publications' = <<>> /\ fence' = 0 /\ leaseApplied' = 0
      /\ up' = [c \in 1..MaxConns |-> <<>>] /\ CloseSocket
      /\ UNCHANGED <<docs, confirmed, applied, required, conns>>
  BY DEF Die
<1>2. PublicationInv' /\ UpInv'
  BY <1>1, EmptySeq DEF PublicationInv, UpInv
<1>3. AgentInv' /\ DownInv' /\ SocketInv'
  <2>1. AgentInv' /\ DownInv' /\ conn' = 0 /\ session' = FALSE
    BY <1>1, ClosedSocket
  <2> QED
    BY <1>1, <2>1, NoSession
<1> QED
  BY <1>1, <1>2, <1>3

LEMMA CrashKeeps ==
    ASSUME SettingsInv, BrainCrash \/ CrashInUpdate
    PROVE  SettingsInv' /\ NoRegress
<1>1. Die
  BY DEF BrainCrash, CrashInUpdate
<1>2. /\ PublicationInv' /\ AgentInv' /\ SocketInv' /\ UpInv' /\ DownInv'
      /\ confirmed' = confirmed /\ leaseApplied' = 0 /\ UNCHANGED <<docs, applied>>
  BY <1>1, DiedWith
<1>3. DocsInv' /\ BrainInv' /\ NoRegress
  <2>1. CASE BrainCrash
    <3>1. UNCHANGED <<settings, torn>>
      BY <2>1 DEF BrainCrash
    <3> QED
      BY <1>2, <3>1, Numbers
      DEF SettingsInv, DocsInv, BrainInv, NoRegress, NewestDoc, Policy
  <2>2. CASE CrashInUpdate
    <3>1. PICK desired \in States, consent \in Consents \cup {0} : Change(desired, consent)
      BY <2>2 DEF CrashInUpdate
    <3>2. /\ Fit(settings', applied, NewestDoc)
          /\ settings'.revision = settings.revision + 1
          /\ settings'.effConfig = settings.effConfig
          /\ settings'.effSettings = settings.effSettings
      BY <3>1, ChangeFits, Numbers
    <3>3. torn' = torn \cup {settings'.revision} /\ settings'.revision \in 1..MaxUpdates
      BY <2>2, <3>2, Numbers, SettingsBoundsAssumption DEF CrashInUpdate, Fit
    <3>4. DocsInv'
      BY <1>2, <3>3 DEF SettingsInv, DocsInv
    <3> QED
      BY <1>2, <3>2, <3>4, Numbers DEF SettingsInv, BrainInv, NoRegress, NewestDoc
  <2> QED
    BY <2>1, <2>2
<1> QED
  BY <1>2, <1>3 DEF SettingsInv

-----------------------------------------------------------------------------
(***************************************************************************)
(* The theorems.                                                           *)
(***************************************************************************)
LEMMA SettingsInvInit == SettingsInit => SettingsInv
<1> SUFFICES ASSUME SettingsInit PROVE SettingsInv
  OBVIOUS
<1> DEFINE bootstrap == [enabled |-> FALSE, consent |-> 0]
<1>1. bootstrap \in Documents /\ docs = <<bootstrap>>
  BY DEF SettingsInit, Documents
<1> HIDE DEF bootstrap
<1>2. docs \in Seq(Documents) /\ NewestDoc = 1 /\ docs # <<>> /\ docs[1] = bootstrap
  BY <1>1 DEF NewestDoc
<1>3. /\ applied \in 0..1 /\ torn = {} /\ publications = <<>>
      /\ confirmed = applied /\ leaseApplied = 0 /\ fence = 0
      /\ conn = 0 /\ session = FALSE /\ required = 0 /\ due = FALSE /\ fetch = NoFetch
      /\ conns = 0 /\ up = [c \in 1..MaxConns |-> <<>>] /\ down = <<>>
      /\ settings = [revision |-> 0, desired |-> "not_started", consent |-> 0,
                     required |-> applied, effective |-> "not_applied",
                     effConfig |-> applied, effSettings |-> 0]
  BY DEF SettingsInit
<1>4. /\ settings \in SettingsRows /\ settings.revision = 0 /\ settings.effSettings = 0
      /\ settings.effConfig = applied /\ settings.required = applied
      /\ settings.desired = "not_started" /\ settings.consent = 0
  BY <1>3 DEF SettingsRows, States
<1>5. DocsInv
  BY <1>2, <1>3, <1>4 DEF DocsInv, Policy, bootstrap
<1>6. BrainInv
  BY <1>2, <1>3, <1>4, SettingsBoundsAssumption DEF BrainInv, Fit
<1>7. PublicationInv
  BY <1>3, EmptySeq DEF PublicationInv
<1>8. AgentInv
  <2>1. fetch = [want |-> 0, got |-> 0, live |-> FALSE, valid |-> FALSE]
    BY <1>3 DEF NoFetch
  <2>2. /\ fetch \in [want : Nat, got : Nat, live : BOOLEAN, valid : BOOLEAN]
        /\ fetch.want = 0 /\ fetch.got = 0 /\ fetch.valid = FALSE
    BY <2>1
  <2>3. applied \in Nat /\ applied <= NewestDoc
    BY <1>2, <1>3
  <2>4. required = 0 /\ due \in BOOLEAN
    BY <1>3
  <2>5. /\ fetch.want <= NewestDoc /\ fetch.got <= NewestDoc
        /\ required \in Nat /\ required <= NewestDoc
    BY <1>2, <2>2, <2>4
  <2> QED
    BY <2>2, <2>3, <2>4, <2>5, Zenon DEF AgentInv
<1>9. SocketInv /\ UpInv /\ DownInv
  <2>1. session \in BOOLEAN /\ ~session
    BY <1>3
  <2>2. conns \in Nat /\ conns <= MaxConns /\ conn \in Nat /\ conn <= conns
        /\ fence \in Nat /\ fence <= conns
    BY <1>3, SettingsBoundsAssumption
  <2>3. SocketInv
    BY <2>1, <2>2, Zenon DEF SocketInv
  <2> QED
    BY <1>3, <2>3, EmptySeq DEF UpInv, DownInv
<1> QED
  BY <1>5, <1>6, <1>7, <1>8, <1>9 DEF SettingsInv

LEMMA SettingsInvStep ==
    ASSUME SettingsInv, [SettingsNext]_settingsVars
    PROVE  SettingsInv' /\ (SettingsNext => NoRegress)
<1>1. CASE UNCHANGED settingsVars
  <2>1. UNCHANGED <<agentVars, conns, up, down, torn>> /\ UNCHANGED brainVars
    BY <1>1 DEF settingsVars
  <2>2. DocsInv' /\ BrainInv' /\ PublicationInv' /\ NoRegress
    BY <2>1, BrainStands, Numbers DEF Standing, brainVars, agentVars
  <2>3. AgentInv' /\ SocketInv' /\ UpInv' /\ DownInv'
    BY <2>1, AgentStands
    DEF SettingsInv, SocketInv, UpInv, DownInv, brainVars, agentVars, NewestDoc
  <2> QED
    BY <2>2, <2>3 DEF SettingsInv
<1>2. CASE UpdateSettings
  BY <1>2, UpdateSettingsKeeps
<1>3. CASE Agent
  BY <1>3, ConnectKeeps, ReceiveKeeps, DisconnectKeeps, FetchKeeps, ActivateKeeps,
     SendHeartbeatKeeps DEF Agent
<1>4. CASE Disconnect \/ WorkerRestart \/ BrainCrash \/ CrashInUpdate \/ RetireLease
  BY <1>4, DisconnectKeeps, WorkerRestartKeeps, CrashKeeps, RetireLeaseKeeps
<1>5. ASSUME NEW i \in 1..MaxUpdates, Publish(i)
      PROVE  SettingsInv' /\ NoRegress
  BY <1>5, PublishKeeps
<1>6. ASSUME NEW c \in 1..MaxConns, Brain(c) \/ NoticeClose(c)
      PROVE  SettingsInv' /\ NoRegress
  BY <1>6, BindAgentKeeps, OpenSessionKeeps, RecordAppliedKeeps, RejectStaleKeeps,
     NoticeCloseKeeps DEF Brain
<1> QED
  BY <1>1, <1>2, <1>3, <1>4, <1>5, <1>6 DEF SettingsNext

LEMMA SettingsInvAlways == SettingsSpec => []SettingsInv
<1>1. SettingsInv /\ [SettingsNext]_settingsVars => SettingsInv'
  BY SettingsInvStep
<1> QED
  BY SettingsInvInit, <1>1, PTL DEF SettingsSpec

\* The settings that are shown are true: what the Brain shows as effective is
\* what the Agent runs, unless the process died before it published it.
THEOREM SettingsShownAreTrue == SettingsSpec => []SettingsAreTrue
<1>1. ASSUME SettingsInv PROVE SettingsAreTrue
  <2>1. SettingsTypeOK
    <3>1. settings \in [revision : 0..MaxUpdates, desired : States, consent : Consents \cup {0},
                        required : 0..Len(docs),
                        effective : {"not_applied", "running", "paused", "revoked"},
                        effConfig : 0..Len(docs), effSettings : 0..MaxUpdates]
      BY <1>1, Numbers, SettingsBoundsAssumption DEF Fit, SettingsRows, NewestDoc
    <3>2. /\ docs \in Seq([enabled : BOOLEAN, consent : Consents \cup {0}])
          /\ torn \subseteq 1..MaxUpdates
      BY <1>1 DEF SettingsInv, DocsInv, Documents
    <3>3. confirmed \in 0..Len(docs) /\ leaseApplied \in 0..Len(docs) /\ applied \in 0..Len(docs)
      BY <1>1, Numbers DEF SettingsInv, BrainInv, NewestDoc
    <3>4. publications \in Seq([doc : 1..Len(docs), revision : 1..MaxUpdates])
      <4> DEFINE P == [doc : 1..Len(docs), revision : 1..MaxUpdates]
      <4>1. publications \in Seq(Publications)
        BY <1>1 DEF SettingsInv, PublicationInv
      <4>2. ASSUME NEW i \in 1..Len(publications) PROVE publications[i] \in P
        <5>1. /\ publications[i].doc \in 1..NewestDoc
              /\ publications[i].revision \in 1..settings.revision
              /\ publications[i] \in Publications
          BY <1>1, <4>1, ElementOfSeq DEF SettingsInv, PublicationInv
        <5>2. settings.revision \in Nat /\ settings.revision <= MaxUpdates
          BY <1>1, Numbers DEF Fit
        <5>3. publications[i].revision \in 1..MaxUpdates
          BY <5>1, <5>2, SettingsBoundsAssumption
        <5> QED
          BY <5>1, <5>3 DEF Publications, NewestDoc
      <4> HIDE DEF P
      <4>3. publications = [i \in 1..Len(publications) |-> publications[i]]
            /\ Len(publications) \in Nat
        BY <4>1, LenProperties
      <4>4. publications \in Seq(P)
        BY <4>2, <4>3, IsASeq
      <4> QED
        BY <4>4 DEF P
    <3>5. /\ conn \in 0..conns /\ fence \in 0..conns /\ session \in BOOLEAN /\ due \in BOOLEAN
          /\ required \in 0..Len(docs)
          /\ fetch \in [want : 0..Len(docs), got : 0..Len(docs), live : BOOLEAN, valid : BOOLEAN]
      <4>1. session \in BOOLEAN /\ due \in BOOLEAN
        <5>1. SocketInv /\ AgentInv
          BY <1>1 DEF SettingsInv
        <5>2. session \in BOOLEAN
          BY <5>1, Zenon DEF SocketInv
        <5>3. due \in BOOLEAN
          BY <5>1, Zenon DEF AgentInv
        <5> QED
          BY <5>2, <5>3
      <4>5. conn \in 0..conns /\ fence \in 0..conns
        BY <1>1 DEF SettingsInv, SocketInv
      <4>2. required \in 0..Len(docs)
        BY <1>1, Numbers DEF SettingsInv, AgentInv, NewestDoc
      <4>3. /\ fetch \in [want : Nat, got : Nat, live : BOOLEAN, valid : BOOLEAN]
            /\ fetch.want <= NewestDoc /\ fetch.got <= NewestDoc
        BY <1>1 DEF SettingsInv, AgentInv
      <4>4. fetch.want \in 0..Len(docs) /\ fetch.got \in 0..Len(docs)
        BY <1>1, <4>3, Numbers DEF NewestDoc
      <4> QED
        BY <4>1, <4>2, <4>3, <4>4, <4>5
    <3> QED
      BY <3>1, <3>2, <3>3, <3>4, <3>5 DEF SettingsTypeOK
  <2>2. PublishedAlignedMeansApplied
    <3> SUFFICES ASSUME settings.revision \notin torn, Aligned
                 PROVE  applied # 0 /\ docs[applied] = Policy(settings)
      BY DEF PublishedAlignedMeansApplied, AlignedMeansApplied
    <3>1. settings.required = NewestDoc /\ settings.effConfig = NewestDoc
      BY <1>1, Numbers DEF Aligned, Fit
    <3>2. applied = NewestDoc
      BY <1>1, <3>1, Numbers DEF Fit
    <3> QED
      BY <1>1, <3>2, Numbers DEF SettingsInv, DocsInv
  <2>3. ConfirmedIsApplied
    BY <1>1 DEF SettingsInv, BrainInv, Fit, ConfirmedIsApplied
  <2> QED
    BY <2>1, <2>2, <2>3 DEF SettingsAreTrue
<1> QED
  BY <1>1, SettingsInvAlways, PTL

\* Nothing that comes late takes back what is effective or known to run.
THEOREM NothingRegresses == SettingsSpec => LateReportsNeverRegress
<1> DEFINE Moved == /\ settings'.effConfig >= settings.effConfig
                    /\ settings'.effSettings >= settings.effSettings
                    /\ confirmed' >= confirmed \/ confirmed' = 0
<1>1. SettingsInv /\ [SettingsNext]_settingsVars => [Moved]_settingsVars
  BY SettingsInvStep DEF NoRegress
<1> QED
  BY <1>1, SettingsInvAlways, PTL DEF SettingsSpec, LateReportsNeverRegress
=============================================================================
