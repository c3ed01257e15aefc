---------------------------- MODULE IngestPromise ----------------------------
(***************************************************************************)
(* What durable ingestion promises to the creator (ADR 0004), without      *)
(* workers, sockets, snapshots or restarts: changes are captured in an     *)
(* order, the Brain's view always is the state after some prefix of them,  *)
(* the prefix only grows, and the Agent lets go of a change only after it  *)
(* is in that prefix.                                                      *)
(***************************************************************************)
EXTENDS IngestData, Sequences

VARIABLES captured, committed, released, view

promiseVars == <<captured, committed, released, view>>

\* The state after the first n of the changes cs: every coverage change and
\* the last change of each entity row.
Prefix(cs, n) == {s \in 1..n : \A t \in (s+1)..n : ~SameRow(cs[s], cs[t])}

PromiseInit ==
    /\ captured = <<>>
    /\ committed = 0
    /\ released = 0
    /\ view = {}

CaptureMore ==
    /\ Len(captured') > Len(captured)
    /\ SubSeq(captured', 1, Len(captured)) = captured
    /\ UNCHANGED <<committed, released, view>>

CommitUpTo(n) ==
    /\ n > committed
    /\ committed' = n
    /\ view' = Prefix(captured, n)
    /\ UNCHANGED <<captured, released>>

Release(n) ==
    /\ released < n /\ n <= committed
    /\ released' = n
    /\ UNCHANGED <<captured, committed, view>>

PromiseNext ==
    \/ CaptureMore
    \/ \E n \in 1..Len(captured) : CommitUpTo(n) \/ Release(n)

PromiseSpec == PromiseInit /\ [][PromiseNext]_promiseVars
=============================================================================
