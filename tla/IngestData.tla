------------------------------ MODULE IngestData ------------------------------
(***************************************************************************)
(* What travels from an Agent to the Brain: typed changes, each named by   *)
(* the source_seq it was given.  The chats, messages and tombstones of the *)
(* protocol are all "entity" changes of some key; a coverage change        *)
(* carries the consent revision it was acquired under.                     *)
(***************************************************************************)
EXTENDS Naturals

CONSTANTS
    Entities,      \* keys of chats and messages, in the order they are scanned
    Grants         \* consent revisions

ASSUME EntitiesAssumption == Entities \subseteq Nat \ {0}
ASSUME GrantsAssumption == Grants \subseteq Nat \ {0}

Change == [kind : {"entity"}, key : Entities] \cup [kind : {"coverage"}, grant : Grants]

EntityChange(k) == [kind |-> "entity", key |-> k]
CoverageChange(g) == [kind |-> "coverage", grant |-> g]

\* Whether change c writes the row of key k, and whether c and d write the
\* same row.
WritesRow(c, k) == c.kind = "entity" /\ c.key = k
SameRow(c, d) == c.kind = "entity" /\ d.kind = "entity" /\ c.key = d.key
=============================================================================
