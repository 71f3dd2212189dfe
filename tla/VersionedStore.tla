--------------------------- MODULE VersionedStore ---------------------------
(***************************************************************************)
(* What the two bases of DBClient promise together: a map from uuids to    *)
(* live contents, and the set of all versions that are kept for good.  A   *)
(* live version is replaced or dropped, in one step, only when it has been *)
(* remembered.                                                             *)
(***************************************************************************)
CONSTANTS Uuid, Val, None

VARIABLES live, past

vars == <<live, past>>

Init == live = [u \in Uuid |-> None] /\ past = {}

Remembered(u) == live[u] = None \/ <<u, live[u]>> \in past

Remember(u) ==
    /\ live[u] # None
    /\ past' = past \cup {<<u, live[u]>>}
    /\ UNCHANGED live

Save(u, v) ==
    /\ Remembered(u)
    /\ live' = [live EXCEPT ![u] = v]
    /\ UNCHANGED past

Drop(u) ==
    /\ Remembered(u)
    /\ live' = [live EXCEPT ![u] = None]
    /\ UNCHANGED past

Next ==
    \E u \in Uuid : Remember(u) \/ Drop(u) \/ \E v \in Val : Save(u, v)

Spec == Init /\ [][Next]_vars
=============================================================================
