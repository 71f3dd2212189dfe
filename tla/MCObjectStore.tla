--------------------------- MODULE MCObjectStore ---------------------------
(***************************************************************************)
(* Instances of ObjectStore for TLC.  OneWriter is the account manager     *)
(* alone; Disjoint lets two threads share the client, each with objects of *)
(* its own, as the account manager and the git manager do.                 *)
(***************************************************************************)
EXTENDS ObjectStore, TLC

CONSTANTS u1, u2, w1, w2

OwnAll   == w1 :> Uuid
Disjoint == w1 :> {u1} @@ w2 :> {u2}
=============================================================================
