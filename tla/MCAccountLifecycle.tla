------------------------- MODULE MCAccountLifecycle -------------------------
(***************************************************************************)
(* AccountLifecycle for TLC: the manager of a may be restarted, and its    *)
(* entries may pile up; b shares the root process with it.                 *)
(***************************************************************************)
EXTENDS AccountLifecycle, TLC

CONSTANTS a, b

MCMaxBox == (a :> 1) @@ (b :> 0)
MCMaxEntries == (a :> 2) @@ (b :> 1)
=============================================================================
