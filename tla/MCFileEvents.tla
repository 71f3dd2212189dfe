---------------------------- MODULE MCFileEvents ----------------------------
(***************************************************************************)
(* FileEvents for TLC.  The two paths are interchangeable.                 *)
(***************************************************************************)
EXTENDS FileEvents, TLC

MCNote == {1, 2}
MCSymmetry == Permutations(Path) \cup Permutations(Ref)
=============================================================================
