--------------------------- MODULE MCFileWatches ---------------------------
(***************************************************************************)
(* FileWatches for TLC: two paths, two NOTE_ bits.                         *)
(***************************************************************************)
EXTENDS FileWatches

CONSTANT am

MCNote == {1, 2}
MCWatchFlags == {{1}, {1, 2}}
=============================================================================
