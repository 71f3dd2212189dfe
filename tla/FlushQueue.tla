----------------------------- MODULE FlushQueue -----------------------------
(***************************************************************************)
(* What ypipe_t (src/lib/zeromq/ypipe.hpp) promises its one writer and its *)
(* one reader, without chunks or pointers: a FIFO of items of which the    *)
(* first fqFlushed are visible to the reader, the first fqComplete would   *)
(* be made visible by the next flush, and the rest belong to a message     *)
(* that is still being written and may be taken back.  A reader that finds *)
(* nothing goes to sleep, and the flush that finds it asleep says so.      *)
(***************************************************************************)
EXTENDS Naturals, Sequences

CONSTANT FqItem

VARIABLES fqItems, fqComplete, fqFlushed, fqAsleep

fqVars == <<fqItems, fqComplete, fqFlushed, fqAsleep>>

FqInit ==
    /\ fqItems = <<>>
    /\ fqComplete = 0
    /\ fqFlushed = 0
    /\ fqAsleep = FALSE

(* write: an incomplete item does not move the point the next flush        *)
(* reaches.                                                                *)
FqWrite ==
    \E v \in FqItem, incomplete \in BOOLEAN :
        /\ fqItems' = Append(fqItems, v)
        /\ fqComplete' = IF incomplete THEN fqComplete ELSE Len(fqItems) + 1
        /\ UNCHANGED <<fqFlushed, fqAsleep>>

(* unwrite: only an item of the unfinished message can be taken back.      *)
FqUnwrite ==
    /\ fqComplete < Len(fqItems)
    /\ fqItems' = SubSeq(fqItems, 1, Len(fqItems) - 1)
    /\ UNCHANGED <<fqComplete, fqFlushed, fqAsleep>>

(* flush: every complete item at once, never part of a message; it also    *)
(* ends the reader's sleep.                                                *)
FqFlush ==
    /\ fqFlushed < fqComplete
    /\ fqFlushed' = fqComplete
    /\ fqAsleep' = FALSE
    /\ UNCHANGED <<fqItems, fqComplete>>

(* A read that finds no flushed item puts the reader to sleep.             *)
FqSleep ==
    /\ fqFlushed = 0
    /\ ~fqAsleep
    /\ fqAsleep' = TRUE
    /\ UNCHANGED <<fqItems, fqComplete, fqFlushed>>

FqRead ==
    /\ fqFlushed > 0
    /\ ~fqAsleep
    /\ fqItems' = Tail(fqItems)
    /\ fqComplete' = fqComplete - 1
    /\ fqFlushed' = fqFlushed - 1
    /\ UNCHANGED fqAsleep

FqNext == FqWrite \/ FqUnwrite \/ FqFlush \/ FqSleep \/ FqRead

FqSpec == FqInit /\ [][FqNext]_fqVars
=============================================================================
