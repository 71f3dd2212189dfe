-------------------------------- MODULE YPipe --------------------------------
(***************************************************************************)
(* ypipe_t over yqueue_t: the lock-free single-writer single-reader queue  *)
(* that carries every message and every command of the ZeroMQ library the  *)
(* dispel publisher uses (src/lib/zeromq/ypipe.hpp, yqueue.hpp).           *)
(*                                                                         *)
(* A chunk holds YGranularity slots; a pointer to an item is a slot, a     *)
(* chunk and a position.  malloc returns any chunk of the pool YChunk that *)
(* is not in use, so an address can come back while stale copies of it may *)
(* still exist: a compare-and-swap compares addresses only.  An action is  *)
(* the code between two accesses to memory that both threads touch: each   *)
(* of push, pop, flush and check_read has at most one atomic operation,    *)
(* except the flush that finds the reader asleep, which has two.  An item  *)
(* that was read or taken back leaves YNull in its slot, so that reading   *)
(* it again would show.                                                    *)
(***************************************************************************)
EXTENDS Naturals, Sequences, FiniteSets

CONSTANTS
    YItem,          \* values written to the pipe
    YChunk,         \* the addresses malloc may return
    YGranularity,   \* template parameter N of yqueue_t and ypipe_t
    YNull           \* NULL

YSlot == [chunk : YChunk, pos : 0..(YGranularity - 1)]

ASSUME YAssumption ==
    /\ YGranularity \in Nat \ {0}
    /\ YNull \notin YChunk \cup YSlot
    /\ IsFiniteSet(YChunk)

VARIABLES
    yVal, yPrev, yNext,     \* contents of the chunks
    yAllocated,             \* chunks malloc'ed and not yet freed
    yBegin, yBack, yEnd,    \* begin_, back_ and end_ chunk and pos
    ySpare,                 \* spare_chunk
    yW, yF, yR, yC,         \* w, f, r and c
    yFlushing,              \* the flush saw NULL and has not yet set c
    yAwake,                 \* the reader may call check_read
    yWakes,                 \* wake-ups sent after a flush returned false
    yLive                   \* the pipe is not yet destroyed

yVars == <<yVal, yPrev, yNext, yAllocated, yBegin, yBack, yEnd, ySpare,
           yW, yF, yR, yC, yFlushing, yAwake, yWakes, yLive>>

yWriter == <<yBack, yEnd, yW, yF, yFlushing>>
yReader == <<yBegin, yR, yAwake>>

YTypeOK ==
    /\ yVal \in [YSlot -> YItem \cup {YNull}]
    /\ yPrev \in [YChunk -> YChunk \cup {YNull}]
    /\ yNext \in [YChunk -> YChunk \cup {YNull}]
    /\ yAllocated \subseteq YChunk
    /\ {yBegin, yBack, yEnd, yW, yF} \subseteq YSlot
    /\ ySpare \in YChunk \cup {YNull}
    /\ {yR, yC} \subseteq YSlot \cup {YNull}
    /\ {yFlushing, yAwake, yLive} \subseteq BOOLEAN
    /\ yWakes \in Nat

-----------------------------------------------------------------------------
(* The slots push and pop move over.                                       *)

YAt(ch, p) == [chunk |-> ch, pos |-> p]

(* ++pos, then the next chunk when the position reaches N.                 *)
YAdvance(s) ==
    IF s.pos + 1 # YGranularity THEN YAt(s.chunk, s.pos + 1)
                                ELSE YAt(yNext[s.chunk], 0)

YRetreat(s) ==
    IF s.pos # 0 THEN YAt(s.chunk, s.pos - 1)
                 ELSE YAt(yPrev[s.chunk], YGranularity - 1)

YMaxSlots == Cardinality(YChunk) * YGranularity

(* The slots from the front on, along the next pointers.                   *)
YWalk ==
    LET onward == [s \in [chunk : YChunk \cup {YNull}, pos : 0..(YGranularity - 1)] |->
                        IF s.chunk = YNull THEN s ELSE YAdvance(s)]
        walk[n \in 0..YMaxSlots] == IF n = 0 THEN yBegin ELSE onward[walk[n - 1]]
    IN  walk

(* The number of items before slot s; YMaxSlots + 1 when s is not reached. *)
YDistance(s) ==
    LET walk == YWalk
        found == {n \in 0..YMaxSlots : walk[n] = s}
    IN  IF s = yBegin THEN 0
        ELSE IF found = {} THEN YMaxSlots + 1
        ELSE CHOOSE n \in found : \A m \in found : n <= m

(* ypipe_t(): the constructor of yqueue_t and one push for the terminator. *)
(* With one slot per chunk that push already needs a second chunk.         *)
YInit ==
    \E a \in YChunk, b \in YChunk :
        /\ a # b
        /\ yVal = [s \in YSlot |-> YNull]
        /\ LET linked == YGranularity = 1 IN
           /\ yPrev = [ch \in YChunk |-> IF linked /\ ch = b THEN a ELSE YNull]
           /\ yNext = [ch \in YChunk |-> IF linked /\ ch = a THEN b ELSE YNull]
           /\ yAllocated = IF linked THEN {a, b} ELSE {a}
           /\ yEnd = IF linked THEN YAt(b, 0) ELSE YAt(a, 1)
        /\ yBegin = YAt(a, 0)
        /\ yBack = YAt(a, 0)
        /\ ySpare = YNull
        /\ yW = YAt(a, 0)
        /\ yF = YAt(a, 0)
        /\ yR = YAt(a, 0)
        /\ yC = YAt(a, 0)
        /\ yFlushing = FALSE
        /\ yAwake = TRUE
        /\ yWakes = 0
        /\ yLive = TRUE

(* yqueue_t::push.  At the end of a chunk the spare one is taken, or a new *)
(* one allocated, and linked behind it.                                    *)
YPush ==
    /\ yBack' = yEnd
    /\ IF yEnd.pos + 1 # YGranularity
       THEN /\ yEnd' = YAt(yEnd.chunk, yEnd.pos + 1)
            /\ UNCHANGED <<yPrev, yNext, yAllocated, ySpare>>
       ELSE \E sc \in IF ySpare # YNull THEN {ySpare} ELSE YChunk \ yAllocated :
            /\ ySpare' = YNull
            /\ yAllocated' = yAllocated \cup {sc}
            /\ yNext' = [yNext EXCEPT ![yEnd.chunk] = sc]
            /\ yPrev' = [yPrev EXCEPT ![sc] = yEnd.chunk]
            /\ yEnd' = YAt(sc, 0)

(* yqueue_t::unpush.  The chunk that is no longer needed is freed, not     *)
(* kept as the spare one.                                                  *)
YUnpush ==
    /\ yBack' = YRetreat(yBack)
    /\ yEnd' = YRetreat(yEnd)
    /\ IF yEnd.pos # 0
       THEN UNCHANGED <<yNext, yAllocated>>
       ELSE LET last == yPrev[yEnd.chunk] IN
            /\ yAllocated' = yAllocated \ {yNext[last]}
            /\ yNext' = [yNext EXCEPT ![last] = YNull]

(* yqueue_t::pop.  The chunk that was read becomes the spare one, and the  *)
(* spare one before it is freed.                                           *)
YPop ==
    /\ yBegin' = YAdvance(yBegin)
    /\ IF yBegin.pos + 1 # YGranularity
       THEN UNCHANGED <<yPrev, yAllocated, ySpare>>
       ELSE /\ yPrev' = [yPrev EXCEPT ![yNext[yBegin.chunk]] = YNull]
            /\ ySpare' = yBegin.chunk
            /\ yAllocated' = yAllocated \ {ySpare}

-----------------------------------------------------------------------------
(* The writer.                                                             *)

YWrite ==
    /\ yLive /\ ~yFlushing
    /\ \E v \in YItem, incomplete \in BOOLEAN :
        /\ yVal' = [yVal EXCEPT ![yBack] = v]
        /\ YPush
        /\ yF' = IF incomplete THEN yF ELSE yBack'
    /\ UNCHANGED <<yBegin, yW, yR, yC, yFlushing, yAwake, yWakes, yLive>>

YUnwrite ==
    /\ yLive /\ ~yFlushing
    /\ yF # yBack
    /\ YUnpush
    /\ yVal' = [yVal EXCEPT ![yBack'] = YNull]
    /\ UNCHANGED <<yPrev, yBegin, ySpare, yW, yF, yR, yC, yFlushing,
                   yAwake, yWakes, yLive>>

(* flush up to its compare-and-swap.                                       *)
YFlushCas ==
    /\ yLive /\ ~yFlushing
    /\ yW # yF
    /\ IF yC = yW
       THEN yC' = yF /\ yW' = yF /\ UNCHANGED yFlushing
       ELSE yFlushing' = TRUE /\ UNCHANGED <<yC, yW>>
    /\ UNCHANGED <<yVal, yPrev, yNext, yAllocated, yBegin, yBack, yEnd, ySpare,
                   yF, yR, yAwake, yWakes, yLive>>

(* The rest of a flush whose compare-and-swap failed: it sets c without    *)
(* any check and returns false, and the caller sends a wake-up.            *)
YFlushSet ==
    /\ yFlushing
    /\ yC' = yF
    /\ yW' = yF
    /\ yFlushing' = FALSE
    /\ yWakes' = yWakes + 1
    /\ UNCHANGED <<yVal, yPrev, yNext, yAllocated, yBegin, yBack, yEnd, ySpare,
                   yF, yR, yAwake, yLive>>

-----------------------------------------------------------------------------
(* The reader.                                                             *)

YPrefetched == yBegin # yR /\ yR # YNull

YCheckReadSwaps ==
    /\ yLive /\ yAwake
    /\ ~YPrefetched
    /\ yR' = yC
    /\ yC' = YNull
    /\ yAwake' = (yC # yBegin /\ yC # YNull)
    /\ UNCHANGED <<yVal, yPrev, yNext, yAllocated, yBegin, yBack, yEnd, ySpare,
                   yW, yF, yFlushing, yWakes, yLive>>

(* check_read when nothing is prefetched: c becomes NULL if it points to   *)
(* the front of the queue, and the reader sleeps; otherwise r takes c.     *)
YCheckRead ==
    /\ yLive /\ yAwake
    /\ ~YPrefetched
    /\ yR' = yC
    /\ yC' = IF yC = yBegin THEN YNull ELSE yC
    /\ yAwake' = (yC # yBegin /\ yC # YNull)
    /\ UNCHANGED <<yVal, yPrev, yNext, yAllocated, yBegin, yBack, yEnd, ySpare,
                   yW, yF, yFlushing, yWakes, yLive>>

YRead ==
    /\ yLive /\ yAwake
    /\ YPrefetched
    /\ YPop
    /\ yVal' = [yVal EXCEPT ![yBegin] = YNull]
    /\ UNCHANGED <<yNext, yBack, yEnd, yW, yF, yR, yC, yFlushing, yAwake,
                   yWakes, yLive>>

(* The wake-up arrives: through the signaler of a mailbox, or as an        *)
(* activate_read command of a pipe.                                        *)
YWake ==
    /\ yWakes > 0
    /\ yWakes' = yWakes - 1
    /\ yAwake' = TRUE
    /\ UNCHANGED <<yVal, yPrev, yNext, yAllocated, yBegin, yBack, yEnd, ySpare,
                   yW, yF, yR, yC, yFlushing, yLive>>

(* ~yqueue_t, once both sides are done with the pipe: the chunks from      *)
(* begin to end are freed along their next pointers, then the spare one.   *)
YDestroy ==
    /\ yLive /\ ~yFlushing /\ yWakes = 0
    /\ LET walk == YWalk
           passed == {walk[n].chunk : n \in 0..YDistance(yEnd)}
       IN  yAllocated' = yAllocated \ (passed \cup {ySpare})
    /\ yLive' = FALSE
    /\ UNCHANGED <<yVal, yPrev, yNext, yBegin, yBack, yEnd, ySpare,
                   yW, yF, yR, yC, yFlushing, yAwake, yWakes>>

YNextStep == YWrite \/ YUnwrite \/ YFlushCas \/ YFlushSet
                \/ YCheckRead \/ YRead \/ YWake \/ YDestroy

YSpec == YInit /\ [][YNextStep]_yVars

-----------------------------------------------------------------------------
(* The queue as ypipe_t sees it.                                           *)

YItems ==
    LET walk == YWalk IN [i \in 1..YDistance(yBack) |-> yVal[walk[i - 1]]]

(* The lock-free queue never reads, writes or links freed memory, however  *)
(* the threads interleave and whichever address malloc returns: from the   *)
(* front to the end the slots are allocated and linked both ways, the      *)
(* spare chunk is not among them, r, c, w and f lie on that path in this   *)
(* order, and destroying the queue frees every chunk.                      *)
YMemorySafe ==
    IF ~yLive THEN yAllocated = {}
    ELSE LET end == YDistance(yEnd)
             walk == YWalk
             used == {walk[n].chunk : n \in 0..end}
         IN  /\ end <= YMaxSlots
             /\ yAllocated = used \cup ({ySpare} \ {YNull})
             /\ ySpare \notin used
             /\ \A n \in 1..end : YRetreat(walk[n]) = walk[n - 1]
             /\ YDistance(yBack) + 1 = end
             /\ YDistance(yW) <= YDistance(yF)
             /\ YDistance(yF) <= YDistance(yBack)
             /\ yR = YNull \/ YDistance(yR) <= YDistance(yW)
             /\ yC \in {yW, YNull}

(* ypipe_t implements the flush queue: items come out in the order they    *)
(* went in, a message whose last part is not yet written is never seen,    *)
(* and the reader is asleep exactly while c is NULL.                       *)
YFlushQueue ==
    INSTANCE FlushQueue WITH
        FqItem <- YItem,
        fqItems <- YItems,
        fqComplete <- YDistance(yF),
        fqFlushed <- YDistance(yW),
        fqAsleep <- (yC = YNull)

YImplementsQueue == YFlushQueue!FqSpec
=============================================================================
