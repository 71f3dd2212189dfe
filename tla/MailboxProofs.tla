---------------------------- MODULE MailboxProofs ----------------------------
(***************************************************************************)
(* mailbox_t never fails an assertion and is never used after it was freed, *)
(* for every number of senders and of commands; and ypipe_t, the queue in  *)
(* it, never touches freed memory and is the queue that FlushQueue says.   *)
(***************************************************************************)
EXTENDS Mailbox, YPipe, FiniteSetTheorems, SequenceTheorems, NaturalsInduction,
        WellFoundedInduction, TLAPS

-----------------------------------------------------------------------------
(* The inductive invariant *)

\* The pipe holds whole commands only, of which the first ones are visible.
MbPipe == fqComplete = Len(fqItems) /\ fqFlushed <= fqComplete

\* A sender between lock and unlock is the holder of sync; one that must signal
\* has flushed and not yet signalled.
MbPlace(s) ==
    /\ mbPc[s] \in {"written", "flushed"} => mbLock = {s}
    /\ s \in mbWoke => mbPc[s] \in {"flushed", "unlocked"}
    /\ mbPc[s] = "unlocked" => s \in mbWoke

\* The signal a receiver that is about to drain has been woken up by.
MbOwed == IF mbRecv = "drain" THEN 1 ELSE 0

\* One signal is in the signaler or in the hands of one sender while the pipe is
\* awake, and none while it sleeps, beside the one that is still to be drained.
MbTokens ==
    IF fqAsleep
    THEN mbSignals = MbOwed /\ mbWoke = {}
    ELSE \/ mbSignals = MbOwed + 1 /\ mbWoke = {}
         \/ mbSignals = MbOwed /\ \E s \in MbSender : mbWoke = {s}

\* An active receiver has not drained its signal; the pipe of an inactive one is
\* awake only when there is something to read.
MbReceiver ==
    /\ mbActive => fqAsleep = FALSE /\ mbSignals = 1 /\ mbWoke = {}
    /\ mbActive => mbRecv \in {"start", "read"}
    /\ ~mbActive /\ fqAsleep = FALSE => fqFlushed > 0
    /\ mbRecv = "read" => mbActive /\ fqFlushed > 0

\* Commands not yet sent, those in the pipe and those received are all there are.
MbUnsent == {e \in (1..MbSends) \X MbSender : e[1] <= mbLeft[e[2]]}

MbCounted == mbGot + Len(fqItems) + Cardinality(MbUnsent) = MbSends * Cardinality(MbSender)

\* Nobody is left when the mailbox is destroyed.
MbAbandoned ==
    mbDead => mbRecv = "start" /\ \A s \in MbSender : mbPc[s] = "idle" /\ mbLeft[s] = 0

MbIInv ==
    /\ MbTypeOK
    /\ MbPipe
    /\ \A s \in MbSender : MbPlace(s)
    /\ MbTokens
    /\ MbReceiver
    /\ MbCounted
    /\ MbAbandoned
    /\ mbFailed = FALSE

-----------------------------------------------------------------------------
\* The senders have finitely many commands left to send.
LEMMA MbUnsentFinite == IsFiniteSet(MbUnsent) /\ Cardinality(MbUnsent) \in Nat
<1>1. IsFiniteSet((1..MbSends) \X MbSender)
  <2>1. IsFiniteSet(1..MbSends) /\ IsFiniteSet(MbSender)
    BY MbAssumption, FS_Interval
  <2> QED
    BY <2>1, FS_Product, Zenon
<1>2. MbUnsent \in SUBSET ((1..MbSends) \X MbSender)
  BY DEF MbUnsent
<1> QED
  BY <1>1, <1>2, FS_Subset, FS_CardinalityType

\* At the start every command of every sender is unsent.
LEMMA MbInitIInv == MbInit => MbIInv
<1> SUFFICES ASSUME MbInit PROVE MbIInv
  OBVIOUS
<1>1. fqItems \in Seq(FqItem) /\ Len(fqItems) = 0
  BY EmptySeq DEF MbInit
<1>2. MbTypeOK
  <2>1. /\ mbPc \in [MbSender -> {"idle", "written", "flushed", "unlocked"}]
        /\ mbLeft \in [MbSender -> 0..MbSends]
    BY MbAssumption DEF MbInit
  <2> QED
    BY <1>1, <2>1 DEF MbInit, MbTypeOK
<1>3. MbUnsent = (1..MbSends) \X MbSender
  <2>1. \A e \in (1..MbSends) \X MbSender : e[1] <= MbSends /\ mbLeft[e[2]] = MbSends
    BY MbAssumption DEF MbInit
  <2> QED
    BY <2>1 DEF MbUnsent
<1>4. IsFiniteSet(1..MbSends) /\ Cardinality(1..MbSends) = MbSends
  BY MbAssumption, FS_Interval
<1>5. Cardinality(MbUnsent) = MbSends * Cardinality(MbSender) /\ Cardinality(MbUnsent) \in Nat
  BY <1>3, <1>4, MbAssumption, FS_Product, MbUnsentFinite
<1>6. MbCounted
  BY <1>1, <1>5 DEF MbInit, MbCounted
<1>7. MbPipe /\ MbTokens /\ MbReceiver /\ MbAbandoned /\ mbFailed = FALSE
  BY <1>1 DEF MbInit, MbPipe, MbTokens, MbOwed, MbReceiver, MbAbandoned
<1>8. \A s \in MbSender : MbPlace(s)
  BY DEF MbInit, MbPlace
<1> QED
  BY <1>2, <1>6, <1>7, <1>8 DEF MbIInv

-----------------------------------------------------------------------------
(* send() *)

\* One command leaves the unsent ones and enters the pipe.
LEMMA MbWriteIInv == ASSUME MbIInv, NEW s \in MbSender, MbWrite(s) PROVE MbIInv'
<1> USE DEF MbWrite, mbReceiver
<1>1. PICK cmd \in FqItem : fqItems' = Append(fqItems, cmd)
  OBVIOUS
<1>2. fqItems \in Seq(FqItem) /\ Len(fqItems) \in Nat
  BY LenProperties DEF MbIInv, MbTypeOK
<1>3. fqItems' \in Seq(FqItem) /\ Len(fqItems') = Len(fqItems) + 1
  BY <1>1, <1>2, AppendProperties
<1>4. mbLeft[s] \in 1..MbSends /\ mbLeft' = [mbLeft EXCEPT ![s] = mbLeft[s] - 1]
  BY MbAssumption DEF MbIInv, MbTypeOK
<1>5. MbTypeOK'
  BY <1>2, <1>3, <1>4, MbAssumption DEF MbIInv, MbTypeOK
<1>6. MbPipe'
  BY <1>2, <1>3 DEF MbIInv, MbTypeOK, MbPipe
<1>7. \A u \in MbSender : MbPlace(u)'
  BY DEF MbIInv, MbTypeOK, MbPlace
<1>8. MbTokens' /\ MbReceiver'
  BY DEF MbIInv, MbTokens, MbOwed, MbReceiver
<1>9. MbUnsent' = MbUnsent \ {<<mbLeft[s], s>>} /\ <<mbLeft[s], s>> \in MbUnsent
  BY <1>4, MbAssumption DEF MbIInv, MbTypeOK, MbUnsent
<1>10. Cardinality(MbUnsent') = Cardinality(MbUnsent) - 1
  BY <1>9, MbUnsentFinite, FS_RemoveElement
<1>11. MbCounted'
  BY <1>2, <1>3, <1>10, MbUnsentFinite DEF MbIInv, MbTypeOK, MbCounted
<1>12. mbDead = FALSE
  BY DEF MbIInv, MbTypeOK, MbAbandoned
<1> QED
  BY <1>5, <1>6, <1>7, <1>8, <1>11, <1>12 DEF MbIInv, MbAbandoned

\* The flush that finds the receiver asleep owes it a signal.
LEMMA MbFlushIInv == ASSUME MbIInv, NEW s \in MbSender, MbFlush(s) PROVE MbIInv'
<1> USE DEF MbFlush, FqFlush, mbReceiver
<1>1. MbTypeOK'
  BY DEF MbIInv, MbTypeOK
<1>2. MbPipe'
  BY DEF MbIInv, MbTypeOK, MbPipe
<1>3. \A u \in MbSender : MbPlace(u)'
  BY DEF MbIInv, MbTypeOK, MbPlace
<1>4. MbTokens'
  BY DEF MbIInv, MbTypeOK, MbTokens, MbOwed
<1>5. fqFlushed' > 0
  BY DEF MbIInv, MbTypeOK
<1>6. MbReceiver'
  BY <1>5 DEF MbIInv, MbTypeOK, MbReceiver
<1>7. MbCounted'
  BY DEF MbIInv, MbCounted, MbUnsent
<1> QED
  BY <1>1, <1>2, <1>3, <1>4, <1>6, <1>7 DEF MbIInv, MbAbandoned

\* The lock is released; a signal that is owed is still owed.
LEMMA MbUnlockIInv == ASSUME MbIInv, NEW s \in MbSender, MbUnlock(s) PROVE MbIInv'
<1> USE DEF MbUnlock, fqVars, mbReceiver
<1>1. MbTypeOK'
  BY DEF MbIInv, MbTypeOK
<1>2. \A u \in MbSender : MbPlace(u)'
  BY DEF MbIInv, MbTypeOK, MbPlace
<1>3. MbPipe' /\ MbTokens' /\ MbReceiver' /\ MbCounted'
  BY DEF MbIInv, MbPipe, MbTokens, MbOwed, MbReceiver, MbCounted, MbUnsent
<1> QED
  BY <1>1, <1>2, <1>3 DEF MbIInv, MbAbandoned

\* The sender puts the one signal it owed into the signaler.
LEMMA MbSignalIInv == ASSUME MbIInv, NEW s \in MbSender, MbSignal(s) PROVE MbIInv'
<1> USE DEF MbSignal, fqVars, mbReceiver
<1>1. MbTypeOK'
  BY DEF MbIInv, MbTypeOK
<1>2. \A u \in MbSender : MbPlace(u)'
  BY DEF MbIInv, MbTypeOK, MbPlace
<1>3. s \in mbWoke
  BY DEF MbIInv, MbPlace
<1>4. mbWoke = {s} /\ fqAsleep = FALSE /\ mbSignals = MbOwed
  BY <1>3 DEF MbIInv, MbTypeOK, MbTokens
<1>5. mbActive = FALSE
  BY <1>3 DEF MbIInv, MbTypeOK, MbReceiver
<1>6. MbTokens'
  BY <1>4 DEF MbTokens, MbOwed
<1>7. MbPipe' /\ MbCounted'
  BY DEF MbIInv, MbPipe, MbCounted, MbUnsent
<1>8. MbReceiver'
  BY <1>5 DEF MbIInv, MbReceiver
<1> QED
  BY <1>1, <1>2, <1>6, <1>7, <1>8 DEF MbIInv, MbAbandoned

-----------------------------------------------------------------------------
(* recv() *)

\* A read takes one command from the pipe.
LEMMA MbReadFacts ==
    ASSUME MbIInv, FqRead, mbGot' = mbGot + 1, UNCHANGED mbSenders
    PROVE  /\ fqItems' \in Seq(FqItem) /\ fqComplete' \in Nat /\ fqFlushed' \in Nat
           /\ fqAsleep' = fqAsleep /\ mbGot' \in Nat
           /\ MbPipe' /\ MbCounted'
<1>1. fqItems \in Seq(FqItem) /\ Len(fqItems) \in Nat
  BY LenProperties DEF MbIInv, MbTypeOK
<1>2. fqItems # <<>>
  BY <1>1, EmptySeq DEF MbIInv, MbTypeOK, MbPipe, FqRead
<1>3. fqItems' \in Seq(FqItem) /\ Len(fqItems') = Len(fqItems) - 1
  BY <1>1, <1>2, HeadTailProperties DEF FqRead
<1>4. fqComplete' \in Nat /\ fqFlushed' \in Nat /\ mbGot' \in Nat /\ MbPipe'
  BY <1>1, <1>3 DEF MbIInv, MbTypeOK, MbPipe, FqRead
<1>5. MbUnsent' = MbUnsent
  BY DEF mbSenders, MbUnsent
<1>6. MbCounted'
  BY <1>1, <1>3, <1>5, MbUnsentFinite DEF MbIInv, MbTypeOK, MbCounted
<1> QED
  BY <1>3, <1>4, <1>6 DEF FqRead

\* The receiver reads on, or falls asleep.
LEMMA MbReadActiveIInv == ASSUME MbIInv, MbReadActive PROVE MbIInv'
<1> USE DEF MbReadActive
<1>1. \A u \in MbSender : MbPlace(u)'
  BY DEF MbIInv, MbPlace, mbSenders
<1>2. CASE FqRead /\ mbGot' = mbGot + 1 /\ UNCHANGED <<mbActive, mbRecv>>
  <2>1. MbTypeOK' /\ MbPipe' /\ MbCounted'
    BY <1>2, MbReadFacts DEF MbIInv, MbTypeOK, mbSenders
  <2>2. MbTokens' /\ MbReceiver' /\ MbAbandoned'
    BY <1>2 DEF MbIInv, MbTypeOK, MbTokens, MbOwed, MbReceiver, MbAbandoned, FqRead, mbSenders
  <2> QED
    BY <1>1, <2>1, <2>2 DEF MbIInv
<1>3. CASE FqSleep /\ mbActive' = FALSE /\ mbRecv' = "drain" /\ UNCHANGED mbGot
  <2>1. MbTypeOK' /\ MbPipe' /\ MbCounted'
    BY <1>3 DEF MbIInv, MbTypeOK, MbPipe, MbCounted, MbUnsent, FqSleep, mbSenders
  <2>2. MbTokens' /\ MbReceiver' /\ MbAbandoned'
    BY <1>3 DEF MbIInv, MbTypeOK, MbTokens, MbOwed, MbReceiver, MbAbandoned, FqSleep, mbSenders
  <2> QED
    BY <1>1, <2>1, <2>2 DEF MbIInv
<1> QED
  BY <1>2, <1>3

\* What is drained is the one signal that is owed, or that one and the next.
LEMMA MbDrainIInv == ASSUME MbIInv, MbDrain PROVE MbIInv'
<1> USE DEF MbDrain, fqVars, mbSenders
<1>1. mbSignals \in {1, 2}
  BY DEF MbIInv, MbTypeOK, MbTokens, MbOwed
<1>2. mbFailed' = FALSE
  BY <1>1 DEF MbIInv
<1>3. MbTypeOK'
  BY <1>2 DEF MbIInv, MbTypeOK
<1>4. MbTokens'
  BY <1>1 DEF MbIInv, MbTypeOK, MbTokens, MbOwed
<1>5. MbPipe' /\ MbReceiver' /\ MbCounted' /\ MbAbandoned' /\ \A u \in MbSender : MbPlace(u)'
  BY DEF MbIInv, MbTypeOK, MbPipe, MbReceiver, MbCounted, MbUnsent, MbAbandoned, MbPlace
<1> QED
  BY <1>2, <1>3, <1>4, <1>5 DEF MbIInv

\* The steps of wait() change neither the pipe nor the signaler.
LEMMA MbWaitIInv ==
    ASSUME MbIInv, MbWaitInactive \/ MbTimeout \/ MbAwake
    PROVE  MbIInv'
<1> USE DEF MbWaitInactive, MbTimeout, MbAwake, fqVars, mbSenders
<1>1. MbTypeOK'
  BY DEF MbIInv, MbTypeOK
<1>2. MbPipe' /\ MbCounted' /\ \A u \in MbSender : MbPlace(u)'
  BY DEF MbIInv, MbPipe, MbCounted, MbUnsent, MbPlace
<1>3. MbTokens'
  BY DEF MbIInv, MbTokens, MbOwed
<1>4. MbReceiver'
  BY DEF MbIInv, MbTypeOK, MbTokens, MbOwed, MbReceiver
<1>5. MbAbandoned' /\ mbFailed' = FALSE
  BY DEF MbIInv, MbAbandoned
<1> QED
  BY <1>1, <1>2, <1>3, <1>4, <1>5 DEF MbIInv

\* The read after a signal finds a command.
LEMMA MbReadWokenIInv == ASSUME MbIInv, MbReadWoken PROVE MbIInv'
<1> USE DEF MbReadWoken
<1>1. fqFlushed > 0 /\ fqAsleep = FALSE /\ mbActive = TRUE
  BY DEF MbIInv, MbTypeOK, MbReceiver
<1>2. FqRead /\ mbGot' = mbGot + 1 /\ UNCHANGED mbFailed
  BY <1>1 DEF MbIInv, MbTypeOK
<1>3. MbTypeOK' /\ MbPipe' /\ MbCounted'
  BY <1>2, MbReadFacts DEF MbIInv, MbTypeOK, mbSenders
<1>4. MbTokens' /\ MbReceiver' /\ MbAbandoned'
  BY <1>1, <1>2 DEF MbIInv, MbTypeOK, MbTokens, MbOwed, MbReceiver, MbAbandoned, FqRead, mbSenders
<1>5. \A u \in MbSender : MbPlace(u)'
  BY DEF MbIInv, MbPlace, mbSenders
<1> QED
  BY <1>2, <1>3, <1>4, <1>5 DEF MbIInv

\* When every command was received the pipe is empty, so that the mailbox sleeps or
\* the receiver has its signal: nobody is on the way to the signaler.
LEMMA MbDestroyIInv == ASSUME MbIInv, MbDestroy PROVE MbIInv'
<1> USE DEF MbDestroy, fqVars, mbSenders
<1>1. fqItems \in Seq(FqItem) /\ Len(fqItems) \in Nat
  BY LenProperties DEF MbIInv, MbTypeOK
<1>2. Len(fqItems) = 0 /\ Cardinality(MbUnsent) = 0
  BY <1>1, MbUnsentFinite DEF MbIInv, MbTypeOK, MbCounted
<1>3. \A s \in MbSender : mbLeft[s] = 0
  <2> SUFFICES ASSUME NEW s \in MbSender, mbLeft[s] # 0 PROVE FALSE
    OBVIOUS
  <2>1. <<1, s>> \in MbUnsent
    BY MbAssumption DEF MbIInv, MbTypeOK, MbUnsent
  <2> QED
    BY <1>2, <2>1, MbUnsentFinite, FS_EmptySet
<1>4. fqFlushed = 0
  BY <1>2 DEF MbIInv, MbTypeOK, MbPipe
<1>5. mbWoke = {}
  BY <1>4 DEF MbIInv, MbTypeOK, MbTokens, MbReceiver
<1>6. \A s \in MbSender : mbPc[s] = "idle"
  BY <1>5 DEF MbIInv, MbTypeOK, MbPlace
<1>7. MbAbandoned'
  BY <1>3, <1>6 DEF MbAbandoned
<1>8. MbTypeOK'
  BY DEF MbIInv, MbTypeOK
<1>9. MbPipe' /\ MbTokens' /\ MbReceiver' /\ MbCounted' /\ \A s \in MbSender : MbPlace(s)'
  BY DEF MbIInv, MbPipe, MbTokens, MbOwed, MbReceiver, MbCounted, MbUnsent, MbPlace
<1> QED
  BY <1>7, <1>8, <1>9 DEF MbIInv

-----------------------------------------------------------------------------
\* The invariant is inductive.
LEMMA MbNextIInv == MbIInv /\ [MbNext]_mbVars => MbIInv'
<1> SUFFICES ASSUME MbIInv, [MbNext]_mbVars PROVE MbIInv'
  OBVIOUS
<1>1. ASSUME NEW s \in MbSender, MbSend(s) PROVE MbIInv'
  BY <1>1, MbWriteIInv, MbFlushIInv, MbUnlockIInv, MbSignalIInv DEF MbSend
<1>2. CASE MbReceive
  BY <1>2, MbReadActiveIInv, MbDrainIInv, MbWaitIInv, MbReadWokenIInv DEF MbReceive
<1>3. CASE MbDestroy
  BY <1>3, MbDestroyIInv
<1>4. CASE UNCHANGED mbVars
  BY <1>4 DEF mbVars, MbIInv, MbTypeOK, MbPipe, MbPlace, MbTokens, MbOwed, MbReceiver,
              MbCounted, MbUnsent, MbAbandoned
<1> QED
  BY <1>1, <1>2, <1>3, <1>4 DEF MbNext

\* The inductive invariant of the mailbox: signals sent and owed account for the
\* receiver's wake-ups.
THEOREM MbInvariance == MbSpec => []MbIInv
<1> QED
  BY MbInitIInv, MbNextIInv, PTL DEF MbSpec

(* MbSafe: no assertion of recv() or of signaler_t fails (mailbox.cpp,      *)
(* signaler.cpp), and when the receiver frees the mailbox no sender is       *)
(* inside send(): the count of commands says that all were received, and the  *)
(* tokens say that the signal of the last one was then already sent.          *)
THEOREM MailboxIsSafe == MbSpec => []MbSafe
<1>1. MbIInv => MbSafe
  BY DEF MbIInv, MbAbandoned, MbSafe, MbNoAssertionFails, MbNoUseAfterFree
<1> QED
  BY <1>1, MbInvariance, PTL

-----------------------------------------------------------------------------
(* The chain of slots *)

\* One slot forward along next pointers nx, one back along prev pointers pv.
YStepOn(nx, s) ==
    IF s.pos + 1 # YGranularity THEN YAt(s.chunk, s.pos + 1) ELSE YAt(nx[s.chunk], 0)
YStepBack(pv, s) ==
    IF s.pos # 0 THEN YAt(s.chunk, s.pos - 1) ELSE YAt(pv[s.chunk], YGranularity - 1)

\* The slots of a chunk follow each other, and no chunk comes twice.
YSpaced(sl, m) ==
    \A i, j \in 0..m :
        i <= j /\ sl[i].chunk = sl[j].chunk => sl[j].pos = sl[i].pos + (j - i)

\* The slots sl[0] to sl[m] are linked both ways.
YChain(nx, pv, sl, m) ==
    /\ m \in Nat /\ sl \in [0..m -> YSlot]
    /\ \A i \in 0..m : i # 0 => sl[i] = YStepOn(nx, sl[i - 1]) /\ sl[i - 1] = YStepBack(pv, sl[i])
    /\ YSpaced(sl, m)

YUsed(sl, m) == {sl[i].chunk : i \in 0..m}

YLonger(sl, m, s) == [i \in 0..(m + 1) |-> IF i <= m THEN sl[i] ELSE s]
YShorter(sl, m) == [i \in 0..(m - 1) |-> sl[i]]
YLater(sl, m) == [i \in 0..(m - 1) |-> sl[i + 1]]

YLinks == [YChunk -> YChunk \cup {YNull}]

\* One pointer is changed.
YLink(nx, c, d) == [nx EXCEPT ![c] = d]

\* A slot has a chunk and a position.
LEMMA YSlots ==
    /\ \A s \in YSlot : s.chunk \in YChunk /\ s.pos \in 0..(YGranularity - 1) /\ s = YAt(s.chunk, s.pos)
    /\ \A c \in YChunk, p \in 0..(YGranularity - 1) :
        YAt(c, p) \in YSlot /\ YAt(c, p).chunk = c /\ YAt(c, p).pos = p
    /\ \A s, t \in YSlot : s.chunk = t.chunk /\ s.pos = t.pos => s = t
    /\ \A c, p : YAt(c, p).chunk = c /\ YAt(c, p).pos = p
  BY DEF YSlot, YAt

\* The slots of a chain are different from each other.
LEMMA YDifferent ==
    ASSUME NEW nx, NEW pv, NEW sl, NEW m, YChain(nx, pv, sl, m), NEW i \in 0..m, NEW j \in 0..m,
           sl[i] = sl[j]
    PROVE  i = j
<1>1. sl[i].pos \in Nat /\ sl[j].pos \in Nat /\ m \in Nat BY YSlots, YAssumption DEF YChain
<1>2. i <= j \/ j <= i OBVIOUS
<1>s. YSpaced(sl, m) BY DEF YChain
<1>3. CASE i <= j
  <2>1. sl[j].pos = sl[i].pos + (j - i) BY <1>s, <1>3 DEF YSpaced
  <2> QED BY <1>1, <2>1
<1>4. CASE j <= i
  <2>1. sl[i].pos = sl[j].pos + (i - j) BY <1>s, <1>4 DEF YSpaced
  <2> QED BY <1>1, <2>1
<1> QED BY <1>2, <1>3, <1>4

\* push within a chunk.
LEMMA YGrowsWithin ==
    ASSUME NEW nx, NEW pv, NEW sl, NEW m, YChain(nx, pv, sl, m), sl[m].pos + 1 # YGranularity
    PROVE  LET s == YAt(sl[m].chunk, sl[m].pos + 1) IN
           /\ s \in YSlot
           /\ YChain(nx, pv, YLonger(sl, m, s), m + 1)
           /\ YUsed(YLonger(sl, m, s), m + 1) = YUsed(sl, m)
<1> DEFINE s == YAt(sl[m].chunk, sl[m].pos + 1)
           t == YLonger(sl, m, s)
<1>1. m \in Nat /\ m \in 0..m /\ sl[m] \in YSlot /\ sl \in [0..m -> YSlot] BY DEF YChain
<1>2. /\ sl[m].chunk \in YChunk /\ sl[m].pos \in Nat /\ sl[m].pos + 1 \in 0..(YGranularity - 1)
  BY <1>1, YSlots, YAssumption
<1>3. s \in YSlot /\ s.chunk = sl[m].chunk /\ s.pos = sl[m].pos + 1 BY <1>2, YSlots
<1>4. s = YStepOn(nx, sl[m]) BY DEF YStepOn
<1>5. sl[m] = YStepBack(pv, s)
  <2>1. s.pos # 0 /\ s.pos - 1 = sl[m].pos BY <1>2, <1>3
  <2>2. sl[m] = YAt(sl[m].chunk, sl[m].pos) BY <1>1, YSlots
  <2> HIDE DEF s
  <2> QED BY <1>3, <2>1, <2>2 DEF YStepBack
<1> HIDE DEF s
<1>6. /\ t \in [0..(m + 1) -> YSlot] /\ t[m + 1] = s
      /\ \A i \in 0..m : t[i] = sl[i]
  BY <1>1, <1>3 DEF YLonger
<1>7. \A i \in 0..(m + 1) : i \in 0..m \/ i = m + 1 BY <1>1
<1> HIDE DEF t
<1>8. ASSUME NEW i \in 0..(m + 1), i # 0
      PROVE  t[i] = YStepOn(nx, t[i - 1]) /\ t[i - 1] = YStepBack(pv, t[i])
  <2>1. i - 1 \in 0..m BY <1>1, <1>8
  <2>2. CASE i \in 0..m BY <1>6, <1>8, <2>1, <2>2 DEF YChain
  <2>3. CASE i = m + 1
    <3>1. i - 1 = m BY <1>1, <2>3
    <3> QED BY <1>4, <1>5, <1>6, <1>1, <2>3, <3>1
  <2> QED BY <1>7, <2>2, <2>3
<1>9. YSpaced(t, m + 1)
  <2> SUFFICES ASSUME NEW i \in 0..(m + 1), NEW j \in 0..(m + 1), i <= j, t[i].chunk = t[j].chunk
               PROVE  t[j].pos = t[i].pos + (j - i)
    BY DEF YSpaced
  <2>1. CASE j \in 0..m
    <3>1. i \in 0..m BY <1>1, <2>1
    <3> QED BY <1>6, <2>1, <3>1 DEF YChain, YSpaced
  <2>2. CASE i = m + 1 /\ j = m + 1 BY <1>2, <1>3, <1>6, <2>2
  <2>3. CASE i \in 0..m /\ j = m + 1
    <3>1. sl[m].pos = sl[i].pos + (m - i) BY <1>1, <1>3, <1>6, <2>3 DEF YChain, YSpaced
    <3>2. sl[i].pos \in Nat BY <1>1, <2>3, YSlots, YAssumption
    <3> QED BY <1>1, <1>2, <1>3, <1>6, <2>3, <3>1, <3>2
  <2> QED BY <1>7, <2>1, <2>2, <2>3
<1>10. YChain(nx, pv, t, m + 1) BY <1>1, <1>6, <1>8, <1>9 DEF YChain
<1>11. YUsed(t, m + 1) = YUsed(sl, m)
  <2>1. \A i \in 0..m : i \in 0..(m + 1) /\ t[i].chunk = sl[i].chunk BY <1>1, <1>6
  <2>2. t[m + 1].chunk = sl[m].chunk BY <1>3, <1>6
  <2> QED BY <1>1, <1>7, <2>1, <2>2 DEF YUsed
<1> QED BY <1>3, <1>10, <1>11 DEF s, t

\* push at the end of a chunk: chunk sc, which is not in the chain, is linked behind it.
LEMMA YGrowsByChunk ==
    ASSUME NEW nx \in YLinks, NEW pv \in YLinks, NEW sl, NEW m, YChain(nx, pv, sl, m),
           sl[m].pos + 1 = YGranularity, NEW sc \in YChunk, sc \notin YUsed(sl, m)
    PROVE  LET s == YAt(sc, 0) IN
           /\ s \in YSlot
           /\ YChain(YLink(nx, sl[m].chunk, sc), YLink(pv, sc, sl[m].chunk),
                     YLonger(sl, m, s), m + 1)
           /\ YUsed(YLonger(sl, m, s), m + 1) = YUsed(sl, m) \cup {sc}
<1> DEFINE s == YAt(sc, 0)
           t == YLonger(sl, m, s)
           nx2 == YLink(nx, sl[m].chunk, sc)
           pv2 == YLink(pv, sc, sl[m].chunk)
<1>1. m \in Nat /\ m \in 0..m /\ sl[m] \in YSlot /\ sl \in [0..m -> YSlot] BY DEF YChain
<1>2. sl[m].chunk \in YChunk /\ sl[m].pos = YGranularity - 1 /\ YGranularity \in Nat \ {0}
  BY <1>1, YSlots, YAssumption
<1>3. s \in YSlot /\ s.chunk = sc /\ s.pos = 0 BY <1>2, YSlots
<1>4. nx2[sl[m].chunk] = sc /\ pv2[sc] = sl[m].chunk BY <1>2 DEF YLinks, YLink
<1>5. \A c \in YChunk : c # sl[m].chunk => nx2[c] = nx[c] BY DEF YLinks, YLink
<1>6. \A c \in YChunk : c # sc => pv2[c] = pv[c] BY DEF YLinks, YLink
<1> HIDE DEF nx2, pv2
<1>7. s = YStepOn(nx2, sl[m]) BY <1>4 DEF YStepOn
<1>8. sl[m] = YStepBack(pv2, s)
  <2>2. sl[m] = YAt(sl[m].chunk, sl[m].pos) BY <1>1, YSlots
  <2> HIDE DEF s
  <2> QED BY <1>2, <1>3, <1>4, <2>2 DEF YStepBack
<1> HIDE DEF s
<1>9. /\ t \in [0..(m + 1) -> YSlot] /\ t[m + 1] = s
      /\ \A i \in 0..m : t[i] = sl[i]
  BY <1>1, <1>3 DEF YLonger
<1>10. \A i \in 0..(m + 1) : i \in 0..m \/ i = m + 1 BY <1>1
<1>11. \A i \in 0..m : sl[i].chunk # sc /\ sl[i].chunk \in YChunk BY <1>1, YSlots DEF YUsed
<1> HIDE DEF t
<1>12. ASSUME NEW i \in 0..(m + 1), i # 0
      PROVE  t[i] = YStepOn(nx2, t[i - 1]) /\ t[i - 1] = YStepBack(pv2, t[i])
  <2>1. i - 1 \in 0..m BY <1>1, <1>12
  <2>2. CASE i \in 0..m
    <3>1. sl[i] = YStepOn(nx, sl[i - 1]) /\ sl[i - 1] = YStepBack(pv, sl[i])
      BY <1>12, <2>2 DEF YChain
    <3>2. sl[i - 1] = YStepBack(pv2, sl[i]) BY <1>6, <1>11, <2>2, <3>1 DEF YStepBack
    <3>3. sl[i - 1].pos + 1 = YGranularity => sl[i - 1].chunk # sl[m].chunk
      <4> SUFFICES ASSUME sl[i - 1].pos + 1 = YGranularity, sl[i - 1].chunk = sl[m].chunk
                   PROVE  FALSE
        OBVIOUS
      <4>1. sl[m].pos = sl[i - 1].pos + (m - (i - 1)) BY <1>1, <2>1 DEF YChain, YSpaced
      <4>2. sl[i - 1].pos \in Nat BY <1>1, <2>1, YSlots, YAssumption
      <4> QED BY <1>1, <1>2, <2>2, <4>1, <4>2
    <3>4. sl[i] = YStepOn(nx2, sl[i - 1]) BY <1>5, <1>11, <2>1, <3>1, <3>3 DEF YStepOn
    <3> QED BY <1>9, <2>1, <2>2, <3>2, <3>4
  <2>3. CASE i = m + 1
    <3>1. i - 1 = m BY <1>1, <2>3
    <3> QED BY <1>7, <1>8, <1>9, <1>1, <2>3, <3>1
  <2> QED BY <1>10, <2>2, <2>3
<1>13. YSpaced(t, m + 1)
  <2> SUFFICES ASSUME NEW i \in 0..(m + 1), NEW j \in 0..(m + 1), i <= j, t[i].chunk = t[j].chunk
               PROVE  t[j].pos = t[i].pos + (j - i)
    BY DEF YSpaced
  <2>1. CASE j \in 0..m
    <3>1. i \in 0..m BY <1>1, <2>1
    <3> QED BY <1>9, <2>1, <3>1 DEF YChain, YSpaced
  <2>2. CASE i = m + 1 /\ j = m + 1 BY <1>1, <1>3, <1>9, <2>2
  <2>3. CASE i \in 0..m /\ j = m + 1 BY <1>3, <1>9, <1>11, <2>3
  <2> QED BY <1>10, <2>1, <2>2, <2>3
<1>14. YChain(nx2, pv2, t, m + 1) BY <1>1, <1>9, <1>12, <1>13 DEF YChain
<1>15. YUsed(t, m + 1) = YUsed(sl, m) \cup {sc}
  <2>1. \A i \in 0..m : i \in 0..(m + 1) /\ t[i].chunk = sl[i].chunk BY <1>1, <1>9
  <2>2. t[m + 1].chunk = sc /\ m + 1 \in 0..(m + 1) BY <1>1, <1>3, <1>9
  <2> QED BY <1>1, <1>10, <2>1, <2>2 DEF YUsed
<1> QED BY <1>3, <1>14, <1>15 DEF s, t, nx2, pv2

\* unpush within a chunk.
LEMMA YShrinksWithin ==
    ASSUME NEW nx, NEW pv, NEW sl, NEW m, YChain(nx, pv, sl, m), m > 0, sl[m].pos # 0
    PROVE  /\ YChain(nx, pv, YShorter(sl, m), m - 1)
           /\ YUsed(YShorter(sl, m), m - 1) = YUsed(sl, m)
<1> DEFINE t == YShorter(sl, m)
<1>1. m \in Nat /\ sl \in [0..m -> YSlot] /\ m - 1 \in Nat BY DEF YChain
<1>2. \A i \in 0..(m - 1) : i \in 0..m /\ t[i] = sl[i] BY <1>1 DEF YShorter
<1>3. t \in [0..(m - 1) -> YSlot] BY <1>1 DEF YShorter
<1> HIDE DEF t
<1>4. \A i \in 0..(m - 1) : i # 0 => i - 1 \in 0..(m - 1) BY <1>1
<1>5. YChain(nx, pv, t, m - 1) BY <1>1, <1>2, <1>3, <1>4 DEF YChain, YSpaced
<1>6. sl[m - 1].chunk = sl[m].chunk
  <2>1. sl[m - 1] = YStepBack(pv, sl[m]) BY <1>1 DEF YChain
  <2> QED BY <2>1, YSlots DEF YStepBack
<1>7. \A i \in 0..m : i \in 0..(m - 1) \/ i = m BY <1>1
<1>8. m - 1 \in 0..(m - 1) BY <1>1
<1>9. YUsed(t, m - 1) = YUsed(sl, m) BY <1>2, <1>6, <1>7, <1>8 DEF YUsed
<1> QED BY <1>5, <1>9 DEF t

\* unpush into the chunk before: the last one leaves the chain.
LEMMA YShrinksByChunk ==
    ASSUME NEW nx \in YLinks, NEW pv, NEW sl, NEW m, YChain(nx, pv, sl, m), m > 0, sl[m].pos = 0
    PROVE  /\ pv[sl[m].chunk] = sl[m - 1].chunk /\ nx[sl[m - 1].chunk] = sl[m].chunk
           /\ YChain(YLink(nx, sl[m - 1].chunk, YNull), pv, YShorter(sl, m), m - 1)
           /\ YUsed(YShorter(sl, m), m - 1) = YUsed(sl, m) \ {sl[m].chunk}
<1> DEFINE t == YShorter(sl, m)
           nx2 == YLink(nx, sl[m - 1].chunk, YNull)
<1>1. m \in Nat /\ sl \in [0..m -> YSlot] /\ m - 1 \in Nat BY DEF YChain
<1>2. \A i \in 0..(m - 1) : i \in 0..m /\ t[i] = sl[i] BY <1>1 DEF YShorter
<1>3. t \in [0..(m - 1) -> YSlot] BY <1>1 DEF YShorter
<1>a. m \in 0..m /\ m - 1 \in 0..m /\ m # 0 BY <1>1
<1>4. sl[m] = YStepOn(nx, sl[m - 1]) /\ sl[m - 1] = YStepBack(pv, sl[m])
  BY <1>a DEF YChain
<1>5. sl[m - 1].chunk = pv[sl[m].chunk] /\ sl[m - 1].pos = YGranularity - 1
  BY <1>4, YSlots DEF YStepBack
<1>6. nx[sl[m - 1].chunk] = sl[m].chunk
  <2>1. sl[m - 1].pos + 1 = YGranularity BY <1>5, YAssumption
  <2> QED BY <1>4, <2>1, YSlots DEF YStepOn
<1>7. \A i \in 0..m : sl[i] \in YSlot /\ sl[i].chunk \in YChunk /\ sl[i].pos \in Nat
  BY <1>1, YSlots, YAssumption
<1>8. \A c \in YChunk : c # sl[m - 1].chunk => nx2[c] = nx[c] BY DEF YLinks, YLink
<1> HIDE DEF t, nx2
<1>9. ASSUME NEW i \in 0..(m - 1), i # 0
      PROVE  t[i] = YStepOn(nx2, t[i - 1]) /\ t[i - 1] = YStepBack(pv, t[i])
  <2>1. i \in 0..m /\ i - 1 \in 0..m /\ i - 1 \in 0..(m - 1) BY <1>1, <1>9
  <2>2. sl[i] = YStepOn(nx, sl[i - 1]) /\ sl[i - 1] = YStepBack(pv, sl[i]) BY <1>9, <2>1 DEF YChain
  <2>3. sl[i - 1].pos + 1 = YGranularity => sl[i - 1].chunk # sl[m - 1].chunk
    <3> SUFFICES ASSUME sl[i - 1].pos + 1 = YGranularity, sl[i - 1].chunk = sl[m - 1].chunk
                 PROVE  FALSE
      OBVIOUS
    <3>1. sl[m - 1].pos = sl[i - 1].pos + ((m - 1) - (i - 1)) BY <1>1, <1>a, <2>1 DEF YChain, YSpaced
    <3> QED BY <1>1, <1>5, <1>7, <2>1, <3>1, YAssumption
  <2>4. sl[i] = YStepOn(nx2, sl[i - 1]) BY <1>7, <1>8, <2>1, <2>2, <2>3 DEF YStepOn
  <2> QED BY <1>2, <2>1, <2>2, <2>4
<1>10. YSpaced(t, m - 1) BY <1>2 DEF YChain, YSpaced
<1>11. YChain(nx2, pv, t, m - 1) BY <1>1, <1>3, <1>9, <1>10 DEF YChain
<1>12. ASSUME NEW i \in 0..(m - 1) PROVE sl[i].chunk # sl[m].chunk
  <2> SUFFICES ASSUME sl[i].chunk = sl[m].chunk PROVE FALSE OBVIOUS
  <2>1. i \in 0..m /\ i <= m BY <1>1
  <2>2. sl[m].pos = sl[i].pos + (m - i) BY <1>a, <2>1 DEF YChain, YSpaced
  <2> QED BY <1>1, <1>7, <2>1, <2>2
<1>13. \A i \in 0..m : i \in 0..(m - 1) \/ i = m BY <1>1
<1>14. YUsed(t, m - 1) = YUsed(sl, m) \ {sl[m].chunk} BY <1>2, <1>12, <1>13 DEF YUsed
<1> QED BY <1>5, <1>6, <1>11, <1>14 DEF t, nx2

\* pop within a chunk.
LEMMA YPopsWithin ==
    ASSUME NEW nx, NEW pv, NEW sl, NEW m, YChain(nx, pv, sl, m), m > 0,
           sl[0].pos + 1 # YGranularity
    PROVE  /\ YChain(nx, pv, YLater(sl, m), m - 1)
           /\ YUsed(YLater(sl, m), m - 1) = YUsed(sl, m)
<1> DEFINE t == YLater(sl, m)
<1>1. m \in Nat /\ sl \in [0..m -> YSlot] /\ m - 1 \in Nat BY DEF YChain
<1>2. \A i \in 0..(m - 1) : i + 1 \in 0..m /\ t[i] = sl[i + 1] BY <1>1 DEF YLater
<1>3. t \in [0..(m - 1) -> YSlot] BY <1>1 DEF YLater
<1> HIDE DEF t
<1>4. ASSUME NEW i \in 0..(m - 1), i # 0
      PROVE  t[i] = YStepOn(nx, t[i - 1]) /\ t[i - 1] = YStepBack(pv, t[i])
  <2>1. i - 1 \in 0..(m - 1) /\ (i - 1) + 1 = i /\ (i + 1) - 1 = i /\ i + 1 # 0 BY <1>1, <1>4
  <2>2. t[i - 1] = sl[i] BY <1>2, <2>1
  <2> QED BY <1>2, <2>1, <2>2 DEF YChain
<1>5. YSpaced(t, m - 1)
  <2> SUFFICES ASSUME NEW i \in 0..(m - 1), NEW j \in 0..(m - 1), i <= j, t[i].chunk = t[j].chunk
               PROVE  t[j].pos = t[i].pos + (j - i)
    BY DEF YSpaced
  <2>1. (j + 1) - (i + 1) = j - i /\ i + 1 <= j + 1 OBVIOUS
  <2> QED BY <1>2, <2>1 DEF YChain, YSpaced
<1>6. YChain(nx, pv, t, m - 1) BY <1>1, <1>3, <1>4, <1>5 DEF YChain
<1>7. sl[1].chunk = sl[0].chunk
  <2>1. 1 \in 0..m /\ 1 - 1 = 0 /\ 1 # 0 BY <1>1
  <2>2. sl[1] = YStepOn(nx, sl[0]) BY <2>1 DEF YChain
  <2> QED BY <2>2, YSlots DEF YStepOn
<1>8. YUsed(t, m - 1) = YUsed(sl, m)
  <2>1. \A i \in 0..m : i = 0 \/ (i - 1 \in 0..(m - 1) /\ (i - 1) + 1 = i) BY <1>1
  <2>2. 0 \in 0..(m - 1) /\ 0 + 1 = 1 /\ 0 \in 0..m BY <1>1
  <2>3. t[0] = sl[1] BY <1>2, <2>2
  <2>4. \A i \in 0..m : \E j \in 0..(m - 1) : sl[i].chunk = t[j].chunk
    BY <1>2, <1>7, <2>1, <2>2, <2>3
  <2> QED BY <1>2, <2>4 DEF YUsed
<1> QED BY <1>6, <1>8 DEF t

\* pop of the last slot of a chunk: the chunk leaves the chain.
LEMMA YPopsChunk ==
    ASSUME NEW nx, NEW pv \in YLinks, NEW sl, NEW m, YChain(nx, pv, sl, m), m > 0,
           sl[0].pos + 1 = YGranularity
    PROVE  /\ nx[sl[0].chunk] = sl[1].chunk
           /\ YChain(nx, YLink(pv, nx[sl[0].chunk], YNull), YLater(sl, m), m - 1)
           /\ YUsed(YLater(sl, m), m - 1) = YUsed(sl, m) \ {sl[0].chunk}
<1> DEFINE t == YLater(sl, m)
           pv2 == YLink(pv, nx[sl[0].chunk], YNull)
<1>1. m \in Nat /\ sl \in [0..m -> YSlot] /\ m - 1 \in Nat BY DEF YChain
<1>2. \A i \in 0..(m - 1) : i + 1 \in 0..m /\ t[i] = sl[i + 1] BY <1>1 DEF YLater
<1>3. t \in [0..(m - 1) -> YSlot] BY <1>1 DEF YLater
<1>a. 1 \in 0..m /\ 1 - 1 = 0 /\ 1 # 0 /\ 0 \in 0..m BY <1>1
<1>4. sl[1].chunk = nx[sl[0].chunk] /\ sl[1].pos = 0
  <2>2. sl[1] = YStepOn(nx, sl[0]) BY <1>a DEF YChain
  <2> QED BY <2>2, YSlots DEF YStepOn
<1>5. \A i \in 0..m : sl[i] \in YSlot /\ sl[i].chunk \in YChunk /\ sl[i].pos \in Nat
  BY <1>1, YSlots, YAssumption
<1>6. \A c \in YChunk : c # sl[1].chunk => pv2[c] = pv[c] BY <1>4 DEF YLinks, YLink
<1> HIDE DEF t, pv2
<1>7. ASSUME NEW i \in 0..(m - 1), i # 0
      PROVE  t[i] = YStepOn(nx, t[i - 1]) /\ t[i - 1] = YStepBack(pv2, t[i])
  <2>1. i - 1 \in 0..(m - 1) /\ (i - 1) + 1 = i /\ (i + 1) - 1 = i /\ i + 1 # 0 BY <1>1, <1>7
  <2>2. t[i - 1] = sl[i] /\ t[i] = sl[i + 1] /\ i + 1 \in 0..m BY <1>2, <2>1
  <2>3. sl[i + 1] = YStepOn(nx, sl[i]) /\ sl[i] = YStepBack(pv, sl[i + 1])
    BY <2>1, <2>2 DEF YChain
  <2>4. sl[i + 1].chunk = sl[1].chunk => sl[i + 1].pos # 0
    <3> SUFFICES ASSUME sl[i + 1].chunk = sl[1].chunk PROVE sl[i + 1].pos # 0 OBVIOUS
    <3>1. 1 <= i + 1 BY <1>7
    <3>2. sl[i + 1].pos = sl[1].pos + ((i + 1) - 1) BY <1>a, <2>2, <3>1 DEF YChain, YSpaced
    <3> QED BY <1>4, <1>7, <3>2
  <2>5. sl[i] = YStepBack(pv2, sl[i + 1]) BY <1>5, <1>6, <2>2, <2>3, <2>4 DEF YStepBack
  <2> QED BY <2>2, <2>3, <2>5
<1>8. YSpaced(t, m - 1)
  <2> SUFFICES ASSUME NEW i \in 0..(m - 1), NEW j \in 0..(m - 1), i <= j, t[i].chunk = t[j].chunk
               PROVE  t[j].pos = t[i].pos + (j - i)
    BY DEF YSpaced
  <2>1. (j + 1) - (i + 1) = j - i /\ i + 1 <= j + 1 OBVIOUS
  <2> QED BY <1>2, <2>1 DEF YChain, YSpaced
<1>9. YChain(nx, pv2, t, m - 1) BY <1>1, <1>3, <1>7, <1>8 DEF YChain
<1>10. ASSUME NEW i \in 0..(m - 1) PROVE sl[i + 1].chunk # sl[0].chunk
  <2> SUFFICES ASSUME sl[i + 1].chunk = sl[0].chunk PROVE FALSE OBVIOUS
  <2>1. i + 1 \in 0..m /\ 0 <= i + 1 BY <1>2
  <2>2. sl[i + 1].pos = sl[0].pos + ((i + 1) - 0) BY <1>a, <2>1 DEF YChain, YSpaced
  <2>3. sl[i + 1].pos \in 0..(YGranularity - 1) BY <1>5, <2>1, YSlots
  <2> QED BY <1>5, <1>a, <2>2, <2>3, YAssumption
<1>11. YUsed(t, m - 1) = YUsed(sl, m) \ {sl[0].chunk}
  <2>1. \A i \in 0..m : i = 0 \/ (i - 1 \in 0..(m - 1) /\ (i - 1) + 1 = i) BY <1>1
  <2>2. \A i \in 0..m : i = 0 \/ \E j \in 0..(m - 1) : sl[i] = t[j] BY <1>2, <2>1
  <2>3. \A j \in 0..(m - 1) : t[j].chunk # sl[0].chunk /\ \E i \in 0..m : t[j] = sl[i]
    BY <1>2, <1>10
  <2> QED BY <2>2, <2>3 DEF YUsed
<1> QED BY <1>4, <1>9, <1>11 DEF t, pv2

-----------------------------------------------------------------------------
(* The walk along the next pointers *)

\* Induction over the natural numbers, for a set.
LEMMA YAllNumbers ==
    ASSUME NEW S, 0 \in S, \A n \in Nat : n \in S => n + 1 \in S
    PROVE  Nat \subseteq S
<1> SUFFICES ASSUME Nat \ S # {} PROVE FALSE OBVIOUS
<1>1. PICK m \in Nat \ S : \A k \in Nat \ S : ~(<<k, m>> \in OpToRel(<, Nat))
  <2> DEFINE R == OpToRel(<, Nat)
             T == Nat \ S
  <2>1. IsWellFoundedOn(R, Nat) BY NatLessThanWellFounded
  <2>2. T \subseteq Nat /\ T # {} OBVIOUS
  <2> HIDE DEF R, T
  <2>3. \E x \in T : \A y \in T : ~(<<y, x>> \in R) BY <2>1, <2>2, WFMin
  <2> QED BY <2>3 DEF R, T
<1>2. m \in Nat /\ m \notin S /\ m # 0 /\ m - 1 \in Nat /\ m - 1 < m /\ (m - 1) + 1 = m OBVIOUS
<1>3. m - 1 \in S
  <2>1. <<m - 1, m>> \in OpToRel(<, Nat) BY <1>2 DEF OpToRel
  <2> QED BY <1>1, <1>2, <2>1
<1>4. (m - 1) + 1 \in S BY <1>2, <1>3
<1> QED BY <1>2, <1>4

YPlace == [chunk : YChunk \cup {YNull}, pos : 0..(YGranularity - 1)]
YOnward(nx) == [s \in YPlace |-> IF s.chunk = YNull THEN s ELSE YStepOn(nx, s)]

\* YWalk, as a function of the pointers.
YWalkBody(nx, b, g, n) == IF n = 0 THEN b ELSE YOnward(nx)[g[n - 1]]
YWalkOf(nx, b) == CHOOSE g : g = [n \in 0..YMaxSlots |-> YWalkBody(nx, b, g, n)]

\* The recursive function exists: it is extended slot by slot.
LEMMA YWalkExists ==
    ASSUME NEW nx, NEW b, NEW n \in Nat
    PROVE  \E g : g = [i \in 0..n |-> YWalkBody(nx, b, g, i)]
<1> DEFINE S == {m \in Nat : \E g : g = [i \in 0..m |-> YWalkBody(nx, b, g, i)]}
<1>1. 0 \in S
  <2> DEFINE g == [i \in 0..0 |-> b]
  <2>1. \A i \in 0..0 : YWalkBody(nx, b, g, i) = b BY DEF YWalkBody
  <2>2. g = [i \in 0..0 |-> YWalkBody(nx, b, g, i)] BY <2>1
  <2> QED BY <2>2
<1>2. ASSUME NEW m \in Nat, m \in S PROVE m + 1 \in S
  <2>1. PICK g : g = [i \in 0..m |-> YWalkBody(nx, b, g, i)] BY <1>2
  <2> DEFINE h == [i \in 0..(m + 1) |-> IF i <= m THEN g[i] ELSE YWalkBody(nx, b, g, i)]
  <2>2. ASSUME NEW i \in 0..(m + 1) PROVE h[i] = YWalkBody(nx, b, h, i)
    <3>1. h[i] = YWalkBody(nx, b, g, i)
      <4>1. CASE i <= m
        <5>1. i \in 0..m BY <4>1
        <5>2. g[i] = YWalkBody(nx, b, g, i) BY <2>1, <5>1
        <5> QED BY <4>1, <5>2
      <4> QED BY <4>1
    <3>2. i # 0 => h[i - 1] = g[i - 1] OBVIOUS
    <3> HIDE DEF h
    <3> QED BY <3>1, <3>2 DEF YWalkBody
  <2>3. h = [i \in 0..(m + 1) |-> h[i]] OBVIOUS
  <2> HIDE DEF h
  <2>4. h = [i \in 0..(m + 1) |-> YWalkBody(nx, b, h, i)] BY <2>2, <2>3
  <2> QED BY <2>4
<1>3. Nat \subseteq S
  <2> HIDE DEF S
  <2> QED BY <1>1, <1>2, YAllNumbers
<1> QED BY <1>3

\* A chain is no longer than there are slots.
LEMMA YChainFits ==
    ASSUME NEW nx, NEW pv, NEW sl, NEW m, YChain(nx, pv, sl, m)
    PROVE  YMaxSlots \in Nat /\ m <= YMaxSlots
<1> DEFINE P == 0..(YGranularity - 1)
           T == YChunk \X P
           h == [i \in 0..m |-> <<sl[i].chunk, sl[i].pos>>]
<1>1. m \in Nat /\ sl \in [0..m -> YSlot] BY DEF YChain
<1>2. YGranularity \in Nat /\ YGranularity # 0 BY YAssumption
<1>3. IsFiniteSet(P) /\ Cardinality(P) = YGranularity
  <2>1. 0 \in Int /\ YGranularity - 1 \in Int /\ ~(0 > YGranularity - 1) BY <1>2
  <2>2. (YGranularity - 1) - 0 + 1 = YGranularity BY <1>2
  <2> QED BY <2>1, <2>2, FS_Interval
<1>4. IsFiniteSet(YChunk) /\ Cardinality(YChunk) \in Nat BY YAssumption, FS_CardinalityType
<1>5. IsFiniteSet(T) /\ Cardinality(T) = Cardinality(YChunk) * Cardinality(P)
  <2> HIDE DEF P
  <2> QED BY <1>3, <1>4, FS_Product
<1>6. Cardinality(T) = YMaxSlots BY <1>3, <1>5 DEF YMaxSlots
<1>7. YMaxSlots \in Nat BY <1>5, <1>6, FS_CardinalityType
<1>8. h \in Injection(0..m, T)
  <2>1. h \in [0..m -> T] BY <1>1, YSlots
  <2>2. ASSUME NEW i \in 0..m, NEW j \in 0..m, h[i] = h[j] PROVE i = j
    <3>1. sl[i].chunk = sl[j].chunk /\ sl[i].pos = sl[j].pos BY <2>2
    <3>2. sl[i] = sl[j] BY <1>1, <3>1, YSlots
    <3> QED BY <3>2, YDifferent
  <2> HIDE DEF h, T
  <2> QED BY <2>1, <2>2 DEF Injection, IsInjective
<1>9. IsFiniteSet(0..m) /\ Cardinality(0..m) = m + 1
  <2>1. 0 \in Int /\ m \in Int /\ ~(0 > m) /\ m - 0 + 1 = m + 1 BY <1>1
  <2> QED BY <2>1, FS_Interval
<1>10. Cardinality(0..m) <= Cardinality(T)
  <2> HIDE DEF T, h
  <2> QED BY <1>5, <1>8, FS_Injection
<1> QED BY <1>1, <1>6, <1>7, <1>9, <1>10

\* From its first slot, the walk is along the chain.
LEMMA YWalkFollows ==
    ASSUME NEW nx, NEW pv, NEW sl, NEW m, YChain(nx, pv, sl, m)
    PROVE  \A i \in 0..m : YWalkOf(nx, sl[0])[i] = sl[i]
<1> DEFINE b == sl[0]
           W == YWalkOf(nx, b)
<1>0. m \in Nat BY DEF YChain
<1>1. YMaxSlots \in Nat /\ m <= YMaxSlots /\ m \in Nat BY <1>0, YChainFits
<1>2. W = [n \in 0..YMaxSlots |-> YWalkBody(nx, b, W, n)]
  <2>1. \E g : g = [n \in 0..YMaxSlots |-> YWalkBody(nx, b, g, n)] BY <1>1, YWalkExists
  <2> QED BY <2>1 DEF YWalkOf
<1>3. \A n \in 0..YMaxSlots : W[n] = YWalkBody(nx, b, W, n) BY <1>2
<1> HIDE DEF W
<1> DEFINE S == {i \in Nat : i <= m => W[i] = sl[i]}
<1>4. 0 \in S
  <2>1. W[0] = b BY <1>1, <1>3 DEF YWalkBody
  <2> QED BY <2>1
<1>5. ASSUME NEW i \in Nat, i \in S PROVE i + 1 \in S
  <2> SUFFICES ASSUME i + 1 <= m PROVE W[i + 1] = sl[i + 1] OBVIOUS
  <2>1. i + 1 \in 0..m /\ i \in 0..m /\ i + 1 \in 0..YMaxSlots /\ i + 1 # 0 /\ (i + 1) - 1 = i
    BY <1>1
  <2>2. W[i] = sl[i] BY <1>5, <2>1
  <2>3. W[i + 1] = YOnward(nx)[sl[i]] BY <1>3, <2>1, <2>2 DEF YWalkBody
  <2>4. sl[i] \in YSlot BY <2>1 DEF YChain
  <2>5. sl[i] \in YPlace /\ sl[i].chunk # YNull BY <2>4, YAssumption DEF YSlot, YPlace
  <2>6. W[i + 1] = YStepOn(nx, sl[i]) BY <2>3, <2>5 DEF YOnward
  <2> QED BY <2>1, <2>6 DEF YChain
<1>6. Nat \subseteq S
  <2> HIDE DEF S
  <2> QED BY <1>4, <1>5, YAllNumbers
<1> QED BY <1>1, <1>6 DEF W

\* YDistance, as a function of the pointers.
YFoundAt(nx, b, s) == {n \in 0..YMaxSlots : YWalkOf(nx, b)[n] = s}
YDistanceOf(nx, b, s) ==
    IF s = b THEN 0
    ELSE IF YFoundAt(nx, b, s) = {} THEN YMaxSlots + 1
    ELSE CHOOSE n \in YFoundAt(nx, b, s) : \A k \in YFoundAt(nx, b, s) : n <= k

\* A slot of the chain is as far from the front as the chain says.
LEMMA YDistanceIs ==
    ASSUME NEW nx, NEW pv, NEW sl, NEW m, YChain(nx, pv, sl, m), NEW i \in 0..m
    PROVE  YDistanceOf(nx, sl[0], sl[i]) = i
<1> DEFINE F == YFoundAt(nx, sl[0], sl[i])
<1>0. m \in Nat BY DEF YChain
<1>1. YMaxSlots \in Nat /\ m <= YMaxSlots /\ m \in Nat BY <1>0, YChainFits
<1>2. i \in F BY <1>1, YWalkFollows DEF YFoundAt
<1>3. ASSUME NEW k \in F PROVE k \in Nat /\ i <= k
  <2>1. k \in 0..YMaxSlots /\ YWalkOf(nx, sl[0])[k] = sl[i] BY DEF YFoundAt
  <2>2. CASE k <= m
    <3>1. k \in 0..m BY <1>1, <2>1, <2>2
    <3>2. sl[k] = sl[i] BY <2>1, <3>1, YWalkFollows
    <3> QED BY <3>1, <3>2, YDifferent
  <2> QED BY <1>1, <2>1, <2>2
<1> HIDE DEF F
<1>4. \A n \in F : (\A k \in F : n <= k) => n = i
  <2> SUFFICES ASSUME NEW n \in F, \A k \in F : n <= k PROVE n = i OBVIOUS
  <2>1. n <= i /\ i <= n /\ n \in Nat BY <1>2, <1>3
  <2> QED BY <2>1
<1>5. \A k \in F : i <= k BY <1>3
<1>6. (CHOOSE n \in F : \A k \in F : n <= k) = i BY <1>2, <1>4, <1>5
<1>7. CASE i = 0 BY <1>7 DEF YDistanceOf
<1>8. CASE i # 0
  <2>1. 0 \in 0..m BY <1>1
  <2>2. sl[i] # sl[0] BY <1>8, <2>1, YDifferent
  <2> QED BY <1>2, <1>6, <2>2 DEF F, YDistanceOf
<1> QED BY <1>7, <1>8

\* The definitions of the model are these functions.
LEMMA YWalkThen ==
    /\ YWalk = YWalkOf(yNext, yBegin) /\ YWalk' = YWalkOf(yNext', yBegin')
  BY DEF YWalk, YWalkOf, YWalkBody, YOnward, YPlace, YAdvance, YStepOn

\* Likewise of the distance.
LEMMA YDistanceThen ==
    /\ \A s : YDistance(s) = YDistanceOf(yNext, yBegin, s)
    /\ YDistance(yF)' = YDistanceOf(yNext', yBegin', yF')
    /\ YDistance(yW)' = YDistanceOf(yNext', yBegin', yW')
    /\ YDistance(yBack)' = YDistanceOf(yNext', yBegin', yBack')
<1>1. \A s : YDistance(s) = YDistanceOf(yNext, yBegin, s)
  BY YWalkThen DEF YDistance, YDistanceOf, YFoundAt
<1>2. YDistance(yF)' = YDistanceOf(yNext', yBegin', yF')
  BY YWalkThen DEF YDistance, YDistanceOf, YFoundAt
<1>3. YDistance(yW)' = YDistanceOf(yNext', yBegin', yW')
  BY YWalkThen DEF YDistance, YDistanceOf, YFoundAt
<1>4. YDistance(yBack)' = YDistanceOf(yNext', yBegin', yBack')
  BY YWalkThen DEF YDistance, YDistanceOf, YFoundAt
<1> QED BY <1>1, <1>2, <1>3, <1>4

-----------------------------------------------------------------------------
(* The inductive invariant *)

\* The pointers of the queue, and those of the pipe: w, f and r at their places in
\* the chain, c at w or NULL, and NULL only when everything flushed is read.
YPointers(sl, m, w, f) ==
    /\ m > 0 /\ sl[0] = yBegin /\ sl[m] = yEnd /\ sl[m - 1] = yBack
    /\ w \in Nat /\ f \in Nat /\ w <= f /\ f <= m - 1 /\ sl[w] = yW /\ sl[f] = yF
    /\ yR # YNull => \E r \in 0..w : yR = sl[r]
    /\ yC \in {yW, YNull}
    /\ yC = YNull => w = 0
    /\ yFlushing = TRUE => yC = YNull /\ w < f

\* What is allocated is the chain and the spare chunk, which is not in it; nothing
\* once the pipe is destroyed.
YMemory(sl, m) ==
    IF yLive = TRUE THEN /\ ySpare \notin YUsed(sl, m)
                         /\ yAllocated = YUsed(sl, m) \cup ({ySpare} \ {YNull})
                    ELSE yAllocated = {} /\ yFlushing = FALSE /\ yWakes = 0

YState(sl, m, w, f) ==
    /\ YChain(yNext, yPrev, sl, m)
    /\ YPointers(sl, m, w, f)
    /\ YMemory(sl, m)

YIInv == YTypeOK /\ \E sl, m, w, f : YState(sl, m, w, f)

\* The contents of the queue.
YContents(val, sl, m) == [i \in 1..(m - 1) |-> val[sl[i - 1]]]

\* A step of FlushQueue, or none, from one state of it to another.
YFqStep(items, complete, flushed, asleep, items2, complete2, flushed2, asleep2) ==
    \/ /\ \E v \in YItem, incomplete \in BOOLEAN :
            /\ items2 = Append(items, v)
            /\ complete2 = IF incomplete THEN complete ELSE Len(items) + 1
       /\ flushed2 = flushed /\ asleep2 = asleep
    \/ /\ complete < Len(items) /\ items2 = SubSeq(items, 1, Len(items) - 1)
       /\ complete2 = complete /\ flushed2 = flushed /\ asleep2 = asleep
    \/ /\ flushed < complete /\ flushed2 = complete /\ asleep2 = FALSE
       /\ items2 = items /\ complete2 = complete
    \/ /\ flushed = 0 /\ asleep = FALSE /\ asleep2 = TRUE
       /\ items2 = items /\ complete2 = complete /\ flushed2 = flushed
    \/ /\ flushed > 0 /\ asleep = FALSE /\ items2 = Tail(items)
       /\ complete2 = complete - 1 /\ flushed2 = flushed - 1 /\ asleep2 = asleep
    \/ items2 = items /\ complete2 = complete /\ flushed2 = flushed /\ asleep2 = asleep

\* The invariant in the next state, reached by a step of FlushQueue or none.
YGoesOn(sl, m, w, f, sl2, m2, w2, f2) ==
    /\ YState(sl2, m2, w2, f2)'
    /\ YFqStep(YContents(yVal, sl, m), f, w, yC = YNull,
               YContents(yVal', sl2, m2), f2, w2, yC' = YNull)

YVals(V) == [YSlot -> V]
YRow(m) == [0..m -> YSlot]

\* The contents are a sequence.
LEMMA YContentsSeq ==
    ASSUME NEW V, NEW val \in YVals(V), NEW m \in Nat, m > 0, NEW sl \in YRow(m)
    PROVE  /\ YContents(val, sl, m) \in Seq(V) /\ Len(YContents(val, sl, m)) = m - 1
           /\ \A i \in 1..(m - 1) : YContents(val, sl, m)[i] = val[sl[i - 1]]
<1>1. \A i \in 1..(m - 1) : i - 1 \in 0..m OBVIOUS
<1>2. \A i \in 1..(m - 1) : val[sl[i - 1]] \in V BY <1>1 DEF YVals, YRow
<1>3. m - 1 \in Nat OBVIOUS
<1>4. YContents(val, sl, m) \in [1..(m - 1) -> V] BY <1>2 DEF YContents
<1>5. YContents(val, sl, m) \in Seq(V) BY <1>3, <1>4, SeqDef
<1> QED BY <1>3, <1>5 DEF YContents

\* What a state gives.
LEMMA YFacts ==
    ASSUME NEW sl, NEW m, NEW w, NEW f, YState(sl, m, w, f)
    PROVE  /\ m \in Nat /\ m > 0 /\ m - 1 \in Nat /\ sl \in [0..m -> YSlot]
           /\ 0 \in 0..m /\ m \in 0..m /\ m - 1 \in 0..m /\ w \in 0..m /\ f \in 0..m
           /\ {yBegin, yEnd, yBack, yW, yF} \subseteq YSlot
           /\ yW # YNull /\ yF # YNull /\ yBegin # YNull
           /\ Len(YContents(yVal, sl, m)) = m - 1
<1>1. m \in Nat /\ sl \in [0..m -> YSlot] BY DEF YState, YChain
<1>2. m > 0 /\ w \in Nat /\ f \in Nat /\ w <= f /\ f <= m - 1 BY DEF YState, YPointers
<1>3. m - 1 \in Nat /\ 0 \in 0..m /\ m \in 0..m /\ m - 1 \in 0..m /\ w \in 0..m /\ f \in 0..m
  BY <1>1, <1>2
<1>4. {yBegin, yEnd, yBack, yW, yF} \subseteq YSlot BY <1>1, <1>3 DEF YState, YPointers
<1>5. YNull \notin YSlot BY YAssumption
<1>6. Len(YContents(yVal, sl, m)) = m - 1 BY <1>3 DEF YContents
<1> QED BY <1>1, <1>2, <1>3, <1>4, <1>5, <1>6

\* flush, and the wake-up of the reader.
LEMMA YFlushGoesOn ==
    ASSUME YTypeOK, NEW sl, NEW m, NEW w, NEW f, YState(sl, m, w, f), YFlushCas \/ YFlushSet \/ YWake
    PROVE  \E sl2, m2, w2, f2 : YGoesOn(sl, m, w, f, sl2, m2, w2, f2)
<1>1. /\ yVal' = yVal /\ yPrev' = yPrev /\ yNext' = yNext /\ yAllocated' = yAllocated
      /\ yBegin' = yBegin /\ yBack' = yBack /\ yEnd' = yEnd /\ ySpare' = ySpare
      /\ yF' = yF /\ yR' = yR /\ yLive' = yLive
  BY DEF YFlushCas, YFlushSet, YWake
<1>2. YChain(yNext, yPrev, sl, m)' BY <1>1 DEF YState
<1>3. YContents(yVal', sl, m) = YContents(yVal, sl, m) BY <1>1
<1>4. yW # YNull /\ yF # YNull /\ w \in 0..m /\ f \in 0..m /\ m \in Nat BY YFacts
<1>p. YPointers(sl, m, w, f) /\ YMemory(sl, m) BY DEF YState
<1>5. CASE yC' = yF /\ yW' = yF /\ yFlushing' = FALSE /\ w # f /\ yLive = TRUE
  <2>1. YPointers(sl, m, f, f)'
    <3>1. yR # YNull => \E r \in 0..f : yR = sl[r] BY <1>p, <1>4 DEF YPointers
    <3> QED BY <1>1, <1>5, <1>p, <1>4, <3>1 DEF YPointers
  <2>2. YMemory(sl, m)' BY <1>1, <1>5, <1>p DEF YMemory
  <2>3. w < f BY <1>5, <1>p, <1>4 DEF YPointers
  <2>4. YFqStep(YContents(yVal, sl, m), f, w, yC = YNull,
                YContents(yVal', sl, m), f, f, yC' = YNull)
    BY <1>3, <1>4, <1>5, <2>3 DEF YFqStep
  <2>5. YGoesOn(sl, m, w, f, sl, m, f, f) BY <1>2, <2>1, <2>2, <2>4 DEF YGoesOn, YState
  <2> QED BY <2>5
<1>6. CASE yC' = yC /\ yW' = yW /\ (yFlushing' = TRUE => yC = YNull /\ w < f)
           /\ (yLive # TRUE => yFlushing' = FALSE /\ yWakes' = 0)
  <2>1. YPointers(sl, m, w, f)' BY <1>1, <1>6, <1>p DEF YPointers
  <2>2. YMemory(sl, m)' BY <1>1, <1>6, <1>p DEF YMemory
  <2>3. YFqStep(YContents(yVal, sl, m), f, w, yC = YNull,
                YContents(yVal', sl, m), f, w, yC' = YNull)
    BY <1>3, <1>6 DEF YFqStep
  <2>4. YGoesOn(sl, m, w, f, sl, m, w, f) BY <1>2, <2>1, <2>2, <2>3 DEF YGoesOn, YState
  <2> QED BY <2>4
<1>7. CASE YFlushCas
  <2>1. yLive = TRUE /\ yFlushing = FALSE /\ yW # yF BY <1>7 DEF YFlushCas, YTypeOK
  <2>2. w # f BY <1>p, <2>1 DEF YPointers
  <2>3. CASE yC = yW BY <1>5, <1>7, <2>1, <2>2, <2>3 DEF YFlushCas
  <2>4. CASE yC # yW
    <3>1. yC = YNull /\ w < f BY <1>4, <1>p, <2>2, <2>4 DEF YPointers
    <3> QED BY <1>6, <1>7, <2>1, <2>4, <3>1 DEF YFlushCas
  <2> QED BY <2>3, <2>4
<1>8. CASE YFlushSet
  <2>1. yFlushing = TRUE BY <1>8 DEF YFlushSet, YTypeOK
  <2>2. w # f /\ yLive = TRUE BY <1>4, <1>p, <2>1 DEF YPointers, YMemory
  <2> QED BY <1>5, <1>8, <2>2 DEF YFlushSet
<1>9. CASE YWake
  <2>1. yWakes # 0 /\ yFlushing' = yFlushing /\ yC' = yC /\ yW' = yW BY <1>9 DEF YWake, YTypeOK
  <2>2. yLive = TRUE BY <1>p, <2>1 DEF YMemory
  <2> QED BY <1>6, <1>p, <2>1, <2>2 DEF YPointers
<1> QED BY <1>7, <1>8, <1>9

\* check_read: the reader sees what was flushed, or sleeps.
LEMMA YCheckReadGoesOn ==
    ASSUME YTypeOK, NEW sl, NEW m, NEW w, NEW f, YState(sl, m, w, f), YCheckRead
    PROVE  \E sl2, m2, w2, f2 : YGoesOn(sl, m, w, f, sl2, m2, w2, f2)
<1>1. /\ yVal' = yVal /\ yPrev' = yPrev /\ yNext' = yNext /\ yAllocated' = yAllocated
      /\ yBegin' = yBegin /\ yBack' = yBack /\ yEnd' = yEnd /\ ySpare' = ySpare
      /\ yF' = yF /\ yW' = yW /\ yLive' = yLive /\ yFlushing' = yFlushing /\ yWakes' = yWakes
      /\ yR' = yC /\ yC' = IF yC = yBegin THEN YNull ELSE yC
  BY DEF YCheckRead
<1>2. YChain(yNext, yPrev, sl, m)' BY <1>1 DEF YState
<1>3. YContents(yVal', sl, m) = YContents(yVal, sl, m) BY <1>1
<1>4. /\ yW # YNull /\ yF # YNull /\ yBegin # YNull /\ w \in 0..m /\ f \in 0..m /\ m \in Nat
      /\ 0 \in 0..m
  BY YFacts
<1>p. YPointers(sl, m, w, f) /\ YMemory(sl, m) BY DEF YState
<1>5. yC = yBegin => w = 0 /\ yC # YNull
  <2> SUFFICES ASSUME yC = yBegin PROVE w = 0 /\ yC # YNull OBVIOUS
  <2>1. yC = yW BY <1>4, <1>p DEF YPointers
  <2>2. sl[w] = sl[0] BY <1>p, <2>1 DEF YPointers
  <2>3. YChain(yNext, yPrev, sl, m) BY DEF YState
  <2> QED BY <1>4, <2>1, <2>2, <2>3, YDifferent
<1>6. yR' # YNull => \E r \in 0..w : yR' = sl[r]
  BY <1>1, <1>4, <1>p DEF YPointers
<1>7. yC' \in {yW, YNull} /\ (yC' = YNull => w = 0) BY <1>1, <1>5, <1>p DEF YPointers
<1>8. yFlushing = TRUE => yC' = YNull /\ w < f BY <1>1, <1>p DEF YPointers
<1>9. YPointers(sl, m, w, f)' BY <1>1, <1>6, <1>7, <1>8, <1>p DEF YPointers
<1>10. YMemory(sl, m)' BY <1>1, <1>p DEF YMemory
<1>11. YFqStep(YContents(yVal, sl, m), f, w, yC = YNull,
               YContents(yVal', sl, m), f, w, yC' = YNull)
  <2>1. CASE yC = yBegin BY <1>1, <1>3, <1>5, <2>1 DEF YFqStep
  <2>2. CASE yC # yBegin BY <1>1, <1>3, <2>2 DEF YFqStep
  <2> QED BY <2>1, <2>2
<1>12. YGoesOn(sl, m, w, f, sl, m, w, f) BY <1>2, <1>9, <1>10, <1>11 DEF YGoesOn, YState
<1> QED BY <1>12

\* The push of a write stays in the chunk or links another one.
LEMMA YPushGoesOn ==
    ASSUME YTypeOK, NEW sl, NEW m, NEW w, NEW f, YState(sl, m, w, f), yLive = TRUE, YPush
    PROVE  \E s \in YSlot :
            /\ yEnd' = s /\ yBack' = yEnd
            /\ YChain(yNext', yPrev', YLonger(sl, m, s), m + 1)
            /\ ySpare' \notin YUsed(YLonger(sl, m, s), m + 1)
            /\ yAllocated' = YUsed(YLonger(sl, m, s), m + 1) \cup ({ySpare'} \ {YNull})
<1>1. YChain(yNext, yPrev, sl, m) /\ sl[m] = yEnd /\ m \in Nat /\ sl \in [0..m -> YSlot]
  BY YFacts DEF YState, YPointers
<1>2. /\ ySpare \notin YUsed(sl, m) /\ yAllocated = YUsed(sl, m) \cup ({ySpare} \ {YNull})
  BY DEF YState, YMemory
<1>3. CASE yEnd.pos + 1 # YGranularity
  <2> DEFINE s == YAt(sl[m].chunk, sl[m].pos + 1)
  <2>1. /\ yEnd' = s /\ yPrev' = yPrev /\ yNext' = yNext /\ yAllocated' = yAllocated
        /\ ySpare' = ySpare /\ yBack' = yEnd
    BY <1>1, <1>3 DEF YPush
  <2>2. /\ s \in YSlot /\ YChain(yNext, yPrev, YLonger(sl, m, s), m + 1)
        /\ YUsed(YLonger(sl, m, s), m + 1) = YUsed(sl, m)
    BY <1>1, <1>3, YGrowsWithin
  <2> HIDE DEF s
  <2> QED BY <1>2, <2>1, <2>2
<1>4. CASE yEnd.pos + 1 = YGranularity
  <2>1. PICK sc \in IF ySpare # YNull THEN {ySpare} ELSE YChunk \ yAllocated :
            /\ ySpare' = YNull
            /\ yAllocated' = yAllocated \cup {sc}
            /\ yNext' = [yNext EXCEPT ![yEnd.chunk] = sc]
            /\ yPrev' = [yPrev EXCEPT ![sc] = yEnd.chunk]
            /\ yEnd' = YAt(sc, 0)
    BY <1>4 DEF YPush
  <2>2. sc \in YChunk /\ sc \notin YUsed(sl, m) /\ yAllocated \cup {sc} = YUsed(sl, m) \cup {sc}
    BY <1>2 DEF YTypeOK
  <2>3. yNext \in YLinks /\ yPrev \in YLinks BY DEF YTypeOK, YLinks
  <2> DEFINE s == YAt(sc, 0)
  <2>4. /\ s \in YSlot
        /\ YChain(YLink(yNext, sl[m].chunk, sc), YLink(yPrev, sc, sl[m].chunk),
                  YLonger(sl, m, s), m + 1)
        /\ YUsed(YLonger(sl, m, s), m + 1) = YUsed(sl, m) \cup {sc}
    BY <1>1, <1>4, <2>2, <2>3, YGrowsByChunk
  <2>5. yEnd' = s /\ yBack' = yEnd BY <2>1 DEF YPush
  <2> HIDE DEF s
  <2>6. YChain(yNext', yPrev', YLonger(sl, m, s), m + 1) BY <1>1, <2>1, <2>4 DEF YLink
  <2>7. yAllocated' = YUsed(YLonger(sl, m, s), m + 1) BY <2>1, <2>2, <2>4
  <2>8. YNull \notin YUsed(YLonger(sl, m, s), m + 1)
    <3>1. \A c \in YUsed(sl, m) : c \in YChunk BY <1>1, YSlots DEF YUsed
    <3> QED BY <2>2, <2>4, <3>1, YAssumption
  <2> QED BY <2>1, <2>4, <2>5, <2>6, <2>7, <2>8
<1> QED BY <1>3, <1>4

\* write: one item more, complete or not.
LEMMA YWriteGoesOn ==
    ASSUME YTypeOK, NEW sl, NEW m, NEW w, NEW f, YState(sl, m, w, f), YWrite
    PROVE  \E sl2, m2, w2, f2 : YGoesOn(sl, m, w, f, sl2, m2, w2, f2)
<1>1. /\ yLive = TRUE /\ yFlushing = FALSE /\ YPush
      /\ yBegin' = yBegin /\ yW' = yW /\ yR' = yR /\ yC' = yC /\ yFlushing' = FALSE
      /\ yLive' = TRUE
  BY DEF YWrite, YTypeOK
<1>2. PICK v \in YItem, incomplete \in BOOLEAN :
        /\ yVal' = [yVal EXCEPT ![yBack] = v]
        /\ yF' = IF incomplete THEN yF ELSE yBack'
  BY DEF YWrite
<1>3. PICK s \in YSlot :
        /\ yEnd' = s /\ yBack' = yEnd
        /\ YChain(yNext', yPrev', YLonger(sl, m, s), m + 1)
        /\ ySpare' \notin YUsed(YLonger(sl, m, s), m + 1)
        /\ yAllocated' = YUsed(YLonger(sl, m, s), m + 1) \cup ({ySpare'} \ {YNull})
  BY <1>1, YPushGoesOn
<1> DEFINE t == YLonger(sl, m, s)
<1>4. /\ m \in Nat /\ m > 0 /\ sl \in [0..m -> YSlot] /\ w \in 0..m /\ f \in 0..m
      /\ Len(YContents(yVal, sl, m)) = m - 1 /\ m - 1 \in 0..m /\ 0 \in 0..m /\ m \in 0..m
  BY YFacts
<1>p. YPointers(sl, m, w, f) BY DEF YState
<1>5. /\ \A i \in 0..m : t[i] = sl[i]
      /\ t[m + 1] = s
  BY <1>4 DEF YLonger
<1> HIDE DEF t
<1>6. (m + 1) - 1 = m /\ m + 1 > 0 /\ m \in Nat BY <1>4
<1> DEFINE f2 == IF incomplete THEN f ELSE m
<1>7. f2 \in Nat /\ w <= f2 /\ f2 <= m /\ f2 \in 0..m BY <1>4, <1>p DEF YPointers
<1>8. t[f2] = yF'
  <2>1. CASE incomplete = TRUE BY <1>2, <1>4, <1>5, <1>p, <2>1 DEF YPointers
  <2>2. CASE incomplete = FALSE BY <1>2, <1>3, <1>4, <1>5, <1>p, <2>2 DEF YPointers
  <2> QED BY <2>1, <2>2
<1> HIDE DEF f2
<1>9. \A r \in 0..w : r \in 0..m BY <1>4
<1>10. YPointers(t, m + 1, w, f2)'
  <2>1. t[0] = yBegin' /\ t[m + 1] = yEnd' /\ t[m] = yBack' /\ t[w] = yW'
    BY <1>1, <1>3, <1>4, <1>5, <1>p DEF YPointers
  <2>2. yR' # YNull => \E r \in 0..w : yR' = t[r] BY <1>1, <1>5, <1>9, <1>p DEF YPointers
  <2>3. yC' \in {yW', YNull} /\ (yC' = YNull => w = 0) /\ w \in Nat BY <1>1, <1>p DEF YPointers
  <2> QED BY <1>1, <1>6, <1>7, <1>8, <2>1, <2>2, <2>3 DEF YPointers
<1>11. YMemory(t, m + 1)' BY <1>1, <1>3 DEF YMemory, t
<1>12. YState(t, m + 1, w, f2)' BY <1>3, <1>10, <1>11 DEF YState, t
<1>13. YContents(yVal', t, m + 1) = Append(YContents(yVal, sl, m), v)
  <2>1. \A i \in 1..(m - 1) : yVal'[t[i - 1]] = yVal[sl[i - 1]]
    <3> SUFFICES ASSUME NEW i \in 1..(m - 1) PROVE yVal'[t[i - 1]] = yVal[sl[i - 1]] OBVIOUS
    <3>1. i - 1 \in 0..m /\ i - 1 # m - 1 BY <1>4
    <3>2. sl[i - 1] # sl[m - 1]
      <4>1. YChain(yNext, yPrev, sl, m) BY DEF YState
      <4> QED BY <1>4, <3>1, <4>1, YDifferent
    <3>3. sl[i - 1] # yBack BY <1>p, <3>2 DEF YPointers
    <3> QED BY <1>2, <1>5, <3>1, <3>3 DEF YTypeOK
  <2>2. yVal'[t[m - 1]] = v
    <3>1. t[m - 1] = yBack /\ yBack \in YSlot BY <1>4, <1>5, <1>p DEF YPointers
    <3> QED BY <1>2, <3>1 DEF YTypeOK
  <2> DEFINE a == YContents(yVal, sl, m)
             c == YContents(yVal', t, m + 1)
  <2>3. a = [i \in 1..(m - 1) |-> a[i]] /\ c = [i \in 1..m |-> c[i]] BY <1>6 DEF YContents
  <2>4. \A i \in 1..m : c[i] = yVal'[t[i - 1]] BY <1>6 DEF YContents
  <2>5. \A i \in 1..(m - 1) : a[i] = yVal[sl[i - 1]] BY DEF YContents
  <2> HIDE DEF a, c
  <2>6. c = [i \in 1..m |-> IF i = m THEN v ELSE a[i]]
    <3>1. \A i \in 1..m : i = m \/ i \in 1..(m - 1) BY <1>4
    <3>2. \A i \in 1..m : c[i] = IF i = m THEN v ELSE a[i] BY <1>4, <2>1, <2>2, <2>4, <2>5, <3>1
    <3> QED BY <2>3, <3>2
  <2>7. Len(a) = m - 1 BY <1>4, <2>3
  <2>8. Append(a, v) = [i \in 1..(Len(a) + 1) |-> IF i = Len(a) + 1 THEN v ELSE a[i]]
    BY <1>4, <2>3, <2>7
  <2> QED BY <1>4, <2>6, <2>7, <2>8 DEF a, c
<1>14. YFqStep(YContents(yVal, sl, m), f, w, yC = YNull,
               YContents(yVal', t, m + 1), f2, w, yC' = YNull)
  <2>1. (yC' = YNull) = (yC = YNull) BY <1>1
  <2>2. f2 = IF incomplete THEN f ELSE Len(YContents(yVal, sl, m)) + 1 BY <1>4 DEF f2
  <2> QED BY <1>13, <2>1, <2>2 DEF YFqStep
<1>15. YGoesOn(sl, m, w, f, t, m + 1, w, f2) BY <1>12, <1>14 DEF YGoesOn
<1> QED BY <1>15

\* unwrite: the last slot is given up, perhaps with its chunk.
LEMMA YUnwriteGoesOn ==
    ASSUME YTypeOK, NEW sl, NEW m, NEW w, NEW f, YState(sl, m, w, f), YUnwrite
    PROVE  \E sl2, m2, w2, f2 : YGoesOn(sl, m, w, f, sl2, m2, w2, f2)
<1>1. /\ yLive = TRUE /\ yFlushing = FALSE /\ yF # yBack
      /\ yBegin' = yBegin /\ yW' = yW /\ yR' = yR /\ yC' = yC /\ yFlushing' = FALSE
      /\ yF' = yF /\ yLive' = TRUE /\ ySpare' = ySpare /\ yPrev' = yPrev
      /\ yBack' = YRetreat(yBack) /\ yEnd' = YRetreat(yEnd)
      /\ yVal' = [yVal EXCEPT ![yBack'] = YNull]
  BY DEF YUnwrite, YUnpush, YTypeOK
<1>2. /\ m \in Nat /\ m > 0 /\ sl \in [0..m -> YSlot] /\ w \in 0..m /\ f \in 0..m
      /\ Len(YContents(yVal, sl, m)) = m - 1 /\ m - 1 \in 0..m /\ m \in 0..m /\ 0 \in 0..m
  BY YFacts
<1>p. YPointers(sl, m, w, f) BY DEF YState
<1>c. YChain(yNext, yPrev, sl, m) BY DEF YState
<1>m. /\ ySpare \notin YUsed(sl, m) /\ yAllocated = YUsed(sl, m) \cup ({ySpare} \ {YNull})
  BY <1>1 DEF YState, YMemory
<1>3. f < m - 1
  <2>1. f # m - 1 BY <1>1, <1>p DEF YPointers
  <2> QED BY <1>2, <1>p, <2>1 DEF YPointers
<1>4. m - 1 \in Nat /\ m - 1 > 0 /\ (m - 1) - 1 = m - 2 /\ m - 2 \in 0..m /\ m - 1 # 0 BY <1>2, <1>3
<1>5. yEnd' = sl[m - 1] /\ yBack' = sl[m - 2]
  <2>1. sl[m - 1] = YStepBack(yPrev, sl[m]) BY <1>2, <1>c DEF YChain
  <2>2. sl[m - 2] = YStepBack(yPrev, sl[m - 1]) BY <1>2, <1>4, <1>c DEF YChain
  <2> QED BY <1>1, <1>p, <2>1, <2>2 DEF YPointers, YRetreat, YStepBack
<1> DEFINE t == YShorter(sl, m)
<1>6. /\ YChain(yNext', yPrev', t, m - 1)
      /\ ySpare' \notin YUsed(t, m - 1)
      /\ yAllocated' = YUsed(t, m - 1) \cup ({ySpare'} \ {YNull})
  <2>1. CASE sl[m].pos # 0
    <3>1. yNext' = yNext /\ yAllocated' = yAllocated
      BY <1>p, <2>1 DEF YPointers, YUnwrite, YUnpush
    <3>2. YChain(yNext, yPrev, t, m - 1) /\ YUsed(t, m - 1) = YUsed(sl, m)
      BY <1>2, <1>c, <2>1, YShrinksWithin
    <3> HIDE DEF t
    <3> QED BY <1>1, <1>m, <3>1, <3>2
  <2>2. CASE sl[m].pos = 0
    <3>1. yNext \in YLinks BY DEF YTypeOK, YLinks
    <3>2. /\ yPrev[sl[m].chunk] = sl[m - 1].chunk /\ yNext[sl[m - 1].chunk] = sl[m].chunk
          /\ YChain(YLink(yNext, sl[m - 1].chunk, YNull), yPrev, t, m - 1)
          /\ YUsed(t, m - 1) = YUsed(sl, m) \ {sl[m].chunk}
      BY <1>2, <1>c, <2>2, <3>1, YShrinksByChunk
    <3> HIDE DEF t
    <3>3. yNext' = YLink(yNext, sl[m - 1].chunk, YNull)
      BY <1>p, <2>2, <3>2 DEF YPointers, YUnwrite, YUnpush, YLink
    <3>4. yAllocated' = yAllocated \ {sl[m].chunk}
      BY <1>p, <2>2, <3>2 DEF YPointers, YUnwrite, YUnpush
    <3>5. ySpare # sl[m].chunk BY <1>2, <1>m DEF YUsed
    <3> QED BY <1>1, <1>m, <3>2, <3>3, <3>4, <3>5
  <2> QED BY <2>1, <2>2
<1>7. \A i \in 0..(m - 1) : t[i] = sl[i] BY <1>4 DEF YShorter
<1> HIDE DEF t
<1>8. w \in 0..(m - 1) /\ f \in 0..(m - 1) /\ 0 \in 0..(m - 1) /\ f <= (m - 1) - 1
      /\ m - 1 \in 0..(m - 1) /\ (m - 1) - 1 \in 0..(m - 1)
  BY <1>2, <1>3, <1>p DEF YPointers
<1>9. YPointers(t, m - 1, w, f)'
  <2>1. t[0] = yBegin' /\ t[m - 1] = yEnd' /\ t[(m - 1) - 1] = yBack' /\ t[w] = yW' /\ t[f] = yF'
    BY <1>1, <1>4, <1>5, <1>7, <1>8, <1>p DEF YPointers
  <2>2. yR' # YNull => \E r \in 0..w : yR' = t[r]
    <3>1. \A r \in 0..w : r \in 0..(m - 1) BY <1>4, <1>8
    <3> QED BY <1>1, <1>7, <1>p, <3>1 DEF YPointers
  <2>3. yC' \in {yW', YNull} /\ (yC' = YNull => w = 0) /\ w \in Nat /\ f \in Nat /\ w <= f
    BY <1>1, <1>p DEF YPointers
  <2> QED BY <1>1, <1>4, <1>8, <2>1, <2>2, <2>3 DEF YPointers
<1>10. YMemory(t, m - 1)' BY <1>1, <1>6 DEF YMemory
<1>11. YState(t, m - 1, w, f)' BY <1>6, <1>9, <1>10 DEF YState
<1>12. YContents(yVal', t, m - 1) = SubSeq(YContents(yVal, sl, m), 1, (m - 1) - 1)
  <2>1. \A i \in 1..(m - 2) : yVal'[t[i - 1]] = yVal[sl[i - 1]]
    <3> SUFFICES ASSUME NEW i \in 1..(m - 2) PROVE yVal'[t[i - 1]] = yVal[sl[i - 1]] OBVIOUS
    <3>1. i - 1 \in 0..m /\ i - 1 # m - 2 /\ i - 1 \in 0..(m - 1) BY <1>2, <1>4
    <3>2. sl[i - 1] # sl[m - 2] BY <1>4, <1>c, <3>1, YDifferent
    <3>3. sl[i - 1] # yBack' BY <1>5, <3>2
    <3>4. sl[i - 1] \in YSlot BY <1>2, <3>1
    <3> QED BY <1>1, <1>7, <3>1, <3>3, <3>4 DEF YTypeOK
  <2> DEFINE a == YContents(yVal, sl, m)
             c == YContents(yVal', t, m - 1)
             V == YItem \cup {YNull}
  <2>2. yVal \in YVals(V) /\ yVal' \in YVals(V) BY <1>1 DEF YTypeOK, YVals
  <2>3. t \in YRow(m - 1) /\ sl \in YRow(m) BY <1>2, <1>6 DEF YChain, YRow
  <2> HIDE DEF V
  <2>4. a \in Seq(V) /\ Len(a) = m - 1 /\ \A i \in 1..(m - 1) : a[i] = yVal[sl[i - 1]]
    BY <1>2, <2>2, <2>3, YContentsSeq
  <2>5. c \in Seq(V) /\ Len(c) = (m - 1) - 1 /\ \A i \in 1..((m - 1) - 1) : c[i] = yVal'[t[i - 1]]
    BY <1>4, <2>2, <2>3, YContentsSeq
  <2> HIDE DEF a, c
  <2>6. \A i \in 1..(m - 2) : i \in 1..(m - 1) /\ 1 + i - 1 = i BY <1>2, <1>4
  <2> DEFINE d == SubSeq(a, 1, m - 2)
  <2>7. d \in Seq(V) /\ Len(d) = m - 2 /\ \A i \in 1..(m - 2) : d[i] = a[i]
    <3>1. 1 \in Int /\ m - 2 \in Int /\ \A i \in 1..(m - 2) : a[i] \in V
      BY <1>2, <2>4, <2>6, ElementOfSeq
    <3>2. /\ d \in Seq(V) /\ Len(d) = IF 1 <= m - 2 THEN (m - 2) - 1 + 1 ELSE 0
          /\ \A i \in 1..((m - 2) - 1 + 1) : d[i] = a[1 + i - 1]
      BY <3>1, SubSeqProperties
    <3>3. (m - 2) - 1 + 1 = m - 2 /\ (~(1 <= m - 2) => m - 2 = 0) BY <1>2, <1>4
    <3> HIDE DEF d
    <3> QED BY <2>6, <3>2, <3>3
  <2> HIDE DEF d
  <2>8. ASSUME NEW i \in 1..Len(d) PROVE d[i] = c[i]
    <3>1. i \in 1..(m - 2) /\ i \in 1..(m - 1) BY <2>6, <2>7
    <3>2. c[i] = yVal'[t[i - 1]] BY <1>4, <2>5, <3>1
    <3>3. d[i] = yVal[sl[i - 1]] BY <2>4, <2>7, <3>1
    <3> QED BY <2>1, <3>1, <3>2, <3>3
  <2>9. d = c BY <1>4, <2>5, <2>7, <2>8, SeqEqual
  <2> QED BY <1>4, <2>9 DEF a, c, d
<1>13. YFqStep(YContents(yVal, sl, m), f, w, yC = YNull,
               YContents(yVal', t, m - 1), f, w, yC' = YNull)
  <2>1. (yC' = YNull) = (yC = YNull) BY <1>1
  <2> QED BY <1>2, <1>3, <1>12, <2>1 DEF YFqStep
<1>14. YGoesOn(sl, m, w, f, t, m - 1, w, f) BY <1>11, <1>13 DEF YGoesOn
<1> QED BY <1>14

\* read: the first slot is left behind, perhaps with its chunk, which becomes the spare one.
LEMMA YReadGoesOn ==
    ASSUME YTypeOK, NEW sl, NEW m, NEW w, NEW f, YState(sl, m, w, f), YRead
    PROVE  \E sl2, m2, w2, f2 : YGoesOn(sl, m, w, f, sl2, m2, w2, f2)
<1>1. /\ yLive = TRUE /\ yBegin # yR /\ yR # YNull
      /\ yNext' = yNext /\ yBack' = yBack /\ yEnd' = yEnd /\ yW' = yW /\ yF' = yF /\ yR' = yR
      /\ yC' = yC /\ yFlushing' = yFlushing /\ yLive' = TRUE
      /\ yBegin' = YAdvance(yBegin)
      /\ yVal' = [yVal EXCEPT ![yBegin] = YNull]
  BY DEF YRead, YPop, YPrefetched, YTypeOK
<1>2. /\ m \in Nat /\ m > 0 /\ sl \in [0..m -> YSlot] /\ w \in 0..m /\ f \in 0..m
      /\ Len(YContents(yVal, sl, m)) = m - 1 /\ m - 1 \in 0..m /\ m \in 0..m /\ 0 \in 0..m
      /\ yBegin \in YSlot
  BY YFacts
<1>p. YPointers(sl, m, w, f) BY DEF YState
<1>c. YChain(yNext, yPrev, sl, m) BY DEF YState
<1>m. /\ ySpare \notin YUsed(sl, m) /\ yAllocated = YUsed(sl, m) \cup ({ySpare} \ {YNull})
  BY <1>1 DEF YState, YMemory
<1>3. PICK r \in 0..w : yR = sl[r] BY <1>1, <1>p DEF YPointers
<1>4. r # 0 BY <1>1, <1>3, <1>p DEF YPointers
<1>5. r > 0 /\ w > 0 /\ f > 0 /\ m > 1 /\ w <= f /\ f <= m - 1 /\ yC # YNull
  BY <1>2, <1>3, <1>4, <1>p DEF YPointers
<1>6. m - 1 \in Nat /\ m - 1 > 0 /\ 1 \in 0..m /\ 1 # 0 /\ 1 - 1 = 0 BY <1>2, <1>5
<1>7. yBegin' = sl[1]
  <2>1. sl[1] = YStepOn(yNext, sl[0]) BY <1>6, <1>c DEF YChain
  <2> QED BY <1>1, <1>p, <2>1 DEF YPointers, YAdvance, YStepOn
<1> DEFINE t == YLater(sl, m)
<1>8. /\ YChain(yNext', yPrev', t, m - 1)
      /\ ySpare' \notin YUsed(t, m - 1)
      /\ yAllocated' = YUsed(t, m - 1) \cup ({ySpare'} \ {YNull})
  <2>1. CASE sl[0].pos + 1 # YGranularity
    <3>1. yPrev' = yPrev /\ yAllocated' = yAllocated /\ ySpare' = ySpare
      BY <1>p, <2>1 DEF YPointers, YRead, YPop
    <3>2. YChain(yNext, yPrev, t, m - 1) /\ YUsed(t, m - 1) = YUsed(sl, m)
      BY <1>2, <1>c, <2>1, YPopsWithin
    <3> HIDE DEF t
    <3> QED BY <1>1, <1>m, <3>1, <3>2
  <2>2. CASE sl[0].pos + 1 = YGranularity
    <3>1. yPrev \in YLinks BY DEF YTypeOK, YLinks
    <3>2. /\ yNext[sl[0].chunk] = sl[1].chunk
          /\ YChain(yNext, YLink(yPrev, yNext[sl[0].chunk], YNull), t, m - 1)
          /\ YUsed(t, m - 1) = YUsed(sl, m) \ {sl[0].chunk}
      BY <1>2, <1>c, <2>2, <3>1, YPopsChunk
    <3> HIDE DEF t
    <3>3. /\ yPrev' = YLink(yPrev, yNext[sl[0].chunk], YNull)
          /\ ySpare' = sl[0].chunk /\ yAllocated' = yAllocated \ {ySpare}
      BY <1>p, <2>2, <3>2 DEF YPointers, YRead, YPop, YLink
    <3>4. sl[0].chunk \in YUsed(sl, m) BY <1>2 DEF YUsed
    <3>5. sl[0].chunk # YNull
      <4>1. sl[0].chunk \in YChunk BY <1>2, YSlots
      <4> QED BY <4>1, YAssumption
    <3> QED BY <1>1, <1>m, <3>2, <3>3, <3>4, <3>5
  <2> QED BY <2>1, <2>2
<1>9. \A i \in 0..(m - 1) : t[i] = sl[i + 1] BY <1>6 DEF YLater
<1> HIDE DEF t
<1>10. ASSUME NEW i \in 1..m PROVE t[i - 1] = sl[i]
  <2>1. i - 1 \in 0..(m - 1) /\ (i - 1) + 1 = i BY <1>2
  <2> QED BY <1>9, <2>1
<1>11. YPointers(t, m - 1, w - 1, f - 1)'
  <2>1. w \in 1..m /\ f \in 1..m /\ m \in 1..m /\ m - 1 \in 1..m /\ 1 \in 1..m BY <1>2, <1>5
  <2>2. t[0] = yBegin' /\ t[m - 1] = yEnd' /\ t[(m - 1) - 1] = yBack' /\ t[w - 1] = yW'
        /\ t[f - 1] = yF'
    BY <1>1, <1>6, <1>7, <1>10, <1>p, <2>1 DEF YPointers
  <2>3. yR' = t[r - 1] /\ r - 1 \in 0..(w - 1)
    <3>1. r \in 1..m BY <1>2, <1>5
    <3> QED BY <1>1, <1>2, <1>3, <1>5, <1>10, <3>1
  <2>4. yC' \in {yW', YNull} /\ yC' # YNull /\ yFlushing' # TRUE BY <1>1, <1>5, <1>p DEF YPointers
  <2>5. w - 1 \in Nat /\ f - 1 \in Nat /\ w - 1 <= f - 1 /\ f - 1 <= (m - 1) - 1
    BY <1>2, <1>5
  <2> QED BY <1>6, <2>2, <2>3, <2>4, <2>5 DEF YPointers
<1>12. YMemory(t, m - 1)' BY <1>1, <1>8 DEF YMemory
<1>13. YState(t, m - 1, w - 1, f - 1)' BY <1>8, <1>11, <1>12 DEF YState
<1>14. YContents(yVal', t, m - 1) = Tail(YContents(yVal, sl, m))
  <2>1. \A i \in 1..(m - 2) : yVal'[t[i - 1]] = yVal[sl[i]]
    <3> SUFFICES ASSUME NEW i \in 1..(m - 2) PROVE yVal'[t[i - 1]] = yVal[sl[i]] OBVIOUS
    <3>1. i \in 0..m /\ i # 0 /\ i \in 1..m BY <1>2, <1>6
    <3>2. sl[i] # sl[0] BY <1>2, <1>c, <3>1, YDifferent
    <3>3. sl[i] # yBegin BY <1>p, <3>2 DEF YPointers
    <3>4. sl[i] \in YSlot BY <1>2, <3>1
    <3> QED BY <1>1, <1>10, <3>1, <3>3, <3>4 DEF YTypeOK
  <2> DEFINE a == YContents(yVal, sl, m)
             c == YContents(yVal', t, m - 1)
             V == YItem \cup {YNull}
  <2>2. yVal \in YVals(V) /\ yVal' \in YVals(V) BY <1>1 DEF YTypeOK, YVals
  <2>3. t \in YRow(m - 1) /\ sl \in YRow(m) BY <1>2, <1>8 DEF YChain, YRow
  <2> HIDE DEF V
  <2>4. a \in Seq(V) /\ Len(a) = m - 1 /\ \A i \in 1..(m - 1) : a[i] = yVal[sl[i - 1]]
    BY <1>2, <2>2, <2>3, YContentsSeq
  <2>5. c \in Seq(V) /\ Len(c) = (m - 1) - 1 /\ \A i \in 1..((m - 1) - 1) : c[i] = yVal'[t[i - 1]]
    <3>1. m - 1 \in Nat /\ m - 1 > 0 BY <1>6
    <3> QED BY <2>2, <2>3, <3>1, YContentsSeq
  <2> HIDE DEF a, c
  <2>6. (m - 1) - 1 = m - 2 /\ \A i \in 1..(m - 2) : i + 1 \in 1..(m - 1) /\ (i + 1) - 1 = i
    BY <1>2, <1>6
  <2>7. a # <<>> BY <1>6, <2>4
  <2>8. Tail(a) \in Seq(V) /\ Len(Tail(a)) = m - 2 /\ \A i \in 1..(m - 2) : Tail(a)[i] = a[i + 1]
    BY <2>4, <2>6, <2>7, HeadTailProperties
  <2>9. \A i \in 1..Len(c) : c[i] = Tail(a)[i] BY <2>1, <2>4, <2>5, <2>6, <2>8
  <2>10. c = Tail(a) BY <2>5, <2>6, <2>8, <2>9, SeqEqual
  <2> QED BY <2>10 DEF a, c
<1>15. YFqStep(YContents(yVal, sl, m), f, w, yC = YNull,
               YContents(yVal', t, m - 1), f - 1, w - 1, yC' = YNull)
  BY <1>1, <1>5, <1>14 DEF YFqStep
<1>16. YGoesOn(sl, m, w, f, t, m - 1, w - 1, f - 1) BY <1>13, <1>15 DEF YGoesOn
<1> QED BY <1>16

\* ~yqueue_t frees the chunks of the chain and the spare one: all there are.
LEMMA YDestroyGoesOn ==
    ASSUME YTypeOK, NEW sl, NEW m, NEW w, NEW f, YState(sl, m, w, f), YDestroy
    PROVE  \E sl2, m2, w2, f2 : YGoesOn(sl, m, w, f, sl2, m2, w2, f2)
<1>1. /\ yVal' = yVal /\ yPrev' = yPrev /\ yNext' = yNext /\ yBegin' = yBegin /\ yBack' = yBack
      /\ yEnd' = yEnd /\ ySpare' = ySpare /\ yW' = yW /\ yF' = yF /\ yR' = yR /\ yC' = yC
      /\ yFlushing' = yFlushing /\ yWakes' = yWakes /\ yLive' = FALSE /\ yLive = TRUE
      /\ yFlushing = FALSE /\ yWakes = 0
      /\ yAllocated' = yAllocated \ ({YWalk[n].chunk : n \in 0..YDistance(yEnd)} \cup {ySpare})
  BY DEF YDestroy, YTypeOK
<1>2. YChain(yNext, yPrev, sl, m) /\ YPointers(sl, m, w, f) BY DEF YState
<1>3. yAllocated = YUsed(sl, m) \cup ({ySpare} \ {YNull}) BY <1>1 DEF YState, YMemory
<1>4. m \in Nat /\ m \in 0..m /\ sl[0] = yBegin /\ sl[m] = yEnd BY <1>2, YFacts DEF YPointers
<1>5. YDistance(yEnd) = m
  <2>1. YDistanceOf(yNext, sl[0], sl[m]) = m BY <1>2, <1>4, YDistanceIs
  <2>2. YDistance(yEnd) = YDistanceOf(yNext, yBegin, yEnd) BY YDistanceThen
  <2> QED BY <1>4, <2>1, <2>2
<1>6. \A n \in 0..m : YWalk[n] = sl[n]
  <2>1. \A n \in 0..m : YWalkOf(yNext, sl[0])[n] = sl[n] BY <1>2, YWalkFollows
  <2>2. YWalk = YWalkOf(yNext, yBegin) BY YWalkThen
  <2> QED BY <1>4, <2>1, <2>2
<1>7. {YWalk[n].chunk : n \in 0..YDistance(yEnd)} = YUsed(sl, m) BY <1>5, <1>6 DEF YUsed
<1>8. yAllocated' = {} BY <1>1, <1>3, <1>7
<1>9. YChain(yNext, yPrev, sl, m)' BY <1>1, <1>2
<1>10. YPointers(sl, m, w, f)' BY <1>1, <1>2 DEF YPointers
<1>11. YMemory(sl, m)' BY <1>1, <1>8 DEF YMemory
<1>12. YFqStep(YContents(yVal, sl, m), f, w, yC = YNull,
               YContents(yVal', sl, m), f, w, yC' = YNull)
  BY <1>1 DEF YFqStep
<1>13. YGoesOn(sl, m, w, f, sl, m, w, f) BY <1>9, <1>10, <1>11, <1>12 DEF YGoesOn, YState
<1> QED BY <1>13

\* Nothing changes.
LEMMA YStutterGoesOn ==
    ASSUME YTypeOK, NEW sl, NEW m, NEW w, NEW f, YState(sl, m, w, f), UNCHANGED yVars
    PROVE  \E sl2, m2, w2, f2 : YGoesOn(sl, m, w, f, sl2, m2, w2, f2)
<1>1. /\ yVal' = yVal /\ yPrev' = yPrev /\ yNext' = yNext /\ yBegin' = yBegin /\ yBack' = yBack
      /\ yEnd' = yEnd /\ ySpare' = ySpare /\ yW' = yW /\ yF' = yF /\ yR' = yR /\ yC' = yC
      /\ yFlushing' = yFlushing /\ yWakes' = yWakes /\ yLive' = yLive /\ yAllocated' = yAllocated
  BY DEF yVars
<1>2. YState(sl, m, w, f)' BY <1>1 DEF YState, YPointers, YMemory
<1>3. YFqStep(YContents(yVal, sl, m), f, w, yC = YNull,
              YContents(yVal', sl, m), f, w, yC' = YNull)
  BY <1>1 DEF YFqStep
<1>4. YGoesOn(sl, m, w, f, sl, m, w, f) BY <1>2, <1>3 DEF YGoesOn
<1> QED BY <1>4

\* Every step, of the writer and of the reader.
LEMMA YStepGoesOn ==
    ASSUME YTypeOK, NEW sl, NEW m, NEW w, NEW f, YState(sl, m, w, f), [YNextStep]_yVars
    PROVE  \E sl2, m2, w2, f2 : YGoesOn(sl, m, w, f, sl2, m2, w2, f2)
<1>1. CASE YWrite BY <1>1, YWriteGoesOn
<1>2. CASE YUnwrite BY <1>2, YUnwriteGoesOn
<1>3. CASE YFlushCas \/ YFlushSet \/ YWake BY <1>3, YFlushGoesOn
<1>4. CASE YCheckRead BY <1>4, YCheckReadGoesOn
<1>5. CASE YRead BY <1>5, YReadGoesOn
<1>6. CASE YDestroy BY <1>6, YDestroyGoesOn
<1>7. CASE UNCHANGED yVars BY <1>7, YStutterGoesOn
<1> QED BY <1>1, <1>2, <1>3, <1>4, <1>5, <1>6, <1>7 DEF YNextStep

\* The pointers stay slots and the links stay links: what push, unpush and pop
\* follow is in the chain.
LEMMA YTypesStep ==
    ASSUME YTypeOK, NEW sl, NEW m, NEW w, NEW f, YState(sl, m, w, f), [YNextStep]_yVars,
           NEW sl2, NEW m2, NEW w2, NEW f2, YState(sl2, m2, w2, f2)'
    PROVE  YTypeOK'
<1>1. {yBegin', yBack', yEnd', yW', yF'} \subseteq YSlot
  <2>1. sl2 \in [0..m2 -> YSlot] /\ m2 \in Nat BY DEF YState, YChain
  <2>2. /\ m2 > 0 /\ sl2[0] = yBegin' /\ sl2[m2] = yEnd' /\ sl2[m2 - 1] = yBack'
        /\ w2 \in Nat /\ f2 \in Nat /\ w2 <= f2 /\ f2 <= m2 - 1 /\ sl2[w2] = yW' /\ sl2[f2] = yF'
    BY DEF YState, YPointers
  <2>3. 0 \in 0..m2 /\ m2 \in 0..m2 /\ m2 - 1 \in 0..m2 /\ w2 \in 0..m2 /\ f2 \in 0..m2
    BY <2>1, <2>2
  <2> QED BY <2>1, <2>2, <2>3
<1>2. {yR', yC'} \subseteq YSlot \cup {YNull}
  <2>1. yC' \in {yW', YNull} BY DEF YState, YPointers
  <2>2. yR' \in {yR, yC}
    BY DEF YNextStep, YWrite, YUnwrite, YFlushCas, YFlushSet, YCheckRead, YRead, YWake, YDestroy, yVars
  <2> QED BY <1>1, <2>1, <2>2 DEF YTypeOK
<1>3. yVal' \in [YSlot -> YItem \cup {YNull}]
  BY DEF YTypeOK, YNextStep, YWrite, YUnwrite, YFlushCas, YFlushSet, YCheckRead, YRead, YWake, YDestroy, yVars
<1>4. \A s \in YSlot : s.chunk \in YChunk BY YSlots
<1>5. /\ yNext' \in YLinks /\ yPrev' \in YLinks /\ yAllocated' \subseteq YChunk
      /\ ySpare' \in YChunk \cup {YNull}
  <2>1. CASE YWrite BY <1>4, <2>1 DEF YTypeOK, YLinks, YWrite, YPush
  <2>2. CASE YUnwrite BY <2>2 DEF YTypeOK, YLinks, YUnwrite, YUnpush
  <2>3. CASE YRead BY <1>4, <2>3 DEF YTypeOK, YLinks, YRead, YPop
  <2>4. CASE YDestroy BY <2>4 DEF YTypeOK, YLinks, YDestroy
  <2>5. CASE UNCHANGED <<yNext, yPrev, yAllocated, ySpare>> BY <2>5 DEF YTypeOK, YLinks
  <2> QED BY <2>1, <2>2, <2>3, <2>4, <2>5
      DEF YNextStep, YFlushCas, YFlushSet, YCheckRead, YWake, yVars
<1>6. yWakes' \in Nat
  <2>1. yWakes \in Nat BY DEF YTypeOK
  <2>2. yWakes' = yWakes \/ yWakes' = yWakes + 1 \/ (yWakes > 0 /\ yWakes' = yWakes - 1)
    BY DEF YNextStep, YWrite, YUnwrite, YFlushCas, YFlushSet, YCheckRead, YRead, YWake, YDestroy, yVars
  <2> QED BY <2>1, <2>2
<1>7. yFlushing' \in BOOLEAN /\ yAwake' \in BOOLEAN /\ yLive' \in BOOLEAN
  BY DEF YTypeOK, YNextStep, YWrite, YUnwrite, YFlushCas, YFlushSet, YCheckRead, YRead, YWake, YDestroy, yVars
<1> QED BY <1>1, <1>2, <1>3, <1>5, <1>6, <1>7 DEF YTypeOK, YLinks

\* ypipe_t() makes a chain of two slots.
LEMMA YInitState ==
    ASSUME YInit
    PROVE  YTypeOK /\ \E sl : YState(sl, 1, 0, 0)
<1>1. PICK a \in YChunk, b \in YChunk :
        /\ a # b
        /\ yVal = [s \in YSlot |-> YNull]
        /\ LET linked == YGranularity = 1 IN
           /\ yPrev = [ch \in YChunk |-> IF linked /\ ch = b THEN a ELSE YNull]
           /\ yNext = [ch \in YChunk |-> IF linked /\ ch = a THEN b ELSE YNull]
           /\ yAllocated = IF linked THEN {a, b} ELSE {a}
           /\ yEnd = IF linked THEN YAt(b, 0) ELSE YAt(a, 1)
        /\ yBegin = YAt(a, 0) /\ yBack = YAt(a, 0) /\ ySpare = YNull
        /\ yW = YAt(a, 0) /\ yF = YAt(a, 0) /\ yR = YAt(a, 0) /\ yC = YAt(a, 0)
        /\ yFlushing = FALSE /\ yAwake = TRUE /\ yWakes = 0 /\ yLive = TRUE
  BY DEF YInit
<1>2. YGranularity \in Nat /\ YGranularity # 0 /\ 0 \in 0..(YGranularity - 1) BY YAssumption
<1>3. YAt(a, 0) \in YSlot /\ yEnd \in YSlot
  <2>1. YGranularity # 1 => 1 \in 0..(YGranularity - 1) BY <1>2
  <2> QED BY <1>1, <1>2, <2>1, YSlots
<1>4. YTypeOK BY <1>1, <1>3 DEF YTypeOK
<1> DEFINE sl == [i \in 0..1 |-> IF i = 0 THEN yBegin ELSE yEnd]
<1>5. sl \in [0..1 -> YSlot] /\ sl[0] = yBegin /\ sl[1] = yEnd BY <1>1, <1>3
<1>6. /\ yBegin.chunk = a /\ yBegin.pos = 0
      /\ yEnd.chunk = (IF YGranularity = 1 THEN b ELSE a)
      /\ yEnd.pos = (IF YGranularity = 1 THEN 0 ELSE 1)
  BY <1>1, YSlots
<1> HIDE DEF sl
<1>7. YChain(yNext, yPrev, sl, 1)
  <2>1. \A i \in 0..1 : i = 0 \/ i = 1 OBVIOUS
  <2>2. yEnd = YStepOn(yNext, yBegin) BY <1>1, <1>2, <1>6 DEF YStepOn
  <2>3. yBegin = YStepBack(yPrev, yEnd)
    <3>1. CASE YGranularity = 1 BY <1>1, <1>6, <3>1 DEF YStepBack
    <3>2. CASE YGranularity # 1 BY <1>1, <1>6, <3>2 DEF YStepBack
    <3> QED BY <3>1, <3>2
  <2>4. YSpaced(sl, 1)
    <3> SUFFICES ASSUME NEW i \in 0..1, NEW j \in 0..1, i <= j, sl[i].chunk = sl[j].chunk
                 PROVE  sl[j].pos = sl[i].pos + (j - i)
      BY DEF YSpaced
    <3>1. CASE i = 0 /\ j = 0 BY <1>5, <1>6, <3>1
    <3>2. CASE i = 1 /\ j = 1 BY <1>5, <1>6, <3>2
    <3>3. CASE i = 0 /\ j = 1 BY <1>1, <1>5, <1>6, <3>3
    <3> QED BY <3>1, <3>2, <3>3
  <2>5. \A i \in 0..1 : i # 0 => sl[i] = YStepOn(yNext, sl[i - 1]) /\ sl[i - 1] = YStepBack(yPrev, sl[i])
    <3>1. 1 - 1 = 0 OBVIOUS
    <3> QED BY <1>5, <2>1, <2>2, <2>3, <3>1
  <2> QED BY <1>5, <2>4, <2>5 DEF YChain
<1>8. YUsed(sl, 1) = yAllocated
  <2>1. \A i \in 0..1 : i = 0 \/ i = 1 OBVIOUS
  <2>2. 0 \in 0..1 /\ 1 \in 0..1 OBVIOUS
  <2>3. YUsed(sl, 1) = {sl[0].chunk, sl[1].chunk} BY <2>1, <2>2 DEF YUsed
  <2> QED BY <1>1, <1>5, <1>6, <2>3
<1>9. YMemory(sl, 1) BY <1>1, <1>8, YAssumption DEF YMemory
<1>10. YPointers(sl, 1, 0, 0)
  <2>1. YAt(a, 0) # YNull BY <1>3, YAssumption
  <2>2. 1 - 1 = 0 /\ 0 \in 0..0 OBVIOUS
  <2> QED BY <1>1, <1>5, <2>1, <2>2 DEF YPointers
<1> QED BY <1>4, <1>7, <1>9, <1>10 DEF YState

\* The invariant is inductive.
LEMMA YInvariantStep == YIInv /\ [YNextStep]_yVars => YIInv'
<1> SUFFICES ASSUME YIInv, [YNextStep]_yVars PROVE YIInv' OBVIOUS
<1>1. PICK sl, m, w, f : YState(sl, m, w, f) BY DEF YIInv
<1>2. YTypeOK BY DEF YIInv
<1>3. PICK sl2, m2, w2, f2 : YGoesOn(sl, m, w, f, sl2, m2, w2, f2) BY <1>1, <1>2, YStepGoesOn
<1>4. YState(sl2, m2, w2, f2)' BY <1>3 DEF YGoesOn
<1>5. YTypeOK' BY <1>1, <1>2, <1>4, YTypesStep
<1> QED BY <1>4, <1>5 DEF YIInv

\* It always holds.
LEMMA YInvariance == YSpec => []YIInv
<1>1. YInit => YIInv BY YInitState DEF YIInv
<1> QED BY <1>1, YInvariantStep, PTL DEF YSpec

\* What the model's walk and distances are in a state.
LEMMA YMeaning ==
    ASSUME NEW sl, NEW m, NEW w, NEW f, YState(sl, m, w, f)
    PROVE  /\ \A n \in 0..m : YWalk[n] = sl[n] /\ YDistance(sl[n]) = n
           /\ YDistance(yW) = w /\ YDistance(yF) = f /\ YDistance(yBack) = m - 1
           /\ YDistance(yEnd) = m /\ m <= YMaxSlots
           /\ YItems = YContents(yVal, sl, m)
<1>1. YChain(yNext, yPrev, sl, m) /\ YPointers(sl, m, w, f) BY DEF YState
<1>2. m \in Nat /\ m - 1 \in 0..m /\ m \in 0..m /\ w \in 0..m /\ f \in 0..m /\ m > 0 BY YFacts
<1>3. /\ sl[0] = yBegin /\ sl[m] = yEnd /\ sl[m - 1] = yBack /\ sl[w] = yW /\ sl[f] = yF
  BY <1>1 DEF YPointers
<1>4. \A n \in 0..m : YWalk[n] = sl[n]
  <2>1. \A n \in 0..m : YWalkOf(yNext, sl[0])[n] = sl[n] BY <1>1, YWalkFollows
  <2>2. YWalk = YWalkOf(yNext, yBegin) BY YWalkThen
  <2> QED BY <1>3, <2>1, <2>2
<1>5. ASSUME NEW n \in 0..m PROVE YDistance(sl[n]) = n
  <2>1. YDistanceOf(yNext, sl[0], sl[n]) = n BY <1>1, YDistanceIs
  <2>2. YDistance(sl[n]) = YDistanceOf(yNext, yBegin, sl[n]) BY YDistanceThen
  <2> QED BY <1>3, <2>1, <2>2
<1>6. /\ YDistance(yW) = w /\ YDistance(yF) = f /\ YDistance(yBack) = m - 1 /\ YDistance(yEnd) = m
  <2>1. /\ YDistance(sl[w]) = w /\ YDistance(sl[f]) = f /\ YDistance(sl[m - 1]) = m - 1
        /\ YDistance(sl[m]) = m
    BY <1>2, <1>5
  <2> QED BY <1>3, <2>1
<1>7. m <= YMaxSlots BY <1>1, YChainFits
<1>8. YItems = YContents(yVal, sl, m)
  <2>1. YItems = [i \in 1..(m - 1) |-> yVal[YWalk[i - 1]]] BY <1>6 DEF YItems
  <2>2. \A i \in 1..(m - 1) : YWalk[i - 1] = sl[i - 1]
    <3>1. \A i \in 1..(m - 1) : i - 1 \in 0..m BY <1>2
    <3> QED BY <1>4, <3>1
  <2> QED BY <2>1, <2>2 DEF YContents
<1> QED BY <1>4, <1>5, <1>6, <1>7, <1>8

\* Likewise in the next state.
LEMMA YMeaningThen ==
    ASSUME NEW sl, NEW m, NEW w, NEW f, YState(sl, m, w, f)'
    PROVE  /\ YDistance(yW)' = w /\ YDistance(yF)' = f
           /\ YItems' = YContents(yVal', sl, m)
<1>1. YChain(yNext', yPrev', sl, m) BY DEF YState
<1>2. /\ m > 0 /\ sl[0] = yBegin' /\ sl[m - 1] = yBack' /\ sl[w] = yW' /\ sl[f] = yF'
      /\ w \in Nat /\ f \in Nat /\ w <= f /\ f <= m - 1
  BY DEF YState, YPointers
<1>3. m \in Nat BY <1>1 DEF YChain
<1>4. m - 1 \in 0..m /\ w \in 0..m /\ f \in 0..m BY <1>2, <1>3
<1>5. \A n \in 0..m : YWalk'[n] = sl[n]
  <2>1. \A n \in 0..m : YWalkOf(yNext', sl[0])[n] = sl[n] BY <1>1, YWalkFollows
  <2>2. YWalk' = YWalkOf(yNext', yBegin') BY YWalkThen
  <2> QED BY <1>2, <2>1, <2>2
<1>6. /\ YDistanceOf(yNext', sl[0], sl[w]) = w /\ YDistanceOf(yNext', sl[0], sl[f]) = f
      /\ YDistanceOf(yNext', sl[0], sl[m - 1]) = m - 1
  BY <1>1, <1>4, YDistanceIs
<1>7. YDistance(yW)' = w /\ YDistance(yF)' = f /\ YDistance(yBack)' = m - 1
  BY <1>2, <1>6, YDistanceThen
<1>8. YItems' = YContents(yVal', sl, m)
  <2>1. YItems' = [i \in 1..(m - 1) |-> yVal'[YWalk'[i - 1]]] BY <1>7 DEF YItems
  <2>2. \A i \in 1..(m - 1) : YWalk'[i - 1] = sl[i - 1]
    <3>1. \A i \in 1..(m - 1) : i - 1 \in 0..m BY <1>3
    <3> QED BY <1>5, <3>1
  <2> QED BY <2>1, <2>2 DEF YContents
<1> QED BY <1>7, <1>8

\* ypipe_t never uses or leaks memory it has freed, for every number of chunks and
\* slots to a chunk, whatever addresses malloc returns and however the writer and the
\* reader interleave: the pointers of both lie on one chain of allocated chunks, in order.
THEOREM YQueueIsSafe == YSpec => [](YTypeOK /\ YMemorySafe)
<1>1. YIInv => YTypeOK /\ YMemorySafe
  <2> SUFFICES ASSUME YIInv PROVE YMemorySafe BY DEF YIInv
  <2>1. PICK sl, m, w, f : YState(sl, m, w, f) BY DEF YIInv
  <2>2. YTypeOK BY DEF YIInv
  <2>3. CASE yLive = TRUE
    <3>1. /\ \A n \in 0..m : YWalk[n] = sl[n] /\ YDistance(sl[n]) = n
          /\ YDistance(yW) = w /\ YDistance(yF) = f /\ YDistance(yBack) = m - 1
          /\ YDistance(yEnd) = m /\ m <= YMaxSlots
      BY <2>1, YMeaning
    <3>2. m \in Nat /\ w \in 0..m /\ f \in 0..m BY <2>1, YFacts
    <3>3. YPointers(sl, m, w, f) BY <2>1 DEF YState
    <3>4. {YWalk[n].chunk : n \in 0..m} = YUsed(sl, m) BY <3>1 DEF YUsed
    <3>5. /\ ySpare \notin YUsed(sl, m) /\ yAllocated = YUsed(sl, m) \cup ({ySpare} \ {YNull})
      BY <2>1, <2>3 DEF YState, YMemory
    <3>6. ASSUME NEW n \in 1..m PROVE YRetreat(YWalk[n]) = YWalk[n - 1]
      <4>1. n \in 0..m /\ n - 1 \in 0..m /\ n # 0 BY <3>2
      <4>2. YWalk[n] = sl[n] /\ YWalk[n - 1] = sl[n - 1] BY <3>1, <4>1
      <4>3. sl[n - 1] = YStepBack(yPrev, sl[n]) BY <2>1, <4>1 DEF YState, YChain
      <4> QED BY <4>2, <4>3 DEF YRetreat, YStepBack
    <3>7. yR = YNull \/ YDistance(yR) <= w
      <4> SUFFICES ASSUME yR # YNull PROVE YDistance(yR) <= w OBVIOUS
      <4>1. PICK r \in 0..w : yR = sl[r] BY <3>3 DEF YPointers
      <4>2. r \in 0..m BY <3>2
      <4>3. YDistance(yR) = r BY <3>1, <4>1, <4>2
      <4> QED BY <3>2, <4>3
    <3>8. (m - 1) + 1 = m /\ w <= f /\ f <= m - 1 /\ yC \in {yW, YNull} BY <3>2, <3>3 DEF YPointers
    <3> QED BY <2>3, <3>1, <3>4, <3>5, <3>6, <3>7, <3>8 DEF YMemorySafe
  <2>4. CASE yLive = FALSE
    <3>1. yAllocated = {} BY <2>1, <2>4 DEF YState, YMemory
    <3> QED BY <2>4, <3>1 DEF YMemorySafe
  <2> QED BY <2>2, <2>3, <2>4 DEF YTypeOK
<1> QED BY <1>1, YInvariance, PTL

\* ypipe_t, lock-free over recycled memory, is the queue that mailboxes and pipes rely
\* on: what is flushed comes out in order and whole, and the reader is asleep exactly
\* while c is NULL.
THEOREM YRefinesQueue == YSpec => YImplementsQueue
<1>1. YInit => YFlushQueue!FqInit
  <2> SUFFICES ASSUME YInit PROVE YFlushQueue!FqInit OBVIOUS
  <2>1. PICK sl : YState(sl, 1, 0, 0) BY YInitState
  <2>2. YDistance(yW) = 0 /\ YDistance(yF) = 0 /\ YItems = YContents(yVal, sl, 1)
    BY <2>1, YMeaning
  <2>3. YContents(yVal, sl, 1) = <<>> BY DEF YContents
  <2>4. yC # YNull
    <3>1. yW # YNull BY <2>1, YFacts
    <3> QED BY <3>1 DEF YInit
  <2> QED BY <2>2, <2>3, <2>4 DEF YFlushQueue!FqInit
<1>2. YIInv /\ [YNextStep]_yVars => [YFlushQueue!FqNext]_(YFlushQueue!fqVars)
  <2> SUFFICES ASSUME YIInv, [YNextStep]_yVars
               PROVE  [YFlushQueue!FqNext]_(YFlushQueue!fqVars)
    OBVIOUS
  <2>1. PICK sl, m, w, f : YState(sl, m, w, f) BY DEF YIInv
  <2>2. YTypeOK BY DEF YIInv
  <2>3. PICK sl2, m2, w2, f2 : YGoesOn(sl, m, w, f, sl2, m2, w2, f2) BY <2>1, <2>2, YStepGoesOn
  <2>4. YState(sl2, m2, w2, f2)' BY <2>3 DEF YGoesOn
  <2>5. YDistance(yW) = w /\ YDistance(yF) = f /\ YItems = YContents(yVal, sl, m)
    BY <2>1, YMeaning
  <2>6. YDistance(yW)' = w2 /\ YDistance(yF)' = f2 /\ YItems' = YContents(yVal', sl2, m2)
    BY <2>4, YMeaningThen
  <2>7. YFqStep(YItems, YDistance(yF), YDistance(yW), yC = YNull,
                YItems', YDistance(yF)', YDistance(yW)', yC' = YNull)
    BY <2>3, <2>5, <2>6 DEF YGoesOn
  <2> QED BY <2>7 DEF YFqStep, YFlushQueue!FqNext, YFlushQueue!fqVars, YFlushQueue!FqWrite,
        YFlushQueue!FqUnwrite, YFlushQueue!FqFlush, YFlushQueue!FqSleep, YFlushQueue!FqRead
<1> QED BY <1>1, <1>2, YInvariance, PTL DEF YSpec, YImplementsQueue, YFlushQueue!FqSpec
=============================================================================
