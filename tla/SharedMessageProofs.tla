------------------------- MODULE SharedMessageProofs -------------------------
(***************************************************************************)
(* What becomes of a message that is published.  First, proof that the     *)
(* contents of a shared message are released exactly once, by the last     *)
(* msg_t that refers to them, for every number of pipes and of sends.      *)
(*                                                                         *)
(* The counter says how many msg_t there are only while each of them has   *)
(* its flag `shared' set.  The invariant therefore has two halves: the     *)
(* counter agrees with the holders as long as there are any, and a msg_t   *)
(* without the flag is the only one.                                       *)
(*                                                                         *)
(* Then, proof that dist_t gives a message to the pipes it counts as       *)
(* matching, whole or not at all.  The invariant speaks of the index of    *)
(* each pipe in the array, which every swap changes in a known way.        *)
(*                                                                         *)
(* Last, proof that messages come out of the stream between two engines    *)
(* whole and in order, however it is cut.                                  *)
(***************************************************************************)
EXTENDS SharedMessage, Distributor, StreamEngine, FiniteSetTheorems,
        SequenceTheorems, NaturalsInduction, WellFoundedInduction, TLAPS

MgFlags == {<<>>, <<TRUE>>, <<FALSE>>}

MgDetailTypeOK ==
    /\ mgRefs \in Nat /\ mgFreed \in Nat /\ mgStray \in BOOLEAN
    /\ mgOwn \in MgFlags /\ mgMsg \in MgFlags
    /\ mgTodo \in SUBSET MgPipe /\ mgFails \in Nat
    /\ mgPipes \in [MgPipe -> Seq(BOOLEAN)]
    /\ IsFiniteSet(MgPlaces(mgPipes))
    /\ mgSent \in 0..MgSends

(* distribute works on one msg_t, and refuses it at most once per pipe. *)
MgUnderWay ==
    /\ mgMsg = <<>> => mgTodo = {} /\ mgFails = 0
    /\ mgFails + Cardinality(mgTodo) <= Cardinality(MgPipe)

(* Some msg_t refers to the contents without its flag. *)
MgFalseIn(pipes) ==
    \E p \in MgPipe : \E i \in 1..Len(pipes[p]) : pipes[p][i] = FALSE

MgUnshared ==
    \/ mgOwn = <<FALSE>>
    \/ mgMsg = <<FALSE>> /\ (mgTodo # {} \/ mgFails > 0)
    \/ MgFalseIn(mgPipes)

MgLone == MgUnshared => mgRefs = 1 /\ MgHolders <= 1

MgCounted ==
    /\ mgStray = FALSE
    /\ MgHolders > 0 => mgRefs = MgHolders /\ mgFreed = 0
    /\ MgHolders = 0 => mgFreed = 1

MgIInv == MgDetailTypeOK /\ MgUnderWay /\ MgLone /\ MgCounted

-----------------------------------------------------------------------------
(* A variable that holds at most one msg_t. *)
LEMMA MgNotEmpty == \A b : <<b>> # <<>> /\ Len(<<b>>) = 1 /\ <<b>>[1] = b
<1> TAKE b
<1>1. Len(<<b>>) = 1 /\ <<b>>[1] = b OBVIOUS
<1>2. Len(<<>>) = 0 OBVIOUS
<1>3. <<b>> # <<>> BY <1>1, <1>2
<1> QED BY <1>1, <1>3

\* A place that holds at most one message has its flag first.
LEMMA MgOneFlag ==
    ASSUME NEW s \in MgFlags
    PROVE  /\ s # <<>> => Len(s) = 1 /\ s[1] \in BOOLEAN /\ s = <<s[1]>>
           /\ s = <<>> => Len(s) = 0
<1>1. CASE s = <<>> BY <1>1
<1>2. CASE s = <<TRUE>>
  <2>1. s[1] = TRUE /\ Len(s) = 1 BY <1>2
  <2> QED BY <1>2, <2>1
<1>3. CASE s = <<FALSE>>
  <2>1. s[1] = FALSE /\ Len(s) = 1 BY <1>3
  <2> QED BY <1>3, <2>1
<1> QED BY <1>1, <1>2, <1>3 DEF MgFlags

(* The number of holders is a natural number, and positive when any of them  *)
(* is known: the application, a pipe still to be written to, one that refused *)
(* the message, or one with an unshared msg_t in it.                          *)
LEMMA MgHeld ==
    ASSUME NEW own \in MgFlags, NEW todo \in SUBSET MgPipe, NEW fails \in Nat,
           NEW pipes \in [MgPipe -> Seq(BOOLEAN)], IsFiniteSet(MgPlaces(pipes))
    PROVE  /\ Len(own) \in {0, 1} /\ (Len(own) = 1 <=> own # <<>>)
           /\ IsFiniteSet(todo) /\ Cardinality(todo) \in Nat
           /\ Cardinality(todo) = 0 <=> todo = {}
           /\ Cardinality(MgPlaces(pipes)) \in Nat
           /\ MgFalseIn(pipes) => Cardinality(MgPlaces(pipes)) >= 1
<1>1. IsFiniteSet(todo)
  BY MgAssumption, FS_Subset
<1>2. Cardinality(todo) \in Nat /\ Cardinality(MgPlaces(pipes)) \in Nat
  BY <1>1, FS_CardinalityType
<1>3. Len(own) \in {0, 1} /\ (Len(own) = 1 <=> own # <<>>)
  BY MgOneFlag
<1>4. ASSUME MgFalseIn(pipes) PROVE Cardinality(MgPlaces(pipes)) >= 1
  <2>1. PICK p \in MgPipe : \E i \in 1..Len(pipes[p]) : pipes[p][i] = FALSE
    BY <1>4 DEF MgFalseIn
  <2> PICK i \in 1..Len(pipes[p]) : TRUE BY <2>1
  <2>2. <<p, i>> \in {p} \X (1..Len(pipes[p]))
    OBVIOUS
  <2>3. <<p, i>> \in MgPlaces(pipes)
    BY <2>2 DEF MgPlaces
  <2>4. Cardinality(MgPlaces(pipes)) # 0
    BY <2>3, FS_EmptySet
  <2> QED BY <2>4, <1>2
<1> QED BY <1>1, <1>2, <1>3, <1>4, FS_EmptySet

MgPut(pipes, p, b) == [pipes EXCEPT ![p] = Append(@, b)]
MgGet(pipes, p) == [pipes EXCEPT ![p] = Tail(@)]

(* A pipe that takes a msg_t makes one holder more. *)
LEMMA MgAppended ==
    ASSUME NEW pipes \in [MgPipe -> Seq(BOOLEAN)], IsFiniteSet(MgPlaces(pipes)),
           NEW p \in MgPipe, NEW b \in BOOLEAN
    PROVE  /\ MgPut(pipes, p, b) \in [MgPipe -> Seq(BOOLEAN)]
           /\ IsFiniteSet(MgPlaces(MgPut(pipes, p, b)))
           /\ Cardinality(MgPlaces(MgPut(pipes, p, b))) = Cardinality(MgPlaces(pipes)) + 1
           /\ MgFalseIn(MgPut(pipes, p, b)) => MgFalseIn(pipes) \/ b = FALSE
<1> DEFINE n == Len(pipes[p])
           new == MgPut(pipes, p, b)
<1>1. pipes[p] \in Seq(BOOLEAN) /\ n \in Nat
  OBVIOUS
<1>2. /\ Append(pipes[p], b) \in Seq(BOOLEAN)
      /\ Len(Append(pipes[p], b)) = n + 1
      /\ \A i \in 1..n : Append(pipes[p], b)[i] = pipes[p][i]
      /\ Append(pipes[p], b)[n + 1] = b
  BY <1>1, AppendProperties
<1>3. /\ new \in [MgPipe -> Seq(BOOLEAN)]
      /\ new[p] = Append(pipes[p], b)
      /\ \A q \in MgPipe : q # p => new[q] = pipes[q]
  BY <1>2 DEF MgPut
<1> HIDE DEF new
<1>4. MgPlaces(new) = MgPlaces(pipes) \cup {<<p, n + 1>>}
  <2>1. 1..(n + 1) = (1..n) \cup {n + 1}
    BY <1>1
  <2>2. ASSUME NEW q, NEW i
        PROVE  <<q, i>> \in MgPlaces(new) <=> <<q, i>> \in MgPlaces(pipes) \cup {<<p, n + 1>>}
    BY <1>2, <1>3, <2>1 DEF MgPlaces
  <2>3. \A x \in MgPlaces(new) : \E q, i : x = <<q, i>>
    BY DEF MgPlaces
  <2>4. \A x \in MgPlaces(pipes) \cup {<<p, n + 1>>} : \E q, i : x = <<q, i>>
    BY DEF MgPlaces
  <2> HIDE DEF n
  <2>5. ASSUME NEW x \in MgPlaces(new) PROVE x \in MgPlaces(pipes) \cup {<<p, n + 1>>}
    <3> PICK q, i : x = <<q, i>> BY <2>3
    <3> QED BY <2>2
  <2>6. ASSUME NEW x \in MgPlaces(pipes) \cup {<<p, n + 1>>} PROVE x \in MgPlaces(new)
    <3> PICK q, i : x = <<q, i>> BY <2>4
    <3> QED BY <2>2
  <2> QED BY <2>5, <2>6
<1>5. <<p, n + 1>> \notin MgPlaces(pipes)
  BY <1>1 DEF MgPlaces
<1>6. ASSUME MgFalseIn(new) PROVE MgFalseIn(pipes) \/ b = FALSE
  <2>1. PICK q \in MgPipe : \E i \in 1..Len(new[q]) : new[q][i] = FALSE
    BY <1>6 DEF MgFalseIn
  <2>2. CASE q # p
    BY <2>1, <2>2, <1>3 DEF MgFalseIn
  <2>3. CASE q = p
    <3>1. PICK i \in 1..(n + 1) : Append(pipes[p], b)[i] = FALSE
      BY <2>1, <2>3, <1>2, <1>3
    <3>2. CASE i = n + 1 BY <3>1, <3>2, <1>2
    <3>3. CASE i # n + 1
      <4>1. i \in 1..n BY <3>1, <3>3, <1>1
      <4>2. \E j \in 1..Len(pipes[p]) : pipes[p][j] = FALSE
        BY <3>1, <4>1, <1>2
      <4> QED BY <4>2 DEF MgFalseIn
    <3> QED BY <3>2, <3>3
  <2> QED BY <2>2, <2>3
<1>7. /\ IsFiniteSet(MgPlaces(new))
      /\ Cardinality(MgPlaces(new)) = Cardinality(MgPlaces(pipes)) + 1
  <2> DEFINE x == <<p, n + 1>>
  <2>1. MgPlaces(new) = MgPlaces(pipes) \cup {x} /\ x \notin MgPlaces(pipes)
    BY <1>4, <1>5
  <2> HIDE DEF x
  <2> QED BY <2>1, FS_AddElement
<1> QED BY <1>3, <1>6, <1>7 DEF new

(* A reader that takes the first msg_t of a pipe makes one holder less. *)
LEMMA MgTaken ==
    ASSUME NEW pipes \in [MgPipe -> Seq(BOOLEAN)], IsFiniteSet(MgPlaces(pipes)),
           NEW p \in MgPipe, pipes[p] # <<>>
    PROVE  /\ MgGet(pipes, p) \in [MgPipe -> Seq(BOOLEAN)]
           /\ IsFiniteSet(MgPlaces(MgGet(pipes, p)))
           /\ Cardinality(MgPlaces(MgGet(pipes, p))) = Cardinality(MgPlaces(pipes)) - 1
           /\ MgFalseIn(MgGet(pipes, p)) => MgFalseIn(pipes)
           /\ Head(pipes[p]) \in BOOLEAN
           /\ Head(pipes[p]) = FALSE => MgFalseIn(pipes)
<1> DEFINE n == Len(pipes[p])
           new == MgGet(pipes, p)
<1>1. pipes[p] \in Seq(BOOLEAN) /\ n \in Nat
  OBVIOUS
<1>2. /\ n \in Nat \ {0}
      /\ Tail(pipes[p]) \in Seq(BOOLEAN)
      /\ Len(Tail(pipes[p])) = n - 1
      /\ \A i \in 1..(n - 1) : Tail(pipes[p])[i] = pipes[p][i + 1]
      /\ Head(pipes[p]) = pipes[p][1] /\ pipes[p][1] \in BOOLEAN
  <2>1. n \in Nat \ {0} BY <1>1, EmptySeq
  <2>2. 1 \in 1..n BY <2>1
  <2>3. pipes[p][1] \in BOOLEAN BY <1>1, <2>2, ElementOfSeq
  <2>4. Head(pipes[p]) = pipes[p][1] BY <1>1, <2>1, HeadTailProperties
  <2> QED BY <1>1, <2>1, <2>3, <2>4, HeadTailProperties
<1>3. /\ new \in [MgPipe -> Seq(BOOLEAN)]
      /\ new[p] = Tail(pipes[p])
      /\ \A q \in MgPipe : q # p => new[q] = pipes[q]
  BY <1>2 DEF MgGet
<1> HIDE DEF new
<1>4. MgPlaces(new) = MgPlaces(pipes) \ {<<p, n>>}
  <2>1. 1..(n - 1) = (1..n) \ {n}
    BY <1>2
  <2>2. ASSUME NEW q, NEW i
        PROVE  <<q, i>> \in MgPlaces(new) <=> <<q, i>> \in MgPlaces(pipes) \ {<<p, n>>}
    BY <1>2, <1>3, <2>1 DEF MgPlaces
  <2>3. \A x \in MgPlaces(new) : \E q, i : x = <<q, i>>
    BY DEF MgPlaces
  <2>4. \A x \in MgPlaces(pipes) : \E q, i : x = <<q, i>>
    BY DEF MgPlaces
  <2> HIDE DEF n
  <2>5. ASSUME NEW x \in MgPlaces(new) PROVE x \in MgPlaces(pipes) \ {<<p, n>>}
    <3> PICK q, i : x = <<q, i>> BY <2>3
    <3> QED BY <2>2
  <2>6. ASSUME NEW x \in MgPlaces(pipes) \ {<<p, n>>} PROVE x \in MgPlaces(new)
    <3> PICK q, i : x = <<q, i>> BY <2>4
    <3> QED BY <2>2
  <2> QED BY <2>5, <2>6
<1>5. <<p, n>> \in MgPlaces(pipes)
  BY <1>2 DEF MgPlaces
<1>6. ASSUME MgFalseIn(new) PROVE MgFalseIn(pipes)
  <2>1. PICK q \in MgPipe : \E i \in 1..Len(new[q]) : new[q][i] = FALSE
    BY <1>6 DEF MgFalseIn
  <2>2. CASE q # p
    BY <2>1, <2>2, <1>3 DEF MgFalseIn
  <2>3. CASE q = p
    <3>1. PICK i \in 1..(n - 1) : pipes[p][i + 1] = FALSE
      BY <2>1, <2>3, <1>2, <1>3
    <3>2. i + 1 \in 1..n BY <1>2
    <3>3. \E j \in 1..Len(pipes[p]) : pipes[p][j] = FALSE
      BY <3>1, <3>2
    <3> QED BY <3>3 DEF MgFalseIn
  <2> QED BY <2>2, <2>3
<1>7. ASSUME pipes[p][1] = FALSE PROVE MgFalseIn(pipes)
  <2>1. 1 \in 1..n BY <1>2
  <2>2. \E j \in 1..Len(pipes[p]) : pipes[p][j] = FALSE
    BY <1>7, <2>1
  <2> QED BY <2>2 DEF MgFalseIn
<1>8. /\ IsFiniteSet(MgPlaces(new))
      /\ Cardinality(MgPlaces(new)) = Cardinality(MgPlaces(pipes)) - 1
  <2> HIDE DEF n
  <2> QED BY <1>4, <1>5, FS_RemoveElement
<1> QED BY <1>2, <1>3, <1>6, <1>7, <1>8 DEF new

-----------------------------------------------------------------------------
(* The counts of a state, in the form the steps below use. *)
LEMMA MgStateCounts ==
    ASSUME MgDetailTypeOK
    PROVE  /\ Len(mgOwn) \in {0, 1} /\ (Len(mgOwn) = 1 <=> mgOwn # <<>>)
           /\ IsFiniteSet(mgTodo) /\ Cardinality(mgTodo) \in Nat
           /\ Cardinality(mgTodo) = 0 <=> mgTodo = {}
           /\ mgFails \in Nat
           /\ Cardinality(MgPlaces(mgPipes)) \in Nat
           /\ MgFalseIn(mgPipes) => Cardinality(MgPlaces(mgPipes)) >= 1
<1>1. /\ mgOwn \in MgFlags /\ mgTodo \in SUBSET MgPipe /\ mgFails \in Nat
      /\ mgPipes \in [MgPipe -> Seq(BOOLEAN)] /\ IsFiniteSet(MgPlaces(mgPipes))
  BY DEF MgDetailTypeOK
<1> QED BY <1>1, MgHeld

(* Every msg_t without its flag is a holder, so that it is the only one, and  *)
(* none is left when it is closed.                                            *)
LEMMA MgUnsharedHeldNext ==
    ASSUME MgDetailTypeOK', MgUnshared'
    PROVE  MgHolders' \in Nat /\ MgHolders' >= 1
<1>1. /\ Len(mgOwn') \in {0, 1} /\ (Len(mgOwn') = 1 <=> mgOwn' # <<>>)
      /\ Cardinality(mgTodo') \in Nat /\ (Cardinality(mgTodo') = 0 <=> mgTodo' = {})
      /\ mgFails' \in Nat
      /\ Cardinality(MgPlaces(mgPipes')) \in Nat
      /\ MgFalseIn(mgPipes') => Cardinality(MgPlaces(mgPipes')) >= 1
  <2>1. /\ mgOwn' \in MgFlags /\ mgTodo' \in SUBSET MgPipe /\ mgFails' \in Nat
        /\ mgPipes' \in [MgPipe -> Seq(BOOLEAN)] /\ IsFiniteSet(MgPlaces(mgPipes'))
    BY DEF MgDetailTypeOK
  <2> QED BY <2>1, MgHeld
<1>2. mgOwn' # <<>> \/ mgTodo' # {} \/ mgFails' > 0 \/ MgFalseIn(mgPipes')
  BY MgNotEmpty DEF MgUnshared
<1> QED BY <1>1, <1>2 DEF MgHolders

(* close() of one msg_t, where that makes one holder less. *)
LEMMA MgClosed ==
    ASSUME MgIInv, MgHolders \in Nat, MgHolders > 0, MgHolders' = MgHolders - 1,
           NEW shared \in BOOLEAN, shared = FALSE => MgUnshared,
           MgClose(shared), MgUnshared' => MgUnshared
    PROVE  /\ mgRefs' \in Nat /\ mgFreed' \in Nat /\ mgStray' \in BOOLEAN
           /\ MgCounted'
           /\ MgDetailTypeOK' => MgLone'
<1> USE DEF MgIInv, MgDetailTypeOK
<1>1. mgStray = FALSE /\ mgRefs = MgHolders /\ mgFreed = 0
  BY DEF MgCounted
<1>2. /\ mgRefs' \in Nat /\ mgFreed' \in Nat /\ mgStray' = FALSE
      /\ mgFreed' = IF MgHolders = 1 THEN 1 ELSE 0
      /\ MgHolders # 1 => mgRefs' = MgHolders'
  <2>1. CASE shared = TRUE
    BY <1>1, <2>1 DEF MgClose, MgSub
  <2>2. CASE shared = FALSE
    <3>1. MgHolders = 1 BY <2>2, <1>1 DEF MgLone
    <3> QED BY <1>1, <2>2, <3>1 DEF MgClose
  <2> QED BY <2>1, <2>2
<1>3. MgCounted'
  BY <1>2 DEF MgCounted
<1>4. ASSUME MgDetailTypeOK', MgUnshared' PROVE FALSE
  <2>1. MgHolders' \in Nat /\ MgHolders' >= 1
    BY <1>4, MgUnsharedHeldNext
  <2>2. MgHolders <= 1
    BY <1>4 DEF MgLone
  <2> QED BY <2>1, <2>2
<1>5. MgDetailTypeOK' => MgLone'
  BY <1>4 DEF MgLone
<1> QED BY <1>2, <1>3, <1>5

-----------------------------------------------------------------------------
(* The first send of a message that the application keeps or gives away. *)
LEMMA MgSendIInv ==
    ASSUME MgIInv, NEW pipes \in SUBSET MgPipe, MgSendOwn(pipes) \/ MgSendCopy(pipes)
    PROVE  MgIInv'
<1> USE DEF MgIInv
<1> DEFINE c == Cardinality(MgPlaces(mgPipes))
           n == Cardinality(pipes)
           b == mgOwn[1]
<1>1. /\ mgOwn \in MgFlags /\ mgOwn # <<>> /\ mgMsg = <<>>
      /\ mgTodo = {} /\ mgFails = 0
      /\ mgPipes' = mgPipes /\ mgFails' = 0 /\ mgSent' \in 0..MgSends
  <2>1. /\ mgOwn # <<>> /\ mgMsg = <<>> /\ mgSent < MgSends
        /\ mgPipes' = mgPipes /\ mgFails' = mgFails /\ mgSent' = mgSent + 1
    BY DEF MgSendOwn, MgSendCopy, MgIdle
  <2>2. mgOwn \in MgFlags /\ mgTodo = {} /\ mgFails = 0
    BY <2>1 DEF MgDetailTypeOK, MgUnderWay
  <2>3. mgSent' \in 0..MgSends
    BY <2>1, MgAssumption DEF MgDetailTypeOK
  <2> QED BY <2>1, <2>2, <2>3
<1>2. b \in BOOLEAN /\ mgOwn = <<b>> /\ Len(mgOwn) = 1
  BY <1>1, MgOneFlag
<1>3. /\ IsFiniteSet(MgPlaces(mgPipes)) /\ c \in Nat
      /\ MgFalseIn(mgPipes) => c >= 1
  BY MgStateCounts DEF MgDetailTypeOK
<1>4. /\ n \in Nat /\ n <= Cardinality(MgPipe) /\ (n = 0 <=> pipes = {})
  <2>1. IsFiniteSet(pipes) /\ n <= Cardinality(MgPipe)
    BY MgAssumption, FS_Subset
  <2> QED BY <2>1, FS_CardinalityType, FS_EmptySet
<1>5. MgHolders = 1 + c
  BY <1>1, <1>2, <1>3, FS_EmptySet DEF MgHolders
<1>6. /\ mgRefs = 1 + c /\ mgFreed = 0 /\ mgStray = FALSE
      /\ ~MgFalseIn(mgPipes)
      /\ b = FALSE => c = 0
  <2>1. mgRefs = 1 + c /\ mgFreed = 0 /\ mgStray = FALSE
    BY <1>3, <1>5 DEF MgCounted
  <2>2. MgUnshared => c = 0
    BY <1>3, <1>5 DEF MgLone
  <2>3. ~MgFalseIn(mgPipes)
    <3>1. MgFalseIn(mgPipes) => MgUnshared BY DEF MgUnshared
    <3> QED BY <1>3, <2>2, <3>1
  <2>4. b = FALSE => c = 0
    BY <1>2, <2>2 DEF MgUnshared
  <2> QED BY <2>1, <2>3, <2>4
<1>7. ~MgFalseIn(mgPipes')
  BY <1>1, <1>6
<1>8. CASE MgSendOwn(pipes) /\ pipes = {}
  <2>1. mgOwn' = <<>> /\ mgMsg' = <<>> /\ mgTodo' = {} /\ MgClose(b)
    BY <1>1, <1>8 DEF MgSendOwn
  <2>2. MgHolders' = MgHolders - 1 /\ MgHolders \in Nat /\ MgHolders > 0
    BY <1>1, <1>3, <1>5, <2>1, FS_EmptySet DEF MgHolders
  <2>3. ~MgUnshared'
    BY <1>7, <2>1, MgNotEmpty DEF MgUnshared
  <2>4. b = FALSE => MgUnshared
    BY <1>2 DEF MgUnshared
  <2>5. /\ mgRefs' \in Nat /\ mgFreed' \in Nat /\ mgStray' \in BOOLEAN
        /\ MgCounted'
    BY <1>2, <2>1, <2>2, <2>3, <2>4, MgClosed
  <2>6. MgDetailTypeOK'
    BY <1>1, <1>3, <2>1, <2>5 DEF MgDetailTypeOK, MgFlags
  <2>7. MgUnderWay'
    BY <1>1, <1>4, <1>8, <2>1 DEF MgUnderWay
  <2> QED BY <2>3, <2>5, <2>6, <2>7 DEF MgLone
<1>9. CASE MgSendOwn(pipes) /\ pipes # {}
  <2>1. /\ mgOwn' = <<>> /\ mgTodo' = pipes /\ MgAdd(n - 1, b)
        /\ mgMsg' = <<b \/ n > 1>>
    BY <1>9 DEF MgSendOwn
  <2>2. MgHolders' = n + c
    BY <1>1, <1>3, <1>4, <2>1 DEF MgHolders
  <2>3. mgRefs' = n + c /\ mgFreed' = 0 /\ mgStray' = FALSE /\ n > 0
    <3>1. n > 0 BY <1>4, <1>9
    <3>2. mgFreed' = 0 /\ mgStray' = FALSE
      <4>1. ~(mgFreed > 0) BY <1>6
      <4> QED BY <1>6, <2>1, <4>1, Zenon DEF MgAdd
    <3>3. CASE b = TRUE
      <4>1. mgRefs' = IF n - 1 = 0 THEN mgRefs ELSE mgRefs + (n - 1)
        BY <2>1, <3>3 DEF MgAdd
      <4> QED BY <1>3, <1>4, <1>6, <3>1, <3>2, <4>1
    <3>4. CASE b = FALSE
      <4>1. mgRefs' = IF n - 1 = 0 THEN mgRefs ELSE (n - 1) + 1
        BY <2>1, <3>4 DEF MgAdd
      <4>2. c = 0 BY <1>6, <3>4
      <4> QED BY <1>4, <1>6, <3>1, <3>2, <4>1, <4>2
    <3> QED BY <1>2, <3>3, <3>4
  <2>4. MgCounted'
    BY <1>3, <1>4, <2>2, <2>3 DEF MgCounted
  <2>5. MgUnshared' => b = FALSE /\ n = 1
    <3>1. MgUnshared' => mgMsg' = <<FALSE>>
      BY <1>7, <2>1, MgNotEmpty DEF MgUnshared
    <3>2. mgMsg' = <<FALSE>> => (b \/ n > 1) = FALSE
      BY <2>1, MgNotEmpty, Zenon
    <3>3. n > 0 BY <1>4, <1>9
    <3>4. ~(n > 1) => n = 1 BY <1>4, <3>3
    <3> QED BY <1>2, <3>1, <3>2, <3>4
  <2>6. MgLone'
    BY <1>6, <2>2, <2>3, <2>5 DEF MgLone
  <2>7. mgMsg' \in MgFlags /\ mgMsg' # <<>>
    <3>1. (b \/ n > 1) \in BOOLEAN OBVIOUS
    <3> QED BY <2>1, <3>1, MgNotEmpty DEF MgFlags
  <2>8. MgDetailTypeOK'
    <3>1. mgRefs' \in Nat /\ mgFreed' \in Nat BY <1>3, <1>4, <2>3
    <3>2. mgStray' \in BOOLEAN BY <2>3
    <3> QED BY <1>1, <1>3, <2>1, <2>7, <3>1, <3>2 DEF MgDetailTypeOK, MgFlags
  <2>9. MgUnderWay'
    BY <1>1, <1>4, <2>1, <2>7 DEF MgUnderWay
  <2> QED BY <2>4, <2>6, <2>8, <2>9
<1>10. CASE MgSendCopy(pipes)
  <2>1. mgOwn' = <<TRUE>> /\ mgTodo' = pipes /\ MgAdd(n, b) /\ mgMsg' = <<TRUE>>
    BY <1>10 DEF MgSendCopy
  <2>2. MgHolders' = 1 + n + c
    BY <1>1, <1>3, <1>4, <2>1, MgNotEmpty DEF MgHolders
  <2>3. mgRefs' = 1 + n + c /\ mgFreed' = 0 /\ mgStray' = FALSE
    <3>2. mgFreed' = 0 /\ mgStray' = FALSE
      <4>1. ~(mgFreed > 0) BY <1>6
      <4> QED BY <1>6, <2>1, <4>1, Zenon DEF MgAdd
    <3>3. CASE b = TRUE
      <4>1. mgRefs' = IF n = 0 THEN mgRefs ELSE mgRefs + n
        BY <2>1, <3>3 DEF MgAdd
      <4> QED BY <1>3, <1>4, <1>6, <3>2, <4>1
    <3>4. CASE b = FALSE
      <4>1. mgRefs' = IF n = 0 THEN mgRefs ELSE n + 1
        BY <2>1, <3>4 DEF MgAdd
      <4>2. c = 0 BY <1>6, <3>4
      <4> QED BY <1>4, <1>6, <3>2, <4>1, <4>2
    <3> QED BY <1>2, <3>3, <3>4
  <2>4. MgCounted'
    BY <1>3, <1>4, <2>2, <2>3 DEF MgCounted
  <2>5. ~MgUnshared'
    <3>1. <<TRUE>> # <<FALSE>> BY MgNotEmpty
    <3> QED BY <1>7, <2>1, <3>1 DEF MgUnshared
  <2>6. MgDetailTypeOK'
    <3>1. mgRefs' \in Nat /\ mgFreed' \in Nat BY <1>3, <1>4, <2>3
    <3>2. mgStray' \in BOOLEAN BY <2>3
    <3> QED BY <1>1, <1>3, <2>1, <3>1, <3>2 DEF MgDetailTypeOK, MgFlags
  <2>7. MgUnderWay'
    BY <1>1, <1>4, <2>1, MgNotEmpty DEF MgUnderWay
  <2> QED BY <2>4, <2>5, <2>6, <2>7 DEF MgLone
<1> QED BY <1>8, <1>9, <1>10

(* One more pipe takes the msg_t or refuses it: the holders stay as many. *)
LEMMA MgWriteIInv ==
    ASSUME MgIInv, NEW p \in MgPipe, MgWrite(p)
    PROVE  MgIInv'
<1> USE DEF MgIInv
<1> DEFINE t == Cardinality(mgTodo)
           b == mgMsg[1]
<1>1. /\ p \in mgTodo /\ mgTodo' = mgTodo \ {p}
      /\ UNCHANGED <<mgRefs, mgFreed, mgStray, mgOwn, mgMsg, mgSent>>
  BY DEF MgWrite, mgContent
<1>2. /\ IsFiniteSet(mgTodo) /\ t \in Nat /\ t # 0 /\ mgFails \in Nat
      /\ Len(mgOwn) \in {0, 1} /\ Cardinality(MgPlaces(mgPipes)) \in Nat
  BY <1>1, MgStateCounts
<1>3. Cardinality(mgTodo') = t - 1 /\ mgTodo' \in SUBSET MgPipe
  BY <1>1, <1>2, FS_RemoveElement DEF MgDetailTypeOK
<1>4. mgMsg \in MgFlags /\ mgMsg # <<>>
  BY <1>1 DEF MgUnderWay, MgDetailTypeOK
<1>5. b \in BOOLEAN /\ mgMsg = <<b>>
  BY <1>4, MgOneFlag
<1>6. /\ mgFails' \in Nat /\ mgPipes' \in [MgPipe -> Seq(BOOLEAN)]
      /\ IsFiniteSet(MgPlaces(mgPipes'))
      /\ mgFails' + Cardinality(MgPlaces(mgPipes'))
            = mgFails + Cardinality(MgPlaces(mgPipes)) + 1
      /\ mgFails' <= mgFails + 1
      /\ Cardinality(MgPlaces(mgPipes')) \in Nat
      /\ MgFalseIn(mgPipes') => MgFalseIn(mgPipes) \/ b = FALSE
  <2> mgPipes \in [MgPipe -> Seq(BOOLEAN)] /\ IsFiniteSet(MgPlaces(mgPipes))
    BY DEF MgDetailTypeOK
  <2>1. CASE mgPipes' = [mgPipes EXCEPT ![p] = Append(@, b)] /\ mgFails' = mgFails
    <3>1. /\ mgPipes' \in [MgPipe -> Seq(BOOLEAN)] /\ IsFiniteSet(MgPlaces(mgPipes'))
          /\ Cardinality(MgPlaces(mgPipes')) = Cardinality(MgPlaces(mgPipes)) + 1
          /\ MgFalseIn(mgPipes') => MgFalseIn(mgPipes) \/ b = FALSE
      <4>1. mgPipes' = MgPut(mgPipes, p, b) BY <2>1 DEF MgPut
      <4> HIDE DEF b
      <4> QED BY <1>5, <4>1, MgAppended
    <3>2. /\ mgFails' \in Nat /\ mgFails' <= mgFails + 1
          /\ Cardinality(MgPlaces(mgPipes')) \in Nat
          /\ mgFails' + Cardinality(MgPlaces(mgPipes'))
                = mgFails + Cardinality(MgPlaces(mgPipes)) + 1
      <4>1. mgFails' = mgFails BY <2>1
      <4>2. Cardinality(MgPlaces(mgPipes')) = Cardinality(MgPlaces(mgPipes)) + 1
        BY <3>1
      <4> QED BY <4>1, <4>2, <1>2
    <3> QED BY <3>1, <3>2
  <2>2. CASE mgFails' = mgFails + 1 /\ mgPipes' = mgPipes
    BY <2>2, <1>2
  <2> QED BY <2>1, <2>2 DEF MgWrite
<1>7. MgHolders' = MgHolders
  <2>1. Len(mgOwn') = Len(mgOwn) BY <1>1
  <2> QED BY <1>2, <1>3, <1>6, <2>1 DEF MgHolders
<1>8. MgDetailTypeOK'
  BY <1>1, <1>3, <1>6 DEF MgDetailTypeOK
<1>9. MgUnderWay'
  <2>1. mgFails + t <= Cardinality(MgPipe) /\ Cardinality(MgPipe) \in Nat
    BY MgAssumption, FS_CardinalityType DEF MgUnderWay
  <2> QED BY <1>1, <1>2, <1>3, <1>4, <1>6, <2>1 DEF MgUnderWay
<1>10. MgCounted'
  BY <1>1, <1>7 DEF MgCounted
<1>11. MgUnshared' => MgUnshared
  <2>1. b = FALSE => MgUnshared
    BY <1>1, <1>5 DEF MgUnshared
  <2>2. mgMsg' = <<FALSE>> => b = FALSE
    BY <1>1, <1>5, MgNotEmpty
  <2> QED BY <1>1, <1>6, <2>1, <2>2 DEF MgUnshared
<1>12. MgLone'
  BY <1>1, <1>7, <1>11 DEF MgLone
<1> QED BY <1>8, <1>9, <1>10, <1>12

(* The end of distribute takes back the references of the pipes that refused. *)
LEMMA MgRmRefsIInv ==
    ASSUME MgIInv, MgRmRefs
    PROVE  MgIInv'
<1> USE DEF MgIInv
<1> DEFINE h == MgHolders
<1>1. /\ mgMsg # <<>> /\ mgTodo = {} /\ mgMsg' = <<>> /\ mgFails' = 0
      /\ UNCHANGED <<mgOwn, mgTodo, mgPipes, mgSent>>
  BY DEF MgRmRefs
<1>2. /\ mgFails \in Nat /\ Cardinality(mgTodo) = 0
      /\ Len(mgOwn) \in {0, 1} /\ Cardinality(MgPlaces(mgPipes)) \in Nat
  BY <1>1, MgStateCounts
<1>3. h \in Nat /\ mgFails <= h /\ MgHolders' = h - mgFails
  BY <1>1, <1>2 DEF MgHolders
<1>4. mgMsg[1] \in BOOLEAN /\ mgMsg = <<mgMsg[1]>>
  BY <1>1, MgOneFlag DEF MgDetailTypeOK
<1>5. MgUnshared' => MgUnshared
  BY <1>1, MgNotEmpty DEF MgUnshared
<1>6. MgUnderWay'
  BY <1>1, <1>2, MgAssumption, FS_CardinalityType DEF MgUnderWay
<1>7. CASE mgFails = 0
  <2>1. UNCHANGED <<mgRefs, mgFreed, mgStray>>
    BY <1>7 DEF MgRmRefs, mgContent
  <2>2. MgHolders' = h BY <1>3, <1>7
  <2>3. MgDetailTypeOK'
    BY <1>1, <2>1 DEF MgDetailTypeOK, MgFlags
  <2> QED BY <1>5, <1>6, <2>1, <2>2, <2>3 DEF MgLone, MgCounted
<1>8. CASE mgFails # 0
  <2>1. mgRefs = h /\ mgFreed = 0 /\ mgStray = FALSE /\ h > 0
    BY <1>2, <1>3, <1>8 DEF MgCounted
  <2>2. /\ mgStray' = FALSE /\ mgFreed' = IF h = mgFails THEN 1 ELSE 0
        /\ mgRefs' \in Nat
        /\ h # mgFails => mgRefs' = h - mgFails
    <3>1. CASE mgMsg[1] = TRUE
      <4>1. MgSub(mgFails) BY <1>8, <3>1 DEF MgRmRefs
      <4>2. ~(mgFreed > 0) /\ ~(mgRefs < mgFails) BY <1>2, <1>3, <2>1
      <4>3. mgStray' = FALSE BY <2>1, <4>1, <4>2, Zenon DEF MgSub
      <4> QED BY <1>2, <1>3, <2>1, <4>1, <4>3 DEF MgSub
    <3>2. CASE mgMsg[1] = FALSE
      <4>1. MgClose(FALSE) BY <1>8, <3>2 DEF MgRmRefs
      <4>2. mgFreed' = mgFreed + 1 /\ mgRefs' = mgRefs /\ mgStray' = mgStray
        BY <4>1 DEF MgClose
      <4>3. MgUnshared
        <5>1. mgFails > 0 BY <1>2, <1>8
        <5>2. mgMsg = <<FALSE>> BY <1>4, <3>2
        <5> QED BY <5>1, <5>2 DEF MgUnshared
      <4>4. h = mgFails BY <1>2, <1>3, <1>8, <4>3 DEF MgLone
      <4> QED BY <1>3, <2>1, <4>2, <4>4
    <3> QED BY <1>4, <3>1, <3>2
  <2>3. MgCounted'
    BY <1>2, <1>3, <2>2 DEF MgCounted
  <2>4. MgDetailTypeOK'
    <3>1. mgFreed' \in Nat /\ mgStray' \in BOOLEAN BY <2>2
    <3> QED BY <1>1, <2>2, <3>1 DEF MgDetailTypeOK, MgFlags
  <2>5. ~MgUnshared'
    <3>1. MgUnshared' => h <= 1 BY <1>5 DEF MgLone
    <3>2. MgUnshared' => MgHolders' >= 1 BY <2>4, MgUnsharedHeldNext
    <3> QED BY <1>2, <1>3, <1>8, <3>1, <3>2
  <2> QED BY <1>6, <2>3, <2>4, <2>5 DEF MgLone
<1> QED BY <1>7, <1>8

(* A reader, or the application, closes its msg_t. *)
LEMMA MgClosesIInv ==
    ASSUME MgIInv, MgOwnCloses \/ \E p \in MgPipe : MgReaderCloses(p)
    PROVE  MgIInv'
<1> USE DEF MgIInv
<1>1. /\ mgFails \in Nat /\ Cardinality(mgTodo) \in Nat
      /\ Len(mgOwn) \in {0, 1} /\ (Len(mgOwn) = 1 <=> mgOwn # <<>>)
      /\ Cardinality(MgPlaces(mgPipes)) \in Nat
  BY MgStateCounts
<1>2. MgHolders \in Nat
  BY <1>1 DEF MgHolders
<1>3. CASE MgOwnCloses
  <2>1. /\ mgOwn # <<>> /\ mgOwn' = <<>> /\ MgClose(mgOwn[1])
        /\ UNCHANGED <<mgMsg, mgTodo, mgFails, mgPipes, mgSent>>
    BY <1>3 DEF MgOwnCloses
  <2>2. mgOwn[1] \in BOOLEAN /\ mgOwn = <<mgOwn[1]>>
    BY <2>1, MgOneFlag DEF MgDetailTypeOK
  <2>3. MgHolders' = MgHolders - 1 /\ MgHolders > 0
    <3>1. Len(mgOwn') = 0 /\ Len(mgOwn) = 1 BY <1>1, <2>1
    <3>2. /\ MgHolders' = 0 + Cardinality(mgTodo) + mgFails + Cardinality(MgPlaces(mgPipes))
          /\ MgHolders = 1 + Cardinality(mgTodo) + mgFails + Cardinality(MgPlaces(mgPipes))
      BY <2>1, <3>1 DEF MgHolders
    <3> QED BY <1>1, <3>2
  <2>4. mgOwn[1] = FALSE => MgUnshared
    BY <2>2 DEF MgUnshared
  <2>5. MgUnshared' => MgUnshared
    BY <2>1, MgNotEmpty DEF MgUnshared
  <2>6. /\ mgRefs' \in Nat /\ mgFreed' \in Nat /\ mgStray' \in BOOLEAN
        /\ MgCounted'
        /\ MgDetailTypeOK' => MgLone'
    BY <1>2, <2>1, <2>2, <2>3, <2>4, <2>5, MgClosed
  <2>7. MgDetailTypeOK'
    BY <2>1, <2>6 DEF MgDetailTypeOK, MgFlags
  <2>8. MgUnderWay'
    BY <2>1 DEF MgUnderWay
  <2> QED BY <2>6, <2>7, <2>8
<1>4. ASSUME NEW p \in MgPipe, MgReaderCloses(p) PROVE MgIInv'
  <2>1. /\ mgPipes[p] # <<>> /\ MgClose(Head(mgPipes[p]))
        /\ mgPipes' = [mgPipes EXCEPT ![p] = Tail(@)]
        /\ UNCHANGED <<mgOwn, mgMsg, mgTodo, mgFails, mgSent>>
    BY <1>4 DEF MgReaderCloses
  <2>2. /\ mgPipes' \in [MgPipe -> Seq(BOOLEAN)]
        /\ IsFiniteSet(MgPlaces(mgPipes'))
        /\ Cardinality(MgPlaces(mgPipes')) = Cardinality(MgPlaces(mgPipes)) - 1
        /\ MgFalseIn(mgPipes') => MgFalseIn(mgPipes)
        /\ Head(mgPipes[p]) \in BOOLEAN
        /\ Head(mgPipes[p]) = FALSE => MgFalseIn(mgPipes)
    <3>1. mgPipes \in [MgPipe -> Seq(BOOLEAN)] /\ IsFiniteSet(MgPlaces(mgPipes))
      BY DEF MgDetailTypeOK
    <3>2. mgPipes' = MgGet(mgPipes, p) BY <2>1 DEF MgGet
    <3>3. mgPipes[p] # <<>> BY <2>1
    <3> QED BY <3>1, <3>2, <3>3, MgTaken, Zenon
  <2>3. MgHolders' = MgHolders - 1 /\ MgHolders > 0
    <3>1. Cardinality(MgPlaces(mgPipes')) \in Nat
      BY <2>2, FS_CardinalityType
    <3>2. MgHolders' = Len(mgOwn) + Cardinality(mgTodo) + mgFails
                            + Cardinality(MgPlaces(mgPipes'))
      BY <2>1 DEF MgHolders
    <3>3. Cardinality(MgPlaces(mgPipes')) = Cardinality(MgPlaces(mgPipes)) - 1
      BY <2>2
    <3> QED BY <1>1, <3>1, <3>2, <3>3 DEF MgHolders
  <2>4. Head(mgPipes[p]) = FALSE => MgUnshared
    BY <2>2 DEF MgUnshared
  <2>5. MgUnshared' => MgUnshared
    BY <2>1, <2>2 DEF MgUnshared
  <2>6. /\ mgRefs' \in Nat /\ mgFreed' \in Nat /\ mgStray' \in BOOLEAN
        /\ MgCounted'
        /\ MgDetailTypeOK' => MgLone'
    BY <1>2, <2>1, <2>2, <2>3, <2>4, <2>5, MgClosed
  <2>7. MgDetailTypeOK'
    BY <2>1, <2>2, <2>6 DEF MgDetailTypeOK
  <2>8. MgUnderWay'
    BY <2>1 DEF MgUnderWay
  <2> QED BY <2>6, <2>7, <2>8
<1> QED BY <1>3, <1>4

(* The invariant of a shared message's contents (msg.cpp, dist.cpp): the     *)
(* reference counter counts the holders, and an unflagged msg_t is alone.     *)
THEOREM MgInvariance == MgSpec => []MgIInv
<1>1. MgInit => MgIInv
  <2> SUFFICES ASSUME MgInit PROVE MgIInv OBVIOUS
  <2>1. MgPlaces(mgPipes) = {}
    BY DEF MgInit, MgPlaces
  <2>2. IsFiniteSet(MgPlaces(mgPipes)) /\ Cardinality(MgPlaces(mgPipes)) = 0
    BY <2>1, FS_EmptySet
  <2>3. MgHolders = 1
    BY <2>2, MgNotEmpty, FS_EmptySet DEF MgInit, MgHolders
  <2>4. MgDetailTypeOK
    <3>1. mgPipes \in [MgPipe -> Seq(BOOLEAN)]
      BY DEF MgInit
    <3>2. mgStray \in BOOLEAN /\ mgOwn \in MgFlags /\ mgMsg \in MgFlags
      BY DEF MgInit, MgFlags
    <3>3. /\ mgRefs \in Nat /\ mgFreed \in Nat /\ mgFails \in Nat /\ mgSent \in 0..MgSends
          /\ mgTodo \in SUBSET MgPipe
      BY MgAssumption DEF MgInit
    <3> QED BY <2>2, <3>1, <3>2, <3>3 DEF MgDetailTypeOK
  <2>5. MgUnderWay
    BY MgAssumption, FS_EmptySet, FS_CardinalityType DEF MgInit, MgUnderWay
  <2> QED BY <2>3, <2>4, <2>5 DEF MgInit, MgIInv, MgLone, MgCounted
<1>2. MgIInv /\ [MgNext]_mgVars => MgIInv'
  <2> SUFFICES ASSUME MgIInv, [MgNext]_mgVars PROVE MgIInv' OBVIOUS
  <2>1. CASE \E pipes \in SUBSET MgPipe : MgSendOwn(pipes) \/ MgSendCopy(pipes)
    BY <2>1, MgSendIInv
  <2>2. CASE \E p \in MgPipe : MgWrite(p)
    BY <2>2, MgWriteIInv
  <2>3. CASE MgRmRefs
    BY <2>3, MgRmRefsIInv
  <2>4. CASE MgOwnCloses \/ \E p \in MgPipe : MgReaderCloses(p)
    BY <2>4, MgClosesIInv
  <2>5. CASE UNCHANGED mgVars
    BY <2>5 DEF mgVars, MgIInv, MgDetailTypeOK, MgUnderWay, MgLone, MgCounted,
                MgUnshared, MgHolders
  <2> QED BY <2>1, <2>2, <2>3, <2>4, <2>5 DEF MgNext
<1> QED BY <1>1, <1>2, PTL DEF MgSpec

(* The contents of a long message are released exactly once, when the last   *)
(* msg_t is closed, and not touched afterwards (msg_t::close, add_refs,        *)
(* rm_refs and dist_t::distribute), for any number of pipes and sends.         *)
THEOREM ContentsFreedOnce == MgSpec => []MgSafe
<1>1. MgIInv => MgSafe
  <2> SUFFICES ASSUME MgIInv PROVE MgSafe OBVIOUS
  <2>1. MgHolders \in Nat
    BY MgStateCounts DEF MgIInv, MgHolders
  <2> QED BY <2>1 DEF MgIInv, MgCounted, MgSafe
<1> QED BY <1>1, MgInvariance, PTL

-----------------------------------------------------------------------------
(* dist_t *)

(* The array holds each of the pipes P in one place. *)
DsArray(s, P) ==
    /\ s \in Seq(DsPipe)
    /\ P \subseteq DsPipe
    /\ \A i \in 1..Len(s) : s[i] \in P
    /\ \A p \in P : \E i \in 1..Len(s) : s[i] = p
    /\ \A i \in 1..Len(s), j \in 1..Len(s) : s[i] = s[j] => i = j

-----------------------------------------------------------------------------
\* A pipe's index is its place in the array, and the only one.
LEMMA DsIndexOf ==
    ASSUME NEW s, NEW P, DsArray(s, P)
    PROVE  /\ Len(s) \in Nat
           /\ \A p \in P : DsIndex(s, p) \in 0..(Len(s) - 1) /\ s[DsIndex(s, p) + 1] = p
           /\ \A i \in 0..(Len(s) - 1) : s[i + 1] \in P /\ DsIndex(s, s[i + 1]) = i
<1>1. Len(s) \in Nat BY LenProperties DEF DsArray
<1>2. ASSUME NEW p \in P
      PROVE  DsIndex(s, p) \in 0..(Len(s) - 1) /\ s[DsIndex(s, p) + 1] = p
  <2> DEFINE j == CHOOSE i \in 1..Len(s) : s[i] = p
  <2>1. \E i \in 1..Len(s) : s[i] = p BY <1>2 DEF DsArray
  <2>2. j \in 1..Len(s) /\ s[j] = p BY <2>1
  <2>3. DsIndex(s, p) = j - 1 BY DEF DsIndex
  <2> HIDE DEF j
  <2>4. (j - 1) + 1 = j /\ j - 1 \in 0..(Len(s) - 1) BY <1>1, <2>2
  <2> QED BY <2>2, <2>3, <2>4
<1>3. ASSUME NEW i \in 0..(Len(s) - 1)
      PROVE  s[i + 1] \in P /\ DsIndex(s, s[i + 1]) = i
  <2>1. i + 1 \in 1..Len(s) BY <1>1
  <2>2. s[i + 1] \in P BY <2>1 DEF DsArray
  <2>3. /\ DsIndex(s, s[i + 1]) \in 0..(Len(s) - 1)
        /\ s[DsIndex(s, s[i + 1]) + 1] = s[i + 1]
    BY <2>2, <1>2
  <2>4. DsIndex(s, s[i + 1]) + 1 \in 1..Len(s) BY <1>1, <2>3
  <2>5. DsIndex(s, s[i + 1]) + 1 = i + 1 BY <2>1, <2>3, <2>4 DEF DsArray
  <2> QED BY <1>1, <2>2, <2>3, <2>5
<1> QED BY <1>1, <1>2, <1>3

\* An array and its indices, from what stands at each place.
LEMMA DsPlaces ==
    ASSUME NEW s, NEW P, NEW i \in Nat, NEW p, DsArray(s, P), i < Len(s), s[i + 1] = p
    PROVE  p \in P /\ DsIndex(s, p) = i
<1>1. Len(s) \in Nat BY DsIndexOf
<1>2. i \in 0..(Len(s) - 1) BY <1>1
<1> QED BY <1>2, DsIndexOf

\* What swap does to the index of each pipe.
DsTraded(x, i, j) == IF x = i THEN j ELSE IF x = j THEN i ELSE x

\* A swap keeps the pipes and exchanges two indices.
LEMMA DsSwapFacts ==
    ASSUME NEW s, NEW P, NEW i \in Nat, NEW j \in Nat, DsArray(s, P), i < Len(s), j < Len(s)
    PROVE  /\ DsArray(DsSwap(s, i, j), P)
           /\ Len(DsSwap(s, i, j)) = Len(s)
           /\ \A p \in P : DsIndex(DsSwap(s, i, j), p) = DsTraded(DsIndex(s, p), i, j)
<1> DEFINE t == DsSwap(s, i, j)
<1>1. Len(s) \in Nat /\ s \in Seq(DsPipe) /\ P \subseteq DsPipe BY DsIndexOf DEF DsArray
<1>2. i + 1 \in 1..Len(s) /\ j + 1 \in 1..Len(s) BY <1>1
<1>3. s[i + 1] \in DsPipe /\ s[j + 1] \in DsPipe BY <1>1, <1>2 DEF DsArray
<1>4. t \in Seq(DsPipe) /\ Len(t) = Len(s)
  <2>1. [s EXCEPT ![i + 1] = s[j + 1]] \in Seq(DsPipe)
        /\ Len([s EXCEPT ![i + 1] = s[j + 1]]) = Len(s)
    BY <1>1, <1>2, <1>3, ExceptSeq
  <2> QED BY <1>2, <1>3, <2>1, ExceptSeq DEF DsSwap
<1>5. ASSUME NEW k \in 1..Len(s)
      PROVE  t[k] = s[DsTraded(k - 1, i, j) + 1] /\ DsTraded(k - 1, i, j) + 1 \in 1..Len(s)
  <2>1. CASE k = j + 1
    <3>1. t[k] = s[i + 1] BY <1>1, <1>2, <2>1 DEF DsSwap
    <3>2. DsTraded(k - 1, i, j) = i BY <1>1, <2>1 DEF DsTraded
    <3> QED BY <3>1, <3>2, <1>2
  <2>2. CASE k = i + 1 /\ k # j + 1
    <3>1. t[k] = s[j + 1] BY <1>1, <1>2, <2>2 DEF DsSwap
    <3>2. DsTraded(k - 1, i, j) = j BY <1>1, <2>2 DEF DsTraded
    <3> QED BY <3>1, <3>2, <1>2
  <2>3. CASE k # i + 1 /\ k # j + 1
    <3>1. t[k] = s[k] BY <1>1, <1>2, <2>3 DEF DsSwap
    <3>2. DsTraded(k - 1, i, j) = k - 1 /\ (k - 1) + 1 = k BY <1>1, <2>3 DEF DsTraded
    <3> QED BY <3>1, <3>2
  <2> QED BY <2>1, <2>2, <2>3
<1> HIDE DEF t
<1>6. DsArray(t, P)
  <2>1. \A k \in 1..Len(t) : t[k] \in P BY <1>4, <1>5 DEF DsArray
  <2>2. ASSUME NEW p \in P PROVE \E k \in 1..Len(t) : t[k] = p
    <3>1. PICK k \in 1..Len(s) : s[k] = p BY DEF DsArray
    <3>2. DsTraded(k - 1, i, j) \in Nat /\ DsTraded(k - 1, i, j) + 1 \in 1..Len(s)
      BY <1>1, <1>2, <3>1 DEF DsTraded
    <3>3. DsTraded((DsTraded(k - 1, i, j) + 1) - 1, i, j) + 1 = k
      BY <1>1, <3>1 DEF DsTraded
    <3> QED BY <1>4, <1>5, <3>1, <3>2, <3>3
  <2>3. ASSUME NEW k \in 1..Len(t), NEW l \in 1..Len(t), t[k] = t[l] PROVE k = l
    <3>1. DsTraded(k - 1, i, j) + 1 = DsTraded(l - 1, i, j) + 1
      BY <1>4, <1>5, <2>3 DEF DsArray
    <3> QED BY <1>1, <1>4, <3>1 DEF DsTraded
  <2> QED BY <1>1, <1>4, <2>1, <2>2, <2>3 DEF DsArray
<1>7. ASSUME NEW p \in P PROVE DsIndex(t, p) = DsTraded(DsIndex(s, p), i, j)
  <2> DEFINE x == DsIndex(s, p)
             y == DsTraded(x, i, j)
  <2>1. x \in 0..(Len(s) - 1) /\ s[x + 1] = p BY DsIndexOf
  <2> HIDE DEF x
  <2>2. y \in Nat /\ y < Len(s) /\ y + 1 \in 1..Len(s) BY <1>1, <1>2, <2>1 DEF DsTraded
  <2>3. DsTraded((y + 1) - 1, i, j) = x BY <1>1, <2>1 DEF DsTraded
  <2> HIDE DEF y
  <2>4. t[y + 1] = p BY <1>5, <2>1, <2>2, <2>3
  <2>5. DsIndex(t, p) = y BY <1>4, <1>6, <2>2, <2>4, DsPlaces
  <2> QED BY <2>5 DEF x, y
<1> QED BY <1>4, <1>6, <1>7 DEF t

\* A pipe is added at the end of the array.
LEMMA DsAppendFacts ==
    ASSUME NEW s, NEW P, NEW p \in DsPipe, DsArray(s, P), p \notin P
    PROVE  /\ DsArray(Append(s, p), P \cup {p})
           /\ Len(Append(s, p)) = Len(s) + 1
           /\ DsIndex(Append(s, p), p) = Len(s)
           /\ \A q \in P : DsIndex(Append(s, p), q) = DsIndex(s, q)
<1> DEFINE t == Append(s, p)
<1>1. Len(s) \in Nat /\ s \in Seq(DsPipe) /\ P \subseteq DsPipe BY DsIndexOf DEF DsArray
<1>2. /\ t \in Seq(DsPipe) /\ Len(t) = Len(s) + 1
      /\ \A i \in 1..Len(s) : t[i] = s[i]
      /\ t[Len(s) + 1] = p
  BY <1>1, AppendProperties
<1> HIDE DEF t
<1>3. \A i \in 1..Len(t) : i \in 1..Len(s) \/ i = Len(s) + 1 BY <1>1, <1>2
<1>4. DsArray(t, P \cup {p})
  <2>1. ASSUME NEW i \in 1..Len(t) PROVE t[i] \in P \cup {p} BY <1>2, <1>3 DEF DsArray
  <2>2. ASSUME NEW q \in P \cup {p} PROVE \E i \in 1..Len(t) : t[i] = q
    <3>1. CASE q = p
      <4>1. Len(s) + 1 \in 1..Len(t) BY <1>1, <1>2
      <4> QED BY <1>2, <3>1, <4>1
    <3>2. CASE q \in P
      <4>1. PICK i \in 1..Len(s) : s[i] = q BY <3>2 DEF DsArray
      <4>2. i \in 1..Len(t) BY <1>1, <1>2
      <4> QED BY <1>2, <4>1, <4>2
    <3> QED BY <3>1, <3>2
  <2>3. ASSUME NEW i \in 1..Len(t), NEW j \in 1..Len(t), t[i] = t[j] PROVE i = j
    <3>1. \A k \in 1..Len(s) : s[k] # p BY DEF DsArray
    <3>2. CASE i \in 1..Len(s) /\ j \in 1..Len(s) BY <1>2, <2>3, <3>2 DEF DsArray
    <3> QED BY <1>2, <1>3, <2>3, <3>1, <3>2
  <2> QED BY <1>1, <1>2, <2>1, <2>2, <2>3 DEF DsArray
<1>5. DsIndex(t, p) = Len(s)
  <2>1. Len(s) < Len(t) BY <1>1, <1>2
  <2> QED BY <1>1, <1>2, <1>4, <2>1, DsPlaces
<1>6. ASSUME NEW q \in P PROVE DsIndex(t, q) = DsIndex(s, q)
  <2> DEFINE x == DsIndex(s, q)
  <2>1. x \in 0..(Len(s) - 1) /\ s[x + 1] = q BY DsIndexOf
  <2> HIDE DEF x
  <2>2. x \in Nat /\ x < Len(t) /\ x + 1 \in 1..Len(s) BY <1>1, <1>2, <2>1
  <2>3. t[x + 1] = q BY <1>2, <2>1, <2>2
  <2>4. DsIndex(t, q) = x BY <1>4, <2>2, <2>3, DsPlaces
  <2> QED BY <2>4 DEF x
<1> QED BY <1>2, <1>4, <1>5, <1>6 DEF t

\* The last pipe takes the place of the erased one.
LEMMA DsEraseFacts ==
    ASSUME NEW s, NEW P, NEW p \in P, DsArray(s, P)
    PROVE  LET t == DsErase(s, DsIndex(s, p)) IN
           /\ DsArray(t, P \ {p})
           /\ Len(t) = Len(s) - 1
           /\ \A q \in P \ {p} :
                 DsIndex(t, q) = IF DsIndex(s, q) = Len(s) - 1 THEN DsIndex(s, p)
                                 ELSE DsIndex(s, q)
<1> DEFINE i == DsIndex(s, p)
           u == [s EXCEPT ![i + 1] = Last(s)]
           t == DsErase(s, i)
<1>1. Len(s) \in Nat /\ s \in Seq(DsPipe) /\ P \subseteq DsPipe BY DsIndexOf DEF DsArray
<1>2. i \in 0..(Len(s) - 1) /\ s[i + 1] = p BY DsIndexOf
<1> HIDE DEF i
<1>3. i \in Nat /\ i + 1 \in 1..Len(s) /\ Len(s) \in 1..Len(s) /\ Len(s) - 1 \in Nat
  BY <1>1, <1>2
<1>4. Last(s) = s[Len(s)] /\ s[Len(s)] \in DsPipe BY <1>1, <1>3 DEF Last, DsArray
<1>5. u \in Seq(DsPipe) /\ Len(u) = Len(s) BY <1>1, <1>3, <1>4, ExceptSeq
<1>6. \A k \in 1..Len(s) : u[k] = IF k = i + 1 THEN s[Len(s)] ELSE s[k]
  BY <1>1, <1>3, <1>4
<1> HIDE DEF u
<1>7. /\ t \in Seq(DsPipe) /\ Len(t) = Len(s) - 1
      /\ \A k \in 1..(Len(s) - 1) : t[k] = u[k]
  <2>1. t = SubSeq(u, 1, Len(s) - 1) BY <1>5 DEF DsErase, Front, u
  <2> HIDE DEF t
  <2>2. 1 \in 1..(Len(u) + 1) /\ Len(s) - 1 \in (1 - 1)..Len(u) BY <1>3, <1>5
  <2>3. /\ Len(t) = (Len(s) - 1) - 1 + 1
        /\ \A k \in 1..((Len(s) - 1) - 1 + 1) : t[k] = u[1 + k - 1]
        /\ t \in Seq(DsPipe)
    BY <1>5, <2>1, <2>2, SubSeqProperties
  <2>4. (Len(s) - 1) - 1 + 1 = Len(s) - 1 BY <1>3
  <2>5. \A k \in 1..(Len(s) - 1) : 1 + k - 1 = k BY <1>3
  <2> QED BY <2>3, <2>4, <2>5
<1> HIDE DEF t
<1>8. \A k \in 1..(Len(s) - 1) :
          k \in 1..Len(s) /\ k # Len(s) /\ t[k] = IF k = i + 1 THEN s[Len(s)] ELSE s[k]
  BY <1>1, <1>3, <1>6, <1>7
<1>9. ASSUME NEW q \in P \ {p}
      PROVE  LET y == IF DsIndex(s, q) = Len(s) - 1 THEN i ELSE DsIndex(s, q) IN
             y \in Nat /\ y < Len(t) /\ y + 1 \in 1..Len(t) /\ t[y + 1] = q
  <2> DEFINE x == DsIndex(s, q)
             y == IF x = Len(s) - 1 THEN i ELSE x
  <2>1. x \in 0..(Len(s) - 1) /\ s[x + 1] = q BY DsIndexOf
  <2> HIDE DEF x
  <2>2. x # i BY <1>2, <2>1
  <2>3. y \in Nat /\ y < Len(s) - 1 /\ y + 1 \in 1..(Len(s) - 1)
    BY <1>2, <1>3, <2>1, <2>2
  <2>4. t[y + 1] = q
    <3>1. CASE x = Len(s) - 1
      <4>1. y = i /\ s[Len(s)] = q BY <1>3, <2>1, <3>1
      <4> QED BY <1>8, <2>3, <4>1
    <3>2. CASE x # Len(s) - 1
      <4>1. y = x /\ y + 1 # i + 1 BY <1>3, <2>1, <2>2, <3>2
      <4> QED BY <1>8, <2>1, <2>3, <4>1
    <3> QED BY <3>1, <3>2
  <2> QED BY <1>7, <2>3, <2>4 DEF x
<1>10. DsArray(t, P \ {p})
  <2>1. ASSUME NEW k \in 1..Len(t) PROVE t[k] \in P \ {p}
    <3>1. k \in 1..Len(s) /\ k # Len(s) /\ t[k] = IF k = i + 1 THEN s[Len(s)] ELSE s[k]
      BY <1>7, <1>8
    <3>2. s[k] \in P /\ s[Len(s)] \in P BY <1>3, <3>1 DEF DsArray
    <3>3. k # i + 1 => s[k] # p BY <1>2, <1>3, <3>1 DEF DsArray
    <3>4. k = i + 1 => s[Len(s)] # p BY <1>2, <1>3, <3>1 DEF DsArray
    <3> QED BY <3>1, <3>2, <3>3, <3>4
  <2>2. ASSUME NEW q \in P \ {p} PROVE \E k \in 1..Len(t) : t[k] = q BY <1>9
  <2>3. ASSUME NEW k \in 1..Len(t), NEW l \in 1..Len(t), t[k] = t[l] PROVE k = l
    <3>1. /\ k \in 1..Len(s) /\ k # Len(s) /\ t[k] = IF k = i + 1 THEN s[Len(s)] ELSE s[k]
          /\ l \in 1..Len(s) /\ l # Len(s) /\ t[l] = IF l = i + 1 THEN s[Len(s)] ELSE s[l]
      BY <1>7, <1>8
    <3> QED BY <1>3, <2>3, <3>1 DEF DsArray
  <2> QED BY <1>1, <1>7, <2>1, <2>2, <2>3 DEF DsArray
<1>11. ASSUME NEW q \in P \ {p}
       PROVE  DsIndex(t, q) = IF DsIndex(s, q) = Len(s) - 1 THEN i ELSE DsIndex(s, q)
  BY <1>9, <1>10, DsPlaces
<1> QED BY <1>7, <1>10, <1>11 DEF t, i

\* Two indices in the same region are on the same side of each counter.
LEMMA DsSameRegion ==
    ASSUME NEW i \in Nat, NEW j \in Nat, i <= j,
           dsMatching \in Nat, dsActive \in Nat, dsEligible \in Nat,
           DsRegion(i) = DsRegion(j)
    PROVE  /\ i < dsMatching <=> j < dsMatching
           /\ i < dsActive <=> j < dsActive
           /\ i < dsEligible <=> j < dsEligible
<1> DEFINE v == <<dsMatching, dsActive, dsEligible>>
           A == {k \in 1..3 : v[k] <= i}
           B == {k \in 1..3 : v[k] <= j}
<1>1. v[1] = dsMatching /\ v[2] = dsActive /\ v[3] = dsEligible OBVIOUS
<1>2. A \subseteq B
  <2> SUFFICES ASSUME NEW k \in 1..3, v[k] <= i PROVE v[k] <= j OBVIOUS
  <2>1. k = 1 \/ k = 2 \/ k = 3 OBVIOUS
  <2>2. v[k] \in Nat BY <1>1, <2>1
  <2> HIDE DEF v
  <2> QED BY <2>2
<1>3. IsFiniteSet(B)
  <2>0. 1 \in Int /\ 3 \in Int OBVIOUS
  <2>1. IsFiniteSet(1..3) BY <2>0, FS_Interval
  <2>2. B \subseteq 1..3 OBVIOUS
  <2> QED BY <2>1, <2>2, FS_Subset
<1>4. Cardinality(A) = Cardinality(B) BY DEF DsRegion
<1>5. A = B
  <2> HIDE DEF A, B
  <2> QED BY <1>2, <1>3, <1>4, FS_Subset
<1>6. \A k \in 1..3 : v[k] <= i <=> v[k] <= j
  <2> HIDE DEF v
  <2> QED BY <1>5
<1>7. /\ dsMatching <= i <=> dsMatching <= j
      /\ dsActive <= i <=> dsActive <= j
      /\ dsEligible <= i <=> dsEligible <= j
  <2>1. 1 \in 1..3 /\ 2 \in 1..3 /\ 3 \in 1..3 OBVIOUS
  <2> HIDE DEF v
  <2> QED BY <1>1, <1>6, <2>1
<1> QED BY <1>7

-----------------------------------------------------------------------------
(* The loops of send_to_matching *)

DsCursors == [pipes : Seq(DsPipe), matching : Nat, active : Nat, eligible : Nat]

\* The array with its counters, which are nested.
DsCursor(c, P) ==
    /\ c \in DsCursors
    /\ DsArray(c.pipes, P)
    /\ c.matching <= c.active /\ c.active <= c.eligible /\ c.eligible <= Len(c.pipes)

\* From c the pipes `done' were matched, which gave d.
DsMatched(c, d, P, done) ==
    /\ DsCursor(d, P)
    /\ Len(d.pipes) = Len(c.pipes) /\ d.active = c.active /\ d.eligible = c.eligible
    /\ \A p \in P : DsIndex(d.pipes, p) < d.eligible <=> DsIndex(c.pipes, p) < c.eligible
    /\ \A p \in done : DsIndex(d.pipes, p) < d.eligible => DsIndex(d.pipes, p) < d.matching

\* match makes a pipe match if it is eligible, and keeps the others where they were.
LEMMA DsMatchOnce ==
    ASSUME NEW c, NEW d, NEW P, NEW done, NEW p \in P, done \subseteq P,
           DsMatched(c, d, P, done), c.active = c.eligible
    PROVE  DsMatched(c, DsMatch(d, p), P, done \cup {p})
<1> DEFINE i == DsIndex(d.pipes, p)
           m == d.matching
           e == DsMatch(d, p)
           s == DsSwap(d.pipes, i, m)
<1>1. /\ d \in DsCursors /\ DsArray(d.pipes, P)
      /\ m <= d.active /\ d.active = d.eligible /\ d.eligible <= Len(d.pipes)
      /\ m \in Nat /\ d.active \in Nat /\ d.eligible \in Nat
  BY DEF DsMatched, DsCursor, DsCursors
<1>2. Len(d.pipes) \in Nat /\ i \in 0..(Len(d.pipes) - 1) BY <1>1, DsIndexOf
<1>3. \A q \in P : DsIndex(d.pipes, q) \in Nat BY <1>1, DsIndexOf
<1>4. CASE i < m \/ i >= d.eligible
  <2>1. e = d BY <1>4 DEF DsMatch
  <2>2. i < d.eligible => i < m BY <1>1, <1>2, <1>4
  <2> HIDE DEF e
  <2>3. ASSUME NEW q \in done \cup {p}, DsIndex(d.pipes, q) < d.eligible
        PROVE  DsIndex(d.pipes, q) < d.matching
    <3>1. CASE q = p BY <2>2, <2>3, <3>1
    <3>2. CASE q \in done BY <2>3, <3>2 DEF DsMatched
    <3> QED BY <3>1, <3>2
  <2>4. DsMatched(c, d, P, done \cup {p}) BY <2>3 DEF DsMatched
  <2> QED BY <2>1, <2>4 DEF e
<1>5. CASE ~(i < m \/ i >= d.eligible)
  <2>1. e = [d EXCEPT !.pipes = s, !.matching = m + 1] BY <1>5 DEF DsMatch
  <2>2. i \in Nat /\ i < Len(d.pipes) /\ m < Len(d.pipes) /\ m <= i /\ i < d.eligible
    BY <1>1, <1>2, <1>5
  <2>3. /\ DsArray(s, P) /\ Len(s) = Len(d.pipes)
        /\ \A q \in P : DsIndex(s, q) = DsTraded(DsIndex(d.pipes, q), i, m)
    BY <1>1, <2>2, DsSwapFacts
  <2>4. s \in Seq(DsPipe) BY <2>3 DEF DsArray
  <2> HIDE DEF s, e, m
  <2>5. /\ e \in DsCursors /\ e.pipes = s /\ e.matching = m + 1
        /\ e.active = d.active /\ e.eligible = d.eligible
    <3>1. e = [pipes |-> s, matching |-> m + 1, active |-> d.active,
               eligible |-> d.eligible]
      BY <1>1, <2>1 DEF DsCursors
    <3>2. m + 1 \in Nat BY <1>1
    <3> QED BY <1>1, <2>4, <3>1, <3>2 DEF DsCursors
  <2>6. DsCursor(e, P) BY <1>1, <2>2, <2>3, <2>5 DEF DsCursor
  <2>7. DsIndex(s, p) = m /\ DsIndex(d.pipes, p) = i BY <2>3 DEF DsTraded
  <2> HIDE DEF i
  <2>8. ASSUME NEW q \in P
        PROVE  /\ DsIndex(s, q) < d.eligible <=> DsIndex(d.pipes, q) < d.eligible
               /\ DsIndex(d.pipes, q) < m => DsIndex(s, q) < m
    <3>1. DsIndex(s, q) = DsTraded(DsIndex(d.pipes, q), i, m) /\ DsIndex(d.pipes, q) \in Nat
      BY <1>3, <2>3
    <3> QED BY <1>1, <2>2, <3>1 DEF DsTraded
  <2>9. ASSUME NEW q \in done \cup {p}, DsIndex(s, q) < d.eligible PROVE DsIndex(s, q) < m + 1
    <3>1. CASE q = p BY <1>1, <2>7, <3>1
    <3>2. CASE q \in done
      <4>1. DsIndex(d.pipes, q) < m BY <2>8, <2>9, <3>2 DEF DsMatched, m
      <4>2. DsIndex(s, q) < m BY <2>8, <3>2, <4>1
      <4>3. DsIndex(s, q) \in Int
        <5>1. Len(s) \in Nat /\ DsIndex(s, q) \in 0..(Len(s) - 1) BY <2>3, <3>2, DsIndexOf
        <5> QED BY <5>1
      <4> QED BY <1>1, <4>2, <4>3
    <3> QED BY <3>1, <3>2
  <2>10. Len(e.pipes) = Len(c.pipes) /\ e.active = c.active /\ e.eligible = c.eligible
    BY <2>3, <2>5 DEF DsMatched
  <2>11. ASSUME NEW q \in P
         PROVE  DsIndex(e.pipes, q) < e.eligible <=> DsIndex(c.pipes, q) < c.eligible
    BY <2>5, <2>8 DEF DsMatched
  <2>12. ASSUME NEW q \in done \cup {p}, DsIndex(e.pipes, q) < e.eligible
         PROVE  DsIndex(e.pipes, q) < e.matching
    BY <2>5, <2>9, <2>12
  <2>13. DsMatched(c, e, P, done \cup {p}) BY <2>6, <2>10, <2>11, <2>12 DEF DsMatched
  <2> QED BY <2>13 DEF e
<1> QED BY <1>4, <1>5

\* The elements of a finite set in some order.
LEMMA DsOrder ==
    ASSUME NEW W, IsFiniteSet(W)
    PROVE  LET order == SetToSeq(W) IN
           /\ Len(order) \in Nat
           /\ \A k \in 1..Len(order) : order[k] \in W
           /\ \A p \in W : \E k \in 1..Len(order) : order[k] = p
<1> DEFINE n == Cardinality(W)
           order == SetToSeq(W)
<1>1. n \in Nat /\ ExistsBijection(1..n, W) BY FS_CardinalityType
<1>2. \E f \in [1..n -> W] : IsInjective(f)
  BY <1>1 DEF ExistsBijection, Bijection, Injection
<1>3. order \in [1..n -> W] /\ IsInjective(order) BY <1>2 DEF SetToSeq
<1> HIDE DEF order, n
<1>4. order \in Injection(1..n, W) BY <1>3 DEF Injection
<1>5. Cardinality(1..n) = n
  <2>1. 1 \in Int /\ n \in Int BY <1>1
  <2>2. Cardinality(1..n) = IF 1 > n THEN 0 ELSE n - 1 + 1 BY <2>1, FS_Interval
  <2> QED BY <1>1, <2>2
<1>6. order \in Surjection(1..n, W)
  <2>1. Cardinality(1..n) = Cardinality(W) BY <1>5 DEF n
  <2> QED BY <1>4, <2>1, FS_Injection
<1>7. order \in Seq(W) /\ Len(order) = n BY <1>1, <1>3
<1>8. \A p \in W : \E k \in 1..n : order[k] = p BY <1>6 DEF Surjection
<1> QED BY <1>1, <1>3, <1>7, <1>8 DEF order

\* Induction over the natural numbers, for a set.
LEMMA DsAllNumbers ==
    ASSUME NEW S, 0 \in S, \A n \in Nat : n \in S => n + 1 \in S
    PROVE  Nat \subseteq S
<1> SUFFICES ASSUME Nat \ S # {} PROVE FALSE OBVIOUS
<1>1. PICK m \in Nat \ S : \A k \in Nat \ S : ~(<<k, m>> \in OpToRel(<, Nat))
  <2> DEFINE R == OpToRel(<, Nat)
             T == Nat \ S
  <2>1. IsWellFoundedOn(R, Nat) BY NatLessThanWellFounded
  <2>2. T \subseteq Nat /\ T # {} OBVIOUS
  <2> HIDE DEF R, T
  <2>3. \E x \in T : \A y \in T : ~(<<y, x>> \in R) BY <2>1, <2>2, WFMin
  <2> QED BY <2>3 DEF R, T
<1>2. m \in Nat /\ m \notin S /\ m # 0 /\ m - 1 \in Nat /\ m - 1 < m /\ (m - 1) + 1 = m OBVIOUS
<1>3. m - 1 \in S
  <2>1. <<m - 1, m>> \in OpToRel(<, Nat) BY <1>2 DEF OpToRel
  <2> QED BY <1>1, <1>2, <2>1
<1>4. (m - 1) + 1 \in S BY <1>2, <1>3
<1> QED BY <1>2, <1>4

\* The recursive function of DsMatchAll.
DsMatchBody(c, order, g, n) == IF n = 0 THEN c ELSE DsMatch(g[n - 1], order[n])
DsMatchesIn(c, order) ==
    CHOOSE g : g = [n \in 0..Len(order) |-> DsMatchBody(c, order, g, n)]

\* It exists: it is extended call by call.
LEMMA DsMatchesExist ==
    ASSUME NEW c, NEW order, NEW n \in Nat
    PROVE  \E g : g = [i \in 0..n |-> DsMatchBody(c, order, g, i)]
<1> DEFINE S == {m \in Nat : \E g : g = [i \in 0..m |-> DsMatchBody(c, order, g, i)]}
<1>1. 0 \in S
  <2> DEFINE g == [i \in 0..0 |-> c]
  <2>1. \A i \in 0..0 : DsMatchBody(c, order, g, i) = c BY DEF DsMatchBody
  <2>2. g = [i \in 0..0 |-> DsMatchBody(c, order, g, i)] BY <2>1
  <2> QED BY <2>2
<1>2. ASSUME NEW m \in Nat, m \in S PROVE m + 1 \in S
  <2>1. PICK g : g = [i \in 0..m |-> DsMatchBody(c, order, g, i)] BY <1>2
  <2> DEFINE h == [i \in 0..(m + 1) |-> IF i <= m THEN g[i] ELSE DsMatchBody(c, order, g, i)]
  <2>2. ASSUME NEW i \in 0..(m + 1) PROVE h[i] = DsMatchBody(c, order, h, i)
    <3>1. h[i] = DsMatchBody(c, order, g, i)
      <4>1. CASE i <= m
        <5>1. i \in 0..m BY <4>1
        <5>2. g[i] = DsMatchBody(c, order, g, i) BY <2>1, <5>1
        <5> QED BY <4>1, <5>2
      <4> QED BY <4>1
    <3>2. i # 0 => h[i - 1] = g[i - 1] OBVIOUS
    <3> HIDE DEF h
    <3> QED BY <3>1, <3>2 DEF DsMatchBody
  <2>3. h = [i \in 0..(m + 1) |-> h[i]] OBVIOUS
  <2> HIDE DEF h
  <2>4. h = [i \in 0..(m + 1) |-> DsMatchBody(c, order, h, i)] BY <2>2, <2>3
  <2> QED BY <2>4
<1>3. Nat \subseteq S
  <2> HIDE DEF S
  <2> QED BY <1>1, <1>2, DsAllNumbers
<1> QED BY <1>3

\* After the calls of match, all pipes that the message is for and that are eligible match.
LEMMA DsMatchAllFacts ==
    ASSUME NEW c, NEW P, NEW W, DsCursor(c, P), c.active = c.eligible,
           W \subseteq P, IsFiniteSet(W)
    PROVE  DsMatched(c, DsMatchAll(c, W), P, W)
<1> DEFINE order == SetToSeq(W)
           g == DsMatchesIn(c, order)
<1>1. /\ Len(order) \in Nat
      /\ \A k \in 1..Len(order) : order[k] \in W
      /\ \A p \in W : \E k \in 1..Len(order) : order[k] = p
  BY DsOrder
<1>2. DsMatchAll(c, W) = g[Len(order)] BY DEF DsMatchAll, DsMatchesIn, DsMatchBody
<1> HIDE DEF order
<1>3. g = [n \in 0..Len(order) |-> DsMatchBody(c, order, g, n)]
  BY <1>1, DsMatchesExist DEF DsMatchesIn
<1> HIDE DEF g
<1> DEFINE seen(n) == {order[k] : k \in 1..n}
           S == {n \in Nat : n <= Len(order) => DsMatched(c, g[n], P, seen(n))}
<1>4. 0 \in S
  <2>1. g[0] = c BY <1>1, <1>3 DEF DsMatchBody
  <2>2. DsMatched(c, c, P, {}) BY DEF DsMatched
  <2>3. seen(0) = {} OBVIOUS
  <2>4. DsMatched(c, g[0], P, seen(0)) BY <2>1, <2>2, <2>3
  <2> QED BY <2>4
<1>5. ASSUME NEW n \in Nat, n \in S PROVE n + 1 \in S
  <2> SUFFICES ASSUME n + 1 <= Len(order) PROVE DsMatched(c, g[n + 1], P, seen(n + 1)) OBVIOUS
  <2>1. n + 1 \in 1..Len(order) /\ n + 1 \in 0..Len(order) /\ n + 1 # 0 /\ (n + 1) - 1 = n
        /\ n <= Len(order)
    BY <1>1
  <2>2. DsMatched(c, g[n], P, seen(n)) BY <1>5, <2>1
  <2>3. g[n + 1] = DsMatch(g[n], order[n + 1]) BY <1>3, <2>1 DEF DsMatchBody
  <2>4. order[n + 1] \in P BY <1>1, <2>1
  <2>5. seen(n) \subseteq P
    <3>1. \A k \in 1..n : k \in 1..Len(order) BY <1>1, <2>1
    <3> QED BY <1>1, <3>1
  <2>6. seen(n + 1) = seen(n) \cup {order[n + 1]}
    <3>1. \A k : k \in 1..(n + 1) <=> k \in 1..n \/ k = n + 1 OBVIOUS
    <3> QED BY <3>1
  <2> HIDE DEF seen
  <2>7. DsMatched(c, DsMatch(g[n], order[n + 1]), P, seen(n) \cup {order[n + 1]})
    BY <2>2, <2>4, <2>5, DsMatchOnce
  <2> QED BY <2>3, <2>6, <2>7
<1>6. Nat \subseteq S
  <2> HIDE DEF S
  <2> QED BY <1>4, <1>5, DsAllNumbers
<1>7. DsMatched(c, g[Len(order)], P, seen(Len(order)))
  <2>1. Len(order) \in S
    <3> HIDE DEF S
    <3> QED BY <1>1, <1>6
  <2>2. Len(order) <= Len(order) BY <1>1
  <2> QED BY <2>1, <2>2
<1>8. seen(Len(order)) = W BY <1>1
<1> QED BY <1>2, <1>7, <1>8

-----------------------------------------------------------------------------
\* Where the three swaps of a failed write take the pipe at y, when the one refused is at x.
DsMoved(y, x, m, a, e) ==
    DsTraded(DsTraded(DsTraded(y, x, m - 1), m - 1, a - 1), a - 1, e - 1)

\* The refused pipe goes behind the eligible ones; everybody else stays in his region, and those
\* before it where they are.
LEMMA DsMovedFacts ==
    ASSUME NEW x \in Nat, NEW y \in Nat, NEW m \in Nat, NEW a \in Nat, NEW e \in Nat,
           x < m, m <= a, a <= e
    PROVE  /\ DsMoved(y, x, m, a, e) \in Nat
           /\ y = x => DsMoved(y, x, m, a, e) = e - 1
           /\ y < x => DsMoved(y, x, m, a, e) = y
           /\ x < y => DsMoved(y, x, m, a, e) >= x
           /\ y # x /\ y < m => DsMoved(y, x, m, a, e) < m - 1
           /\ m <= y /\ y < e => m - 1 <= DsMoved(y, x, m, a, e) /\ DsMoved(y, x, m, a, e) < e - 1
           /\ e <= y => DsMoved(y, x, m, a, e) = y
  BY DEF DsMoved, DsTraded

\* What a failed write does to the array, its counters and the index of each pipe.
LEMMA DsWriteFailedFacts ==
    ASSUME NEW d, NEW P, NEW p \in P, DsCursor(d, P), DsIndex(d.pipes, p) < d.matching
    PROVE  LET f == DsWriteFailed(d, p) IN
           /\ DsCursor(f, P) /\ Len(f.pipes) = Len(d.pipes)
           /\ f.matching = d.matching - 1
           /\ f.active = d.active - 1
           /\ f.eligible = d.eligible - 1
           /\ \A q \in P :
                 DsIndex(f.pipes, q) = DsMoved(DsIndex(d.pipes, q), DsIndex(d.pipes, p),
                                               d.matching, d.active, d.eligible)
<1> DEFINE x == DsIndex(d.pipes, p)
           m == d.matching
           a == d.active
           e == d.eligible
           s1 == DsSwap(d.pipes, x, m - 1)
           s2 == DsSwap(s1, m - 1, a - 1)
           s3 == DsSwap(s2, a - 1, e - 1)
           f == DsWriteFailed(d, p)
<1>1. /\ d \in DsCursors /\ DsArray(d.pipes, P)
      /\ m <= a /\ a <= e /\ e <= Len(d.pipes)
      /\ m \in Nat /\ a \in Nat /\ e \in Nat
  BY DEF DsCursor, DsCursors
<1>2. Len(d.pipes) \in Nat /\ x \in 0..(Len(d.pipes) - 1) /\ x < m BY <1>1, DsIndexOf
<1>3. f = [d EXCEPT !.pipes = DsSwap(DsSwap(s1, DsIndex(s1, p), a - 1), a - 1, e - 1),
                    !.matching = m - 1, !.active = a - 1, !.eligible = e - 1]
  BY DEF DsWriteFailed
<1> HIDE DEF x, m, a, e, f
<1>4. /\ x \in Nat /\ m - 1 \in Nat /\ a - 1 \in Nat /\ e - 1 \in Nat
      /\ x < Len(d.pipes) /\ m - 1 < Len(d.pipes) /\ a - 1 < Len(d.pipes) /\ e - 1 < Len(d.pipes)
      /\ m - 1 <= a - 1 /\ a - 1 <= e - 1
  BY <1>1, <1>2
<1>5. /\ DsArray(s1, P) /\ Len(s1) = Len(d.pipes)
      /\ \A q \in P : DsIndex(s1, q) = DsTraded(DsIndex(d.pipes, q), x, m - 1)
  BY <1>1, <1>4, DsSwapFacts
<1>6. DsIndex(s1, p) = m - 1 BY <1>5 DEF DsTraded, x
<1> HIDE DEF s1
<1>7. /\ DsArray(s2, P) /\ Len(s2) = Len(d.pipes)
      /\ \A q \in P : DsIndex(s2, q) = DsTraded(DsIndex(s1, q), m - 1, a - 1)
  BY <1>4, <1>5, DsSwapFacts
<1>8. s2 = DsSwap(s1, DsIndex(s1, p), a - 1) BY <1>6
<1> HIDE DEF s2
<1>9. /\ DsArray(s3, P) /\ Len(s3) = Len(d.pipes)
      /\ \A q \in P : DsIndex(s3, q) = DsTraded(DsIndex(s2, q), a - 1, e - 1)
  BY <1>4, <1>7, DsSwapFacts
<1>10. f = [d EXCEPT !.pipes = s3, !.matching = m - 1, !.active = a - 1, !.eligible = e - 1]
  BY <1>3, <1>8
<1>11. s3 \in Seq(DsPipe) BY <1>9 DEF DsArray
<1> HIDE DEF s3
<1>12. /\ f \in DsCursors /\ f.pipes = s3 /\ f.matching = m - 1
       /\ f.active = a - 1 /\ f.eligible = e - 1
  <2>1. f = [pipes |-> s3, matching |-> m - 1, active |-> a - 1, eligible |-> e - 1]
    BY <1>1, <1>10 DEF DsCursors
  <2> QED BY <1>4, <1>11, <2>1 DEF DsCursors
<1>13. DsCursor(f, P)
  <2>1. e - 1 <= Len(s3) BY <1>4, <1>2, <1>9
  <2> QED BY <1>4, <1>9, <1>12, <2>1 DEF DsCursor
<1>14. ASSUME NEW q \in P
       PROVE  DsIndex(s3, q) = DsMoved(DsIndex(d.pipes, q), x, m, a, e)
  BY <1>5, <1>7, <1>9 DEF DsMoved
<1> QED BY <1>9, <1>12, <1>13, <1>14 DEF f, x, m, a, e

DsTries == [cursor : DsCursors, at : Nat, written : SUBSET DsPipe]

\* A pipe stays in its region unless it refuses.
DsStays(c, d, full, p) ==
    LET x == DsIndex(c.pipes, p)
        y == DsIndex(d.pipes, p)
    IN  /\ x < c.matching => y < d.matching \/ (DsRefuses(full, p) /\ d.eligible <= y)
        /\ c.matching <= x /\ x < c.eligible => d.matching <= y /\ y < d.eligible
        /\ c.eligible <= x => d.eligible <= y

\* After n writes of distribute, which began at c.  A refused pipe is behind the eligible ones, and
\* the pipes written to are those before the index.
DsTried(c, t, P, full, n) ==
    /\ t \in DsTries
    /\ DsCursor(t.cursor, P)
    /\ Len(t.cursor.pipes) = Len(c.pipes)
    /\ t.cursor.matching + n = c.matching + t.at
    /\ t.cursor.active + n = c.active + t.at
    /\ t.cursor.eligible + n = c.eligible + t.at
    /\ t.written = {p \in P : DsIndex(t.cursor.pipes, p) < t.at}
    /\ \A p \in t.written : ~DsRefuses(full, p)
    /\ \A p \in P : DsStays(c, t.cursor, full, p)

\* While writes remain, the index is before the counter.
LEMMA DsCounts ==
    ASSUME NEW n \in Nat, NEW i \in Nat, NEW x \in Nat, NEW y \in Nat, x + n = y + i
    PROVE  n < y => i < x
  OBVIOUS

\* A refused write.
LEMMA DsTryFails ==
    ASSUME NEW c, NEW t, NEW P, NEW full, NEW n \in Nat, NEW p,
           DsCursor(c, P), DsTried(c, t, P, full, n), n < c.matching,
           p = t.cursor.pipes[t.at + 1], DsRefuses(full, p)
    PROVE  DsTried(c, [t EXCEPT !.cursor = DsWriteFailed(t.cursor, p)], P, full, n + 1)
<1> DEFINE d == t.cursor
           i == t.at
           f == DsWriteFailed(d, p)
           u == [t EXCEPT !.cursor = f]
<1>1. /\ t \in DsTries /\ d \in DsCursors /\ i \in Nat /\ t.written \in SUBSET DsPipe
      /\ DsCursor(d, P)
      /\ DsArray(d.pipes, P)
      /\ d.matching <= d.active /\ d.active <= d.eligible /\ d.eligible <= Len(d.pipes)
      /\ d.matching \in Nat /\ d.active \in Nat /\ d.eligible \in Nat
  BY DEF DsTried, DsTries, DsCursor, DsCursors
<1>2. /\ c.matching \in Nat /\ c.active \in Nat /\ c.eligible \in Nat /\ DsArray(c.pipes, P)
  BY DEF DsCursor, DsCursors
<1>c. /\ d.matching + n = c.matching + i
      /\ d.active + n = c.active + i
      /\ d.eligible + n = c.eligible + i
  BY DEF DsTried
<1>i. /\ i \in Nat /\ d.matching \in Nat /\ d.active \in Nat /\ d.eligible \in Nat
      /\ d.matching <= d.active /\ d.active <= d.eligible /\ d.eligible <= Len(d.pipes)
      /\ c.matching \in Nat /\ c.active \in Nat /\ c.eligible \in Nat
  BY <1>1, <1>2
<1>3. /\ Len(d.pipes) = Len(c.pipes)
      /\ t.written = {q \in P : DsIndex(d.pipes, q) < i}
      /\ \A q \in t.written : ~DsRefuses(full, q)
  BY DEF DsTried
<1>4. Len(d.pipes) \in Nat BY <1>1, DsIndexOf
<1>5. i < d.matching /\ i < Len(d.pipes)
  <2>1. i < d.matching
    <3> HIDE DEF d, i
    <3> QED BY <1>c, <1>i, DsCounts
  <2> QED BY <1>i, <1>4, <2>1
<1>6. p \in P /\ DsIndex(d.pipes, p) = i BY <1>1, <1>5, DsPlaces
<1>7. /\ DsCursor(f, P) /\ Len(f.pipes) = Len(d.pipes)
      /\ f.matching = d.matching - 1 /\ f.active = d.active - 1 /\ f.eligible = d.eligible - 1
      /\ \A q \in P :
            DsIndex(f.pipes, q) = DsMoved(DsIndex(d.pipes, q), i, d.matching, d.active, d.eligible)
  <2>1. DsIndex(d.pipes, p) < d.matching BY <1>5, <1>6
  <2> HIDE DEF d
  <2>2. /\ DsCursor(f, P) /\ Len(f.pipes) = Len(d.pipes)
        /\ f.matching = d.matching - 1 /\ f.active = d.active - 1 /\ f.eligible = d.eligible - 1
        /\ \A q \in P :
              DsIndex(f.pipes, q) = DsMoved(DsIndex(d.pipes, q), DsIndex(d.pipes, p),
                                            d.matching, d.active, d.eligible)
    BY <1>1, <1>6, <2>1, DsWriteFailedFacts
  <2> QED BY <1>6, <2>2
<1>8. f \in DsCursors BY <1>7 DEF DsCursor
<1> HIDE DEF f
<1>9. u \in DsTries /\ u.cursor = f /\ u.at = i /\ u.written = t.written
  <2>1. u = [cursor |-> f, at |-> i, written |-> t.written] BY <1>1 DEF DsTries
  <2> HIDE DEF u, d, i
  <2> QED BY <1>1, <1>8, <2>1 DEF DsTries
<1> HIDE DEF u
<1>10. ASSUME NEW q \in P
       PROVE  DsIndex(c.pipes, q) \in Nat /\ DsIndex(d.pipes, q) \in Nat
  <2>1. /\ DsIndex(d.pipes, q) \in 0..(Len(d.pipes) - 1)
        /\ DsIndex(c.pipes, q) \in 0..(Len(c.pipes) - 1)
    BY <1>1, <1>2, DsIndexOf
  <2> QED BY <1>3, <1>4, <2>1
<1>11. ASSUME NEW q \in P
       PROVE  LET y == DsIndex(d.pipes, q)
                  z == DsIndex(f.pipes, q)
              IN  /\ z \in Nat
                  /\ q = p => z = d.eligible - 1
                  /\ y < i <=> z < i
                  /\ q # p /\ y < d.matching => z < d.matching - 1
                  /\ d.matching <= y /\ y < d.eligible =>
                        d.matching - 1 <= z /\ z < d.eligible - 1
                  /\ d.eligible <= y => z = y
  <2> DEFINE y == DsIndex(d.pipes, q)
             z == DsIndex(f.pipes, q)
             m == d.matching
             a == d.active
             e == d.eligible
  <2>1. z = DsMoved(y, i, m, a, e) /\ y \in Nat BY <1>7, <1>10
  <2>2. q # p => y # i
    <3>1. d.pipes[DsIndex(d.pipes, q) + 1] = q /\ d.pipes[i + 1] = p BY <1>1, <1>6, DsIndexOf
    <3> QED BY <3>1
  <2>3. q = p => y = i BY <1>6
  <2>4. i \in Nat /\ m \in Nat /\ a \in Nat /\ e \in Nat /\ i < m /\ m <= a /\ a <= e BY <1>1, <1>5
  <2> HIDE DEF y, z, m, a, e, i, d
  <2>5. /\ z \in Nat
        /\ y = i => z = e - 1
        /\ y < i => z = y
        /\ i < y => z >= i
        /\ y # i /\ y < m => z < m - 1
        /\ m <= y /\ y < e => m - 1 <= z /\ z < e - 1
        /\ e <= y => z = y
    <3> DEFINE v == DsMoved(y, i, m, a, e)
    <3>0. y \in Nat BY <2>1
    <3>1. /\ v \in Nat
          /\ y = i => v = e - 1
          /\ y < i => v = y
          /\ i < y => v >= i
          /\ y # i /\ y < m => v < m - 1
          /\ m <= y /\ y < e => m - 1 <= v /\ v < e - 1
          /\ e <= y => v = y
      BY <2>4, <3>0, DsMovedFacts
    <3>2. z = v BY <2>1
    <3> HIDE DEF v
    <3> QED BY <3>1, <3>2
  <2>6. /\ z \in Nat
        /\ q = p => z = e - 1
        /\ y < i <=> z < i
        /\ q # p /\ y < m => z < m - 1
        /\ m <= y /\ y < e => m - 1 <= z /\ z < e - 1
        /\ e <= y => z = y
    BY <2>1, <2>2, <2>3, <2>4, <2>5
  <2> QED BY <2>6 DEF y, z, m, e
<1>12. u.written = {q \in P : DsIndex(u.cursor.pipes, q) < u.at}
       /\ \A q \in u.written : ~DsRefuses(full, q)
  BY <1>3, <1>9, <1>11
<1>13. /\ f.matching + (n + 1) = c.matching + i
       /\ f.active + (n + 1) = c.active + i
       /\ f.eligible + (n + 1) = c.eligible + i
       /\ Len(f.pipes) = Len(c.pipes)
  <2>1. /\ f.matching = d.matching - 1 /\ f.active = d.active - 1 /\ f.eligible = d.eligible - 1
        /\ Len(f.pipes) = Len(c.pipes)
    BY <1>3, <1>7
  <2> HIDE DEF d, i
  <2>2. /\ (d.matching - 1) + (n + 1) = c.matching + i
        /\ (d.active - 1) + (n + 1) = c.active + i
        /\ (d.eligible - 1) + (n + 1) = c.eligible + i
    <3> DEFINE m == d.matching
               a == d.active
               e == d.eligible
               cm == c.matching
               ca == c.active
               ce == c.eligible
    <3>1. m \in Nat /\ a \in Nat /\ e \in Nat /\ cm \in Nat /\ ca \in Nat /\ ce \in Nat /\ i \in Nat
          /\ m + n = cm + i /\ a + n = ca + i /\ e + n = ce + i
      BY <1>c, <1>i
    <3> HIDE DEF m, a, e, cm, ca, ce
    <3>2. (m - 1) + (n + 1) = cm + i BY <3>1
    <3>3. (a - 1) + (n + 1) = ca + i BY <3>1
    <3>4. (e - 1) + (n + 1) = ce + i BY <3>1
    <3> QED BY <3>2, <3>3, <3>4 DEF m, a, e, cm, ca, ce
  <2> QED BY <2>1, <2>2
<1>14. ASSUME NEW q \in P PROVE DsStays(c, f, full, q)
  <2> DEFINE x == DsIndex(c.pipes, q)
             y == DsIndex(d.pipes, q)
             z == DsIndex(f.pipes, q)
             m == d.matching
             e == d.eligible
  <2>1. /\ x < c.matching => y < m \/ (DsRefuses(full, q) /\ e <= y)
        /\ c.matching <= x /\ x < c.eligible => m <= y /\ y < e
        /\ c.eligible <= x => e <= y
    <3>1. DsStays(c, d, full, q) BY DEF DsTried
    <3> QED BY <3>1 DEF DsStays
  <2>2. /\ z \in Nat
        /\ q = p => z = e - 1
        /\ q # p /\ y < m => z < m - 1
        /\ m <= y /\ y < e => m - 1 <= z /\ z < e - 1
        /\ e <= y => z = y
    BY <1>11
  <2>3. x \in Nat /\ y \in Nat /\ m \in Nat /\ e \in Nat /\ c.matching \in Nat /\ c.eligible \in Nat
        /\ f.matching = m - 1 /\ f.eligible = e - 1
    BY <1>1, <1>2, <1>7, <1>10
  <2>4. q = p => DsRefuses(full, q) OBVIOUS
  <2> HIDE DEF x, y, z, m, e
  <2>5. /\ x < c.matching => z < f.matching \/ (DsRefuses(full, q) /\ f.eligible <= z)
        /\ c.matching <= x /\ x < c.eligible => f.matching <= z /\ z < f.eligible
        /\ c.eligible <= x => f.eligible <= z
    BY <2>1, <2>2, <2>3, <2>4
  <2> QED BY <2>5 DEF x, z, DsStays
<1>15. DsTried(c, u, P, full, n + 1)
  BY <1>7, <1>9, <1>12, <1>13, <1>14 DEF DsTried
<1> QED BY <1>15 DEF u, f

\* A write that succeeds.
LEMMA DsTrySucceeds ==
    ASSUME NEW c, NEW t, NEW P, NEW full, NEW n \in Nat, NEW p,
           DsCursor(c, P), DsTried(c, t, P, full, n), n < c.matching,
           p = t.cursor.pipes[t.at + 1], ~DsRefuses(full, p)
    PROVE  DsTried(c, [t EXCEPT !.at = t.at + 1, !.written = t.written \cup {p}], P, full, n + 1)
<1> DEFINE d == t.cursor
           i == t.at
           w == t.written \cup {p}
           u == [t EXCEPT !.at = i + 1, !.written = w]
<1>1. /\ t \in DsTries /\ d \in DsCursors /\ i \in Nat /\ t.written \in SUBSET DsPipe
      /\ DsCursor(d, P)
      /\ DsArray(d.pipes, P) /\ P \subseteq DsPipe
      /\ d.matching <= d.active /\ d.active <= d.eligible /\ d.eligible <= Len(d.pipes)
      /\ d.matching \in Nat /\ d.active \in Nat /\ d.eligible \in Nat
  BY DEF DsTried, DsTries, DsCursor, DsCursors, DsArray
<1>2. /\ c.matching \in Nat /\ c.active \in Nat /\ c.eligible \in Nat
  BY DEF DsCursor, DsCursors
<1>c. /\ d.matching + n = c.matching + i
      /\ d.active + n = c.active + i
      /\ d.eligible + n = c.eligible + i
  BY DEF DsTried
<1>i. /\ i \in Nat /\ d.matching \in Nat /\ d.active \in Nat /\ d.eligible \in Nat
      /\ d.matching <= d.active /\ d.active <= d.eligible /\ d.eligible <= Len(d.pipes)
      /\ c.matching \in Nat /\ c.active \in Nat /\ c.eligible \in Nat
  BY <1>1, <1>2
<1>3. /\ Len(d.pipes) = Len(c.pipes)
      /\ t.written = {q \in P : DsIndex(d.pipes, q) < i}
      /\ \A q \in t.written : ~DsRefuses(full, q)
  BY DEF DsTried
<1>4. Len(d.pipes) \in Nat BY <1>1, DsIndexOf
<1>5. i < d.matching /\ i < Len(d.pipes)
  <2>1. i < d.matching
    <3> HIDE DEF d, i
    <3> QED BY <1>c, <1>i, DsCounts
  <2> QED BY <1>i, <1>4, <2>1
<1>6. p \in P /\ DsIndex(d.pipes, p) = i BY <1>1, <1>5, DsPlaces
<1>7. w \in SUBSET DsPipe BY <1>1, <1>6
<1>8. w = {q \in P : DsIndex(d.pipes, q) < i + 1}
  <2>1. ASSUME NEW q \in P
        PROVE  DsIndex(d.pipes, q) < i + 1 <=> DsIndex(d.pipes, q) < i \/ q = p
    <3>1. DsIndex(d.pipes, q) \in 0..(Len(d.pipes) - 1) /\ d.pipes[DsIndex(d.pipes, q) + 1] = q
          /\ d.pipes[i + 1] = p
      BY <1>1, <1>6, DsIndexOf
    <3>2. DsIndex(d.pipes, q) = i => q = p BY <3>1
    <3>3. DsIndex(d.pipes, q) \in Nat BY <1>4, <3>1
    <3> HIDE DEF d, i
    <3> QED BY <1>1, <1>6, <3>2, <3>3
  <2> HIDE DEF d, i
  <2> QED BY <1>3, <1>6, <2>1
<1>9. u \in DsTries /\ u.cursor = d /\ u.at = i + 1 /\ u.written = w
  <2>1. i + 1 \in Nat BY <1>1
  <2> DEFINE j == i + 1
             v == [t EXCEPT !.at = j, !.written = w]
  <2>2. j \in Nat /\ t \in DsTries /\ w \in SUBSET DsPipe BY <1>1, <1>7, <2>1
  <2>3. v \in DsTries /\ v.cursor = t.cursor /\ v.at = j /\ v.written = w
    <3> HIDE DEF w, j
    <3> QED BY <2>2 DEF DsTries
  <2> QED BY <2>3
<1>10. \A q \in w : ~DsRefuses(full, q) BY <1>3
<1>11. /\ d.matching + (n + 1) = c.matching + (i + 1)
       /\ d.active + (n + 1) = c.active + (i + 1)
       /\ d.eligible + (n + 1) = c.eligible + (i + 1)
  <2> HIDE DEF d, i
  <2> DEFINE m == d.matching
             a == d.active
             e == d.eligible
             cm == c.matching
             ca == c.active
             ce == c.eligible
  <2>1. m \in Nat /\ a \in Nat /\ e \in Nat /\ cm \in Nat /\ ca \in Nat /\ ce \in Nat /\ i \in Nat
        /\ m + n = cm + i /\ a + n = ca + i /\ e + n = ce + i
    BY <1>c, <1>i
  <2> HIDE DEF m, a, e, cm, ca, ce
  <2>2. m + (n + 1) = cm + (i + 1) BY <2>1
  <2>3. a + (n + 1) = ca + (i + 1) BY <2>1
  <2>4. e + (n + 1) = ce + (i + 1) BY <2>1
  <2> QED BY <2>2, <2>3, <2>4 DEF m, a, e, cm, ca, ce
<1> HIDE DEF u, w, i
<1>12. DsTried(c, u, P, full, n + 1)
  BY <1>1, <1>3, <1>8, <1>9, <1>10, <1>11 DEF DsTried
<1> QED BY <1>12 DEF u, w, i

\* One write of distribute, refused or not.
LEMMA DsTryOnce ==
    ASSUME NEW c, NEW t, NEW P, NEW full, NEW n \in Nat,
           DsCursor(c, P), DsTried(c, t, P, full, n), n < c.matching
    PROVE  DsTried(c, DsWriteNext(t, full), P, full, n + 1)
<1> DEFINE p == t.cursor.pipes[t.at + 1]
<1>1. CASE DsRefuses(full, p)
  <2>1. DsWriteNext(t, full) = [t EXCEPT !.cursor = DsWriteFailed(t.cursor, p)]
    BY <1>1 DEF DsWriteNext
  <2>2. DsTried(c, [t EXCEPT !.cursor = DsWriteFailed(t.cursor, p)], P, full, n + 1)
    <3>1. p = t.cursor.pipes[t.at + 1] OBVIOUS
    <3> HIDE DEF p
    <3> QED BY <1>1, <3>1, DsTryFails
  <2> QED BY <2>1, <2>2
<1>2. CASE ~DsRefuses(full, p)
  <2>1. DsWriteNext(t, full) = [t EXCEPT !.at = t.at + 1, !.written = t.written \cup {p}]
    BY <1>2 DEF DsWriteNext
  <2>2. DsTried(c, [t EXCEPT !.at = t.at + 1, !.written = t.written \cup {p}], P, full, n + 1)
    <3>1. p = t.cursor.pipes[t.at + 1] OBVIOUS
    <3> HIDE DEF p
    <3> QED BY <1>2, <3>1, DsTrySucceeds
  <2> QED BY <2>1, <2>2
<1> QED BY <1>1, <1>2

\* The recursive function of DsDistribute.
DsFirstTry(c) == [cursor |-> c, at |-> 0, written |-> {}]
DsTryBody(c, full, g, n) == IF n = 0 THEN DsFirstTry(c) ELSE DsWriteNext(g[n - 1], full)
DsTriesFrom(c, full) ==
    CHOOSE g : g = [n \in 0..c.matching |-> DsTryBody(c, full, g, n)]

\* It exists: it is extended write by write.
LEMMA DsTriesExist ==
    ASSUME NEW c, NEW full, NEW n \in Nat
    PROVE  \E g : g = [i \in 0..n |-> DsTryBody(c, full, g, i)]
<1> DEFINE S == {m \in Nat : \E g : g = [i \in 0..m |-> DsTryBody(c, full, g, i)]}
<1>1. 0 \in S
  <2> DEFINE g == [i \in 0..0 |-> DsFirstTry(c)]
  <2>1. \A i \in 0..0 : DsTryBody(c, full, g, i) = DsFirstTry(c) BY DEF DsTryBody
  <2>2. g = [i \in 0..0 |-> DsTryBody(c, full, g, i)] BY <2>1
  <2> QED BY <2>2
<1>2. ASSUME NEW m \in Nat, m \in S PROVE m + 1 \in S
  <2>1. PICK g : g = [i \in 0..m |-> DsTryBody(c, full, g, i)] BY <1>2
  <2> DEFINE h == [i \in 0..(m + 1) |-> IF i <= m THEN g[i] ELSE DsTryBody(c, full, g, i)]
  <2>2. ASSUME NEW i \in 0..(m + 1) PROVE h[i] = DsTryBody(c, full, h, i)
    <3>1. h[i] = DsTryBody(c, full, g, i)
      <4>1. CASE i <= m
        <5>1. i \in 0..m BY <4>1
        <5>2. g[i] = DsTryBody(c, full, g, i) BY <2>1, <5>1
        <5> QED BY <4>1, <5>2
      <4> QED BY <4>1
    <3>2. i # 0 => h[i - 1] = g[i - 1] OBVIOUS
    <3> HIDE DEF h
    <3> QED BY <3>1, <3>2 DEF DsTryBody
  <2>3. h = [i \in 0..(m + 1) |-> h[i]] OBVIOUS
  <2> HIDE DEF h
  <2>4. h = [i \in 0..(m + 1) |-> DsTryBody(c, full, h, i)] BY <2>2, <2>3
  <2> QED BY <2>4
<1>3. Nat \subseteq S
  <2> HIDE DEF S
  <2> QED BY <1>1, <1>2, DsAllNumbers
<1> QED BY <1>3

\* distribute ends with the matching pipes written to and the refusing ones out of the way.
LEMMA DsDistributeFacts ==
    ASSUME NEW c, NEW P, NEW full, DsCursor(c, P)
    PROVE  LET sent == DsDistribute(c, full) IN
           /\ DsTried(c, sent, P, full, c.matching)
           /\ sent.at = sent.cursor.matching
<1> DEFINE g == DsTriesFrom(c, full)
           sent == DsDistribute(c, full)
<1>1. c.matching \in Nat BY DEF DsCursor, DsCursors
<1>2. sent = g[c.matching]
  BY DEF DsDistribute, DsTriesFrom, DsTryBody, DsFirstTry
<1>3. g = [n \in 0..c.matching |-> DsTryBody(c, full, g, n)]
  BY <1>1, DsTriesExist DEF DsTriesFrom
<1> HIDE DEF g, sent
<1> DEFINE S == {n \in Nat : n <= c.matching => DsTried(c, g[n], P, full, n)}
<1>4. 0 \in S
  <2> DEFINE t == DsFirstTry(c)
  <2>1. g[0] = t BY <1>1, <1>3 DEF DsTryBody
  <2>2. t.cursor = c /\ t.at = 0 /\ t.written = {} BY DEF DsFirstTry
  <2>3. c \in DsCursors BY DEF DsCursor
  <2>4. t \in DsTries BY <2>3 DEF DsTries, DsFirstTry
  <2> HIDE DEF t
  <2>5. ASSUME NEW p \in P PROVE DsIndex(c.pipes, p) \in Nat
    <3>1. Len(c.pipes) \in Nat /\ DsIndex(c.pipes, p) \in 0..(Len(c.pipes) - 1)
      BY DsIndexOf DEF DsCursor
    <3> QED BY <3>1
  <2>6. t.written = {p \in P : DsIndex(t.cursor.pipes, p) < t.at} BY <2>2, <2>5
  <2>7. ASSUME NEW p \in P PROVE DsStays(c, t.cursor, full, p)
    <3>1. DsStays(c, c, full, p)
      <4>1. c.matching \in Nat /\ c.eligible \in Nat BY <2>3 DEF DsCursors
      <4> QED BY <2>5, <4>1 DEF DsStays
    <3> QED BY <2>2, <3>1
  <2>8. /\ t.cursor.matching + 0 = c.matching + t.at
        /\ t.cursor.active + 0 = c.active + t.at
        /\ t.cursor.eligible + 0 = c.eligible + t.at
    BY <2>2
  <2>9. DsTried(c, t, P, full, 0) BY <2>2, <2>4, <2>6, <2>7, <2>8 DEF DsTried
  <2> QED BY <2>1, <2>9
<1>5. ASSUME NEW n \in Nat, n \in S PROVE n + 1 \in S
  <2> SUFFICES ASSUME n + 1 <= c.matching PROVE DsTried(c, g[n + 1], P, full, n + 1) OBVIOUS
  <2>1. n + 1 \in 0..c.matching /\ n + 1 # 0 /\ (n + 1) - 1 = n /\ n <= c.matching
        /\ n < c.matching
    BY <1>1
  <2>2. DsTried(c, g[n], P, full, n) BY <1>5, <2>1
  <2>3. g[n + 1] = DsWriteNext(g[n], full) BY <1>3, <2>1 DEF DsTryBody
  <2>4. DsTried(c, DsWriteNext(g[n], full), P, full, n + 1) BY <2>1, <2>2, DsTryOnce
  <2> QED BY <2>3, <2>4
<1>6. Nat \subseteq S
  <2> HIDE DEF S
  <2> QED BY <1>4, <1>5, DsAllNumbers
<1>7. DsTried(c, sent, P, full, c.matching)
  <2>1. c.matching \in S
    <3> HIDE DEF S
    <3> QED BY <1>1, <1>6
  <2>2. c.matching <= c.matching BY <1>1
  <2> QED BY <1>2, <2>1, <2>2
<1>8. sent.at = sent.cursor.matching
  <2>1. /\ sent.at \in Nat /\ sent.cursor.matching \in Nat
        /\ sent.cursor.matching + c.matching = c.matching + sent.at
    BY <1>7 DEF DsTried, DsTries, DsCursors
  <2> QED BY <1>1, <2>1
<1> QED BY <1>7, <1>8 DEF sent

-----------------------------------------------------------------------------
(* The inductive invariant *)

\* The pipes that are in the array.
DsKnown(st) == {p \in DsPipe : st[p] \notin {"new", "gone"}}

\* What the index of a pipe says of it: whether it has room, and what it got of the message.
DsFits(x, m, e, part, st, got) ==
    /\ st = "open" => x < e
    /\ st = "full" => e <= x
    /\ st = "new" => got = 0
    /\ st \in {"open", "full"} => got = IF x < m THEN part ELSE 0

DsGood ==
    /\ DsTypeOK
    /\ DsArray(dsPipes, DsKnown(dsPipeState))
    /\ dsMatching <= dsActive /\ dsActive <= dsEligible /\ dsEligible <= Len(dsPipes)
    /\ \A p \in DsPipe : DsFits(DsIndex(dsPipes, p), dsMatching, dsEligible, dsPart,
                                dsPipeState[p], dsGot[p])
    /\ dsMore = TRUE <=> dsPart > 0
    /\ dsMore = FALSE => dsMatching = 0 /\ dsActive = dsEligible
    /\ dsDamaged = {}

DsIInv ==
    /\ dsDisplaced \in BOOLEAN
    /\ dsDisplaced = FALSE => DsGood

\* A state that leaves some pipe out of the array says nothing of its index.
LEMMA DsFitsOutside ==
    ASSUME NEW st, NEW got, NEW x, NEW m, NEW e, NEW part, NEW y, NEW k, NEW h, NEW q,
           st \in {"new", "gone", "ending"}, DsFits(x, m, e, part, st, got)
    PROVE  DsFits(y, k, h, q, st, got)
  BY DEF DsFits

\* An empty array.
LEMMA DsInitKeeps == DsInit => DsIInv
<1> SUFFICES ASSUME DsInit PROVE DsIInv OBVIOUS
<1> USE DEF DsInit
<1>1. dsPipes \in Seq(DsPipe) /\ Len(dsPipes) = 0 OBVIOUS
<1>2. DsKnown(dsPipeState) = {} BY DEF DsKnown
<1>3. DsArray(dsPipes, DsKnown(dsPipeState)) BY <1>1, <1>2 DEF DsArray
<1>4. DsTypeOK
  <2>1. 0 \in 0..DsParts BY DsAssumption
  <2>2. {dsMatching, dsActive, dsEligible} \subseteq Nat OBVIOUS
  <2>3. dsPipeState \in [DsPipe -> {"new", "open", "full", "ending", "gone"}] OBVIOUS
  <2>4. dsGot \in [DsPipe -> 0..DsParts] BY <2>1
  <2> QED BY <1>1, <2>1, <2>2, <2>3, <2>4 DEF DsTypeOK
<1>5. \A p \in DsPipe : DsFits(DsIndex(dsPipes, p), dsMatching, dsEligible, dsPart,
                               dsPipeState[p], dsGot[p])
  BY DEF DsFits
<1>6. /\ dsMatching <= dsActive /\ dsActive <= dsEligible /\ dsEligible <= Len(dsPipes)
      /\ dsMatching = 0 /\ dsActive = dsEligible
  BY <1>1
<1>7. (dsMore = TRUE <=> dsPart > 0) /\ dsDamaged = {} /\ dsDisplaced \in BOOLEAN
  <2>1. dsMore # TRUE OBVIOUS
  <2>2. ~(dsPart > 0) OBVIOUS
  <2> QED BY <2>1, <2>2
<1> QED BY <1>3, <1>4, <1>5, <1>6, <1>7 DEF DsIInv, DsGood

\* attach puts the new pipe behind the eligible ones, which are the active ones between messages.
LEMMA DsAttachKeeps ==
    ASSUME DsGood, NEW p \in DsPipe, DsAttach(p)
    PROVE  DsGood'
<1> DEFINE P == DsKnown(dsPipeState)
           s == dsPipes
           e == dsEligible
           n == Len(s)
           t == Append(s, p)
           u == DsSwap(t, e, n)
<1>1. DsTypeOK /\ DsArray(s, P) BY DEF DsGood
<1>2. /\ dsMatching \in Nat /\ dsActive \in Nat /\ e \in Nat /\ n \in Nat /\ dsPart \in Nat
      /\ dsMatching <= dsActive /\ dsActive <= e /\ e <= n
      /\ dsPipeState \in [DsPipe -> {"new", "open", "full", "ending", "gone"}]
  BY <1>1, DsIndexOf DEF DsGood, DsTypeOK
<1>3. dsPipeState[p] = "new" /\ p \notin P BY DEF DsAttach, DsKnown
<1>4. dsPipes' = u
  <2>1. (IF dsMore THEN dsEligible ELSE dsActive) = e BY <1>1 DEF DsGood, DsTypeOK
  <2> QED BY <2>1 DEF DsAttach
<1>5. /\ DsArray(t, P \cup {p}) /\ Len(t) = n + 1 /\ DsIndex(t, p) = n
      /\ \A q \in P : DsIndex(t, q) = DsIndex(s, q)
  BY <1>1, <1>3, DsAppendFacts
<1> HIDE DEF t
<1>6. /\ DsArray(u, P \cup {p}) /\ Len(u) = n + 1
      /\ \A q \in P \cup {p} : DsIndex(u, q) = DsTraded(DsIndex(t, q), e, n)
  <2> DEFINE Q == P \cup {p}
  <2>1. e < Len(t) /\ n < Len(t) /\ e \in Nat /\ n \in Nat BY <1>2, <1>5
  <2>2. DsArray(t, Q) /\ Len(t) = n + 1 BY <1>5
  <2> HIDE DEF e, n, Q
  <2>3. /\ DsArray(u, Q) /\ Len(u) = Len(t)
        /\ \A q \in Q : DsIndex(u, q) = DsTraded(DsIndex(t, q), e, n)
    BY <2>1, <2>2, DsSwapFacts
  <2> QED BY <2>2, <2>3 DEF Q
<1> HIDE DEF u
<1>7. DsKnown(dsPipeState') = P \cup {p}
  <2>1. dsPipeState' = [dsPipeState EXCEPT ![p] = "open"] BY DEF DsAttach
  <2> QED BY <1>2, <2>1 DEF DsKnown
<1>8. /\ dsMatching' = dsMatching /\ e' = e + 1
      /\ dsActive' = IF dsMore THEN dsActive ELSE dsActive + 1
      /\ dsMore' = dsMore /\ dsPart' = dsPart /\ dsGot' = dsGot /\ dsDamaged' = dsDamaged
      /\ dsDisplaced' = dsDisplaced
      /\ dsPipeState' = [dsPipeState EXCEPT ![p] = "open"]
  BY DEF DsAttach
<1>9. DsTypeOK'
  <2>1. dsPipes' \in Seq(DsPipe) BY <1>4, <1>6 DEF DsArray
  <2> QED BY <1>1, <1>8, <2>1 DEF DsTypeOK
<1>10. ASSUME NEW q \in DsPipe
       PROVE  DsFits(DsIndex(u, q), dsMatching, e + 1, dsPart, dsPipeState'[q], dsGot[q])
  <2>1. DsFits(DsIndex(s, q), dsMatching, e, dsPart, dsPipeState[q], dsGot[q]) BY DEF DsGood
  <2>2. CASE q = p
    <3>1. DsIndex(u, p) = e BY <1>2, <1>5, <1>6 DEF DsTraded
    <3>2. dsPipeState'[p] = "open" /\ dsGot[p] = 0 BY <1>2, <1>3, <1>8, <2>1, <2>2 DEF DsFits
    <3> QED BY <1>2, <2>2, <3>1, <3>2 DEF DsFits
  <2>3. CASE q # p
    <3>1. dsPipeState'[q] = dsPipeState[q] BY <1>2, <1>8, <2>3
    <3>2. CASE q \in P
      <4> DEFINE x == DsIndex(s, q)
      <4>1. x \in 0..(n - 1) BY <1>1, <3>2, DsIndexOf
      <4>2. DsIndex(u, q) = DsTraded(x, e, n) BY <1>5, <1>6, <3>2
      <4> HIDE DEF x
      <4>3. DsFits(x, dsMatching, e, dsPart, dsPipeState[q], dsGot[q]) BY <2>1 DEF x
      <4> HIDE DEF e, n
      <4>4. DsTraded(x, e, n) \in Nat /\ x \in Nat
            /\ (x < e => DsTraded(x, e, n) = x)
            /\ (e <= x => DsTraded(x, e, n) >= e + 1)
        BY <1>2, <4>1 DEF DsTraded
      <4> QED BY <1>2, <3>1, <4>2, <4>3, <4>4 DEF DsFits
    <3>3. CASE q \notin P
      <4>1. dsPipeState[q] \in {"new", "gone", "ending"} BY <3>3 DEF DsKnown
      <4> QED BY <2>1, <3>1, <4>1, DsFitsOutside
    <3> QED BY <3>2, <3>3
  <2> QED BY <2>2, <2>3
<1>11. /\ dsMatching <= dsActive' /\ dsActive' <= e + 1 /\ e + 1 <= n + 1
       /\ dsMore = FALSE => dsMatching = 0 /\ dsActive' = e + 1
  BY <1>1, <1>2, <1>8 DEF DsGood, DsTypeOK
<1>12. DsArray(dsPipes, DsKnown(dsPipeState))' BY <1>4, <1>6, <1>7
<1>13. ASSUME NEW q \in DsPipe
       PROVE  DsFits(DsIndex(dsPipes', q), dsMatching', dsEligible', dsPart', dsPipeState'[q], dsGot'[q])
  BY <1>4, <1>8, <1>10
<1>14. (dsMore = TRUE <=> dsPart > 0) /\ dsDamaged = {} BY DEF DsGood
<1> QED BY <1>4, <1>6, <1>8, <1>9, <1>11, <1>12, <1>13, <1>14 DEF DsGood

\* activated brings a full pipe behind the eligible ones.
LEMMA DsActivatedKeeps ==
    ASSUME DsGood, NEW p \in DsPipe, DsActivated(p)
    PROVE  DsGood'
<1> DEFINE P == DsKnown(dsPipeState)
           s == dsPipes
           e == dsEligible
           n == Len(s)
           x == DsIndex(s, p)
           t == DsSwap(s, x, e)
           u == dsPipes'
<1>1. DsTypeOK /\ DsArray(s, P) BY DEF DsGood
<1>2. /\ dsMatching \in Nat /\ dsActive \in Nat /\ e \in Nat /\ n \in Nat /\ dsPart \in Nat
      /\ dsMatching <= dsActive /\ dsActive <= e /\ e < n
      /\ dsPipeState \in [DsPipe -> {"new", "open", "full", "ending", "gone"}]
  BY <1>1, DsIndexOf DEF DsGood, DsTypeOK, DsActivated
<1>3. dsPipeState[p] = "full" /\ p \in P BY DEF DsActivated, DsKnown
<1>4. x \in 0..(n - 1) /\ s[x + 1] = p BY <1>1, <1>3, DsIndexOf
<1>5. /\ DsArray(t, P) /\ Len(t) = n
      /\ \A q \in P : DsIndex(t, q) = DsTraded(DsIndex(s, q), x, e)
  <2>1. x \in Nat /\ x < Len(s) /\ e < Len(s) /\ e \in Nat BY <1>2, <1>4
  <2> HIDE DEF x, e
  <2> QED BY <1>1, <2>1, DsSwapFacts
<1> HIDE DEF t
<1>6. /\ DsArray(u, P) /\ Len(u) = n
      /\ \A q \in P : DsIndex(u, q) = DsTraded(DsIndex(s, q), x, e)
  <2>1. CASE dsMore
    <3>1. u = t BY <2>1 DEF DsActivated, t
    <3> QED BY <1>5, <3>1
  <2>2. CASE ~dsMore
    <3>1. dsActive = e BY <1>1, <2>2 DEF DsGood, DsTypeOK
    <3>2. u = DsSwap(t, e, e) BY <2>2, <3>1 DEF DsActivated, t
    <3>3. e \in Nat /\ e < Len(t) BY <1>2, <1>5
    <3> HIDE DEF e
    <3>4. /\ DsArray(DsSwap(t, e, e), P) /\ Len(DsSwap(t, e, e)) = Len(t)
          /\ \A q \in P : DsIndex(DsSwap(t, e, e), q) = DsTraded(DsIndex(t, q), e, e)
      BY <1>5, <3>3, DsSwapFacts
    <3>5. \A y : DsTraded(y, e, e) = y BY DEF DsTraded
    <3> QED BY <1>5, <3>2, <3>4, <3>5
  <2> QED BY <2>1, <2>2
<1>7. /\ dsMatching' = dsMatching /\ e' = e + 1
      /\ dsActive' = IF dsMore THEN dsActive ELSE dsActive + 1
      /\ dsMore' = dsMore /\ dsPart' = dsPart /\ dsGot' = dsGot /\ dsDamaged' = dsDamaged
      /\ dsDisplaced' = dsDisplaced
      /\ dsPipeState' = [dsPipeState EXCEPT ![p] = "open"]
  BY DEF DsActivated
<1>8. DsKnown(dsPipeState') = P BY <1>2, <1>3, <1>7 DEF DsKnown
<1>9. DsTypeOK'
  <2>1. dsPipes' \in Seq(DsPipe) BY <1>6 DEF DsArray
  <2> QED BY <1>1, <1>7, <2>1 DEF DsTypeOK
<1>10. ASSUME NEW q \in DsPipe
       PROVE  DsFits(DsIndex(u, q), dsMatching, e + 1, dsPart, dsPipeState'[q], dsGot[q])
  <2>1. DsFits(DsIndex(s, q), dsMatching, e, dsPart, dsPipeState[q], dsGot[q]) BY DEF DsGood
  <2>2. CASE q = p
    <3>1. DsIndex(u, p) = e BY <1>3, <1>6 DEF DsTraded
    <3>2. dsPipeState'[p] = "open" /\ e <= x BY <1>2, <1>3, <1>7, <2>1, <2>2 DEF DsFits
    <3>3. dsGot[p] = 0 BY <1>2, <1>3, <1>4, <2>1, <2>2, <3>2 DEF DsFits
    <3> QED BY <1>2, <2>2, <3>1, <3>2, <3>3 DEF DsFits
  <2>3. CASE q # p
    <3>1. dsPipeState'[q] = dsPipeState[q] BY <1>2, <1>7, <2>3
    <3>2. CASE q \in P
      <4> DEFINE y == DsIndex(s, q)
      <4>1. y \in 0..(n - 1) /\ s[y + 1] = q BY <1>1, <3>2, DsIndexOf
      <4>2. y # x BY <1>4, <2>3, <4>1
      <4>3. DsIndex(u, q) = DsTraded(y, x, e) BY <1>6, <3>2
      <4>4. DsFits(x, dsMatching, e, dsPart, "full", dsGot[p]) BY <1>3 DEF DsGood
      <4>5. e <= x BY <4>4 DEF DsFits
      <4>6. DsFits(y, dsMatching, e, dsPart, dsPipeState[q], dsGot[q]) BY <2>1
      <4> HIDE DEF e, n, x, y
      <4>7. DsTraded(y, x, e) \in Nat /\ y \in Nat
            /\ (y < e => DsTraded(y, x, e) = y)
            /\ (e <= y => DsTraded(y, x, e) >= e + 1)
        BY <1>2, <1>4, <4>1, <4>2, <4>5 DEF DsTraded
      <4> QED BY <1>2, <3>1, <4>3, <4>6, <4>7 DEF DsFits
    <3>3. CASE q \notin P
      <4>1. dsPipeState[q] \in {"new", "gone", "ending"} BY <3>3 DEF DsKnown
      <4> QED BY <2>1, <3>1, <4>1, DsFitsOutside
    <3> QED BY <3>2, <3>3
  <2> QED BY <2>2, <2>3
<1>11. /\ dsMatching <= dsActive' /\ dsActive' <= e + 1 /\ e + 1 <= n
       /\ dsMore = FALSE => dsMatching = 0 /\ dsActive' = e + 1
  BY <1>1, <1>2, <1>7 DEF DsGood, DsTypeOK
<1>12. DsArray(dsPipes, DsKnown(dsPipeState))' BY <1>6, <1>8
<1>13. ASSUME NEW q \in DsPipe
       PROVE  DsFits(DsIndex(dsPipes', q), dsMatching', dsEligible', dsPart', dsPipeState'[q], dsGot'[q])
  BY <1>7, <1>10
<1>14. (dsMore = TRUE <=> dsPart > 0) /\ dsDamaged = {} BY DEF DsGood
<1> QED BY <1>6, <1>7, <1>9, <1>11, <1>12, <1>13, <1>14 DEF DsGood

\* A pipe that ends stays where it is.
LEMMA DsPeerEndsKeeps ==
    ASSUME DsGood, NEW p \in DsPipe, DsPeerEnds(p)
    PROVE  DsGood'
<1>1. DsTypeOK BY DEF DsGood
<1>2. /\ dsPipeState[p] \in {"open", "full"}
      /\ dsPipeState' = [dsPipeState EXCEPT ![p] = "ending"]
      /\ dsPipes' = dsPipes /\ dsMatching' = dsMatching /\ dsActive' = dsActive
      /\ dsEligible' = dsEligible /\ dsMore' = dsMore /\ dsPart' = dsPart /\ dsGot' = dsGot
      /\ dsDamaged' = dsDamaged /\ dsDisplaced' = dsDisplaced
  BY DEF DsPeerEnds
<1>3. dsPipeState \in [DsPipe -> {"new", "open", "full", "ending", "gone"}] BY <1>1 DEF DsTypeOK
<1>4. DsKnown(dsPipeState') = DsKnown(dsPipeState) BY <1>2, <1>3 DEF DsKnown
<1>5. DsTypeOK' BY <1>1, <1>2 DEF DsTypeOK
<1>6. ASSUME NEW q \in DsPipe
      PROVE  DsFits(DsIndex(dsPipes', q), dsMatching', dsEligible', dsPart', dsPipeState'[q], dsGot'[q])
  <2>1. DsFits(DsIndex(dsPipes, q), dsMatching, dsEligible, dsPart, dsPipeState[q], dsGot[q])
    BY DEF DsGood
  <2>2. CASE q = p
    <3>1. dsPipeState'[q] = "ending" BY <1>2, <1>3, <2>2
    <3> QED BY <3>1 DEF DsFits
  <2>3. CASE q # p
    <3>1. dsPipeState'[q] = dsPipeState[q] BY <1>2, <1>3, <2>3
    <3> QED BY <1>2, <2>1, <3>1
  <2> QED BY <2>2, <2>3
<1>7. DsArray(dsPipes, DsKnown(dsPipeState))' BY <1>2, <1>4 DEF DsGood
<1> QED BY <1>2, <1>5, <1>6, <1>7 DEF DsGood

\* When the last index n - 1 is in the region of i, the one that moves from there to i stays in it.
LEMMA DsFilledGap ==
    ASSUME NEW i \in Nat, NEW n \in Nat, NEW m \in Nat, NEW a \in Nat, NEW e \in Nat,
           i < n, m <= a, a <= e, e <= n,
           i < m <=> n - 1 < m, i < a <=> n - 1 < a, i < e <=> n - 1 < e
    PROVE  LET less(v) == IF i < v THEN v - 1 ELSE v IN
           /\ less(m) \in Nat /\ less(a) \in Nat /\ less(e) \in Nat
           /\ less(m) <= less(a) /\ less(a) <= less(e) /\ less(e) <= n - 1
           /\ m = 0 => less(m) = 0
           /\ a = e => less(a) = less(e)
           /\ \A y \in 0..(n - 1) :
                 y # i => /\ (IF y = n - 1 THEN i ELSE y) \in Nat
                          /\ y < e <=> (IF y = n - 1 THEN i ELSE y) < less(e)
                          /\ y < m <=> (IF y = n - 1 THEN i ELSE y) < less(m)
  OBVIOUS

\* terminated, when the pipe that fills the gap is of the same region.
LEMMA DsTerminatedKeeps ==
    ASSUME DsGood, NEW p \in DsPipe, DsTerminated(p),
           DsRegion(DsIndex(dsPipes, p)) = DsRegion(Len(dsPipes) - 1)
    PROVE  DsGood'
<1> DEFINE P == DsKnown(dsPipeState)
           s == dsPipes
           n == Len(s)
           i == DsIndex(s, p)
           u == dsPipes'
           m == dsMatching
           a == dsActive
           e == dsEligible
<1>1. DsTypeOK /\ DsArray(s, P) BY DEF DsGood
<1>2. /\ m \in Nat /\ a \in Nat /\ e \in Nat /\ n \in Nat /\ dsPart \in Nat
      /\ m <= a /\ a <= e /\ e <= n
      /\ dsPipeState \in [DsPipe -> {"new", "open", "full", "ending", "gone"}]
      /\ dsGot \in [DsPipe -> 0..DsParts]
  BY <1>1, DsIndexOf DEF DsGood, DsTypeOK
<1>3. dsPipeState[p] = "ending" /\ p \in P BY DEF DsTerminated, DsKnown
<1>4. i \in 0..(n - 1) /\ s[i + 1] = p BY <1>1, <1>3, DsIndexOf
<1>5. /\ DsArray(u, P \ {p}) /\ Len(u) = n - 1
      /\ \A q \in P \ {p} :
            DsIndex(u, q) = IF DsIndex(s, q) = n - 1 THEN i ELSE DsIndex(s, q)
  <2>1. u = DsErase(s, i) BY DEF DsTerminated
  <2> QED BY <1>1, <1>3, <2>1, DsEraseFacts
<1>6. i \in Nat /\ n - 1 \in Nat /\ i <= n - 1 /\ i < n BY <1>2, <1>4
<1>7. (i < m <=> n - 1 < m) /\ (i < a <=> n - 1 < a) /\ (i < e <=> n - 1 < e)
  BY <1>2, <1>6, DsSameRegion
<1>8. /\ dsMatching' = (IF i < m THEN m - 1 ELSE m)
      /\ dsActive' = (IF i < a THEN a - 1 ELSE a)
      /\ dsEligible' = (IF i < e THEN e - 1 ELSE e)
      /\ dsMore' = dsMore /\ dsPart' = dsPart
      /\ dsGot' = [dsGot EXCEPT ![p] = 0]
      /\ dsDamaged' = dsDamaged \ {p}
      /\ dsPipeState' = [dsPipeState EXCEPT ![p] = "gone"]
  BY DEF DsTerminated
<1> HIDE DEF i, u, n
<1>9. /\ dsMatching' \in Nat /\ dsActive' \in Nat /\ dsEligible' \in Nat
      /\ dsMatching' <= dsActive' /\ dsActive' <= dsEligible' /\ dsEligible' <= n - 1
      /\ m = 0 => dsMatching' = 0
      /\ a = e => dsActive' = dsEligible'
      /\ \A y \in 0..(n - 1) :
            y # i => /\ (IF y = n - 1 THEN i ELSE y) \in Nat
                     /\ y < e <=> (IF y = n - 1 THEN i ELSE y) < dsEligible'
                     /\ y < m <=> (IF y = n - 1 THEN i ELSE y) < dsMatching'
  BY <1>2, <1>6, <1>7, <1>8, DsFilledGap
<1>10. DsKnown(dsPipeState') = P \ {p} BY <1>2, <1>8 DEF DsKnown
<1>11. DsTypeOK'
  <2>1. dsPipes' \in Seq(DsPipe) BY <1>5 DEF DsArray, u
  <2>2. 0 \in 0..DsParts BY DsAssumption
  <2>3. dsGot' \in [DsPipe -> 0..DsParts] BY <1>2, <1>8, <2>2
  <2>4. dsPipeState' \in [DsPipe -> {"new", "open", "full", "ending", "gone"}] BY <1>2, <1>8
  <2>5. dsMore' \in BOOLEAN /\ dsPart' \in 0..DsParts /\ dsDamaged' \subseteq DsPipe
        /\ dsDisplaced' \in BOOLEAN
    BY <1>1, <1>8 DEF DsTypeOK, DsTerminated
  <2> QED BY <1>9, <2>1, <2>3, <2>4, <2>5 DEF DsTypeOK
<1>12. ASSUME NEW q \in DsPipe
       PROVE  DsFits(DsIndex(u, q), dsMatching', dsEligible', dsPart, dsPipeState'[q], dsGot'[q])
  <2>1. DsFits(DsIndex(s, q), m, e, dsPart, dsPipeState[q], dsGot[q]) BY DEF DsGood
  <2>2. CASE q = p
    <3>1. dsPipeState'[q] = "gone" BY <1>2, <1>8, <2>2
    <3> QED BY <3>1 DEF DsFits
  <2>3. CASE q # p
    <3>1. dsPipeState'[q] = dsPipeState[q] /\ dsGot'[q] = dsGot[q] BY <1>2, <1>8, <2>3
    <3>2. CASE q \in P
      <4> DEFINE y == DsIndex(s, q)
                 z == DsIndex(u, q)
      <4>1. y \in 0..(n - 1) /\ s[y + 1] = q BY <1>1, <3>2, DsIndexOf DEF n
      <4>2. y # i BY <1>4, <2>3, <4>1
      <4>3. z = IF y = n - 1 THEN i ELSE y BY <1>5, <2>3, <3>2
      <4>4. DsFits(y, m, e, dsPart, dsPipeState[q], dsGot[q]) BY <2>1
      <4> HIDE DEF y, z
      <4>5. z \in Nat /\ (y < e <=> z < dsEligible') /\ (y < m <=> z < dsMatching')
        BY <1>9, <4>1, <4>2, <4>3
      <4>6. y \in Nat BY <1>2, <4>1
      <4>7. DsFits(z, dsMatching', dsEligible', dsPart, dsPipeState[q], dsGot[q])
        BY <1>2, <1>9, <4>4, <4>5, <4>6 DEF DsFits
      <4> QED BY <3>1, <4>7 DEF z
    <3>3. CASE q \notin P
      <4>1. dsPipeState[q] \in {"new", "gone", "ending"} BY <3>3 DEF DsKnown
      <4> QED BY <2>1, <3>1, <4>1, DsFitsOutside
    <3> QED BY <3>2, <3>3
  <2> QED BY <2>2, <2>3
<1>13. DsArray(dsPipes, DsKnown(dsPipeState))' BY <1>5, <1>10 DEF u
<1>14. ASSUME NEW q \in DsPipe
       PROVE  DsFits(DsIndex(dsPipes', q), dsMatching', dsEligible', dsPart', dsPipeState'[q], dsGot'[q])
  BY <1>8, <1>12 DEF u
<1>15. (dsMore = TRUE <=> dsPart > 0) /\ dsDamaged = {}
       /\ (dsMore = FALSE => m = 0 /\ a = e)
  BY DEF DsGood
<1>16. dsEligible' <= Len(dsPipes') BY <1>5, <1>9 DEF u
<1>17. dsMore' = FALSE => dsMatching' = 0 /\ dsActive' = dsEligible' BY <1>8, <1>9, <1>15
<1> QED BY <1>8, <1>9, <1>11, <1>13, <1>14, <1>15, <1>16, <1>17 DEF DsGood

\* The array when a part is sent, and once the pipes that the message is for are matched.
DsStart == [pipes |-> dsPipes, matching |-> dsMatching, active |-> dsActive,
            eligible |-> dsEligible]
DsBegun(want) == IF dsMore THEN DsStart ELSE DsMatchAll(DsStart, want)

\* Matching rearranges the eligible pipes only, and not at all within a message.
LEMMA DsBegunFacts ==
    ASSUME DsGood, NEW want \in SUBSET DsPipe, want \subseteq DsKnown(dsPipeState)
    PROVE  LET c == DsBegun(want) IN
           /\ DsCursor(c, DsKnown(dsPipeState)) /\ c.eligible = dsEligible
           /\ Len(c.pipes) = Len(dsPipes)
           /\ \A p \in DsKnown(dsPipeState) :
                 DsIndex(c.pipes, p) < dsEligible <=> DsIndex(dsPipes, p) < dsEligible
           /\ dsMore = TRUE => c = DsStart
           /\ dsMore = FALSE =>
                 \A p \in want : DsIndex(dsPipes, p) < dsEligible => DsIndex(c.pipes, p) < c.matching
<1> DEFINE P == DsKnown(dsPipeState)
           c == DsBegun(want)
<1>1. DsTypeOK /\ DsArray(dsPipes, P) /\ dsMore \in BOOLEAN BY DEF DsGood, DsTypeOK
<1>2. /\ DsStart \in DsCursors /\ DsStart.pipes = dsPipes /\ DsStart.matching = dsMatching
      /\ DsStart.active = dsActive /\ DsStart.eligible = dsEligible
  BY <1>1 DEF DsStart, DsCursors, DsTypeOK
<1>3. DsCursor(DsStart, P) BY <1>1, <1>2 DEF DsCursor, DsGood
<1>4. CASE dsMore = TRUE
  <2>1. c = DsStart BY <1>4 DEF DsBegun
  <2> QED BY <1>2, <1>3, <1>4, <2>1
<1>5. CASE dsMore = FALSE
  <2>1. c = DsMatchAll(DsStart, want) BY <1>5 DEF DsBegun
  <2>2. DsStart.active = DsStart.eligible BY <1>2, <1>5 DEF DsGood
  <2>3. IsFiniteSet(want) BY DsAssumption, FS_Subset
  <2> HIDE DEF P, c
  <2>4. want \subseteq P BY DEF P
  <2>5. DsMatched(DsStart, c, P, want) BY <1>3, <2>1, <2>2, <2>3, <2>4, DsMatchAllFacts
  <2>6. /\ DsCursor(c, P) /\ Len(c.pipes) = Len(dsPipes) /\ c.eligible = dsEligible
        /\ \A p \in P : DsIndex(c.pipes, p) < dsEligible <=> DsIndex(dsPipes, p) < dsEligible
        /\ \A p \in want : DsIndex(c.pipes, p) < dsEligible => DsIndex(c.pipes, p) < c.matching
    BY <1>2, <2>5 DEF DsMatched
  <2>7. \A p \in want : DsIndex(dsPipes, p) < dsEligible => DsIndex(c.pipes, p) < c.matching
    BY <2>4, <2>6
  <2> QED BY <1>5, <2>6, <2>7 DEF P, c
<1> QED BY <1>1, <1>4, <1>5

\* What a part does to one pipe p of the array, at x before, at v when all are matched and at z after:
\* those before dm are written to, and a pipe in F is full when the first part comes.
DsSendCase(x, v, z, m, e, cm, dm, de, part, st, got, p, F) ==
    /\ st \in {"open", "full", "ending"} /\ got \in Nat /\ part \in Nat
    /\ x \in Nat /\ v \in Nat /\ z \in Nat
    /\ m \in Nat /\ e \in Nat /\ cm \in Nat /\ dm \in Nat /\ de \in Nat
    /\ DsFits(x, m, e, part, st, got)
    /\ m <= e /\ cm <= e /\ dm <= de
    /\ part = 0 => m = 0
    /\ part > 0 => cm = m /\ v = x /\ p \notin F
    /\ v < e <=> x < e
    /\ p \in F => st = "open"
    /\ part = 0 /\ p \in F /\ x < e => v < cm
    /\ z < dm => ~(st = "ending" \/ (part = 0 /\ p \in F))
    /\ v < cm => z < dm \/ ((st = "ending" \/ (part = 0 /\ p \in F)) /\ de <= z)
    /\ cm <= v /\ v < e => dm <= z /\ z < de
    /\ e <= v => de <= z

\* Wherever the pipe goes, its new index says of it what an index has to say.
LEMMA DsSendFits ==
    ASSUME NEW x, NEW v, NEW z, NEW m, NEW e, NEW cm, NEW dm, NEW de, NEW part, NEW st, NEW got,
           NEW p, NEW F, DsSendCase(x, v, z, m, e, cm, dm, de, part, st, got, p, F)
    PROVE  LET then == IF part = 0 /\ p \in F /\ ~(z < dm) /\ x < e THEN "full" ELSE st
               gets == IF z < dm THEN part + 1 ELSE got
           IN  /\ then \in {"open", "full", "ending"}
               /\ DsFits(z, dm, de, part + 1, then, gets)
               /\ DsFits(z, 0, de, 0, then, 0)
               /\ z < dm => got = part
               /\ st \in {"open", "full"} => ~(1 <= gets /\ gets <= part)
<1> DEFINE then == IF part = 0 /\ p \in F /\ ~(z < dm) /\ x < e THEN "full" ELSE st
           gets == IF z < dm THEN part + 1 ELSE got
<1> USE DEF DsSendCase
<1>1. CASE st = "ending" BY <1>1 DEF DsFits
<1>2. CASE st = "full"
  <2>1. e <= x /\ got = 0 /\ p \notin F /\ de <= z /\ ~(z < dm) BY <1>2 DEF DsFits
  <2>2. then = "full" /\ gets = 0 BY <1>2, <2>1
  <2> HIDE DEF then, gets
  <2> QED BY <1>2, <2>1, <2>2 DEF DsFits, then, gets
<1>3. CASE st = "open" /\ part = 0
  <2>1. x < e /\ got = 0 /\ v < e BY <1>3 DEF DsFits
  <2>2. CASE p \in F
    <3>1. ~(z < dm) /\ de <= z BY <1>3, <2>1, <2>2
    <3> QED BY <1>3, <2>1, <2>2, <3>1 DEF DsFits
  <2>3. CASE p \notin F
    <3>1. z < de BY <1>3, <2>1, <2>3
    <3> QED BY <1>3, <2>1, <2>3, <3>1 DEF DsFits
  <2> QED BY <2>2, <2>3
<1>4. CASE st = "open" /\ part > 0
  <2>1. x < e /\ v = x /\ cm = m /\ p \notin F BY <1>4 DEF DsFits
  <2>2. z < de /\ (x < m <=> z < dm) BY <1>4, <2>1
  <2>3. then = "open" BY <1>4, <2>1
  <2>4. got = IF x < m THEN part ELSE 0 BY <1>4 DEF DsFits
  <2> QED BY <1>4, <2>1, <2>2, <2>3, <2>4 DEF DsFits
<1> QED BY <1>1, <1>2, <1>3, <1>4

\* A part goes to the matching pipes, and those that refuse it are no longer eligible.
LEMMA DsSendKeeps ==
    ASSUME DsGood, NEW want \in SUBSET DsPipe, NEW full \in SUBSET DsPipe, NEW more \in BOOLEAN,
           DsSend(want, full, more)
    PROVE  DsGood'
<1> DEFINE P == DsKnown(dsPipeState)
           c == DsBegun(want)
           sent == DsDistribute(c, full)
           end == sent.cursor
           got == [p \in DsPipe |-> IF p \in sent.written THEN dsPart + 1 ELSE dsGot[p]]
           broken == {p \in sent.written : dsGot[p] # dsPart}
           cut == {p \in DsPipe : dsPipeState[p] \in {"open", "full"} /\ got[p] \in 1..dsPart}
           then == [p \in DsPipe |->
                       IF dsPart = 0 /\ p \in full /\ p \notin sent.written
                          /\ DsIndex(dsPipes, p) < dsEligible
                       THEN "full" ELSE dsPipeState[p]]
<1>1. /\ dsPart < DsParts
      /\ more => dsPart + 1 < DsParts
      /\ want \subseteq Range(dsPipes) /\ full \subseteq want
      /\ dsPart > 0 => want = {} /\ full = {}
      /\ \A p \in full : dsPipeState[p] = "open"
      /\ dsPipes' = end.pipes
      /\ dsMatching' = IF more THEN end.matching ELSE 0
      /\ dsActive' = IF more THEN end.active ELSE end.eligible
      /\ dsEligible' = end.eligible
      /\ dsMore' = more
      /\ dsPart' = IF more THEN dsPart + 1 ELSE 0
      /\ dsPipeState' = then
      /\ dsGot' = IF more THEN got ELSE [p \in DsPipe |-> 0]
      /\ dsDamaged' = dsDamaged \cup broken \cup (IF more THEN {} ELSE cut)
      /\ dsDisplaced' = dsDisplaced
  BY DEF DsSend, DsBegun, DsStart
<1>2. /\ DsTypeOK /\ DsArray(dsPipes, P) /\ dsMore \in BOOLEAN
      /\ dsMatching \in Nat /\ dsActive \in Nat /\ dsEligible \in Nat
      /\ dsMatching <= dsActive /\ dsActive <= dsEligible
      /\ dsPart \in Nat /\ dsPart \in 0..DsParts /\ DsParts \in Nat
      /\ dsPipeState \in [DsPipe -> {"new", "open", "full", "ending", "gone"}]
      /\ dsGot \in [DsPipe -> 0..DsParts]
  BY DsAssumption DEF DsGood, DsTypeOK
<1>3. P \subseteq DsPipe /\ want \subseteq P
  <2>1. Range(dsPipes) \subseteq P BY <1>2 DEF Range, DsArray
  <2> QED BY <1>1, <2>1 DEF DsKnown
<1>4. /\ DsCursor(c, P) /\ c.eligible = dsEligible
      /\ Len(c.pipes) = Len(dsPipes)
      /\ \A p \in P : DsIndex(c.pipes, p) < dsEligible <=> DsIndex(dsPipes, p) < dsEligible
      /\ dsMore = TRUE => c = DsStart
      /\ dsMore = FALSE =>
            \A p \in want : DsIndex(dsPipes, p) < dsEligible => DsIndex(c.pipes, p) < c.matching
  BY <1>3, DsBegunFacts
<1> HIDE DEF c
<1>5. DsTried(c, sent, P, full, c.matching) /\ sent.at = end.matching
  <2> HIDE DEF P
  <2> QED BY <1>4, DsDistributeFacts
<1> HIDE DEF sent
<1>6. /\ c.matching \in Nat /\ c.matching <= dsEligible /\ DsArray(c.pipes, P)
  <2>1. c.matching \in Nat /\ c.active \in Nat /\ c.eligible \in Nat
        /\ c.matching <= c.active /\ c.active <= c.eligible /\ DsArray(c.pipes, P)
    BY <1>4 DEF DsCursor, DsCursors
  <2> QED BY <1>4, <2>1
<1>7. /\ DsArray(end.pipes, P)
      /\ end.matching \in Nat /\ end.active \in Nat /\ end.eligible \in Nat
      /\ end.matching <= end.active /\ end.active <= end.eligible /\ end.eligible <= Len(end.pipes)
      /\ end.pipes \in Seq(DsPipe)
  BY <1>5 DEF DsTried, DsCursor, DsCursors
<1>8. /\ sent.written = {p \in P : DsIndex(end.pipes, p) < end.matching}
      /\ \A p \in sent.written : ~DsRefuses(full, p)
      /\ \A p \in P : DsStays(c, end, full, p)
  BY <1>5 DEF DsTried
<1> HIDE DEF end
<1>9. (dsMore = TRUE <=> dsPart > 0) /\ (dsMore = FALSE => dsMatching = 0)
      /\ dsDamaged = {}
  BY DEF DsGood
<1>10. ASSUME NEW p \in P
       PROVE  /\ then[p] \in {"open", "full", "ending"}
              /\ DsFits(DsIndex(end.pipes, p), end.matching, end.eligible, dsPart + 1,
                        then[p], got[p])
              /\ DsFits(DsIndex(end.pipes, p), 0, end.eligible, 0, then[p], 0)
              /\ p \in sent.written => dsGot[p] = dsPart
              /\ dsPipeState[p] \in {"open", "full"} => ~(1 <= got[p] /\ got[p] <= dsPart)
  <2> DEFINE st == dsPipeState[p]
             g == dsGot[p]
             x == DsIndex(dsPipes, p)
             v == DsIndex(c.pipes, p)
             z == DsIndex(end.pipes, p)
             cm == c.matching
             dm == end.matching
             de == end.eligible
             m == dsMatching
             e == dsEligible
             part == dsPart
  <2>1. st \in {"open", "full", "ending"} /\ g \in Nat BY <1>2, <1>3 DEF DsKnown
  <2>2. x \in Nat /\ v \in Nat /\ z \in Nat
    <3>1. Len(dsPipes) \in Nat /\ x \in 0..(Len(dsPipes) - 1) BY <1>2, DsIndexOf
    <3>2. Len(c.pipes) \in Nat /\ v \in 0..(Len(c.pipes) - 1) BY <1>6, DsIndexOf
    <3>3. Len(end.pipes) \in Nat /\ z \in 0..(Len(end.pipes) - 1) BY <1>7, DsIndexOf
    <3> QED BY <3>1, <3>2, <3>3
  <2>3. DsFits(x, m, e, part, st, g) BY <1>3 DEF DsGood
  <2>4. part = 0 => m = 0 BY <1>2, <1>9
  <2>5. part > 0 => cm = m /\ v = x /\ p \notin full BY <1>1, <1>4, <1>9 DEF DsStart
  <2>6. v < e <=> x < e BY <1>4
  <2>7. p \in full => st = "open" BY <1>1
  <2>8. part = 0 /\ p \in full /\ x < e => v < cm
    <3>1. part = 0 => dsMore = FALSE BY <1>2, <1>9
    <3> QED BY <1>1, <1>4, <3>1
  <2>9. p \in sent.written <=> z < dm BY <1>8
  <2>10. DsRefuses(full, p) <=> (st = "ending" \/ (part = 0 /\ p \in full)) BY DEF DsRefuses
  <2>11. z < dm => ~(st = "ending" \/ (part = 0 /\ p \in full)) BY <1>8, <2>9, <2>10
  <2>12. /\ v < cm => z < dm \/ ((st = "ending" \/ (part = 0 /\ p \in full)) /\ de <= z)
         /\ cm <= v /\ v < e => dm <= z /\ z < de
         /\ e <= v => de <= z
    BY <1>4, <1>8, <2>10 DEF DsStays
  <2>13. m \in Nat /\ e \in Nat /\ cm \in Nat /\ dm \in Nat /\ de \in Nat /\ part \in Nat
         /\ m <= e /\ cm <= e /\ dm <= de
    BY <1>2, <1>6, <1>7
  <2>14. /\ then[p] = IF part = 0 /\ p \in full /\ ~(z < dm) /\ x < e THEN "full" ELSE st
         /\ got[p] = IF z < dm THEN part + 1 ELSE g
    BY <1>3, <2>9
  <2> HIDE DEF st, g, x, v, z, then, got, cm, dm, de, m, e, part
  <2>15. DsSendCase(x, v, z, m, e, cm, dm, de, part, st, g, p, full)
    BY <2>1, <2>2, <2>3, <2>4, <2>5, <2>6, <2>7, <2>8, <2>11, <2>12, <2>13 DEF DsSendCase
  <2>16. /\ then[p] \in {"open", "full", "ending"}
         /\ DsFits(z, dm, de, part + 1, then[p], got[p])
         /\ DsFits(z, 0, de, 0, then[p], 0)
         /\ z < dm => g = part
         /\ st \in {"open", "full"} => ~(1 <= got[p] /\ got[p] <= part)
    BY <2>14, <2>15, DsSendFits
  <2> QED BY <2>9, <2>16 DEF st, g, z, part, dm, de
<1>11. ASSUME NEW p \in DsPipe, p \notin P
       PROVE  then[p] = dsPipeState[p] /\ got[p] = dsGot[p] /\ dsPipeState[p] \in {"new", "gone"}
  <2>1. p \notin sent.written /\ p \notin full BY <1>1, <1>3, <1>8, <1>11
  <2>2. dsPipeState[p] \in {"new", "gone"} BY <1>11 DEF DsKnown
  <2> QED BY <2>1, <2>2
<1>12. DsKnown(then) = P
  <2>1. ASSUME NEW p \in P PROVE p \in DsPipe /\ then[p] \notin {"new", "gone"} BY <1>3, <1>10
  <2>2. ASSUME NEW p \in DsPipe, p \notin P PROVE then[p] \in {"new", "gone"} BY <1>11, <2>2
  <2> HIDE DEF then, P
  <2> QED BY <2>1, <2>2 DEF DsKnown
<1>13. broken = {} /\ cut = {}
  <2>1. ASSUME NEW p \in broken PROVE FALSE
    <3>1. p \in P /\ p \in sent.written /\ dsGot[p] # dsPart BY <1>8
    <3> QED BY <1>10, <3>1
  <2>2. ASSUME NEW p \in cut PROVE FALSE
    <3>1. p \in P BY DEF DsKnown
    <3>2. dsPipeState[p] \in {"open", "full"} /\ 1 <= got[p] /\ got[p] <= dsPart BY <1>2
    <3> HIDE DEF got, P
    <3> QED BY <1>10, <3>1, <3>2
  <2> QED BY <2>1, <2>2
<1>14. then \in [DsPipe -> {"new", "open", "full", "ending", "gone"}] BY <1>2
<1>15. got \in [DsPipe -> 0..DsParts]
  <2>1. dsPart + 1 \in 0..DsParts BY <1>1, <1>2
  <2> QED BY <1>2, <2>1
<1> HIDE DEF then, got, broken, cut, P
<1>16. DsTypeOK'
  <2>1. {dsMatching', dsActive', dsEligible'} \subseteq Nat BY <1>1, <1>7
  <2>2. dsPart' \in 0..DsParts BY <1>1, <1>2
  <2>3. dsGot' \in [DsPipe -> 0..DsParts]
    <3>1. 0 \in 0..DsParts BY <1>2
    <3> QED BY <1>1, <1>15, <3>1
  <2>4. dsDamaged' \subseteq DsPipe BY <1>1, <1>9, <1>13
  <2>5. dsDisplaced' \in BOOLEAN BY <1>1, <1>2 DEF DsTypeOK
  <2> QED BY <1>1, <1>7, <1>14, <2>1, <2>2, <2>3, <2>4, <2>5 DEF DsTypeOK
<1>17. DsArray(dsPipes, DsKnown(dsPipeState))' BY <1>1, <1>7, <1>12
<1>18. ASSUME NEW p \in DsPipe
       PROVE  DsFits(DsIndex(dsPipes', p), dsMatching', dsEligible', dsPart', dsPipeState'[p], dsGot'[p])
  <2>1. CASE p \in P /\ more
    <3>1. dsMatching' = end.matching /\ dsPart' = dsPart + 1 /\ dsGot' = got BY <1>1, <2>1
    <3> QED BY <1>1, <1>10, <2>1, <3>1
  <2>2. CASE p \in P /\ ~more
    <3>1. dsMatching' = 0 /\ dsPart' = 0 /\ dsGot'[p] = 0 BY <1>1, <2>2
    <3> QED BY <1>1, <1>10, <2>2, <3>1
  <2>3. CASE p \notin P
    <3>1. dsPipeState'[p] = dsPipeState[p] /\ dsPipeState[p] \in {"new", "gone"}
          /\ dsGot'[p] \in {dsGot[p], 0}
      BY <1>1, <1>11, <2>3
    <3>2. dsPipeState[p] = "new" => dsGot[p] = 0 BY DEF DsGood, DsFits
    <3> QED BY <3>1, <3>2 DEF DsFits
  <2> QED BY <2>1, <2>2, <2>3
<1>19. (dsMore = TRUE <=> dsPart > 0)' BY <1>1, <1>2
<1>20. (dsMore = FALSE => dsMatching = 0 /\ dsActive = dsEligible)' BY <1>1
<1>21. (dsMatching <= dsActive /\ dsActive <= dsEligible /\ dsEligible <= Len(dsPipes))'
  BY <1>1, <1>7
<1>22. dsDamaged' = {} BY <1>1, <1>9, <1>13
<1> QED BY <1>16, <1>17, <1>18, <1>19, <1>20, <1>21, <1>22 DEF DsGood

-----------------------------------------------------------------------------
\* Every step keeps the invariant.
LEMMA DsNextKeeps ==
    ASSUME DsIInv, [DsNext]_dsVars
    PROVE  DsIInv'
<1>1. CASE UNCHANGED dsVars
  BY <1>1 DEF DsIInv, DsGood, DsTypeOK, dsVars
<1>2. ASSUME NEW p \in DsPipe, DsAttach(p) PROVE DsIInv'
  BY <1>2, DsAttachKeeps DEF DsIInv, DsAttach
<1>3. ASSUME NEW p \in DsPipe, DsActivated(p) PROVE DsIInv'
  BY <1>3, DsActivatedKeeps DEF DsIInv, DsActivated
<1>4. ASSUME NEW p \in DsPipe, DsPeerEnds(p) PROVE DsIInv'
  BY <1>4, DsPeerEndsKeeps DEF DsIInv, DsPeerEnds
<1>5. ASSUME NEW p \in DsPipe, DsTerminated(p) PROVE DsIInv'
  <2>1. dsDisplaced' = (dsDisplaced
                         \/ DsRegion(DsIndex(dsPipes, p)) # DsRegion(Len(dsPipes) - 1))
    BY <1>5 DEF DsTerminated
  <2>2. dsDisplaced' \in BOOLEAN BY <2>1
  <2>3. ASSUME dsDisplaced' = FALSE PROVE DsGood'
    <3>1. dsDisplaced = FALSE
          /\ DsRegion(DsIndex(dsPipes, p)) = DsRegion(Len(dsPipes) - 1)
      BY <2>1, <2>3 DEF DsIInv
    <3>2. DsGood BY <3>1 DEF DsIInv
    <3> QED BY <1>5, <3>1, <3>2, DsTerminatedKeeps
  <2> QED BY <2>2, <2>3 DEF DsIInv
<1>6. ASSUME NEW want \in SUBSET DsPipe, NEW full \in SUBSET DsPipe, NEW more \in BOOLEAN,
             DsSend(want, full, more)
      PROVE  DsIInv'
  <2>1. dsDisplaced' = dsDisplaced BY <1>6 DEF DsSend
  <2>2. DsGood => DsGood' BY <1>6, DsSendKeeps
  <2> QED BY <2>1, <2>2 DEF DsIInv
<1> QED BY <1>1, <1>2, <1>3, <1>4, <1>5, <1>6 DEF DsNext

\* The regions mean what dist_t takes them to mean and a subscriber gets all parts of a message or
\* none, for every number of pipes and parts, as long as no removed pipe of one region gave its place
\* to a pipe of another.
THEOREM DsKeepsRegions == DsSpec => []DsSafe
<1>1. DsIInv => DsSafe
  <2> SUFFICES ASSUME DsIInv, dsDisplaced = FALSE PROVE DsSafe
    BY DEF DsIInv, DsSafe, DsRegions, DsWholeMessages
  <2>1. DsGood BY DEF DsIInv
  <2>2. ASSUME NEW p \in Range(dsPipes)
        PROVE  /\ dsPipeState[p] = "open" => DsIndex(dsPipes, p) < dsEligible
               /\ dsPipeState[p] = "full" => DsIndex(dsPipes, p) >= dsEligible
    <3>1. p \in DsPipe BY <2>1 DEF DsGood, DsArray, Range
    <3>2. DsFits(DsIndex(dsPipes, p), dsMatching, dsEligible, dsPart, dsPipeState[p], dsGot[p])
      BY <2>1, <3>1 DEF DsGood
    <3> QED BY <3>2 DEF DsFits
  <2>3. DsEligibleHaveRoom BY <2>2 DEF DsEligibleHaveRoom
  <2>4. ~dsMore => dsMore = FALSE BY <2>1 DEF DsGood, DsTypeOK
  <2> QED BY <2>1, <2>3, <2>4 DEF DsGood, DsSafe, DsRegions, DsWholeMessages
<1>2. DsSpec => []DsIInv BY DsInitKeeps, DsNextKeeps, PTL DEF DsSpec
<1> QED BY <1>1, <1>2, PTL

-----------------------------------------------------------------------------
(***************************************************************************)
(* The stream between two engines.  SeSucc is the order of its units, and  *)
(* SeChain(e, q, f) says that q is the part of it from e up to f.  The     *)
(* invariant: what b's engine and the wire hold is the part from the unit  *)
(* b waits for, and while connection and engine last, a's buffer the part  *)
(* after it, up to the unit a's encoder writes next (SeStream).  The       *)
(* decoder waits for the unit after the ones it has, and those begin the   *)
(* message that follows the ones in the pipe (SeDecGood).                  *)
(***************************************************************************)

(* The unit a message begins with; what follows the last one is no unit. *)
SeStart(m) == IF m > SeLast THEN <<SeLast + 2, 1>> ELSE <<m, 1>>

(* The unit that follows u on the stream. *)
SeSucc(u) ==
    IF u[1] = SeLast + 1 THEN IF u[2] < 3 THEN SeHello(u[2] + 1) ELSE SeStart(0)
    ELSE IF u[2] < 2 + SeSize[u[1]] THEN <<u[1], u[2] + 1>> ELSE SeStart(u[1] + 1)

SeUnits == SeUnit \cup SeGreeting

(* q is the part of the stream from e up to but without f. *)
SeChain(e, q, f) ==
    /\ q \in Seq(SeUnits)
    /\ q = <<>> => e = f
    /\ q # <<>> => q[1] = e /\ SeSucc(q[Len(q)]) = f
    /\ \A i \in 1..(Len(q) - 1) : q[i + 1] = SeSucc(q[i])

(* Where the encoder goes on. *)
SeEncNext(enc) ==
    IF enc.left = 0 THEN SeStart(enc.msg)
    ELSE IF enc.head THEN <<enc.msg, 2>>
    ELSE <<enc.msg, 3 + SeSize[enc.msg] - enc.left>>

SeEncGood(enc, sent) ==
    /\ enc \in [msg : 0..(SeLast + 1), left : Nat, head : BOOLEAN]
    /\ enc.left > 0 => enc.msg <= SeLast
    /\ enc.left > 0 /\ enc.head = TRUE => enc.left = 1
    /\ enc.left > 0 /\ enc.head = FALSE => enc.left <= SeSize[enc.msg]
    /\ SeFollowing(enc) <= sent + 1

SeAtStart(enc) == enc = [msg |-> 0, left |-> 0, head |-> TRUE]

(* The message the decoder is at, after n messages in the pipe. *)
SeAt(ident, n) == IF ident THEN n + 1 ELSE 0

SeDecNext(got, m) == IF got = <<>> THEN SeStart(m) ELSE SeSucc(<<m, Len(got)>>)

SeDecGood(step, need, got, m) ==
    /\ got \in Seq(SeUnits) /\ m \in Nat /\ need \in Nat
    /\ \A j \in 1..Len(got) : got[j] = <<m, j>>
    /\ Len(got) > 0 => m <= SeLast
    /\ step \in {"flags", "size", "body"}
    /\ step = "flags" => need + Len(got) = 1
    /\ step = "size" => need + Len(got) = 2 /\ Len(got) > 0
    /\ step = "body" => m <= SeLast /\ Len(got) >= 2 /\ need + Len(got) = 2 + SeSize[m]

SeExpected(greeted, got, m) == IF greeted < 3 THEN SeHello(greeted + 1) ELSE SeDecNext(got, m)
SeSends(greeted, enc) == IF greeted < 2 THEN SeHello(3) ELSE SeEncNext(enc)

(* The stream from the unit b waits for to the unit a sends next; what a has  *)
(* in its buffer is lost when its engine or the connection is.                 *)
SeWaits == SeExpected(seB.greeted, seDec.got, SeAt(seDec.ident, Len(sePipe)))
SeLive == seA.alive = TRUE /\ seBroken = FALSE
SeStream ==
    /\ seIn \in Seq(SeUnits) /\ seWire \in Seq(SeUnits) /\ seOut \in Seq(SeUnits)
    /\ \E f : /\ SeChain(SeWaits, seIn \o seWire, f)
              /\ SeLive => SeChain(f, seOut, SeSends(seA.greeted, seEnc))

SeSender ==
    /\ seA \in [alive : BOOLEAN, greeted : 0..3, pollout : BOOLEAN, starved : BOOLEAN,
                ending : BOOLEAN]
    /\ seSent \in 0..SeLast
    /\ SeEncGood(seEnc, seSent)
    /\ seA.greeted < 3 => SeAtStart(seEnc)

SeFirst == [step |-> "flags", need |-> 1, got |-> <<>>, ident |-> FALSE]

SeReceiver ==
    /\ seB \in [alive : BOOLEAN, greeted : 0..3, pollin : BOOLEAN, io : BOOLEAN,
                out : Seq(SeGreeting)]
    /\ seB.greeted < 3 => seIn = <<>> /\ sePipe = <<>> /\ seDec = SeFirst

SeDecoding ==
    /\ seDec \in [step : {"flags", "size", "body"}, need : Nat, got : Seq(SeUnits),
                  ident : BOOLEAN]
    /\ SeDecGood(seDec.step, seDec.need, seDec.got, SeAt(seDec.ident, Len(sePipe)))
    /\ seDec.ident = FALSE => sePipe = <<>>
    /\ sePipe \in Seq(Seq(SeUnits))
    /\ seTaken \in 0..Len(sePipe) /\ seAcked \in 0..seTaken
    /\ SeWholeInOrder

SeIInv == SeStream /\ SeSender /\ SeReceiver /\ SeDecoding /\ (seBroken = TRUE => seWire = <<>>)
          /\ seBroken \in BOOLEAN

-----------------------------------------------------------------------------
\* The constants, as the proofs use them.
LEMMA SeConstants ==
    /\ SeLast \in Nat /\ SeBatch \in Nat /\ SeBatch > 0 /\ SeHwm \in Nat /\ SeHwm > 0
    /\ \A m \in 0..SeLast : SeSize[m] \in Nat
BY SeAssumption

\* A unit is a message and a place in it.
LEMMA SeUnitIs ==
    /\ \A m \in 0..SeLast : \A k \in 1..(2 + SeSize[m]) : <<m, k>> \in SeUnit
    /\ \A u \in SeUnit : \E m \in 0..SeLast : \E k \in 1..(2 + SeSize[m]) : u = <<m, k>>
BY DEF SeUnit

\* Where a part q of the stream that begins with e has come after n units.
SeReached(e, q, n) == IF n = 0 THEN e ELSE SeSucc(q[n])

\* One part of the stream after another.
LEMMA SeChainJoin ==
    ASSUME NEW e, NEW q, NEW f, NEW p, NEW g, SeChain(e, q, f), SeChain(f, p, g)
    PROVE  SeChain(e, q \o p, g)
<1>1. q \in Seq(SeUnits) /\ p \in Seq(SeUnits) BY DEF SeChain
<1>2. CASE q = <<>>
  <2>1. q \o p = p BY <1>1, <1>2
  <2> QED BY <1>2, <2>1 DEF SeChain
<1>3. CASE p = <<>>
  <2>1. q \o p = q BY <1>1, <1>3
  <2> QED BY <1>3, <2>1 DEF SeChain
<1>4. CASE q # <<>> /\ p # <<>>
  <2> DEFINE s == q \o p
             n == Len(q)
  <2>1. /\ s \in Seq(SeUnits) /\ Len(s) = n + Len(p) /\ n \in Nat /\ Len(p) \in Nat
        /\ n > 0 /\ Len(p) > 0
        /\ \A i \in 1..Len(s) : s[i] = IF i <= n THEN q[i] ELSE p[i - n]
    BY <1>1, <1>4
  <2>2. /\ q[1] = e /\ SeSucc(q[n]) = f /\ p[1] = f /\ SeSucc(p[Len(p)]) = g
        /\ \A i \in 1..(n - 1) : q[i + 1] = SeSucc(q[i])
        /\ \A i \in 1..(Len(p) - 1) : p[i + 1] = SeSucc(p[i])
    BY <1>4 DEF SeChain
  <2> HIDE DEF s, n
  <2>3. s[1] = e BY <2>1, <2>2
  <2>4. s[Len(s)] = p[Len(p)] BY <2>1
  <2>5. ASSUME NEW i \in 1..(Len(s) - 1) PROVE s[i + 1] = SeSucc(s[i])
    <3>0. i \in 1..Len(s) /\ i + 1 \in 1..Len(s) BY <2>1
    <3>1. CASE i < n
      <4>1. s[i] = q[i] /\ s[i + 1] = q[i + 1] BY <2>1, <3>0, <3>1
      <4> QED BY <2>1, <2>2, <3>1, <4>1
    <3>2. CASE i = n
      <4>1. s[i] = q[n] /\ s[i + 1] = p[1] BY <2>1, <3>0, <3>2
      <4> QED BY <2>2, <4>1
    <3>3. CASE i > n
      <4>1. s[i] = p[i - n] /\ s[i + 1] = p[i + 1 - n] BY <2>1, <3>0, <3>3
      <4>2. i - n \in 1..(Len(p) - 1) /\ i + 1 - n = (i - n) + 1 BY <2>1, <3>3
      <4> QED BY <2>2, <4>1, <4>2
    <3> QED BY <2>1, <3>1, <3>2, <3>3
  <2>6. s # <<>> BY <2>1
  <2> QED BY <2>1, <2>2, <2>3, <2>4, <2>5, <2>6 DEF SeChain, s
<1> QED BY <1>2, <1>3, <1>4

\* What is left of a part of the stream after n units.
LEMMA SeChainRest ==
    ASSUME NEW e, NEW q, NEW f, NEW n \in 0..Len(q), SeChain(e, q, f)
    PROVE  SeChain(SeReached(e, q, n), SubSeq(q, n + 1, Len(q)), f)
<1>1. q \in Seq(SeUnits) /\ Len(q) \in Nat BY DEF SeChain
<1> DEFINE s == SubSeq(q, n + 1, Len(q))
<1>2. /\ s \in Seq(SeUnits) /\ Len(s) = Len(q) - n
      /\ \A i \in 1..Len(s) : s[i] = q[n + i]
  BY <1>1, SubSeqProperties
<1> HIDE DEF s
<1>3. /\ q = <<>> => e = f
      /\ q # <<>> => q[1] = e /\ SeSucc(q[Len(q)]) = f
      /\ \A i \in 1..(Len(q) - 1) : q[i + 1] = SeSucc(q[i])
  BY DEF SeChain
<1>4. s = <<>> => SeReached(e, q, n) = f
  <2> SUFFICES ASSUME s = <<>> PROVE SeReached(e, q, n) = f OBVIOUS
  <2>1. n = Len(q) BY <1>1, <1>2
  <2>2. CASE n = 0
    <3>1. q = <<>> BY <1>1, <2>1, <2>2, EmptySeq
    <3> QED BY <1>3, <2>2, <3>1 DEF SeReached
  <2>3. CASE n # 0
    <3>1. q # <<>> BY <1>1, <2>1, <2>3
    <3> QED BY <1>3, <2>1, <2>3, <3>1 DEF SeReached
  <2> QED BY <2>2, <2>3
<1>5. s # <<>> => s[1] = SeReached(e, q, n) /\ SeSucc(s[Len(s)]) = f
  <2> SUFFICES ASSUME s # <<>> PROVE s[1] = SeReached(e, q, n) /\ SeSucc(s[Len(s)]) = f OBVIOUS
  <2>1. Len(s) > 0 BY <1>2
  <2>2. n < Len(q) /\ q # <<>> /\ s[1] = q[n + 1] /\ s[Len(s)] = q[Len(q)] BY <1>1, <1>2, <2>1
  <2>3. CASE n = 0 BY <1>3, <2>2, <2>3 DEF SeReached
  <2>4. CASE n # 0
    <3>1. q[n + 1] = SeSucc(q[n]) BY <1>1, <1>3, <2>2, <2>4
    <3> QED BY <1>3, <2>2, <2>4, <3>1 DEF SeReached
  <2> QED BY <2>3, <2>4
<1>6. ASSUME NEW i \in 1..(Len(s) - 1) PROVE s[i + 1] = SeSucc(s[i])
  <2>1. s[i] = q[n + i] /\ s[i + 1] = q[(n + i) + 1] /\ n + i \in 1..(Len(q) - 1) BY <1>1, <1>2
  <2> QED BY <1>3, <2>1
<1> QED BY <1>2, <1>4, <1>5, <1>6 DEF SeChain, s

\* The first n units of a part of the stream.
LEMMA SeChainFirst ==
    ASSUME NEW e, NEW q, NEW f, NEW n \in 0..Len(q), SeChain(e, q, f)
    PROVE  SeChain(e, SubSeq(q, 1, n), SeReached(e, q, n))
<1>1. q \in Seq(SeUnits) /\ Len(q) \in Nat BY DEF SeChain
<1> DEFINE s == SubSeq(q, 1, n)
<1>2. /\ s \in Seq(SeUnits) /\ Len(s) = n
      /\ \A i \in 1..Len(s) : s[i] = q[i]
  BY <1>1, SubSeqProperties
<1> HIDE DEF s
<1>3. /\ q # <<>> => q[1] = e
      /\ \A i \in 1..(Len(q) - 1) : q[i + 1] = SeSucc(q[i])
  BY DEF SeChain
<1>4. s = <<>> => e = SeReached(e, q, n) BY <1>2 DEF SeReached
<1>5. s # <<>> => s[1] = e /\ SeSucc(s[Len(s)]) = SeReached(e, q, n)
  <2> SUFFICES ASSUME s # <<>> PROVE s[1] = e /\ SeSucc(s[Len(s)]) = SeReached(e, q, n) OBVIOUS
  <2>1. n # 0 /\ 1 \in 1..n /\ n \in 1..n /\ q # <<>> BY <1>1, <1>2
  <2> QED BY <1>2, <1>3, <2>1 DEF SeReached
<1>6. ASSUME NEW i \in 1..(Len(s) - 1) PROVE s[i + 1] = SeSucc(s[i])
  <2>1. i \in 1..Len(s) /\ i + 1 \in 1..Len(s) /\ i \in 1..(Len(q) - 1) BY <1>1, <1>2
  <2> QED BY <1>2, <1>3, <2>1
<1> QED BY <1>2, <1>4, <1>5, <1>6 DEF SeChain, s

\* One unit.
LEMMA SeChainOne ==
    ASSUME NEW u \in SeUnits
    PROVE  SeChain(u, <<u>>, SeSucc(u))
<1>1. <<u>> \in Seq(SeUnits) /\ Len(<<u>>) = 1 /\ <<u>>[1] = u /\ <<u>> # <<>> OBVIOUS
<1>2. 1..(Len(<<u>>) - 1) = {} OBVIOUS
<1> QED BY <1>1, <1>2 DEF SeChain

\* A message is a part of the stream.
LEMMA SeMessageChain ==
    ASSUME NEW m \in 0..SeLast
    PROVE  /\ SeMessage(m) \in Seq(SeUnit) /\ Len(SeMessage(m)) = 2 + SeSize[m]
           /\ SeChain(<<m, 1>>, SeMessage(m), SeStart(m + 1))
<1> DEFINE n == 2 + SeSize[m]
           s == SeMessage(m)
<1>1. n \in Nat /\ n >= 2 /\ SeLast \in Nat BY SeConstants
<1>2. s = [k \in 1..n |-> <<m, k>>] BY DEF SeMessage
<1>3. \A k \in 1..n : <<m, k>> \in SeUnit BY SeUnitIs
<1> HIDE DEF s
<1>4. s \in Seq(SeUnit) /\ Len(s) = n
  <2> HIDE DEF n
  <2> QED BY <1>1, <1>2, <1>3
<1>5. s \in Seq(SeUnits) BY <1>4 DEF SeUnits
<1>6. \A k \in 1..n : SeSucc(<<m, k>>) = IF k < n THEN <<m, k + 1>> ELSE SeStart(m + 1)
  BY <1>1 DEF SeSucc
<1>7. n = 2 + SeSize[m] OBVIOUS
<1> HIDE DEF n
<1>8. s # <<>> /\ s[1] = <<m, 1>> /\ s[n] = <<m, n>>
  <2>1. 1 \in 1..n /\ n \in 1..n /\ Len(s) # 0 BY <1>1, <1>4
  <2>2. Len(<<>>) = 0 OBVIOUS
  <2>3. s # <<>> BY <2>1, <2>2
  <2>4. s[1] = <<m, 1>> BY <1>2, <2>1
  <2>5. s[n] = <<m, n>> BY <1>2, <2>1
  <2> QED BY <2>3, <2>4, <2>5
<1>9. SeSucc(s[n]) = SeStart(m + 1)
  <2>1. n \in 1..n /\ ~(n < n) BY <1>1
  <2>2. SeSucc(<<m, n>>) = SeStart(m + 1) BY <1>6, <2>1
  <2> QED BY <1>8, <2>2
<1>10. ASSUME NEW i \in 1..(n - 1) PROVE s[i + 1] = SeSucc(s[i])
  <2>1. i \in 1..n /\ i + 1 \in 1..n /\ i < n BY <1>1
  <2>2. s[i] = <<m, i>> /\ s[i + 1] = <<m, i + 1>> BY <1>2, <2>1
  <2> QED BY <1>6, <2>1, <2>2
<1> QED BY <1>4, <1>5, <1>7, <1>8, <1>9, <1>10 DEF SeChain, s

\* The recursive function of FlattenSeq.
SeFlattenBody(seqs, g, i) == IF i = 1 THEN seqs[i] ELSE g[i - 1] \o seqs[i]
SeFlattened(seqs) == CHOOSE g : g = [i \in 1..Len(seqs) |-> SeFlattenBody(seqs, g, i)]

\* It exists: it is extended sequence by sequence.
LEMMA SeFlattenExists ==
    ASSUME NEW seqs, NEW n \in Nat
    PROVE  \E g : g = [i \in 1..n |-> SeFlattenBody(seqs, g, i)]
<1> DEFINE S == {m \in Nat : \E g : g = [i \in 1..m |-> SeFlattenBody(seqs, g, i)]}
<1>1. 0 \in S
  <2> DEFINE g == [i \in 1..0 |-> seqs]
  <2>1. \A i \in 1..0 : SeFlattenBody(seqs, g, i) = seqs OBVIOUS
  <2>2. g = [i \in 1..0 |-> SeFlattenBody(seqs, g, i)] BY <2>1
  <2> QED BY <2>2
<1>2. ASSUME NEW m \in Nat, m \in S PROVE m + 1 \in S
  <2>1. PICK g : g = [i \in 1..m |-> SeFlattenBody(seqs, g, i)] BY <1>2
  <2> DEFINE h == [i \in 1..(m + 1) |-> IF i <= m THEN g[i] ELSE SeFlattenBody(seqs, g, i)]
  <2>2. ASSUME NEW i \in 1..(m + 1) PROVE h[i] = SeFlattenBody(seqs, h, i)
    <3>1. h[i] = SeFlattenBody(seqs, g, i)
      <4>1. CASE i <= m
        <5>1. i \in 1..m BY <4>1
        <5>2. g[i] = SeFlattenBody(seqs, g, i) BY <2>1, <5>1
        <5> QED BY <4>1, <5>2
      <4> QED BY <4>1
    <3>2. i # 1 => h[i - 1] = g[i - 1] OBVIOUS
    <3> HIDE DEF h
    <3> QED BY <3>1, <3>2 DEF SeFlattenBody
  <2>3. h = [i \in 1..(m + 1) |-> h[i]] OBVIOUS
  <2> HIDE DEF h
  <2>4. h = [i \in 1..(m + 1) |-> SeFlattenBody(seqs, h, i)] BY <2>2, <2>3
  <2> QED BY <2>4
<1>3. Nat \subseteq S
  <2> HIDE DEF S
  <2> QED BY <1>1, <1>2, DsAllNumbers
<1> QED BY <1>3

\* The units of the messages up to `last'.
SeUpTo(last) == {u \in SeUnit : u[1] <= last}

SeIsBacklog(q, from, to) == SeChain(SeStart(from), q, SeStart(to + 1)) /\ q \in Seq(SeUpTo(to))

\* Messages that follow each other are a part of the stream.
LEMMA SeBacklogIs ==
    ASSUME NEW first \in Nat, NEW n \in Nat, first + n <= SeLast + 1
    PROVE  SeIsBacklog(FlattenSeq([i \in 1..n |-> SeMessage(first - 1 + i)]), first, first + n - 1)
<1> DEFINE seqs == [i \in 1..n |-> SeMessage(first - 1 + i)]
           g == SeFlattened(seqs)
<1>0. SeLast \in Nat BY SeConstants
<1>1. Len(seqs) = n
  <2>1. \A i \in 1..n : SeMessage(first - 1 + i) \in {SeMessage(first - 1 + j) : j \in 1..n} OBVIOUS
  <2>2. seqs \in Seq({SeMessage(first - 1 + j) : j \in 1..n})
    <3> QED BY <2>1
  <2> QED BY <2>2
<1>2. \A i \in 1..n : seqs[i] = SeMessage(first - 1 + i) OBVIOUS
<1>3. CASE n = 0
  <2>1. seqs = <<>> BY <1>3
  <2>2. FlattenSeq(seqs) = <<>> BY <2>1, <1>1, <1>3 DEF FlattenSeq
  <2>3. first + n - 1 + 1 = first BY <1>3
  <2>4. SeIsBacklog(<<>>, first, first + n - 1) BY <2>3 DEF SeIsBacklog, SeChain
  <2> QED BY <2>2, <2>4
<1>4. CASE n > 0
  <2>1. FlattenSeq(seqs) = g[n]
    <3> HIDE DEF seqs
    <3>1. n # 0 BY <1>4
    <3> QED BY <1>1, <3>1 DEF FlattenSeq, SeFlattened, SeFlattenBody
  <2> HIDE DEF seqs
  <2>2. g = [i \in 1..n |-> SeFlattenBody(seqs, g, i)]
    <3>1. \E h : h = [i \in 1..n |-> SeFlattenBody(seqs, h, i)] BY SeFlattenExists
    <3> QED BY <1>1, <3>1 DEF SeFlattened
  <2> HIDE DEF g
  <2> DEFINE S == {i \in Nat : i \in 1..n => SeIsBacklog(g[i], first, first + i - 1)}
  <2>3. ASSUME NEW i \in 1..n
        PROVE  SeIsBacklog(seqs[i], first + i - 1, first + i - 1)
    <3> DEFINE m == first - 1 + i
    <3>1. m \in 0..SeLast /\ m = first + i - 1 BY <1>0
    <3>2. seqs[i] = SeMessage(m) BY <1>2
    <3> HIDE DEF m
    <3>3. SeMessage(m) \in Seq(SeUnit) /\ SeChain(<<m, 1>>, SeMessage(m), SeStart(m + 1))
          /\ Len(SeMessage(m)) = 2 + SeSize[m]
      BY <3>1, SeMessageChain
    <3>4. SeStart(m) = <<m, 1>> BY <1>0, <3>1 DEF SeStart
    <3>5. \A k \in 1..Len(SeMessage(m)) : SeMessage(m)[k] \in SeUpTo(m)
      <4> SUFFICES ASSUME NEW k \in 1..Len(SeMessage(m)) PROVE SeMessage(m)[k] \in SeUpTo(m)
        OBVIOUS
      <4>1. SeMessage(m)[k] = <<m, k>> BY <3>3 DEF SeMessage
      <4>2. SeMessage(m)[k] \in SeUnit BY <3>3
      <4>3. <<m, k>>[1] = m /\ m <= m BY <3>1
      <4> QED BY <4>1, <4>2, <4>3 DEF SeUpTo
    <3>6. SeMessage(m) \in Seq(SeUpTo(m)) BY <3>3, <3>5
    <3>7. SeIsBacklog(SeMessage(m), m, m) BY <3>3, <3>4, <3>6 DEF SeIsBacklog
    <3> QED BY <3>1, <3>2, <3>7
  <2>4. 0 \in S OBVIOUS
  <2>5. ASSUME NEW i \in Nat, i \in S PROVE i + 1 \in S
    <3> SUFFICES ASSUME i + 1 \in 1..n
                 PROVE  SeIsBacklog(g[i + 1], first, first + (i + 1) - 1)
      OBVIOUS
    <3>1. CASE i = 0
      <4>1. 1 \in 1..n BY <1>4
      <4>2. g[1] = seqs[1] BY <2>2, <4>1 DEF SeFlattenBody
      <4>3. SeIsBacklog(seqs[1], first + 1 - 1, first + 1 - 1) BY <2>3, <4>1
      <4>4. i + 1 = 1 /\ first + 1 - 1 = first /\ first + (i + 1) - 1 = first BY <3>1
      <4> QED BY <4>2, <4>3, <4>4
    <3>2. CASE i > 0
      <4> DEFINE j == i + 1
      <4>1. i \in 1..n /\ j \in 1..n /\ j # 1 /\ j - 1 = i BY <3>2
      <4>2. g[j] = g[i] \o seqs[j] BY <2>2, <4>1 DEF SeFlattenBody
      <4>3. SeIsBacklog(g[i], first, first + i - 1) BY <2>5, <4>1
      <4>4. SeIsBacklog(seqs[j], first + j - 1, first + j - 1) BY <2>3, <4>1
      <4>5. first + i - 1 + 1 = first + j - 1 /\ first + i - 1 <= first + j - 1
            /\ first + i - 1 \in Nat /\ first + j - 1 \in Nat
        BY <4>1
      <4> HIDE DEF j
      <4>6. SeChain(SeStart(first), g[i] \o seqs[j], SeStart(first + j - 1 + 1))
        BY <4>3, <4>4, <4>5, SeChainJoin DEF SeIsBacklog
      <4>7. SeUpTo(first + i - 1) \subseteq SeUpTo(first + j - 1)
        <5> SUFFICES ASSUME NEW u \in SeUnit, u[1] <= first + i - 1
                     PROVE  u[1] <= first + j - 1
          BY DEF SeUpTo
        <5>1. u[1] \in Nat BY SeUnitIs
        <5> QED BY <4>5, <5>1
      <4>8. g[i] \o seqs[j] \in Seq(SeUpTo(first + j - 1))
        <5>1. g[i] \in Seq(SeUpTo(first + j - 1)) BY <4>3, <4>7 DEF SeIsBacklog
        <5>2. seqs[j] \in Seq(SeUpTo(first + j - 1)) BY <4>4 DEF SeIsBacklog
        <5> QED BY <5>1, <5>2
      <4>9. SeIsBacklog(g[j], first, first + j - 1) BY <4>2, <4>6, <4>8 DEF SeIsBacklog
      <4> QED BY <4>9 DEF j
    <3> QED BY <3>1, <3>2
  <2>6. Nat \subseteq S
    <3> HIDE DEF S
    <3> QED BY <2>4, <2>5, DsAllNumbers
  <2>7. n \in S BY <2>6
  <2>8. SeIsBacklog(g[n], first, first + n - 1) BY <1>4, <2>7
  <2> QED BY <2>1, <2>8 DEF seqs
<1> QED BY <1>3, <1>4

\* What the encoder has left of a message is a part of the stream.
LEMMA SeRestIs ==
    ASSUME NEW enc, NEW last \in 0..SeLast, SeEncGood(enc, last), enc.left > 0
    PROVE  /\ SeChain(SeEncNext(enc), SeRest(enc), SeStart(enc.msg + 1))
           /\ SeRest(enc) \in Seq(SeUpTo(last))
           /\ enc.head = FALSE => Len(SeRest(enc)) = enc.left
<1> DEFINE m == enc.msg
           n == 2 + SeSize[m]
           left == enc.left
           from == IF enc.head THEN 3 - left ELSE 1 + n - left
           s == SeMessage(m)
<1>1. /\ m \in 0..SeLast /\ m <= last /\ left \in Nat /\ left > 0 /\ enc.head \in BOOLEAN
      /\ enc.head = TRUE => left = 1
      /\ enc.head = FALSE => left <= SeSize[m]
  BY SeConstants DEF SeEncGood, SeFollowing
<1>2. n \in Nat /\ n >= 2 /\ SeSize[m] \in Nat BY <1>1, SeConstants
<1>3. s \in Seq(SeUnit) /\ Len(s) = n /\ SeChain(<<m, 1>>, s, SeStart(m + 1))
  BY <1>1, SeMessageChain
<1>4. s = [k \in 1..n |-> <<m, k>>] BY DEF SeMessage
<1>5. SeRest(enc) = SubSeq(s, from, Len(s))
  <2>1. left # 0 BY <1>1
  <2> QED BY <1>3, <2>1 DEF SeRest
<1>6. from \in 2..n /\ SeEncNext(enc) = <<m, from>> /\ (enc.head = FALSE => n - from + 1 = left)
  <2>1. left # 0 BY <1>1
  <2>2. CASE enc.head = TRUE BY <1>1, <1>2, <2>1, <2>2 DEF SeEncNext
  <2>3. CASE enc.head = FALSE
    <3>1. from = 1 + n - left /\ 1 + n - left = 3 + SeSize[m] - left BY <1>2, <1>1, <2>3
    <3>2. SeEncNext(enc) = <<m, 3 + SeSize[m] - left>> BY <2>1, <2>3 DEF SeEncNext
    <3>3. from \in 2..n /\ n - from + 1 = left BY <1>1, <1>2, <2>3, <3>1
    <3> QED BY <2>3, <3>1, <3>2, <3>3
  <2> QED BY <1>1, <2>2, <2>3
<1>7. SeSucc(<<m, from - 1>>) = <<m, from>>
  <2> DEFINE k == from - 1
  <2>1. k \in Nat /\ k < 2 + SeSize[m] /\ k + 1 = from /\ m # SeLast + 1
    <3> HIDE DEF from
    <3> QED BY <1>1, <1>2, <1>6, SeConstants
  <2> HIDE DEF k, from
  <2>2. SeSucc(<<m, k>>) = <<m, k + 1>> BY <2>1 DEF SeSucc
  <2> QED BY <2>1, <2>2 DEF k
<1>8. \A u \in SeUnit : u[1] = m => u \in SeUpTo(last)
  BY <1>1 DEF SeUpTo
<1> HIDE DEF from, n, s, m, left
<1>9. SeReached(<<m, 1>>, s, from - 1) = <<m, from>>
  <2>1. from - 1 # 0 /\ from - 1 \in 1..n BY <1>2, <1>6
  <2>2. s[from - 1] = <<m, from - 1>> BY <1>4, <2>1
  <2> QED BY <1>7, <2>1, <2>2 DEF SeReached
<1> DEFINE q == SubSeq(s, from, Len(s))
<1>10. SeChain(<<m, from>>, q, SeStart(m + 1))
  <2> DEFINE k == from - 1
  <2>1. k \in 0..Len(s) /\ k + 1 = from BY <1>2, <1>3, <1>6
  <2> HIDE DEF k
  <2>2. SeChain(SeReached(<<m, 1>>, s, k), SubSeq(s, k + 1, Len(s)), SeStart(m + 1))
    BY <1>3, <2>1, SeChainRest
  <2> QED BY <1>9, <2>1, <2>2 DEF k
<1>11. q \in Seq(SeUnit) /\ Len(q) = n - from + 1 /\ \A i \in 1..Len(q) : q[i] = s[from + i - 1]
  <2>1. from \in 1..(Len(s) + 1) /\ Len(s) \in from - 1 .. Len(s) BY <1>2, <1>3, <1>6
  <2> QED BY <1>2, <1>3, <1>6, <2>1, SubSeqProperties
<1> HIDE DEF q
<1>12. \A i \in 1..Len(q) : q[i] \in SeUpTo(last)
  <2> SUFFICES ASSUME NEW i \in 1..Len(q) PROVE q[i] \in SeUpTo(last) OBVIOUS
  <2>1. from + i - 1 \in 1..n BY <1>2, <1>6, <1>11
  <2>2. q[i] = <<m, from + i - 1>> BY <1>4, <1>11, <2>1
  <2>3. q[i][1] = m BY <2>2
  <2>4. q[i] \in SeUnit BY <1>11
  <2> QED BY <1>8, <2>3, <2>4
<1>13. q \in Seq(SeUpTo(last)) BY <1>11, <1>12
<1> QED BY <1>5, <1>6, <1>10, <1>11, <1>13 DEF q, m, left

\* What the encoder can produce is a part of the stream.
LEMMA SeAvailableIs ==
    ASSUME NEW enc, NEW last \in 0..SeLast, SeEncGood(enc, last)
    PROVE  /\ SeChain(SeEncNext(enc), SeAvailable(enc, last), SeStart(last + 1))
           /\ SeAvailable(enc, last) \in Seq(SeUpTo(last))
           /\ enc.left > 0 /\ enc.head = FALSE => Len(SeAvailable(enc, last)) >= enc.left
<1> DEFINE first == SeFollowing(enc)
           n == last + 1 - first
           q == FlattenSeq([i \in 1..n |-> SeMessage(first - 1 + i)])
           rest == SeRest(enc)
<1>1. /\ first \in Nat /\ n \in Nat /\ first + n <= SeLast + 1 /\ first + n - 1 = last
      /\ enc.left \in Nat
  BY SeConstants DEF SeEncGood, SeFollowing
<1>2. SeAvailable(enc, last) = rest \o q BY DEF SeAvailable
<1>3. enc.left = 0 => rest = <<>> /\ SeEncNext(enc) = SeStart(first)
  BY DEF SeRest, SeEncNext, SeFollowing
<1>4. enc.left > 0 => first = enc.msg + 1 BY <1>1 DEF SeFollowing
<1> HIDE DEF first, n
<1>5. SeIsBacklog(q, first, first + n - 1) BY <1>1, SeBacklogIs
<1>6. SeChain(SeStart(first), q, SeStart(last + 1)) /\ q \in Seq(SeUpTo(last))
  BY <1>1, <1>5 DEF SeIsBacklog
<1> HIDE DEF q, rest
<1>7. CASE enc.left = 0
  <2>1. rest \o q = q BY <1>3, <1>6, <1>7
  <2> QED BY <1>2, <1>3, <1>6, <1>7, <2>1
<1>8. CASE enc.left > 0
  <2>1. /\ SeChain(SeEncNext(enc), rest, SeStart(first))
        /\ rest \in Seq(SeUpTo(last))
        /\ enc.head = FALSE => Len(rest) = enc.left
    BY <1>4, <1>8, SeRestIs DEF rest
  <2>2. SeChain(SeEncNext(enc), rest \o q, SeStart(last + 1)) BY <1>6, <2>1, SeChainJoin
  <2>3. rest \o q \in Seq(SeUpTo(last)) /\ Len(rest \o q) = Len(rest) + Len(q)
        /\ Len(q) \in Nat /\ Len(rest) \in Nat
    BY <1>6, <2>1
  <2>4. enc.head = FALSE => Len(rest \o q) >= enc.left BY <1>1, <2>1, <2>3
  <2> QED BY <1>2, <1>8, <2>2, <2>3, <2>4
<1>9. enc.left = 0 \/ enc.left > 0 BY <1>1
<1> QED BY <1>7, <1>8, <1>9

\* A batch continues the stream, and leaves the encoder where the next one begins.
LEMMA SeBatchIs ==
    ASSUME NEW enc, NEW last \in 0..SeLast, SeEncGood(enc, last)
    PROVE  LET units == SeBatchOf(enc, last)
               after == SeEncAfter(enc, units)
           IN  /\ SeChain(SeEncNext(enc), units, SeEncNext(after))
               /\ SeEncGood(after, last)
<1> DEFINE avail == SeAvailable(enc, last)
           body == IF enc.left > 0 /\ ~enc.head THEN enc.left ELSE 0
           n == IF body >= SeBatch THEN body
                ELSE IF Len(avail) < SeBatch THEN Len(avail) ELSE SeBatch
           units == SubSeq(avail, 1, n)
           after == SeEncAfter(enc, units)
<1>1. /\ SeChain(SeEncNext(enc), avail, SeStart(last + 1))
      /\ avail \in Seq(SeUpTo(last))
      /\ enc.left > 0 /\ enc.head = FALSE => Len(avail) >= enc.left
  BY SeAvailableIs
<1>2. SeBatchOf(enc, last) = units BY DEF SeBatchOf
<1>3. enc.left \in Nat /\ enc.head \in BOOLEAN BY DEF SeEncGood
<1> HIDE DEF avail
<1>4. n \in 0..Len(avail)
  <2>1. Len(avail) \in Nat BY <1>1
  <2>2. body \in Nat /\ body <= Len(avail) BY <1>1, <1>3, <2>1
  <2> HIDE DEF body
  <2> QED BY <2>1, <2>2, SeConstants
<1> HIDE DEF n
<1>5. SeChain(SeEncNext(enc), units, SeReached(SeEncNext(enc), avail, n))
  BY <1>1, <1>4, SeChainFirst
<1>6. units \in Seq(SeUpTo(last)) /\ Len(units) = n /\ \A i \in 1..n : units[i] = avail[i]
  BY <1>1, <1>4, SubSeqProperties
<1>7. CASE n = 0
  <2>1. units = <<>> BY <1>6, <1>7, EmptySeq
  <2>2. after = enc BY <2>1 DEF SeEncAfter
  <2>3. SeReached(SeEncNext(enc), avail, n) = SeEncNext(enc) BY <1>7 DEF SeReached
  <2> QED BY <1>2, <1>5, <2>2, <2>3
<1>8. CASE n # 0
  <2>1. n \in 1..n /\ n \in Nat BY <1>1, <1>4, <1>8
  <2>2. units # <<>> /\ Last(units) = avail[n] /\ avail[n] \in SeUpTo(last)
    <3>1. units # <<>> BY <1>6, <1>8
    <3>2. Last(units) = units[n] BY <1>6 DEF Last
    <3>3. units[n] \in SeUpTo(last) BY <1>6, <2>1
    <3> QED BY <1>6, <2>1, <3>1, <3>2, <3>3
  <2>9. avail[n] \in SeUnit /\ avail[n][1] <= last BY <2>2 DEF SeUpTo
  <2>10. PICK m \in 0..SeLast : \E k \in 1..(2 + SeSize[m]) : avail[n] = <<m, k>> BY <2>9, SeUnitIs
  <2>11. PICK k \in 1..(2 + SeSize[m]) : avail[n] = <<m, k>> BY <2>10
  <2>3. avail[n] = <<m, k>> /\ m <= last BY <2>9, <2>11
  <2>4. SeReached(SeEncNext(enc), avail, n) = SeSucc(<<m, k>>) BY <1>8, <2>3 DEF SeReached
  <2> DEFINE size == SeSize[m]
  <2>5. size \in Nat /\ SeLast \in Nat /\ m <= SeLast /\ m # SeLast + 1 /\ k \in Nat BY SeConstants
  <2>6. after = IF k = 2 + size THEN [msg |-> m + 1, left |-> 0, head |-> TRUE]
                ELSE IF k < 2 THEN [msg |-> m, left |-> 2 - k, head |-> TRUE]
                ELSE [msg |-> m, left |-> 2 + size - k, head |-> FALSE]
    <3>1. Last(units)[1] = m /\ Last(units)[2] = k BY <2>2, <2>3
    <3> HIDE DEF units
    <3> QED BY <2>2, <3>1 DEF SeEncAfter
  <2> HIDE DEF after, units
  <2>7. SeEncNext(after) = SeSucc(<<m, k>>) /\ SeEncGood(after, last)
    <3>1. CASE k = 2 + size
      <4>1. after = [msg |-> m + 1, left |-> 0, head |-> TRUE] BY <2>6, <3>1
      <4>2. SeEncNext(after) = SeStart(m + 1) BY <4>1 DEF SeEncNext
      <4>3. SeSucc(<<m, k>>) = SeStart(m + 1) BY <2>5, <3>1 DEF SeSucc
      <4>4. SeEncGood(after, last) BY <2>3, <2>5, <4>1 DEF SeEncGood, SeFollowing
      <4> QED BY <4>2, <4>3, <4>4
    <3>2. CASE k # 2 + size /\ k < 2
      <4>0. k = 1 /\ 2 - k = 1 BY <2>5, <3>2
      <4>1. k = 1 /\ after = [msg |-> m, left |-> 1, head |-> TRUE] BY <2>6, <3>2, <4>0
      <4>2. SeEncNext(after) = <<m, 2>> BY <4>1 DEF SeEncNext
      <4>3. SeSucc(<<m, k>>) = <<m, 2>> BY <2>5, <4>1 DEF SeSucc
      <4>4. SeEncGood(after, last) BY <2>3, <2>5, <4>1 DEF SeEncGood, SeFollowing
      <4> QED BY <4>2, <4>3, <4>4
    <3>3. CASE k # 2 + size /\ ~(k < 2)
      <4> DEFINE left == 2 + size - k
      <4>1. left \in Nat /\ left > 0 /\ left <= size /\ 3 + size - left = k + 1 /\ k < 2 + size
        BY <2>5, <3>3
      <4>2. after = [msg |-> m, left |-> left, head |-> FALSE] BY <2>6, <3>3
      <4> HIDE DEF left
      <4>3. SeEncNext(after) = <<m, k + 1>>
        <5>1. after.msg = m /\ after.left = left /\ after.left # 0 /\ after.head = FALSE BY <4>1, <4>2
        <5>2. SeEncNext(after) = <<m, 3 + size - left>> BY <5>1 DEF SeEncNext
        <5> QED BY <4>1, <5>2
      <4>4. SeSucc(<<m, k>>) = <<m, k + 1>> BY <2>5, <4>1 DEF SeSucc
      <4>5. SeEncGood(after, last) BY <2>3, <2>5, <4>1, <4>2 DEF SeEncGood, SeFollowing
      <4> QED BY <4>3, <4>4, <4>5
    <3> QED BY <3>1, <3>2, <3>3
  <2> QED BY <1>2, <1>5, <2>4, <2>7 DEF after, units
<1> QED BY <1>7, <1>8

-----------------------------------------------------------------------------
(* The decoder in the middle of a buffer, with `base' messages in the pipe    *)
(* when it began.                                                              *)
SeRun ==
    [step : {"flags", "size", "body"}, need : Nat, got : Seq(SeUnits), ident : BOOLEAN,
     room : Nat, stuck : BOOLEAN, pushed : Seq(Seq(SeUnits)), taken : Nat]

SeRunAt(r, base) == SeAt(r.ident, base + Len(r.pushed))
SeRunNext(r, base) == SeDecNext(r.got, SeRunAt(r, base))

SeRunGood(r, base) ==
    /\ r \in SeRun
    /\ SeDecGood(r.step, r.need, r.got, SeRunAt(r, base))
    /\ r.ident = FALSE => base + Len(r.pushed) = 0
    /\ \A j \in 1..Len(r.pushed) : r.pushed[j] = SeMessage(base + j)

\* The decoder waits for a unit, or for room for the message it has.
SeSettled(r) ==
    \/ r.stuck = FALSE /\ r.need > 0
    \/ r.stuck = TRUE /\ r.step = "body" /\ r.need = 0 /\ r.room = 0 /\ r.ident = TRUE

\* From r to s the decoder has taken no unit and settled.
SeSettles(r, s, base) ==
    /\ SeRunGood(s, base) /\ SeSettled(s)
    /\ SeRunNext(s, base) = SeRunNext(r, base)
    /\ s.taken = r.taken
    /\ s.room + Len(s.pushed) = r.room + Len(r.pushed)

\* What follows the last message is no unit.
LEMMA SeEndIsNoUnit == <<SeLast + 2, 1>> \notin SeUnits
<1>1. SeLast \in Nat BY SeConstants
<1>2. <<SeLast + 2, 1>> \notin SeUnit
  <2> SUFFICES ASSUME <<SeLast + 2, 1>> \in SeUnit PROVE FALSE OBVIOUS
  <2>1. PICK m \in 0..SeLast : \E k \in 1..(2 + SeSize[m]) : <<SeLast + 2, 1>> = <<m, k>>
    BY SeUnitIs
  <2>2. SeLast + 2 = m BY <2>1
  <2> QED BY <1>1, <2>2
<1>3. <<SeLast + 2, 1>> \notin SeGreeting BY <1>1 DEF SeGreeting, SeHello
<1> QED BY <1>2, <1>3 DEF SeUnits

\* A message that is complete is pushed whole, or kept.
LEMMA SePushIs ==
    ASSUME NEW r, NEW base \in Nat, SeRunGood(r, base), r.stuck = FALSE,
           r.step = "body", r.need = 0
    PROVE  SeSettles(r, SePush(r), base)
<1> DEFINE m == SeRunAt(r, base)
           got == r.got
           pushed == r.pushed
           n == Len(pushed)
           s == SePush(r)
<1>1. /\ r \in SeRun /\ SeDecGood(r.step, r.need, got, m)
      /\ r.ident = FALSE => base + n = 0
      /\ \A j \in 1..n : pushed[j] = SeMessage(base + j)
  BY DEF SeRunGood
<1>2. got \in Seq(SeUnits) /\ pushed \in Seq(Seq(SeUnits)) /\ n \in Nat /\ r.room \in Nat
      /\ r.ident \in BOOLEAN /\ r.taken \in Nat
  BY <1>1 DEF SeRun
<1>3. /\ m \in 0..SeLast /\ SeSize[m] \in Nat /\ Len(got) = 2 + SeSize[m]
      /\ \A j \in 1..Len(got) : got[j] = <<m, j>>
  BY <1>1, <1>2, SeConstants DEF SeDecGood
<1>4. SeRunNext(r, base) = SeStart(m + 1)
  <2>1. got # <<>> BY <1>3
  <2>2. SeSucc(<<m, 2 + SeSize[m]>>) = SeStart(m + 1) BY <1>3, SeConstants DEF SeSucc
  <2> HIDE DEF m
  <2>3. SeDecNext(got, m) = SeStart(m + 1) BY <1>3, <2>1, <2>2 DEF SeDecNext
  <2> QED BY <2>3 DEF SeRunNext, m
<1>5. r.ident = FALSE => m = 0 /\ base = 0 /\ n = 0 BY <1>1, <1>2 DEF SeRunAt, SeAt
<1>6. r.ident = TRUE => m = base + n + 1 BY DEF SeRunAt, SeAt
<1>7. ASSUME NEW k \in Nat PROVE SeDecGood("flags", 1, <<>>, k) BY DEF SeDecGood
<1>8. ASSUME NEW k PROVE SeDecNext(<<>>, k) = SeStart(k) BY DEF SeDecNext
<1> HIDE DEF m, got, pushed, n
<1>9. CASE r.ident = FALSE
  <2>1. s = [r EXCEPT !.ident = TRUE, !.step = "flags", !.need = 1, !.got = <<>>]
    BY <1>9 DEF SePush
  <2>2. s \in SeRun /\ s.ident = TRUE /\ s.step = "flags" /\ s.need = 1 /\ s.got = <<>>
        /\ s.pushed = pushed /\ s.room = r.room /\ s.taken = r.taken /\ s.stuck = FALSE
    <3> HIDE DEF s
    <3>1. <<>> \in Seq(SeUnits) OBVIOUS
    <3>2. s \in SeRun BY <1>1, <2>1, <3>1 DEF SeRun
    <3>3. s.ident = TRUE /\ s.step = "flags" /\ s.need = 1 /\ s.got = <<>> BY <1>1, <2>1 DEF SeRun
    <3>4. s.pushed = pushed /\ s.room = r.room /\ s.taken = r.taken /\ s.stuck = FALSE
      BY <1>1, <2>1 DEF SeRun, pushed
    <3> QED BY <3>2, <3>3, <3>4
  <2> HIDE DEF s
  <2>3. SeRunAt(s, base) = 1 /\ m + 1 = 1
    <3>1. m = 0 /\ base = 0 /\ n = 0 BY <1>5, <1>9
    <3>2. SeRunAt(s, base) = base + n + 1 BY <2>2 DEF SeRunAt, SeAt, n
    <3> QED BY <3>1, <3>2
  <2>4. SeRunGood(s, base) BY <1>1, <1>7, <2>2, <2>3 DEF SeRunGood, n
  <2>5. SeRunNext(s, base) = SeRunNext(r, base) BY <1>4, <1>8, <2>2, <2>3 DEF SeRunNext
  <2>6. SeSettled(s) BY <2>2 DEF SeSettled
  <2>7. s.room + Len(s.pushed) = r.room + Len(r.pushed) BY <2>2 DEF pushed
  <2> QED BY <2>2, <2>4, <2>5, <2>6, <2>7 DEF SeSettles, s
<1>10. CASE r.ident = TRUE /\ r.room = 0
  <2>1. s = [r EXCEPT !.stuck = TRUE] BY <1>10 DEF SePush
  <2>2. s \in SeRun /\ s.ident = TRUE /\ s.step = "body" /\ s.need = 0 /\ s.got = got
        /\ s.pushed = pushed /\ s.room = r.room /\ s.taken = r.taken /\ s.stuck = TRUE
    BY <1>1, <1>10, <2>1 DEF SeRun, pushed, got
  <2> HIDE DEF s
  <2>3. SeRunAt(s, base) = m BY <1>10, <2>2 DEF SeRunAt, m, pushed
  <2>4. SeRunGood(s, base) BY <1>1, <2>2, <2>3 DEF SeRunGood, n
  <2>5. SeRunNext(s, base) = SeRunNext(r, base) BY <2>2, <2>3 DEF SeRunNext, m, got
  <2>6. SeSettled(s) BY <1>10, <2>2 DEF SeSettled
  <2>7. s.room + Len(s.pushed) = r.room + Len(r.pushed) BY <2>2 DEF pushed
  <2> QED BY <2>2, <2>4, <2>5, <2>6, <2>7 DEF SeSettles, s
<1>11. CASE r.ident = TRUE /\ r.room # 0
  <2>1. s = [r EXCEPT !.pushed = Append(@, r.got), !.room = @ - 1, !.step = "flags",
                      !.need = 1, !.got = <<>>]
    BY <1>11 DEF SePush
  <2> DEFINE p == Append(pushed, got)
  <2>2. r.room - 1 \in Nat BY <1>2, <1>11
  <2>3. p \in Seq(Seq(SeUnits)) /\ Len(p) = n + 1
        /\ \A j \in 1..(n + 1) : p[j] = IF j <= n THEN pushed[j] ELSE got
    BY <1>2 DEF n
  <2>4. s \in SeRun /\ s.ident = TRUE /\ s.step = "flags" /\ s.need = 1 /\ s.got = <<>>
        /\ s.pushed = p /\ s.room = r.room - 1 /\ s.taken = r.taken /\ s.stuck = FALSE
    <3> HIDE DEF p
    <3>1. s = [r EXCEPT !.pushed = p, !.room = r.room - 1, !.step = "flags", !.need = 1,
                        !.got = <<>>]
      BY <1>1, <2>1 DEF p, pushed, got, SeRun
    <3> HIDE DEF s
    <3>2. <<>> \in Seq(SeUnits) OBVIOUS
    <3>3. s \in SeRun BY <1>1, <2>2, <2>3, <3>1, <3>2 DEF SeRun
    <3>4. s.ident = TRUE /\ s.step = "flags" /\ s.need = 1 /\ s.got = <<>>
      BY <1>1, <1>11, <3>1 DEF SeRun
    <3>5. s.pushed = p /\ s.room = r.room - 1 /\ s.taken = r.taken /\ s.stuck = FALSE
      BY <1>1, <3>1 DEF SeRun
    <3> QED BY <3>3, <3>4, <3>5
  <2> HIDE DEF s, p
  <2>5. SeRunAt(s, base) = m + 1
    <3>1. SeRunAt(s, base) = base + (n + 1) + 1 BY <2>3, <2>4 DEF SeRunAt, SeAt
    <3> QED BY <1>2, <1>6, <1>11, <3>1
  <2>6. got = SeMessage(m)
    <3> DEFINE size == 2 + SeSize[m]
    <3>1. got \in [1..size -> SeUnits] BY <1>2, <1>3
    <3>2. \A j \in 1..size : got[j] = <<m, j>> BY <1>3
    <3> HIDE DEF size
    <3>3. got = [j \in 1..size |-> <<m, j>>] BY <3>1, <3>2
    <3> QED BY <3>3 DEF size, SeMessage
  <2>7. \A j \in 1..Len(p) : p[j] = SeMessage(base + j)
    <3> SUFFICES ASSUME NEW j \in 1..(n + 1) PROVE p[j] = SeMessage(base + j) BY <2>3
    <3>1. CASE j <= n
      <4>1. j \in 1..n BY <1>2, <3>1
      <4> QED BY <1>1, <2>3, <3>1, <4>1
    <3>2. CASE ~(j <= n)
      <4>1. base + j = m BY <1>2, <1>6, <1>11, <3>2
      <4> QED BY <2>3, <2>6, <3>2, <4>1
    <3> QED BY <3>1, <3>2
  <2>8. SeRunGood(s, base)
    <3>1. m + 1 \in Nat BY <1>3, SeConstants
    <3> QED BY <1>7, <2>4, <2>5, <2>7, <3>1 DEF SeRunGood
  <2>9. SeRunNext(s, base) = SeRunNext(r, base) BY <1>4, <1>8, <2>4, <2>5 DEF SeRunNext
  <2>10. SeSettled(s) BY <2>4 DEF SeSettled
  <2>11. s.room + Len(s.pushed) = r.room + Len(r.pushed)
    <3>1. \A a, b \in Nat : (a - 1) + (b + 1) = a + b OBVIOUS
    <3>2. (r.room - 1) + (n + 1) = r.room + n BY <1>2, <3>1
    <3> QED BY <2>3, <2>4, <3>2 DEF n, pushed
  <2> QED BY <2>4, <2>8, <2>9, <2>10, <2>11 DEF SeSettles, s
<1> QED BY <1>2, <1>9, <1>10, <1>11

\* The decoder goes on to the next field when it has the one it waited for.
LEMMA SeReadyIs ==
    ASSUME NEW r, NEW base \in Nat, SeRunGood(r, base), r.stuck = FALSE
    PROVE  SeSettles(r, SeReady(r), base)
<1> DEFINE m == SeRunAt(r, base)
           got == r.got
           need == r.need
<1>1. /\ r \in SeRun /\ SeDecGood(r.step, need, got, m)
      /\ r.ident = FALSE => base + Len(r.pushed) = 0
      /\ \A j \in 1..Len(r.pushed) : r.pushed[j] = SeMessage(base + j)
  BY DEF SeRunGood
<1>2. got \in Seq(SeUnits) /\ need \in Nat /\ r.step \in {"flags", "size", "body"} /\ Len(got) \in Nat
      /\ m \in Nat
  BY <1>1 DEF SeRun, SeDecGood
<1> HIDE DEF need, m, got
<1>3. CASE need > 0
  <2>1. SeReady(r) = r BY <1>3 DEF SeReady, need
  <2>2. SeSettled(r) BY <1>3 DEF SeSettled, need
  <2> QED BY <2>1, <2>2 DEF SeSettles
<1>4. CASE need = 0 /\ r.step = "flags"
  <2> DEFINE s == SeReady(r)
  <2>1. s = [r EXCEPT !.step = "size", !.need = 1] BY <1>4 DEF SeReady, need
  <2>2. s \in SeRun /\ s.step = "size" /\ s.need = 1 /\ s.got = got /\ s.ident = r.ident
        /\ s.pushed = r.pushed /\ s.room = r.room /\ s.taken = r.taken /\ s.stuck = FALSE
    <3> HIDE DEF s
    <3>1. s \in SeRun BY <1>1, <2>1 DEF SeRun
    <3>2. s.step = "size" /\ s.need = 1 /\ s.got = got /\ s.ident = r.ident
      BY <1>1, <2>1 DEF SeRun, got
    <3>3. s.pushed = r.pushed /\ s.room = r.room /\ s.taken = r.taken /\ s.stuck = FALSE
      BY <1>1, <2>1 DEF SeRun
    <3> QED BY <3>1, <3>2, <3>3
  <2> HIDE DEF s
  <2>3. SeRunAt(s, base) = m BY <2>2 DEF SeRunAt, m
  <2>4. SeDecGood("size", 1, got, m)
    <3>1. need + Len(got) = 1 /\ (\A j \in 1..Len(got) : got[j] = <<m, j>>)
          /\ (Len(got) > 0 => m <= SeLast)
      BY <1>1, <1>4 DEF SeDecGood
    <3>3. need + Len(got) = 1 /\ need = 0 /\ Len(got) \in Nat BY <1>2, <1>4, <3>1
    <3>4. \A k \in Nat : 0 + k = 1 => k = 1 /\ 1 + k = 2 OBVIOUS
    <3>2. Len(got) = 1 /\ 1 + Len(got) = 2 BY <3>3, <3>4
    <3> QED BY <1>2, <3>1, <3>2 DEF SeDecGood
  <2>5. SeRunGood(s, base) BY <1>1, <2>2, <2>3, <2>4 DEF SeRunGood
  <2>6. SeRunNext(s, base) = SeRunNext(r, base) BY <2>2, <2>3 DEF SeRunNext, m, got
  <2>7. SeSettled(s) BY <2>2 DEF SeSettled
  <2> QED BY <2>2, <2>5, <2>6, <2>7 DEF SeSettles, s
<1>5. CASE need = 0 /\ r.step = "size"
  <2> DEFINE s == [r EXCEPT !.step = "body", !.need = SeSize[r.got[1][1]]]
  <2>1. Len(got) = 2 /\ got[1] = <<m, 1>> /\ m \in 0..SeLast
    BY <1>1, <1>2, <1>5, SeConstants DEF SeDecGood
  <2>2. SeSize[r.got[1][1]] = SeSize[m] /\ SeSize[m] \in Nat BY <2>1, SeConstants DEF got
  <2>3. s \in SeRun /\ s.step = "body" /\ s.need = SeSize[m] /\ s.got = got /\ s.ident = r.ident
        /\ s.pushed = r.pushed /\ s.room = r.room /\ s.taken = r.taken /\ s.stuck = FALSE
    BY <1>1, <2>2 DEF SeRun, got
  <2>4. SeReady(r) = IF s.need = 0 THEN SePush(s) ELSE s BY <1>5 DEF SeReady, need
  <2> HIDE DEF s
  <2>5. SeRunAt(s, base) = m BY <2>3 DEF SeRunAt, m
  <2>6. SeDecGood("body", SeSize[m], got, m)
    <3>1. SeSize[m] + Len(got) = 2 + SeSize[m] /\ Len(got) >= 2 /\ m <= SeLast
      BY <2>1, <2>2, SeConstants
    <3>2. got \in Seq(SeUnits) /\ m \in Nat /\ (\A j \in 1..Len(got) : got[j] = <<m, j>>)
      BY <1>1 DEF SeDecGood
    <3> QED BY <2>2, <3>1, <3>2 DEF SeDecGood
  <2>7. SeRunGood(s, base) BY <1>1, <2>3, <2>5, <2>6 DEF SeRunGood
  <2>8. SeRunNext(s, base) = SeRunNext(r, base) BY <2>3, <2>5 DEF SeRunNext, m, got
  <2>9. CASE s.need = 0
    <3>1. SeSettles(s, SePush(s), base) BY <2>3, <2>7, <2>9, SePushIs
    <3>2. SeSettles(r, SePush(s), base) BY <2>3, <2>8, <3>1 DEF SeSettles
    <3> QED BY <2>4, <2>9, <3>2
  <2>10. CASE s.need # 0
    <3>1. SeSettled(s) BY <2>2, <2>3, <2>10 DEF SeSettled
    <3>2. SeSettles(r, s, base) BY <2>3, <2>7, <2>8, <3>1 DEF SeSettles
    <3> QED BY <2>4, <2>10, <3>2
  <2> QED BY <2>9, <2>10
<1>6. CASE need = 0 /\ r.step = "body"
  <2>1. SeReady(r) = SePush(r) BY <1>6 DEF SeReady, need
  <2> QED BY <1>6, <2>1, SePushIs DEF need
<1> QED BY <1>2, <1>3, <1>4, <1>5, <1>6

\* The decoder takes the unit it waits for, unless it is stuck.
LEMMA SeFeedIs ==
    ASSUME NEW r, NEW base \in Nat, SeRunGood(r, base), SeSettled(r), NEW u
    PROVE  /\ r.stuck = TRUE => SeFeed(r, u) = r
           /\ r.stuck = FALSE /\ u \in SeUnits /\ u = SeRunNext(r, base) =>
                LET s == SeFeed(r, u)
                IN  /\ SeRunGood(s, base) /\ SeSettled(s)
                    /\ SeRunNext(s, base) = SeSucc(u)
                    /\ s.taken = r.taken + 1
                    /\ s.room + Len(s.pushed) = r.room + Len(r.pushed)
<1>1. r \in SeRun BY DEF SeRunGood
<1>2. ASSUME r.stuck = TRUE PROVE SeFeed(r, u) = r
  <2> DEFINE t == [r EXCEPT !.stuck = FALSE]
  <2>1. r.step = "body" /\ r.need = 0 /\ r.room = 0 /\ r.ident = TRUE BY <1>2 DEF SeSettled
  <2>2. t.step = "body" /\ t.need = 0 /\ t.room = 0 /\ t.ident = TRUE BY <1>1, <2>1 DEF SeRun
  <2>3. [t EXCEPT !.stuck = TRUE] = r /\ [r EXCEPT !.stuck = TRUE] = r BY <1>1, <1>2 DEF SeRun
  <2>4. SeFeed(r, u) = [SeReady(t) EXCEPT !.stuck = TRUE] BY <1>2 DEF SeFeed
  <2> HIDE DEF t
  <2>5. SeReady(t) = SePush(t) BY <2>2 DEF SeReady
  <2>6. SePush(t) = [t EXCEPT !.stuck = TRUE] BY <2>2 DEF SePush
  <2> QED BY <2>3, <2>4, <2>5, <2>6
<1>3. ASSUME r.stuck = FALSE, u \in SeUnits, u = SeRunNext(r, base)
      PROVE  LET s == SeFeed(r, u)
             IN  /\ SeRunGood(s, base) /\ SeSettled(s)
                 /\ SeRunNext(s, base) = SeSucc(u)
                 /\ s.taken = r.taken + 1
                 /\ s.room + Len(s.pushed) = r.room + Len(r.pushed)
  <2> DEFINE m == SeRunAt(r, base)
             got == r.got
             need == r.need
             t == [r EXCEPT !.need = @ - 1, !.got = Append(@, u), !.taken = @ + 1]
  <2>1. need > 0 BY <1>3 DEF SeSettled
  <2>2. SeFeed(r, u) = SeReady(t)
    <3>1. [r EXCEPT !.stuck = FALSE] = r BY <1>1, <1>3 DEF SeRun
    <3>2. SeReady(r) = r BY <2>1 DEF SeReady
    <3> QED BY <1>3, <3>1, <3>2 DEF SeFeed
  <2>3. /\ SeDecGood(r.step, need, got, m)
        /\ r.ident = FALSE => base + Len(r.pushed) = 0
        /\ \A j \in 1..Len(r.pushed) : r.pushed[j] = SeMessage(base + j)
    BY DEF SeRunGood
  <2>4. got \in Seq(SeUnits) /\ need \in Nat /\ r.taken \in Nat /\ Len(got) \in Nat /\ m \in Nat
    BY <1>1, <2>3 DEF SeRun, SeDecGood
  <2> DEFINE got2 == Append(got, u)
             need2 == need - 1
  <2>5. need2 \in Nat /\ got2 \in Seq(SeUnits) /\ Len(got2) = Len(got) + 1
        /\ need2 + Len(got2) = need + Len(got)
        /\ \A j \in 1..Len(got2) : got2[j] = IF j <= Len(got) THEN got[j] ELSE u
    BY <1>3, <2>1, <2>4
  <2> HIDE DEF got2, need2
  <2>6. t \in SeRun /\ t.step = r.step /\ t.need = need2 /\ t.got = got2 /\ t.ident = r.ident
        /\ t.room = r.room /\ t.stuck = FALSE /\ t.pushed = r.pushed /\ t.taken = r.taken + 1
    <3>1. t = [r EXCEPT !.need = need2, !.got = got2, !.taken = r.taken + 1]
      BY <1>1 DEF SeRun, need2, got2
    <3> HIDE DEF t
    <3>2. r.taken + 1 \in Nat BY <2>4
    <3>3. t \in SeRun BY <1>1, <2>5, <3>1, <3>2 DEF SeRun
    <3>4. t.step = r.step /\ t.need = need2 /\ t.got = got2 /\ t.ident = r.ident
      BY <1>1, <3>1 DEF SeRun
    <3>5. t.room = r.room /\ t.stuck = FALSE /\ t.pushed = r.pushed /\ t.taken = r.taken + 1
      BY <1>1, <1>3, <3>1 DEF SeRun
    <3> QED BY <3>3, <3>4, <3>5
  <2> HIDE DEF t
  <2>7. SeRunAt(t, base) = m BY <2>6 DEF SeRunAt
  <2>8. u = SeDecNext(got, m) BY <1>3 DEF SeRunNext
  <2>9. /\ \A j \in 1..Len(got) : got[j] = <<m, j>>
        /\ Len(got) > 0 => m <= SeLast
        /\ r.step \in {"flags", "size", "body"}
        /\ r.step = "flags" => need + Len(got) = 1
        /\ r.step = "size" => need + Len(got) = 2 /\ Len(got) > 0
        /\ r.step = "body" => m <= SeLast /\ Len(got) >= 2 /\ need + Len(got) = 2 + SeSize[m]
    BY <2>3 DEF SeDecGood
  <2> HIDE DEF m, got, need
  <2>10. u = <<m, Len(got) + 1>> /\ m <= SeLast
    <3>1. CASE got = <<>>
      <4>1. u = SeStart(m) /\ Len(got) = 0 BY <2>8, <3>1 DEF SeDecNext
      <4>2. ~(m > SeLast) BY <1>3, <4>1, SeEndIsNoUnit DEF SeStart
      <4>3. m <= SeLast BY <2>4, <4>2, SeConstants
      <4> QED BY <4>1, <4>2, <4>3 DEF SeStart
    <3>2. CASE got # <<>>
      <4> DEFINE k == Len(got)
      <4>1. k > 0 BY <2>4, <3>2, EmptySeq
      <4>2. m \in 0..SeLast /\ SeSize[m] \in Nat BY <2>4, <2>9, <4>1, SeConstants
      <4>3. u = SeSucc(<<m, k>>) BY <2>8, <3>2 DEF SeDecNext
      <4> HIDE DEF k
      <4>4. k \in Nat /\ k < 2 + SeSize[m]
        <5>1. need + k = 1 \/ need + k = 2 \/ need + k = 2 + SeSize[m] BY <2>9 DEF k
        <5>2. k \in Nat BY <2>4 DEF k
        <5> QED BY <2>1, <2>4, <4>2, <5>1, <5>2
      <4>5. SeSucc(<<m, k>>) = <<m, k + 1>>
        <5>1. m # SeLast + 1 BY <4>2, SeConstants
        <5> QED BY <4>4, <5>1 DEF SeSucc
      <4> QED BY <4>2, <4>3, <4>5, SeConstants DEF k
    <3> QED BY <3>1, <3>2
  <2>11. SeDecGood(r.step, need2, got2, m)
    <3>1. \A j \in 1..Len(got2) : got2[j] = <<m, j>>
      <4> SUFFICES ASSUME NEW j \in 1..Len(got2) PROVE got2[j] = <<m, j>> OBVIOUS
      <4>1. CASE j <= Len(got)
        <5>1. j \in 1..Len(got) BY <2>4, <2>5, <4>1
        <5> QED BY <2>5, <2>9, <4>1, <5>1
      <4>2. CASE ~(j <= Len(got))
        <5>1. j = Len(got) + 1 BY <2>4, <2>5, <4>2
        <5> QED BY <2>5, <2>10, <4>2, <5>1
      <4> QED BY <4>1, <4>2
    <3>2. Len(got2) > 0 /\ (Len(got) >= 2 => Len(got2) >= 2) BY <2>4, <2>5
    <3> QED BY <2>4, <2>5, <2>9, <2>10, <3>1, <3>2 DEF SeDecGood
  <2>12. SeRunGood(t, base) BY <2>3, <2>6, <2>7, <2>11 DEF SeRunGood
  <2>13. SeRunNext(t, base) = SeSucc(u)
    <3>1. got2 # <<>> BY <2>4, <2>5
    <3>2. SeDecNext(got2, m) = SeSucc(<<m, Len(got) + 1>>) BY <2>5, <3>1 DEF SeDecNext
    <3> QED BY <2>6, <2>7, <2>10, <3>2 DEF SeRunNext
  <2>14. SeSettles(t, SeReady(t), base) BY <2>6, <2>12, SeReadyIs
  <2> QED BY <2>2, <2>6, <2>13, <2>14 DEF SeSettles
<1> QED BY <1>2, <1>3

\* The recursive function of SeProcess.
SeFedBody(r, units, g, n) == IF n = 0 THEN SeReady(r) ELSE SeFeed(g[n - 1], units[n])
SeFed(r, units) == CHOOSE g : g = [n \in 0..Len(units) |-> SeFedBody(r, units, g, n)]

\* It exists: it is extended unit by unit.
LEMMA SeFedExists ==
    ASSUME NEW r, NEW units, NEW n \in Nat
    PROVE  \E g : g = [i \in 0..n |-> SeFedBody(r, units, g, i)]
<1> DEFINE S == {m \in Nat : \E g : g = [i \in 0..m |-> SeFedBody(r, units, g, i)]}
<1>1. 0 \in S
  <2> DEFINE g == [i \in 0..0 |-> SeReady(r)]
  <2>1. \A i \in 0..0 : SeFedBody(r, units, g, i) = SeReady(r) BY DEF SeFedBody
  <2>2. g = [i \in 0..0 |-> SeFedBody(r, units, g, i)] BY <2>1
  <2> QED BY <2>2
<1>2. ASSUME NEW m \in Nat, m \in S PROVE m + 1 \in S
  <2>1. PICK g : g = [i \in 0..m |-> SeFedBody(r, units, g, i)] BY <1>2
  <2> DEFINE h == [i \in 0..(m + 1) |-> IF i <= m THEN g[i] ELSE SeFedBody(r, units, g, i)]
  <2>2. ASSUME NEW i \in 0..(m + 1) PROVE h[i] = SeFedBody(r, units, h, i)
    <3>1. h[i] = SeFedBody(r, units, g, i)
      <4>1. CASE i <= m
        <5>1. i \in 0..m BY <4>1
        <5>2. g[i] = SeFedBody(r, units, g, i) BY <2>1, <5>1
        <5> QED BY <4>1, <5>2
      <4> QED BY <4>1
    <3>2. i # 0 => h[i - 1] = g[i - 1] OBVIOUS
    <3> HIDE DEF h
    <3> QED BY <3>1, <3>2 DEF SeFedBody
  <2>3. h = [i \in 0..(m + 1) |-> h[i]] OBVIOUS
  <2> HIDE DEF h
  <2>4. h = [i \in 0..(m + 1) |-> SeFedBody(r, units, h, i)] BY <2>2, <2>3
  <2> QED BY <2>4
<1>3. Nat \subseteq S
  <2> HIDE DEF S
  <2> QED BY <1>1, <1>2, DsAllNumbers
<1> QED BY <1>3

\* After n of the units, p is where the decoder has come from r.
SeHasRead(r, p, base, units, e, n) ==
    /\ SeRunGood(p, base) /\ SeSettled(p)
    /\ p.taken \in 0..n
    /\ p.stuck = FALSE => p.taken = n
    /\ SeRunNext(p, base) = SeReached(e, units, p.taken)
    /\ p.room + Len(p.pushed) = r.room + Len(r.pushed)

\* The decoder takes a part of the stream, up to where it is stuck.
LEMMA SeProcessIs ==
    ASSUME NEW r, NEW base \in Nat, NEW units, NEW f,
           SeRunGood(r, base), r.stuck = FALSE, r.taken = 0,
           SeChain(SeRunNext(r, base), units, f)
    PROVE  SeHasRead(r, SeProcess(r, units), base, units, SeRunNext(r, base), Len(units))
<1> DEFINE g == SeFed(r, units)
           e == SeRunNext(r, base)
           Done(n) == SeHasRead(r, g[n], base, units, e, n)
           S == {n \in Nat : n <= Len(units) => Done(n)}
<1>1. units \in Seq(SeUnits) /\ Len(units) \in Nat BY DEF SeChain
<1>2. SeProcess(r, units) = g[Len(units)] BY DEF SeProcess, SeFed, SeFedBody
<1>3. g = [n \in 0..Len(units) |-> SeFedBody(r, units, g, n)]
  <2>1. \E h : h = [n \in 0..Len(units) |-> SeFedBody(r, units, h, n)] BY <1>1, SeFedExists
  <2> QED BY <2>1 DEF SeFed
<1> HIDE DEF g
<1>4. Done(0)
  <2>1. g[0] = SeReady(r) BY <1>1, <1>3 DEF SeFedBody
  <2>2. SeSettles(r, SeReady(r), base) BY SeReadyIs
  <2>3. SeReached(e, units, 0) = e BY DEF SeReached
  <2> QED BY <2>1, <2>2, <2>3 DEF SeHasRead, SeSettles
<1>5. ASSUME NEW n \in Nat, n \in S PROVE n + 1 \in S
  <2> SUFFICES ASSUME n + 1 <= Len(units) PROVE Done(n + 1) OBVIOUS
  <2> DEFINE p == g[n]
             u == units[n + 1]
  <2>1. n + 1 \in 1..Len(units) /\ n + 1 \in 0..Len(units) /\ n + 1 # 0 /\ (n + 1) - 1 = n
        /\ n <= Len(units)
    BY <1>1
  <2>2. SeHasRead(r, p, base, units, e, n) BY <1>5, <2>1
  <2>3. g[n + 1] = SeFeed(p, u) BY <1>3, <2>1 DEF SeFedBody
  <2>4. u \in SeUnits BY <1>1, <2>1
  <2>5. p.stuck \in BOOLEAN /\ p.taken \in 0..n BY <2>2 DEF SeHasRead, SeRunGood, SeRun
  <2>6. SeReached(e, units, n + 1) = SeSucc(u) BY <2>1 DEF SeReached
  <2>7. SeReached(e, units, n) = u
    <3>1. CASE n = 0
      <4>1. units # <<>> BY <1>1, <2>1
      <4>2. units[1] = e BY <4>1 DEF SeChain
      <4> QED BY <3>1, <4>2 DEF SeReached
    <3>2. CASE n # 0
      <4>1. n \in 1..(Len(units) - 1) BY <1>1, <2>1, <3>2
      <4>2. units[n + 1] = SeSucc(units[n]) BY <4>1 DEF SeChain
      <4> QED BY <3>2, <4>2 DEF SeReached
    <3> QED BY <3>1, <3>2
  <2> HIDE DEF p, u, e
  <2>8. CASE p.stuck = TRUE
    <3>1. SeFeed(p, u) = p BY <2>2, <2>8, SeFeedIs DEF SeHasRead
    <3>2. p.taken \in 0..(n + 1) BY <2>5
    <3>3. SeHasRead(r, p, base, units, e, n + 1) BY <2>2, <2>8, <3>2 DEF SeHasRead
    <3> QED BY <2>3, <3>1, <3>3
  <2>9. CASE p.stuck = FALSE
    <3> DEFINE s == SeFeed(p, u)
    <3>1. u = SeRunNext(p, base) /\ p.taken = n BY <2>2, <2>7, <2>9 DEF SeHasRead
    <3>2. /\ SeRunGood(s, base) /\ SeSettled(s)
          /\ SeRunNext(s, base) = SeSucc(u)
          /\ s.taken = p.taken + 1
          /\ s.room + Len(s.pushed) = p.room + Len(p.pushed)
      BY <2>2, <2>4, <2>9, <3>1, SeFeedIs DEF SeHasRead
    <3> HIDE DEF s
    <3>3. s.taken = n + 1 /\ s.taken \in 0..(n + 1) BY <3>1, <3>2
    <3>4. p.room + Len(p.pushed) = r.room + Len(r.pushed) BY <2>2 DEF SeHasRead
    <3>5. SeHasRead(r, s, base, units, e, n + 1) BY <2>6, <3>2, <3>3, <3>4 DEF SeHasRead
    <3> QED BY <2>3, <3>5 DEF s
  <2> QED BY <2>5, <2>8, <2>9
<1>6. Nat \subseteq S
  <2>1. 0 \in S BY <1>4
  <2> HIDE DEF S
  <2> QED BY <1>5, <2>1, DsAllNumbers
<1>7. Len(units) \in S
  <2> HIDE DEF S
  <2> QED BY <1>1, <1>6
<1>8. Done(Len(units))
  <2>1. Len(units) <= Len(units) BY <1>1
  <2> QED BY <1>7, <2>1
<1> QED BY <1>2, <1>8

-----------------------------------------------------------------------------
\* A part of the stream in two pieces.
LEMMA SeChainSplit ==
    ASSUME NEW e, NEW q \in Seq(SeUnits), NEW p \in Seq(SeUnits), NEW f, SeChain(e, q \o p, f)
    PROVE  \E x : SeChain(e, q, x) /\ SeChain(x, p, f)
<1> DEFINE s == q \o p
           n == Len(q)
<1>1. /\ s \in Seq(SeUnits) /\ n \in Nat /\ Len(p) \in Nat /\ Len(s) = n + Len(p)
      /\ \A i \in 1..Len(s) : s[i] = IF i <= n THEN q[i] ELSE p[i - n]
  OBVIOUS
<1>2. n \in 0..Len(s) BY <1>1
<1> HIDE DEF s, n
<1>3. SubSeq(s, 1, n) = q
  <2> DEFINE t == SubSeq(s, 1, n)
  <2>1. t \in Seq(SeUnits) /\ Len(t) = n /\ \A i \in 1..n : t[i] = s[i]
    BY <1>1, <1>2, SubSeqProperties
  <2> HIDE DEF t
  <2>2. \A i \in 1..n : t[i] = q[i] BY <1>1, <2>1
  <2>3. Len(t) = Len(q) BY <2>1 DEF n
  <2>4. t = q BY <2>1, <2>2, <2>3, SeqEqual
  <2> QED BY <2>4 DEF t
<1>4. SubSeq(s, n + 1, Len(s)) = p
  <2> DEFINE t == SubSeq(s, n + 1, Len(s))
  <2>1. t \in Seq(SeUnits) /\ Len(t) = Len(s) - n /\ \A i \in 1..Len(t) : t[i] = s[n + i]
    BY <1>1, <1>2, SubSeqProperties
  <2> HIDE DEF t
  <2>2. Len(t) = Len(p) BY <1>1, <2>1
  <2>3. ASSUME NEW i \in 1..Len(t) PROVE t[i] = p[i]
    <3>1. n + i \in 1..Len(s) /\ ~(n + i <= n) /\ (n + i) - n = i BY <1>1, <2>2
    <3>2. s[n + i] = p[(n + i) - n] BY <1>1, <3>1
    <3> QED BY <2>1, <3>1, <3>2
  <2>4. t = p BY <2>1, <2>2, <2>3, SeqEqual
  <2> QED BY <2>4 DEF t
<1>5. SeChain(e, s, f) BY DEF s
<1>6. SeChain(e, SubSeq(s, 1, n), SeReached(e, s, n)) BY <1>2, <1>5, SeChainFirst
<1>7. SeChain(SeReached(e, s, n), SubSeq(s, n + 1, Len(s)), f) BY <1>2, <1>5, SeChainRest
<1> QED BY <1>3, <1>4, <1>6, <1>7

\* After the greetings b waits for what its decoder waits for.
LEMMA SeWaitsIs ==
    ASSUME SeReceiver, seB.greeted = 3
    PROVE  SeWaits = SeDecNext(seDec.got, SeAt(seDec.ident, Len(sePipe)))
BY DEF SeWaits, SeExpected

\* What a step that decodes `units' does to the pipe, the decoder and the buffer.
SeDecodes(p, units, acked) ==
    /\ p = SeProcess(SeDecoder(acked), units)
    /\ SeDecoded(p)
    /\ seIn' = SubSeq(units, p.taken + 1, Len(units))

\* Such a step keeps the pipe whole and in order, whatever the buffer is cut to, and leaves in the
\* buffer the part of the stream that comes next.
LEMMA SeDecodesWhole ==
    ASSUME SeDecoding, NEW acked \in seAcked..seTaken, NEW units, NEW x, NEW p,
           SeDecodes(p, units, acked), seTaken' = seTaken, seAcked' = acked,
           SeChain(SeDecNext(seDec.got, SeAt(seDec.ident, Len(sePipe))), units, x)
    PROVE  /\ SeDecoding'
           /\ SeChain(SeDecNext(seDec.got, SeAt(seDec.ident, Len(sePipe)))', seIn', x)
           /\ p.stuck \in BOOLEAN
<1> DEFINE base == Len(sePipe)
           r == SeDecoder(acked)
           room == SeHwm - (Len(sePipe) - acked)
<1>1. /\ seDec \in [step : {"flags", "size", "body"}, need : Nat, got : Seq(SeUnits),
                    ident : BOOLEAN]
      /\ SeDecGood(seDec.step, seDec.need, seDec.got, SeAt(seDec.ident, base))
      /\ seDec.ident = FALSE => sePipe = <<>>
      /\ sePipe \in Seq(Seq(SeUnits)) /\ base \in Nat
      /\ seTaken \in 0..base /\ seAcked \in 0..seTaken
      /\ \A i \in 1..base : sePipe[i] = SeMessage(i)
      /\ base - seAcked <= SeHwm
  BY DEF SeDecoding, SeWholeInOrder
<1>2. room \in Nat BY <1>1, SeConstants
<1>3. r = [step |-> seDec.step, need |-> seDec.need, got |-> seDec.got, ident |-> seDec.ident,
           room |-> room, stuck |-> FALSE, pushed |-> <<>>, taken |-> 0]
  BY DEF SeDecoder
<1> HIDE DEF room, r
<1>4. /\ r \in SeRun /\ r.step = seDec.step /\ r.need = seDec.need /\ r.got = seDec.got
      /\ r.ident = seDec.ident /\ r.room = room /\ r.stuck = FALSE /\ r.pushed = <<>> /\ r.taken = 0
  <2>1. <<>> \in Seq(Seq(SeUnits)) OBVIOUS
  <2>2. r \in SeRun BY <1>1, <1>2, <1>3, <2>1 DEF SeRun
  <2> QED BY <1>3, <2>2
<1>5. base + Len(<<>>) = base BY <1>1
<1>6. SeRunAt(r, base) = SeAt(seDec.ident, base) BY <1>4, <1>5 DEF SeRunAt
<1>7. SeRunGood(r, base)
  <2>1. r.ident = FALSE => base = 0 BY <1>1, <1>4
  <2>2. \A j \in 1..Len(r.pushed) : r.pushed[j] = SeMessage(base + j) BY <1>4
  <2> QED BY <1>1, <1>4, <1>5, <1>6, <2>1, <2>2 DEF SeRunGood
<1>8. SeRunNext(r, base) = SeDecNext(seDec.got, SeAt(seDec.ident, base))
  BY <1>4, <1>6 DEF SeRunNext
<1>9. p = SeProcess(r, units) BY DEF SeDecodes, r
<1>10. SeHasRead(r, p, base, units, SeRunNext(r, base), Len(units))
  BY <1>1, <1>4, <1>7, <1>8, <1>9, SeProcessIs
<1> DEFINE pushed == p.pushed
           n == Len(pushed)
<1>11. /\ SeRunGood(p, base) /\ p \in SeRun
       /\ p.taken \in 0..Len(units)
       /\ SeRunNext(p, base) = SeReached(SeRunNext(r, base), units, p.taken)
       /\ p.room + n = r.room + Len(r.pushed)
  BY <1>10 DEF SeHasRead, SeRunGood
<1>12. p.room \in Nat /\ pushed \in Seq(Seq(SeUnits)) /\ n \in Nat BY <1>11 DEF SeRun
<1>13. /\ seDec' = [step |-> p.step, need |-> p.need, got |-> p.got, ident |-> p.ident]
       /\ sePipe' = sePipe \o pushed
       /\ seIn' = SubSeq(units, p.taken + 1, Len(units))
  BY DEF SeDecodes, SeDecoded
<1> HIDE DEF pushed, n
<1>14. /\ sePipe' \in Seq(Seq(SeUnits)) /\ Len(sePipe') = base + n
       /\ \A i \in 1..(base + n) : sePipe'[i] = IF i <= base THEN sePipe[i] ELSE pushed[i - base]
  BY <1>1, <1>12, <1>13 DEF n
<1>15. /\ seDec' \in [step : {"flags", "size", "body"}, need : Nat, got : Seq(SeUnits),
                      ident : BOOLEAN]
       /\ seDec'.step = p.step /\ seDec'.need = p.need /\ seDec'.got = p.got
       /\ seDec'.ident = p.ident
  BY <1>11, <1>13 DEF SeRun
<1>16. SeAt(seDec'.ident, Len(sePipe')) = SeRunAt(p, base)
  BY <1>14, <1>15 DEF SeRunAt, n, pushed
<1>17. SeDecGood(seDec'.step, seDec'.need, seDec'.got, SeAt(seDec'.ident, Len(sePipe')))
  BY <1>11, <1>15, <1>16 DEF SeRunGood
<1>18. seDec'.ident = FALSE => sePipe' = <<>>
  <2>1. p.ident = FALSE => base + n = 0 BY <1>11 DEF SeRunGood, n, pushed
  <2>2. base + n = 0 => sePipe' = <<>> BY <1>14, EmptySeq
  <2> QED BY <1>15, <2>1, <2>2
<1>19. \A i \in 1..Len(sePipe') : sePipe'[i] = SeMessage(i)
  <2> SUFFICES ASSUME NEW i \in 1..(base + n) PROVE sePipe'[i] = SeMessage(i) BY <1>14
  <2>1. CASE i <= base
    <3>1. i \in 1..base BY <1>1, <2>1
    <3> QED BY <1>1, <1>14, <2>1, <3>1
  <2>2. CASE ~(i <= base)
    <3>1. i - base \in 1..n /\ base + (i - base) = i BY <1>1, <1>12, <2>2
    <3>2. \A j \in 1..n : pushed[j] = SeMessage(base + j) BY <1>11 DEF SeRunGood, n, pushed
    <3>3. pushed[i - base] = SeMessage(base + (i - base)) BY <3>1, <3>2
    <3> QED BY <1>14, <2>2, <3>1, <3>3
  <2> QED BY <2>1, <2>2
<1>20. Len(sePipe') - acked <= SeHwm
  <2> DEFINE left == p.room
  <2>1. left + n = room
    <3>1. room + Len(<<>>) = room BY <1>2
    <3> QED BY <1>4, <1>11, <3>1
  <2>2. left \in Nat BY <1>12
  <2> HIDE DEF left
  <2>3. left + n = SeHwm - (base - acked) BY <2>1 DEF room
  <2>4. acked \in Nat BY <1>1
  <2> QED BY <1>1, <1>12, <1>14, <2>2, <2>3, <2>4, SeConstants
<1>21. seTaken' \in 0..Len(sePipe') /\ seAcked' \in 0..seTaken'
  <2>1. acked \in 0..seTaken BY <1>1
  <2> QED BY <1>1, <1>12, <1>14, <2>1
<1>22. SeDecoding'
  BY <1>14, <1>15, <1>17, <1>18, <1>19, <1>20, <1>21 DEF SeDecoding, SeWholeInOrder
<1>23. SeChain(SeRunNext(p, base), seIn', x)
  BY <1>8, <1>11, <1>13, SeChainRest
<1>24. SeDecNext(seDec.got, SeAt(seDec.ident, Len(sePipe)))' = SeRunNext(p, base)
  BY <1>15, <1>16 DEF SeRunNext
<1>25. p.stuck \in BOOLEAN BY <1>11 DEF SeRun
<1> QED BY <1>22, <1>23, <1>24, <1>25

-----------------------------------------------------------------------------
\* A step of a that leaves the connection and the buffers alone.
LEMMA SeSenderMoves ==
    ASSUME SeIInv, SeSender', seA'.greeted = seA.greeted,
           SeLive' => SeLive /\ UNCHANGED <<seOut, seEnc>>, seOut' \in Seq(SeUnits),
           UNCHANGED <<seWire, seB, seIn, seDec, sePipe, seTaken, seAcked, seBroken>>
    PROVE  SeIInv'
<1>1. PICK f : /\ SeChain(SeWaits, seIn \o seWire, f)
               /\ SeLive => SeChain(f, seOut, SeSends(seA.greeted, seEnc))
  BY DEF SeIInv, SeStream
<1>2. SeWaits' = SeWaits BY DEF SeWaits
<1>3. SeLive' => SeChain(f, seOut', SeSends(seA'.greeted, seEnc'))
  <2> SUFFICES ASSUME SeLive' PROVE SeChain(f, seOut', SeSends(seA'.greeted, seEnc')) OBVIOUS
  <2>1. SeLive /\ seOut' = seOut /\ seEnc' = seEnc OBVIOUS
  <2> QED BY <1>1, <2>1
<1>4. SeStream'
  <2>1. SeChain(SeWaits', seIn' \o seWire', f) BY <1>1, <1>2
  <2> QED BY <1>3, <2>1 DEF SeIInv, SeStream
<1>5. SeReceiver' /\ SeDecoding' BY DEF SeIInv, SeReceiver, SeDecoding, SeWholeInOrder
<1> QED BY <1>4, <1>5 DEF SeIInv

\* The application sends a message: the encoder may go one message further.
LEMMA SeSendKeeps ==
    ASSUME SeIInv, SeSend
    PROVE  SeIInv'
<1>1. seSent' = seSent + 1 /\ seSent' \in 0..SeLast /\ seSent \in 0..SeLast
  BY SeConstants DEF SeIInv, SeSender, SeSend
<1>2. SeEncGood(seEnc, seSent')
  <2>1. SeEncGood(seEnc, seSent) BY DEF SeIInv, SeSender
  <2>2. SeFollowing(seEnc) \in Nat BY <2>1, SeConstants DEF SeEncGood, SeFollowing
  <2>3. SeFollowing(seEnc) <= seSent' + 1
    <3> DEFINE n == SeFollowing(seEnc)
    <3>1. n \in Nat /\ n <= seSent + 1 BY <2>1, <2>2 DEF SeEncGood
    <3> HIDE DEF n
    <3>2. n <= seSent' + 1 BY <1>1, <3>1
    <3> QED BY <3>2 DEF n
  <2> QED BY <2>1, <2>3 DEF SeEncGood
<1>3. /\ seA' \in [alive : BOOLEAN, greeted : 0..3, pollout : BOOLEAN, starved : BOOLEAN,
                   ending : BOOLEAN]
      /\ seA'.greeted = seA.greeted /\ seA'.alive = seA.alive
  BY DEF SeIInv, SeSender, SeSend
<1>4. SeSender' BY <1>1, <1>2, <1>3 DEF SeIInv, SeSender, SeSend
<1>5. SeLive' => SeLive BY <1>3 DEF SeLive, SeSend
<1> QED BY <1>3, <1>4, <1>5, SeSenderMoves DEF SeSend, SeIInv, SeStream

\* A step that only changes the flags of a.
LEMMA SeFlagsKeep ==
    ASSUME SeIInv, UNCHANGED <<seEnc, seSent, seWire, seB, seIn, seDec, sePipe, seTaken, seAcked, seBroken>>,
           seA' \in [alive : BOOLEAN, greeted : 0..3, pollout : BOOLEAN, starved : BOOLEAN,
                     ending : BOOLEAN],
           seA'.greeted = seA.greeted,
           seA'.alive = TRUE => seA.alive = TRUE /\ seOut' = seOut,
           seOut' \in Seq(SeUnits)
    PROVE  SeIInv'
<1>1. SeSender' BY DEF SeIInv, SeSender
<1>2. SeLive' => SeLive /\ UNCHANGED <<seOut, seEnc>> BY DEF SeLive
<1> QED BY <1>1, <1>2, SeSenderMoves

\* Filling the buffer continues the stream where it ended.
LEMMA SeFillKeeps ==
    ASSUME SeIInv, SeFill
    PROVE  SeIInv'
<1>1. CASE seA.greeted < 3
  <2>1. /\ seA' = [seA EXCEPT !.pollout = FALSE]
        /\ UNCHANGED <<seEnc, seOut, seSent, seWire, seB, seIn, seDec, sePipe, seTaken, seAcked,
                       seBroken>>
    BY <1>1 DEF SeFill
  <2>2. /\ seA' \in [alive : BOOLEAN, greeted : 0..3, pollout : BOOLEAN, starved : BOOLEAN,
                     ending : BOOLEAN]
        /\ seA'.greeted = seA.greeted /\ seA'.alive = seA.alive
    BY <2>1 DEF SeIInv, SeSender
  <2>3. seOut' \in Seq(SeUnits) BY <2>1 DEF SeIInv, SeStream
  <2> QED BY <2>1, <2>2, <2>3, SeFlagsKeep
<1>2. CASE ~(seA.greeted < 3)
  <2> DEFINE units == SeBatchOf(seEnc, seSent)
             dry == Len(units) = Len(SeAvailable(seEnc, seSent)) /\ Len(units) < SeBatch
  <2>1. /\ seOut = <<>> /\ seOut' = units /\ seEnc' = SeEncAfter(seEnc, units)
        /\ seA' = [seA EXCEPT !.pollout = units # <<>>, !.starved = @ \/ dry]
        /\ UNCHANGED <<seSent, seWire, seB, seIn, seDec, sePipe, seTaken, seAcked, seBroken>>
    BY <1>2 DEF SeFill
  <2>2. seSent \in 0..SeLast /\ SeEncGood(seEnc, seSent) BY DEF SeIInv, SeSender
  <2>3. SeChain(SeEncNext(seEnc), seOut', SeEncNext(seEnc')) /\ SeEncGood(seEnc', seSent)
    BY <2>1, <2>2, SeBatchIs
  <2>4. /\ seA' \in [alive : BOOLEAN, greeted : 0..3, pollout : BOOLEAN, starved : BOOLEAN,
                     ending : BOOLEAN]
        /\ seA'.greeted = seA.greeted /\ seA'.alive = seA.alive
    <3> HIDE DEF units, dry
    <3> QED BY <2>1 DEF SeIInv, SeSender
  <2>5. SeSender' BY <1>2, <2>1, <2>2, <2>3, <2>4 DEF SeSender
  <2>6. PICK f : /\ SeChain(SeWaits, seIn \o seWire, f)
                 /\ SeLive => SeChain(f, seOut, SeSends(seA.greeted, seEnc))
    BY DEF SeIInv, SeStream
  <2>7. seA.greeted \in 0..3 BY DEF SeIInv, SeSender
  <2>8. SeSends(seA.greeted, seEnc) = SeEncNext(seEnc)
        /\ SeSends(seA'.greeted, seEnc') = SeEncNext(seEnc')
    <3>1. ~(seA.greeted < 2) BY <1>2, <2>7
    <3> QED BY <2>4, <3>1 DEF SeSends
  <2>9. SeLive' => SeChain(f, seOut', SeSends(seA'.greeted, seEnc'))
    <3> SUFFICES ASSUME SeLive' PROVE SeChain(f, seOut', SeSends(seA'.greeted, seEnc')) OBVIOUS
    <3>1. SeLive BY <2>1, <2>4 DEF SeLive
    <3>2. SeChain(f, <<>>, SeEncNext(seEnc)) BY <2>1, <2>6, <2>8, <3>1
    <3>3. f = SeEncNext(seEnc) BY <3>2 DEF SeChain
    <3> QED BY <2>3, <2>8, <3>3
  <2>10. SeWaits' = SeWaits BY <2>1 DEF SeWaits
  <2>11. SeStream'
    <3>1. seOut' \in Seq(SeUnits) BY <2>3 DEF SeChain
    <3>2. SeChain(SeWaits', seIn' \o seWire', f) BY <2>1, <2>6, <2>10
    <3> QED BY <2>1, <2>9, <3>1, <3>2 DEF SeIInv, SeStream
  <2>12. SeReceiver' /\ SeDecoding' BY <2>1 DEF SeIInv, SeReceiver, SeDecoding, SeWholeInOrder
  <2> QED BY <2>1, <2>5, <2>11, <2>12 DEF SeIInv
<1> QED BY <1>1, <1>2

\* Concatenation is associative.
LEMMA SeAssociative ==
    ASSUME NEW a \in Seq(SeUnits), NEW b \in Seq(SeUnits), NEW c \in Seq(SeUnits)
    PROVE  (a \o b) \o c = a \o (b \o c)
<1> DEFINE l == (a \o b) \o c
           r == a \o (b \o c)
<1>1. l \in Seq(SeUnits) /\ r \in Seq(SeUnits) /\ Len(l) = Len(r) OBVIOUS
<1>2. ASSUME NEW i \in 1..Len(l) PROVE l[i] = r[i] OBVIOUS
<1> HIDE DEF l, r
<1>3. l = r BY <1>1, <1>2, SeqEqual
<1> QED BY <1>3 DEF l, r

\* A write moves the first units of the buffer to the wire.
LEMMA SeWriteKeeps ==
    ASSUME SeIInv, SeWrite
    PROVE  SeIInv'
<1>0. UNCHANGED <<seEnc, seSent, seB, seIn, seDec, sePipe, seTaken, seAcked, seBroken>>
  BY DEF SeWrite
<1>4. /\ seA' \in [alive : BOOLEAN, greeted : 0..3, pollout : BOOLEAN, starved : BOOLEAN,
                   ending : BOOLEAN]
      /\ seA'.greeted = seA.greeted /\ (seA'.alive = TRUE => seA.alive = TRUE)
  <2>1. \/ seA' = [seA EXCEPT !.alive = FALSE]
        \/ seA' = [seA EXCEPT !.pollout = FALSE]
        \/ seA' = [seA EXCEPT !.pollout = seOut' # <<>> \/ seA.greeted = 3]
    BY DEF SeWrite, SeDeleted
  <2>2. seA \in [alive : BOOLEAN, greeted : 0..3, pollout : BOOLEAN, starved : BOOLEAN,
                 ending : BOOLEAN]
    BY DEF SeIInv, SeSender
  <2>3. CASE seA' = [seA EXCEPT !.alive = FALSE] BY <2>2, <2>3
  <2>4. CASE seA' = [seA EXCEPT !.pollout = FALSE] BY <2>2, <2>4
  <2>5. CASE seA' = [seA EXCEPT !.pollout = seOut' # <<>> \/ seA.greeted = 3]
    <3> DEFINE b == seOut' # <<>> \/ seA.greeted = 3
    <3>1. b \in BOOLEAN OBVIOUS
    <3>2. seA' = [seA EXCEPT !.pollout = b] BY <2>5
    <3> HIDE DEF b
    <3> QED BY <2>2, <3>1, <3>2
  <2> QED BY <2>1, <2>3, <2>4, <2>5
<1>1. CASE seBroken = TRUE
  <2>1. UNCHANGED <<seOut, seWire>> BY <1>1 DEF SeWrite
  <2>2. seOut' \in Seq(SeUnits) BY <2>1 DEF SeIInv, SeStream
  <2> QED BY <1>0, <1>4, <2>1, <2>2, SeFlagsKeep
<1>2. CASE seBroken = FALSE
  <2>1. PICK n \in 1..Len(seOut) : /\ seWire' = seWire \o SubSeq(seOut, 1, n)
                                   /\ seOut' = SubSeq(seOut, n + 1, Len(seOut))
    BY <1>2 DEF SeWrite
  <2>2. SeLive BY <1>2 DEF SeWrite, SeLive, SeIInv, SeSender
  <2>3. PICK f : /\ SeChain(SeWaits, seIn \o seWire, f)
                 /\ SeChain(f, seOut, SeSends(seA.greeted, seEnc))
    BY <2>2 DEF SeIInv, SeStream
  <2> DEFINE g == SeReached(f, seOut, n)
             first == SubSeq(seOut, 1, n)
  <2>4. seIn \in Seq(SeUnits) /\ seWire \in Seq(SeUnits) /\ seOut \in Seq(SeUnits)
    BY DEF SeIInv, SeStream
  <2>5. n \in 0..Len(seOut) OBVIOUS
  <2>6. SeChain(f, first, g) BY <2>3, <2>5, SeChainFirst
  <2>7. SeChain(g, seOut', SeSends(seA.greeted, seEnc)) BY <2>1, <2>3, <2>5, SeChainRest
  <2> HIDE DEF g, first
  <2>8. SeChain(SeWaits, (seIn \o seWire) \o first, g) BY <2>3, <2>6, SeChainJoin
  <2>9. first \in Seq(SeUnits) BY <2>6 DEF SeChain
  <2>10. (seIn \o seWire) \o first = seIn \o (seWire \o first) BY <2>4, <2>9, SeAssociative
  <2>11. SeWaits' = SeWaits BY <1>0 DEF SeWaits
  <2>12. SeStream'
    <3>1. SeChain(SeWaits', seIn' \o seWire', g) BY <1>0, <2>1, <2>8, <2>10, <2>11 DEF first
    <3>2. SeChain(g, seOut', SeSends(seA'.greeted, seEnc')) BY <1>0, <1>4, <2>7
    <3>3. seOut' \in Seq(SeUnits) BY <2>7 DEF SeChain
    <3>4. seWire' \in Seq(SeUnits) BY <2>1, <2>4, <2>9 DEF first
    <3> QED BY <1>0, <2>4, <3>1, <3>2, <3>3, <3>4 DEF SeStream
  <2>13. SeSender' BY <1>0, <1>4 DEF SeIInv, SeSender
  <2>14. SeReceiver' /\ SeDecoding' BY <1>0 DEF SeIInv, SeReceiver, SeDecoding, SeWholeInOrder
  <2> QED BY <1>0, <1>2, <2>12, <2>13, <2>14 DEF SeIInv
<1> QED BY <1>1, <1>2 DEF SeIInv

\* a takes a unit of b's greeting, and adds its own third after the second.
LEMMA SeGreetAKeeps ==
    ASSUME SeIInv, SeGreetA
    PROVE  SeIInv'
<1>0. UNCHANGED <<seEnc, seSent, seWire, seB, seIn, seDec, sePipe, seTaken, seAcked, seBroken>>
  BY DEF SeGreetA
<1> DEFINE k == seA.greeted
<1>1. seA \in [alive : BOOLEAN, greeted : 0..3, pollout : BOOLEAN, starved : BOOLEAN,
               ending : BOOLEAN] /\ k < 3 /\ k \in 0..3
  BY DEF SeIInv, SeSender, SeGreetA
<1>2. /\ seA' \in [alive : BOOLEAN, greeted : 0..3, pollout : BOOLEAN, starved : BOOLEAN,
                   ending : BOOLEAN]
      /\ seA'.greeted = k + 1 /\ seA'.alive = seA.alive
  <2> DEFINE b == seA.pollout \/ k > 0
  <2>1. seA' = [seA EXCEPT !.greeted = k + 1, !.pollout = b] BY <1>1 DEF SeGreetA
  <2>2. k + 1 \in 0..3 /\ b \in BOOLEAN BY <1>1
  <2> HIDE DEF k, b
  <2> QED BY <1>1, <2>1, <2>2
<1>3. SeAtStart(seEnc) BY <1>1 DEF SeIInv, SeSender
<1>4. SeSender' BY <1>0, <1>2, <1>3 DEF SeIInv, SeSender
<1>5. PICK f : /\ SeChain(SeWaits, seIn \o seWire, f)
               /\ SeLive => SeChain(f, seOut, SeSends(k, seEnc))
  BY DEF SeIInv, SeStream
<1>6. seIn \in Seq(SeUnits) /\ seWire \in Seq(SeUnits) /\ seOut \in Seq(SeUnits)
  BY DEF SeIInv, SeStream
<1>7. SeHello(3) \in SeUnits BY DEF SeUnits, SeGreeting
<1>8. seOut' \in Seq(SeUnits) /\ (SeLive => SeChain(f, seOut', SeSends(k + 1, seEnc)))
  <2>1. CASE k = 1
    <3>1. seOut' = seOut \o <<SeHello(3)>> BY <1>6, <1>7, <2>1, AppendIsConcat DEF SeGreetA
    <3>2. SeChain(SeHello(3), <<SeHello(3)>>, SeSucc(SeHello(3))) BY <1>7, SeChainOne
    <3>3. SeSucc(SeHello(3)) = SeStart(0) BY SeConstants DEF SeSucc, SeHello
    <3>4. SeSends(1, seEnc) = SeHello(3) /\ SeSends(2, seEnc) = SeStart(0)
      <4>1. SeEncNext(seEnc) = SeStart(0) BY <1>3 DEF SeAtStart, SeEncNext
      <4> QED BY <4>1 DEF SeSends
    <3>5. SeLive => SeChain(f, seOut', SeStart(0))
      BY <1>5, <2>1, <3>1, <3>2, <3>3, <3>4, SeChainJoin
    <3>6. k + 1 = 2 BY <2>1
    <3>7. seOut' \in Seq(SeUnits) BY <1>6, <1>7, <3>1
    <3> QED BY <3>4, <3>5, <3>6, <3>7
  <2>2. CASE k # 1
    <3>1. seOut' = seOut BY <2>2 DEF SeGreetA
    <3>2. SeSends(k + 1, seEnc) = SeSends(k, seEnc)
      <4>1. k < 2 <=> k + 1 < 2 BY <1>1, <2>2
      <4> QED BY <4>1 DEF SeSends
    <3> QED BY <1>5, <1>6, <3>1, <3>2
  <2> QED BY <2>1, <2>2
<1>9. SeLive' => SeLive BY <1>0, <1>2 DEF SeLive
<1>10. SeWaits' = SeWaits BY <1>0 DEF SeWaits
<1>11. SeStream'
  <2>1. SeChain(SeWaits', seIn' \o seWire', f) BY <1>0, <1>5, <1>10
  <2>2. SeLive' => SeChain(f, seOut', SeSends(seA'.greeted, seEnc')) BY <1>0, <1>2, <1>8, <1>9
  <2> QED BY <1>0, <1>6, <1>8, <2>1, <2>2 DEF SeStream
<1>12. SeReceiver' /\ SeDecoding' BY <1>0 DEF SeIInv, SeReceiver, SeDecoding, SeWholeInOrder
<1> QED BY <1>0, <1>4, <1>11, <1>12 DEF SeIInv

\* A step of b that takes no unit.
LEMMA SeReceiverMoves ==
    ASSUME SeIInv, SeReceiver', SeDecoding', SeWaits' = SeWaits,
           UNCHANGED <<seA, seEnc, seOut, seSent, seWire, seIn, seBroken>>
    PROVE  SeIInv'
<1>1. PICK f : /\ SeChain(SeWaits, seIn \o seWire, f)
               /\ SeLive => SeChain(f, seOut, SeSends(seA.greeted, seEnc))
  BY DEF SeIInv, SeStream
<1>2. SeLive' <=> SeLive BY DEF SeLive
<1>3. SeStream' BY <1>1, <1>2 DEF SeIInv, SeStream
<1>4. SeSender' BY DEF SeIInv, SeSender
<1> QED BY <1>3, <1>4 DEF SeIInv

\* b takes a unit of a's greeting; after the third it waits for the identity.
LEMMA SeGreetBKeeps ==
    ASSUME SeIInv, SeGreetB
    PROVE  SeIInv'
<1>0. UNCHANGED <<seA, seEnc, seOut, seSent, seIn, seDec, sePipe, seTaken, seAcked, seBroken>>
  BY DEF SeGreetB
<1> DEFINE k == seB.greeted
<1>1. /\ k \in 0..2 /\ seIn = <<>> /\ sePipe = <<>> /\ seDec = SeFirst
      /\ seWire # <<>> /\ seWire' = Tail(seWire)
      /\ seWire \in Seq(SeUnits)
  <2>1. k \in 0..3 /\ k < 3 BY DEF SeIInv, SeReceiver, SeGreetB
  <2> QED BY <2>1 DEF SeIInv, SeReceiver, SeGreetB, SeStream
<1>2. /\ seB' \in [alive : BOOLEAN, greeted : 0..3, pollin : BOOLEAN, io : BOOLEAN,
                   out : Seq(SeGreeting)]
      /\ seB'.greeted = k + 1
  <2> DEFINE out == IF k = 1 THEN Append(seB.out, SeHello(3)) ELSE seB.out
  <2>1. seB \in [alive : BOOLEAN, greeted : 0..3, pollin : BOOLEAN, io : BOOLEAN,
                 out : Seq(SeGreeting)]
    BY DEF SeIInv, SeReceiver
  <2>2. SeHello(3) \in SeGreeting BY DEF SeGreeting
  <2>3. out \in Seq(SeGreeting) BY <2>1, <2>2
  <2>4. seB' = [seB EXCEPT !.greeted = k + 1, !.out = out] BY <2>1 DEF SeGreetB
  <2>5. k + 1 \in 0..3 BY <1>1
  <2> HIDE DEF out, k
  <2> QED BY <2>1, <2>3, <2>4, <2>5
<1>3. SeReceiver' BY <1>0, <1>1, <1>2 DEF SeReceiver
<1>4. SeDecoding' BY <1>0 DEF SeIInv, SeDecoding, SeWholeInOrder
<1>5. PICK f : /\ SeChain(SeWaits, seIn \o seWire, f)
               /\ SeLive => SeChain(f, seOut, SeSends(seA.greeted, seEnc))
  BY DEF SeIInv, SeStream
<1>6. SeWaits = SeHello(k + 1) BY <1>1 DEF SeWaits, SeExpected
<1>7. SeWaits' = SeSucc(SeHello(k + 1))
  <2>1. SeHello(k + 1)[1] = SeLast + 1 /\ SeHello(k + 1)[2] = k + 1 BY DEF SeHello
  <2>2. CASE k < 2
    <3>1. SeSucc(SeHello(k + 1)) = SeHello(k + 1 + 1) BY <1>1, <2>1, <2>2 DEF SeSucc
    <3> QED BY <1>1, <1>2, <2>2, <3>1 DEF SeWaits, SeExpected
  <2>3. CASE k = 2
    <3>1. SeSucc(SeHello(k + 1)) = SeStart(0) BY <2>1, <2>3 DEF SeSucc
    <3>2. seB'.greeted = 3 /\ seDec'.got = <<>> /\ seDec'.ident = FALSE
      BY <1>0, <1>1, <1>2, <2>3 DEF SeFirst
    <3>3. SeWaits' = SeStart(0) BY <3>2 DEF SeWaits, SeExpected, SeDecNext, SeAt
    <3> QED BY <3>1, <3>3
  <2> QED BY <1>1, <2>2, <2>3
<1>8. SeChain(SeWaits', seWire', f)
  <2>1. seIn \o seWire = seWire BY <1>1
  <2>2. SeChain(SeWaits, seWire, f) BY <1>5, <2>1
  <2>3. 1 \in 0..Len(seWire) BY <1>1
  <2>4. SeChain(SeReached(SeWaits, seWire, 1), SubSeq(seWire, 1 + 1, Len(seWire)), f)
    BY <2>2, <2>3, SeChainRest
  <2>5. seWire[1] = SeWaits BY <1>1, <2>2 DEF SeChain
  <2>6. SeReached(SeWaits, seWire, 1) = SeWaits' BY <1>6, <1>7, <2>5 DEF SeReached
  <2>7. SubSeq(seWire, 1 + 1, Len(seWire)) = seWire'
    <3> DEFINE t == SubSeq(seWire, 2, Len(seWire))
    <3>1. /\ t \in Seq(SeUnits) /\ Len(t) = Len(seWire) - 1
          /\ \A i \in 1..Len(t) : t[i] = seWire[1 + i]
      <4>1. ASSUME NEW n \in 0..Len(seWire)
            PROVE  LET q == SubSeq(seWire, n + 1, Len(seWire))
                   IN  /\ q \in Seq(SeUnits) /\ Len(q) = Len(seWire) - n
                       /\ \A i \in 1..Len(q) : q[i] = seWire[n + i]
        BY <1>1, SubSeqProperties
      <4>2. t = SubSeq(seWire, 1 + 1, Len(seWire)) OBVIOUS
      <4> HIDE DEF t
      <4> QED BY <2>3, <4>1, <4>2
    <3>2. /\ seWire' \in Seq(SeUnits) /\ Len(seWire') = Len(seWire) - 1
          /\ \A i \in 1..Len(seWire') : seWire'[i] = seWire[i + 1]
      BY <1>1, HeadTailProperties
    <3> HIDE DEF t
    <3>3. t = seWire' BY <3>1, <3>2, SeqEqual
    <3> QED BY <3>3 DEF t
  <2> QED BY <2>4, <2>6, <2>7
<1>9. SeStream'
  <2>1. seWire' \in Seq(SeUnits) BY <1>8 DEF SeChain
  <2>2. seIn' \o seWire' = seWire' BY <1>0, <1>1, <2>1
  <2>3. SeLive' <=> SeLive BY <1>0 DEF SeLive
  <2>4. SeLive' => SeChain(f, seOut', SeSends(seA'.greeted, seEnc')) BY <1>0, <1>5, <2>3
  <2> QED BY <1>0, <1>8, <2>1, <2>2, <2>4 DEF SeIInv, SeStream
<1>10. SeSender' BY <1>0 DEF SeIInv, SeSender
<1>11. seBroken' = TRUE => seWire' = <<>> BY <1>0, <1>1 DEF SeIInv
<1> QED BY <1>0, <1>3, <1>4, <1>9, <1>10, <1>11 DEF SeIInv

\* b writes a unit of its greeting.
LEMMA SeWriteBKeeps ==
    ASSUME SeIInv, SeWriteB
    PROVE  SeIInv'
<1>1. seB \in [alive : BOOLEAN, greeted : 0..3, pollin : BOOLEAN, io : BOOLEAN,
               out : Seq(SeGreeting)] /\ seB.out # <<>>
  BY DEF SeIInv, SeReceiver, SeWriteB
<1> DEFINE rest == Tail(seB.out)
<1>2. rest \in Seq(SeGreeting) BY <1>1
<1>3. seB' = [seB EXCEPT !.out = rest] BY <1>1 DEF SeWriteB
<1> HIDE DEF rest
<1>4. /\ seB' \in [alive : BOOLEAN, greeted : 0..3, pollin : BOOLEAN, io : BOOLEAN,
                   out : Seq(SeGreeting)]
      /\ seB'.greeted = seB.greeted
  BY <1>1, <1>2, <1>3
<1>5. UNCHANGED <<seA, seEnc, seOut, seSent, seWire, seIn, seDec, sePipe, seTaken, seAcked, seBroken>>
  BY DEF SeWriteB
<1>6. SeReceiver' BY <1>4, <1>5 DEF SeIInv, SeReceiver
<1>7. SeDecoding' BY <1>5 DEF SeIInv, SeDecoding, SeWholeInOrder
<1>8. SeWaits' = SeWaits BY <1>4, <1>5 DEF SeWaits
<1> QED BY <1>5, <1>6, <1>7, <1>8, SeReceiverMoves

\* A step that decodes a part of the stream which the wire goes on with.
LEMMA SeDecodesKeeps ==
    ASSUME SeIInv, seB.greeted = 3, NEW acked \in seAcked..seTaken, NEW units, NEW x, NEW f, NEW p,
           SeDecodes(p, units, acked), seTaken' = seTaken, seAcked' = acked,
           SeChain(SeWaits, units, x), SeChain(x, seWire', f),
           SeLive => SeChain(f, seOut, SeSends(seA.greeted, seEnc)),
           UNCHANGED <<seA, seEnc, seOut, seSent, seBroken>>,
           seBroken = TRUE => seWire' = <<>>,
           seB' \in [alive : BOOLEAN, greeted : 0..3, pollin : BOOLEAN, io : BOOLEAN,
                     out : Seq(SeGreeting)],
           seB'.greeted = 3
    PROVE  SeIInv'
<1>1. SeWaits = SeDecNext(seDec.got, SeAt(seDec.ident, Len(sePipe)))
  BY SeWaitsIs DEF SeIInv
<1>2. /\ SeDecoding'
      /\ SeChain(SeDecNext(seDec.got, SeAt(seDec.ident, Len(sePipe)))', seIn', x)
  BY <1>1, SeDecodesWhole DEF SeIInv
<1>3. SeWaits' = SeDecNext(seDec.got, SeAt(seDec.ident, Len(sePipe)))'
  BY DEF SeWaits, SeExpected
<1>4. SeChain(SeWaits', seIn' \o seWire', f) BY <1>2, <1>3, SeChainJoin
<1>5. SeLive' <=> SeLive BY DEF SeLive
<1>6. SeStream'
  <2>1. seIn' \in Seq(SeUnits) /\ seWire' \in Seq(SeUnits) BY <1>2 DEF SeChain
  <2>2. SeLive' => SeChain(f, seOut', SeSends(seA'.greeted, seEnc')) BY <1>5
  <2> QED BY <1>4, <2>1, <2>2 DEF SeIInv, SeStream
<1>7. SeSender' BY DEF SeIInv, SeSender
<1>8. SeReceiver' BY DEF SeReceiver
<1> QED BY <1>2, <1>6, <1>7, <1>8 DEF SeIInv

\* b decodes a new buffer, or what was left in the last one.
LEMMA SeReadKeeps ==
    ASSUME SeIInv, SeRead
    PROVE  SeIInv'
<1>1. PICK n \in 0..Len(seWire) : SeInEvent(n) BY DEF SeRead
<1> DEFINE fresh == seIn = <<>>
           units == IF fresh THEN SubSeq(seWire, 1, n) ELSE seIn
           p == SeProcess(SeDecoder(seAcked), units)
<1>2. /\ seWire' = IF fresh THEN SubSeq(seWire, n + 1, Len(seWire)) ELSE seWire
      /\ seIn' = SubSeq(units, p.taken + 1, Len(units))
      /\ SeDecoded(p)
      /\ UNCHANGED <<seA, seEnc, seOut, seSent, seTaken, seBroken>>
  BY <1>1 DEF SeInEvent
<1>3. /\ seB.greeted = 3 /\ seAcked' = seAcked
      /\ seB \in [alive : BOOLEAN, greeted : 0..3, pollin : BOOLEAN, io : BOOLEAN,
                  out : Seq(SeGreeting)]
  BY DEF SeRead, SeIInv, SeReceiver
<1>4. \/ seB' = [seB EXCEPT !.io = FALSE, !.pollin = FALSE, !.alive = p.stuck]
      \/ seB' = [seB EXCEPT !.pollin = p.taken = Len(units)]
  BY <1>1 DEF SeInEvent
<1>5. SeDecodes(p, units, seAcked) BY <1>2 DEF SeDecodes
<1>6. seAcked \in seAcked..seTaken BY DEF SeIInv, SeDecoding
<1>7. seIn \in Seq(SeUnits) /\ seWire \in Seq(SeUnits) BY DEF SeIInv, SeStream
<1>8. PICK f : /\ SeChain(SeWaits, seIn \o seWire, f)
               /\ SeLive => SeChain(f, seOut, SeSends(seA.greeted, seEnc))
  BY DEF SeIInv, SeStream
<1>9. \E x : SeChain(SeWaits, units, x) /\ SeChain(x, seWire', f)
  <2>1. CASE fresh
    <3>1. seIn \o seWire = seWire BY <1>7, <2>1
    <3>2. SeChain(SeWaits, seWire, f) BY <1>8, <3>1
    <3>3. SeChain(SeWaits, units, SeReached(SeWaits, seWire, n)) BY <2>1, <3>2, SeChainFirst
    <3>4. SeChain(SeReached(SeWaits, seWire, n), seWire', f) BY <1>2, <2>1, <3>2, SeChainRest
    <3> QED BY <3>3, <3>4
  <2>2. CASE ~fresh
    <3>1. units = seIn /\ seWire' = seWire BY <1>2, <2>2
    <3> QED BY <1>7, <1>8, <3>1, SeChainSplit
  <2> QED BY <2>1, <2>2
<1> HIDE DEF units, p
<1>10. PICK x : SeChain(SeWaits, units, x) /\ SeChain(x, seWire', f) BY <1>9
<1>11. seBroken = TRUE => seWire' = <<>>
  <2> SUFFICES ASSUME seBroken = TRUE PROVE seWire' = <<>> OBVIOUS
  <2>1. seWire = <<>> BY DEF SeIInv
  <2>2. Len(seWire) = 0 /\ n = 0 BY <2>1
  <2>3. SubSeq(seWire, n + 1, Len(seWire)) = <<>>
    <3>1. 0 \in 0..Len(seWire) BY <2>2
    <3>2. Len(SubSeq(seWire, n + 1, Len(seWire))) = 0 /\ SubSeq(seWire, n + 1, Len(seWire)) \in Seq(SeUnits)
      BY <1>7, <2>2, SubSeqProperties
    <3> QED BY <3>2, EmptySeq
  <2> QED BY <1>2, <2>1, <2>3
<1>12. p.stuck \in BOOLEAN
  <2>1. SeWaits = SeDecNext(seDec.got, SeAt(seDec.ident, Len(sePipe))) BY <1>3, SeWaitsIs DEF SeIInv
  <2> QED BY <1>2, <1>3, <1>5, <1>6, <1>10, <2>1, SeDecodesWhole DEF SeIInv
<1>13. /\ seB' \in [alive : BOOLEAN, greeted : 0..3, pollin : BOOLEAN, io : BOOLEAN,
                    out : Seq(SeGreeting)]
       /\ seB'.greeted = 3
  <2>1. CASE seB' = [seB EXCEPT !.io = FALSE, !.pollin = FALSE, !.alive = p.stuck]
    BY <1>3, <1>12, <2>1
  <2>2. CASE seB' = [seB EXCEPT !.pollin = p.taken = Len(units)]
    <3> DEFINE b == p.taken = Len(units)
    <3>1. b \in BOOLEAN /\ seB' = [seB EXCEPT !.pollin = b] BY <2>2
    <3> HIDE DEF b
    <3> QED BY <1>3, <3>1
  <2> QED BY <1>4, <2>1, <2>2
<1> QED BY <1>2, <1>3, <1>5, <1>6, <1>8, <1>10, <1>11, <1>13, SeDecodesKeeps

\* b gives up during the handshake.
LEMMA SeHandshakeFailsKeeps ==
    ASSUME SeIInv, SeHandshakeFails
    PROVE  SeIInv'
<1>1. seB' = [seB EXCEPT !.alive = FALSE] BY DEF SeHandshakeFails
<1>2. UNCHANGED <<seA, seEnc, seOut, seSent, seWire, seIn, seDec, sePipe, seTaken, seAcked, seBroken>>
  BY DEF SeHandshakeFails
<1>3. /\ seB' \in [alive : BOOLEAN, greeted : 0..3, pollin : BOOLEAN, io : BOOLEAN,
                   out : Seq(SeGreeting)]
      /\ seB'.greeted = seB.greeted
  BY <1>1 DEF SeIInv, SeReceiver
<1>4. SeReceiver' BY <1>2, <1>3 DEF SeIInv, SeReceiver
<1>5. SeDecoding' BY <1>2 DEF SeIInv, SeDecoding, SeWholeInOrder
<1>6. SeWaits' = SeWaits BY <1>2, <1>3 DEF SeWaits
<1> QED BY <1>2, <1>4, <1>5, <1>6, SeReceiverMoves

\* The application takes a message from the pipe.
LEMMA SeReceiveKeeps ==
    ASSUME SeIInv, SeReceive
    PROVE  SeIInv'
<1>1. UNCHANGED <<seA, seEnc, seOut, seSent, seWire, seB, seIn, seDec, sePipe, seAcked, seBroken>>
  BY DEF SeReceive
<1>2. SeReceiver' BY <1>1 DEF SeIInv, SeReceiver
<1>3. seTaken' \in 0..Len(sePipe') /\ seAcked' \in 0..seTaken'
  <2>1. Len(sePipe) \in Nat /\ seTaken \in 0..Len(sePipe) /\ seAcked \in 0..seTaken
        /\ seTaken < Len(sePipe) /\ seTaken' = seTaken + 1
    BY DEF SeIInv, SeDecoding, SeReceive
  <2> QED BY <1>1, <2>1
<1>4. SeDecoding' BY <1>1, <1>3 DEF SeIInv, SeDecoding, SeWholeInOrder
<1>5. SeWaits' = SeWaits BY <1>1 DEF SeWaits
<1> QED BY <1>1, <1>2, <1>4, <1>5, SeReceiverMoves

\* An acknowledgement arrives, and a stuck decoder goes on.
LEMMA SeActivateInKeeps ==
    ASSUME SeIInv, SeActivateIn
    PROVE  SeIInv'
<1> DEFINE acked == seAcked + SeLwm
<1>0. /\ acked <= seTaken /\ seAcked' = acked
      /\ UNCHANGED <<seA, seEnc, seOut, seSent, seWire, seTaken, seBroken>>
  BY DEF SeActivateIn
<1>1. Len(sePipe) \in Nat /\ seTaken \in 0..Len(sePipe) /\ seAcked \in 0..seTaken
      /\ Len(sePipe) - seAcked <= SeHwm
  BY DEF SeIInv, SeDecoding, SeWholeInOrder
<1>2. /\ acked \in 0..seTaken /\ acked \in seAcked..seTaken
      /\ Len(sePipe) - acked <= SeHwm /\ seTaken > 0
  <2>1. SeLwm \in Nat /\ SeLwm > 0 BY SeConstants DEF SeLwm
  <2> QED BY <1>0, <1>1, <2>1, SeConstants
<1>3. CASE seOutActive \/ ~seB.alive
  <2>1. UNCHANGED <<seB, seIn, seDec, sePipe>> BY <1>3 DEF SeActivateIn
  <2>2. SeReceiver' BY <2>1 DEF SeIInv, SeReceiver
  <2>3. SeDecoding' BY <1>0, <1>2, <2>1 DEF SeIInv, SeDecoding, SeWholeInOrder
  <2>4. SeWaits' = SeWaits BY <2>1 DEF SeWaits
  <2> QED BY <1>0, <2>1, <2>2, <2>3, <2>4, SeReceiverMoves
<1>4. CASE ~(seOutActive \/ ~seB.alive)
  <2> DEFINE p == SeProcess(SeDecoder(acked), seIn)
  <2>1. /\ SeDecoded(p)
        /\ seIn' = SubSeq(seIn, p.taken + 1, Len(seIn))
        /\ seB' = IF ~seB.io THEN [seB EXCEPT !.alive = p.stuck]
                  ELSE [seB EXCEPT !.pollin = p.taken = Len(seIn)]
    BY <1>4 DEF SeActivateIn
  <2>2. SeDecodes(p, seIn, acked) BY <2>1 DEF SeDecodes
  <2> HIDE DEF p, acked
  <2>3. seB \in [alive : BOOLEAN, greeted : 0..3, pollin : BOOLEAN, io : BOOLEAN,
                 out : Seq(SeGreeting)] /\ seB.greeted = 3
    <3>1. sePipe # <<>> BY <1>1, <1>2
    <3>2. seB \in [alive : BOOLEAN, greeted : 0..3, pollin : BOOLEAN, io : BOOLEAN,
                   out : Seq(SeGreeting)] /\ ~(seB.greeted < 3)
      BY <3>1 DEF SeIInv, SeReceiver
    <3>3. seB.greeted \in 0..3 BY <3>2
    <3>4. seB.greeted = 3 BY <3>2, <3>3
    <3> QED BY <3>2, <3>4
  <2>4. seIn \in Seq(SeUnits) /\ seWire \in Seq(SeUnits) BY DEF SeIInv, SeStream
  <2>5. PICK f : /\ SeChain(SeWaits, seIn \o seWire, f)
                 /\ SeLive => SeChain(f, seOut, SeSends(seA.greeted, seEnc))
    BY DEF SeIInv, SeStream
  <2>6. PICK x : SeChain(SeWaits, seIn, x) /\ SeChain(x, seWire, f) BY <2>4, <2>5, SeChainSplit
  <2>7. p.stuck \in BOOLEAN
    <3>1. SeWaits = SeDecNext(seDec.got, SeAt(seDec.ident, Len(sePipe))) BY <2>3, SeWaitsIs DEF SeIInv
    <3> QED BY <1>0, <1>2, <2>2, <2>6, <3>1, SeDecodesWhole DEF SeIInv
  <2>8. /\ seB' \in [alive : BOOLEAN, greeted : 0..3, pollin : BOOLEAN, io : BOOLEAN,
                     out : Seq(SeGreeting)]
        /\ seB'.greeted = 3
    <3>1. CASE seB' = [seB EXCEPT !.alive = p.stuck] BY <2>3, <2>7, <3>1
    <3>2. CASE seB' = [seB EXCEPT !.pollin = p.taken = Len(seIn)]
      <4> DEFINE b == p.taken = Len(seIn)
      <4>1. b \in BOOLEAN /\ seB' = [seB EXCEPT !.pollin = b] BY <3>2
      <4> HIDE DEF b
      <4> QED BY <2>3, <4>1
    <3> QED BY <2>1, <3>1, <3>2
  <2>9. seBroken = TRUE => seWire' = <<>> BY <1>0 DEF SeIInv
  <2>10. SeChain(x, seWire', f) BY <1>0, <2>6
  <2> QED BY <1>0, <1>2, <2>2, <2>3, <2>5, <2>6, <2>8, <2>9, <2>10, SeDecodesKeeps
<1> QED BY <1>3, <1>4

\* a's session ends; its engine stays for its buffer, or goes with it.
LEMMA SeTerminateKeeps ==
    ASSUME SeIInv, SeTerminate
    PROVE  SeIInv'
<1>1. UNCHANGED <<seEnc, seSent, seWire, seB, seIn, seDec, sePipe, seTaken, seAcked, seBroken>>
  BY DEF SeTerminate
<1>2. seA \in [alive : BOOLEAN, greeted : 0..3, pollout : BOOLEAN, starved : BOOLEAN,
               ending : BOOLEAN] /\ seOut \in Seq(SeUnits)
  BY DEF SeIInv, SeSender, SeStream
<1>3. CASE SeHasData(seEnc)
  <2>1. seA' = [seA EXCEPT !.ending = TRUE] /\ seOut' = seOut BY <1>3 DEF SeTerminate
  <2>2. /\ seA' \in [alive : BOOLEAN, greeted : 0..3, pollout : BOOLEAN, starved : BOOLEAN,
                     ending : BOOLEAN]
        /\ seA'.greeted = seA.greeted /\ seA'.alive = seA.alive
    BY <1>2, <2>1
  <2> QED BY <1>1, <1>2, <2>1, <2>2, SeFlagsKeep
<1>4. CASE ~SeHasData(seEnc)
  <2>1. seA' = [seA EXCEPT !.alive = FALSE] /\ seOut' = <<>> BY <1>4 DEF SeTerminate, SeDeleted
  <2>2. /\ seA' \in [alive : BOOLEAN, greeted : 0..3, pollout : BOOLEAN, starved : BOOLEAN,
                     ending : BOOLEAN]
        /\ seA'.greeted = seA.greeted /\ seA'.alive = FALSE
    BY <1>2, <2>1
  <2>3. seOut' \in Seq(SeUnits) BY <2>1
  <2> QED BY <1>1, <2>2, <2>3, SeFlagsKeep
<1> QED BY <1>3, <1>4

\* a finds the connection broken; it goes, or was ending already.
LEMMA SeErrorAKeeps ==
    ASSUME SeIInv, SeErrorA
    PROVE  SeIInv'
<1>1. UNCHANGED <<seEnc, seOut, seSent, seWire, seB, seIn, seDec, sePipe, seTaken, seAcked, seBroken>>
      /\ (seA' = [seA EXCEPT !.alive = FALSE] \/ seA' = seA)
  BY DEF SeErrorA, SeDeleted
<1>2. /\ seA' \in [alive : BOOLEAN, greeted : 0..3, pollout : BOOLEAN, starved : BOOLEAN,
                   ending : BOOLEAN]
      /\ seA'.greeted = seA.greeted /\ (seA'.alive = TRUE => seA.alive = TRUE)
  BY <1>1 DEF SeIInv, SeSender
<1>3. seOut' \in Seq(SeUnits) BY <1>1 DEF SeIInv, SeStream
<1> QED BY <1>1, <1>2, <1>3, SeFlagsKeep

\* The connection breaks: what b has already read is still a part of the stream.
LEMMA SeBreakKeeps ==
    ASSUME SeIInv, SeBreak
    PROVE  SeIInv'
<1>1. /\ UNCHANGED <<seA, seEnc, seOut, seSent, seB, seIn, seDec, sePipe, seTaken, seAcked>>
      /\ seWire' = <<>> /\ seBroken' = TRUE
  BY DEF SeBreak
<1>2. PICK f : SeChain(SeWaits, seIn \o seWire, f) BY DEF SeIInv, SeStream
<1>3. seIn \in Seq(SeUnits) /\ seWire \in Seq(SeUnits) /\ seOut \in Seq(SeUnits)
  BY DEF SeIInv, SeStream
<1>4. PICK x : SeChain(SeWaits, seIn, x) BY <1>2, <1>3, SeChainSplit
<1>5. SeWaits' = SeWaits BY <1>1 DEF SeWaits
<1>6. ~SeLive' BY <1>1 DEF SeLive
<1>7. SeStream'
  <2>1. seIn' \o seWire' = seIn BY <1>1, <1>3
  <2>2. SeChain(SeWaits', seIn' \o seWire', x) BY <1>4, <1>5, <2>1
  <2>3. seWire' \in Seq(SeUnits) BY <1>1
  <2> QED BY <1>1, <1>3, <1>6, <2>2, <2>3 DEF SeStream
<1>8. SeSender' BY <1>1 DEF SeIInv, SeSender
<1>9. SeReceiver' BY <1>1 DEF SeIInv, SeReceiver
<1>10. SeDecoding' BY <1>1 DEF SeIInv, SeDecoding, SeWholeInOrder
<1> QED BY <1>1, <1>7, <1>8, <1>9, <1>10 DEF SeIInv

\* The invariant holds when both engines are plugged.
LEMMA SeIInvInit ==
    ASSUME SeInit
    PROVE  SeIInv
<1>1. /\ seA = [alive |-> TRUE, greeted |-> 0, pollout |-> TRUE, starved |-> FALSE,
                ending |-> FALSE]
      /\ seEnc = [msg |-> 0, left |-> 0, head |-> TRUE]
      /\ seOut = <<SeHello(1), SeHello(2)>> /\ seSent = 0 /\ seWire = <<>>
      /\ seB = [alive |-> TRUE, greeted |-> 0, pollin |-> TRUE, io |-> TRUE,
                out |-> <<SeHello(1), SeHello(2)>>]
      /\ seIn = <<>> /\ seDec = SeFirst
      /\ sePipe = <<>> /\ seTaken = 0 /\ seAcked = 0 /\ seBroken = FALSE
  BY DEF SeInit, SeFirst
<1>2. SeHello(1) \in SeGreeting /\ SeHello(2) \in SeGreeting BY DEF SeGreeting
<1>3. SeGreeting \subseteq SeUnits BY DEF SeUnits
<1>4. SeSender
  <2>1. SeEncGood(seEnc, seSent) BY <1>1, SeConstants DEF SeEncGood, SeFollowing
  <2>2. seA \in [alive : BOOLEAN, greeted : 0..3, pollout : BOOLEAN, starved : BOOLEAN,
                 ending : BOOLEAN]
    BY <1>1
  <2> QED BY <1>1, <2>1, <2>2, SeConstants DEF SeSender, SeAtStart
<1>5. SeReceiver
  <2> DEFINE out == <<SeHello(1), SeHello(2)>>
  <2>1. out \in Seq(SeGreeting) BY <1>2
  <2>2. seB = [alive |-> TRUE, greeted |-> 0, pollin |-> TRUE, io |-> TRUE, out |-> out] BY <1>1
  <2> HIDE DEF out
  <2> QED BY <1>1, <2>1, <2>2 DEF SeReceiver
<1>6. SeDecoding
  <2>1. SeDecGood("flags", 1, <<>>, 0) BY DEF SeDecGood
  <2>2. seDec.step = "flags" /\ seDec.need = 1 /\ seDec.got = <<>> /\ seDec.ident = FALSE
        /\ SeAt(seDec.ident, Len(sePipe)) = 0
    BY <1>1 DEF SeFirst, SeAt
  <2>3. seDec \in [step : {"flags", "size", "body"}, need : Nat, got : Seq(SeUnits),
                   ident : BOOLEAN]
    <3>1. <<>> \in Seq(SeUnits) OBVIOUS
    <3> QED BY <1>1, <3>1 DEF SeFirst
  <2>4. SeWholeInOrder BY <1>1, SeConstants DEF SeWholeInOrder
  <2>5. sePipe \in Seq(Seq(SeUnits)) /\ seTaken \in 0..Len(sePipe) /\ seAcked \in 0..seTaken
    BY <1>1
  <2> QED BY <1>1, <2>1, <2>2, <2>3, <2>4, <2>5 DEF SeDecoding
<1>7. SeStream
  <2>1. SeChain(SeHello(1), <<SeHello(1)>>, SeHello(2))
    <3>1. SeSucc(SeHello(1)) = SeHello(2) BY DEF SeSucc, SeHello
    <3> QED BY <1>2, <1>3, <3>1, SeChainOne
  <2>2. SeChain(SeHello(2), <<SeHello(2)>>, SeHello(3))
    <3>1. SeSucc(SeHello(2)) = SeHello(3) BY DEF SeSucc, SeHello
    <3> QED BY <1>2, <1>3, <3>1, SeChainOne
  <2>3. SeChain(SeHello(1), <<SeHello(1)>> \o <<SeHello(2)>>, SeHello(3))
    BY <2>1, <2>2, SeChainJoin
  <2>4. <<SeHello(1)>> \o <<SeHello(2)>> = seOut
    <3> DEFINE q == <<SeHello(1)>> \o <<SeHello(2)>>
               o == <<SeHello(1), SeHello(2)>>
    <3>1. q \in Seq(SeGreeting) /\ o \in Seq(SeGreeting) /\ Len(q) = 2 /\ Len(o) = 2 BY <1>2
    <3>2. q[1] = o[1] /\ q[2] = o[2] OBVIOUS
    <3> HIDE DEF q, o
    <3>3. \A i \in 1..Len(q) : q[i] = o[i] BY <3>1, <3>2
    <3>4. q = o BY <3>1, <3>3, SeqEqual
    <3> QED BY <1>1, <3>4 DEF q, o
  <2>5. SeSends(seA.greeted, seEnc) = SeHello(3) BY <1>1 DEF SeSends
  <2>6. SeWaits = SeHello(1) BY <1>1 DEF SeWaits, SeExpected
  <2>7. seIn \o seWire = <<>> BY <1>1
  <2>8. SeChain(SeHello(1), <<>>, SeHello(1)) BY DEF SeChain
  <2>9. SeChain(SeWaits, seIn \o seWire, SeHello(1)) BY <2>6, <2>7, <2>8
  <2>10. SeChain(SeHello(1), seOut, SeSends(seA.greeted, seEnc)) BY <2>3, <2>4, <2>5
  <2>11. seOut \in Seq(SeUnits) BY <2>10 DEF SeChain
  <2> QED BY <1>1, <2>9, <2>10, <2>11 DEF SeStream
<1> QED BY <1>1, <1>4, <1>5, <1>6, <1>7 DEF SeIInv

\* Every step keeps it.
LEMMA SeIInvNext ==
    ASSUME SeIInv, [SeNext]_seVars
    PROVE  SeIInv'
<1>1. CASE SeSend BY <1>1, SeSendKeeps
<1>2. CASE SeFill BY <1>2, SeFillKeeps
<1>3. CASE SeWrite BY <1>3, SeWriteKeeps
<1>4. CASE SeGreetA BY <1>4, SeGreetAKeeps
<1>5. CASE SeGreetB BY <1>5, SeGreetBKeeps
<1>6. CASE SeWriteB BY <1>6, SeWriteBKeeps
<1>7. CASE SeRead BY <1>7, SeReadKeeps
<1>8. CASE SeActivateIn BY <1>8, SeActivateInKeeps
<1>9. CASE SeErrorA BY <1>9, SeErrorAKeeps
<1>10. CASE SeHandshakeFails BY <1>10, SeHandshakeFailsKeeps
<1>11. CASE SeReceive BY <1>11, SeReceiveKeeps
<1>12. CASE SeTerminate BY <1>12, SeTerminateKeeps
<1>13. CASE SeBreak BY <1>13, SeBreakKeeps
<1>14. CASE UNCHANGED seVars
  <2>1. UNCHANGED <<seA, seEnc, seOut, seSent, seWire, seB, seIn, seDec, sePipe, seTaken, seAcked,
                    seBroken>>
    BY <1>14 DEF seVars
  <2>2. SeReceiver' BY <2>1 DEF SeIInv, SeReceiver
  <2>3. SeDecoding' BY <2>1 DEF SeIInv, SeDecoding, SeWholeInOrder
  <2>4. SeWaits' = SeWaits BY <2>1 DEF SeWaits
  <2> QED BY <2>1, <2>2, <2>3, <2>4, SeReceiverMoves
<1> QED BY <1>1, <1>2, <1>3, <1>4, <1>5, <1>6, <1>7, <1>8, <1>9, <1>10, <1>11, <1>12, <1>13, <1>14
        DEF SeNext, SeEngines

\* However the engines' buffers and TCP cut the stream, and wherever a full pipe stalls the decoder
\* or the connection ends, the pipe of the receiving session holds the messages that were sent:
\* whole, in order, each once, none beyond the mark (decoder.hpp:93-164, stream_engine.cpp:195-340).
THEOREM SeKeepsMessagesWhole == SeSpec => []SeWholeInOrder
<1>1. SeInit => SeIInv BY SeIInvInit
<1>2. SeIInv /\ [SeNext]_seVars => SeIInv' BY SeIInvNext
<1>3. SeIInv => SeWholeInOrder BY DEF SeIInv, SeDecoding
<1> QED BY <1>1, <1>2, <1>3, PTL DEF SeSpec
=============================================================================
