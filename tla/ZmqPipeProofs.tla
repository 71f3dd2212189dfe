---------------------------- MODULE ZmqPipeProofs ----------------------------
(***************************************************************************)
(* Proof that a message pipe is safe (ZSafe) for every watermark, number   *)
(* of messages, of terminations and of hiccups.                            *)
(*                                                                         *)
(* The invariant has four parts beside the types: how far the shutdown has *)
(* come at one end determines how far it can have come at the other and    *)
(* which commands are on their way (ZShutdown); the upipe_t that were left *)
(* behind are deleted, and the hiccups on their way name the others in     *)
(* order (ZUpipes); what is flushed ends with a whole message, and the     *)
(* rest of a message that is being read is there (ZQueues, ZMiddle); and   *)
(* credit is conserved between two ends that are open (ZCredit).           *)
(***************************************************************************)
EXTENDS ZmqPipe, FiniteSetTheorems, SequenceTheorems, TLAPS

ZOpen == {"active", "delimited"}

(* The phase of an end: its state, or "gone" once it is deleted. *)
ZPhase(e) == IF e \in zAlive THEN zEnd[e].state ELSE "gone"

ZPhases == ZState \cup {"gone"}

ZHas(c, t) == \E i \in 1..Len(c) : c[i].type = t

(* A mailbox holds at most one pipe_term, which no hiccup follows, and        *)
(* nothing comes after an acknowledgement.                                     *)
ZOrdered(c) ==
    /\ \A i, j \in 1..Len(c) : c[i].type = "pipe_term" =>
            /\ c[j].type = "pipe_term" => i = j
            /\ c[j].type = "hiccup" => j < i
    /\ \A i \in 1..Len(c) : c[i].type = "pipe_term_ack" => i = Len(c)

(* The phases that two ends can be in at the same time. *)
ZMeets(a, b) ==
    /\ a \in ZOpen => b \in ZOpen \cup {"terminated"}
    /\ a = "pending" => b = "terminated"
    /\ a = "terminating" => b \in {"terminated", "gone"}
    /\ a = "terminated" => b \notin {"gone"}
    /\ a = "double_terminated" => b \in {"terminated", "double_terminated", "gone"}
    /\ a = "gone" => b \in {"terminating", "double_terminated", "gone"}

(* What is on its way to an end in phase a from one in phase b. *)
ZFlow(a, b, c) ==
    /\ ZOrdered(c)
    /\ ZHas(c, "pipe_term") <=> /\ a \in ZOpen \cup {"terminated"}
                                /\ b \in {"terminated", "double_terminated"}
    /\ ZHas(c, "pipe_term_ack") <=>
            \/ a = "terminated" /\ b \in {"terminating", "double_terminated"}
            \/ a = "double_terminated" /\ b \in {"double_terminated", "gone"}
            \/ a = "terminating" /\ b = "gone"
    /\ ZHas(c, "hiccup") => a \in ZOpen \cup {"terminated"}
    /\ a = "gone" => c = <<>>

ZControl(a, b, ca, cb) ==
    ZMeets(a, b) /\ ZMeets(b, a) /\ ZFlow(a, b, ca) /\ ZFlow(b, a, cb)

ZControlOf(e) == ZControl(ZPhase(e), ZPhase(ZPeer(e)), zChan[e], zChan[ZPeer(e)])

ZShutdown ==
    /\ ZControlOf("session")
    /\ \A e \in zAlive :
            zEnd[e].out = ZNone <=> zEnd[e].state \in {"terminating", "double_terminated"}

(* The upipe_t from the socket to the session, oldest first: the one that the *)
(* session reads from is the newest, and the socket writes to one of them.     *)
ZToSession(made) == {1} \cup 3..made
ZNewest(made) == IF made = 2 THEN 1 ELSE made
ZWritten ==
    IF "socket" \in zAlive /\ zEnd["socket"].out # ZNone
    THEN zEnd["socket"].out ELSE ZNewest(zMade)

ZDropped ==
    {u \in ZToSession(zMade) : u < ZWritten}
        \cup (IF "session" \in zAlive THEN {} ELSE {ZNewest(zMade)})
        \cup (IF "socket" \in zAlive THEN {} ELSE {2})

(* The hiccups in c name the upipe_t after w, in order. *)
ZNames(c, w, made) ==
    /\ \A i \in 1..Len(c) : c[i].type = "hiccup" =>
            c[i].pipe \in ZToSession(made) /\ w < c[i].pipe
    /\ \A i, j \in 1..Len(c) :
            c[i].type = "hiccup" /\ c[j].type = "hiccup" /\ i < j => c[i].pipe < c[j].pipe
    /\ \A u \in ZToSession(made) : w < u =>
            \E i \in 1..Len(c) : c[i].type = "hiccup" /\ c[i].pipe = u

ZUpipes ==
    /\ zMade >= 2
    /\ "session" \in zAlive =>
            zEnd["session"].in = ZNewest(zMade) /\ zEnd["session"].out \in {2, ZNone}
    /\ "socket" \in zAlive => zEnd["socket"].in = 2
    /\ ZWritten \in ZToSession(zMade)
    /\ ~ZHas(zChan["session"], "hiccup")
    /\ ZNames(zChan["socket"], ZWritten, zMade)
    /\ zFreed = ZDropped

(* An upipe_t: what is complete ends with the last part of a message or the   *)
(* delimiter, and so does what is flushed; the rest is an unfinished message;  *)
(* the delimiter does not interrupt a message.                                 *)
ZItem == {"more", "last", "delimiter"}

ZGood(q) ==
    /\ q \in [items : Seq(ZItem), complete : Nat, flushed : Nat, asleep : BOOLEAN]
    /\ q.flushed <= q.complete /\ q.complete <= Len(q.items)
    /\ q.complete > 0 => q.items[q.complete] # "more"
    /\ q.flushed > 0 => q.items[q.flushed] # "more"
    /\ \A i \in 1..Len(q.items) : q.complete < i => q.items[i] = "more"
    /\ \A i \in 2..Len(q.items) : q.items[i] = "delimiter" => q.items[i - 1] # "more"

(* The rest of a message can be read. *)
ZRestReady(q) == q.flushed > 0 /\ ~q.asleep /\ q.items[1] # "delimiter"

ZQueues == \A u \in ZUpipe : ZGood(zQueue[u])

(* The upipe_t that an end reads from. *)
ZInOf(e, made) == IF e = "session" THEN ZNewest(made) ELSE 2

(* The rest of a message that an end has begun to read is there, ... *)
ZMiddle ==
    /\ zMid \subseteq zAlive
    /\ \A e \in zMid : ZRestReady(zQueue[ZInOf(e, zMade)])

(* ... and the end is awake. *)
ZAwake == \A e \in zMid : zEnd[e].inActive = TRUE

(* Credit, of a writer that has written w messages and believes k of them to be *)
(* read, while the reader has read r, n are left in the upipe_t and c is on its *)
(* way to the writer: reports in c do not go back, and the last one, or k if    *)
(* there is none, is the last multiple of the low watermark.                    *)
ZLasts(s) == {i \in 1..Len(s) : s[i] = "last"}
ZLeft(q) == Cardinality(ZLasts(q.items))
ZFloor(n) == n - (n % ZLwm)

ZReports(c, k, r) ==
    /\ k <= r
    /\ \A i \in 1..Len(c) : c[i].type = "activate_write" => k <= c[i].read /\ c[i].read <= r
    /\ \A i, j \in 1..Len(c) :
          c[i].type = "activate_write" /\ c[j].type = "activate_write" /\ i < j =>
              c[i].read <= c[j].read

ZCaughtUp(c, k, r) ==
    \/ ~ZHas(c, "activate_write") /\ k = ZFloor(r)
    \/ \E i \in 1..Len(c) :
          /\ c[i].type = "activate_write" /\ c[i].read = ZFloor(r)
          /\ \A j \in 1..Len(c) : i < j => c[j].type # "activate_write"

ZBalance(w, k, r, n, c) ==
    /\ w = n + r
    /\ ZReports(c, k, r)
    /\ ZHwm > 0 => w - k <= ZHwm /\ ZCaughtUp(c, k, r)

ZOutOf(e) == IF e = "session" THEN 2 ELSE 1

ZCreditOf(e) ==
    ZBalance(zEnd[e].written, zEnd[e].peersRead, zEnd[ZPeer(e)].read,
             ZLeft(zQueue[ZOutOf(e)]), zChan[e])

ZCredit == zMade = 2 /\ zAlive = ZEnd => \A e \in ZEnd : ZCreditOf(e)

-----------------------------------------------------------------------------
(* Mailboxes *)

(* A command is taken from a mailbox. *)
LEMMA ZTailOf ==
    ASSUME NEW S, NEW c \in Seq(S), c # <<>>
    PROVE  /\ Tail(c) \in Seq(S)
           /\ Len(c) \in Nat \ {0} /\ Len(Tail(c)) = Len(c) - 1
           /\ \A i \in 1..(Len(c) - 1) : Tail(c)[i] = c[i + 1]
           /\ Head(c) = c[1] /\ c[1] \in S
           /\ \A t : ZHas(c, t) <=> c[1].type = t \/ ZHas(Tail(c), t)
<1>1. Len(c) \in Nat \ {0}
  BY EmptySeq
<1>2. Tail(c) \in Seq(S) /\ Len(Tail(c)) = Len(c) - 1
  BY HeadTailProperties
<1>3. \A i \in 1..(Len(c) - 1) : Tail(c)[i] = c[i + 1]
  BY <1>2, HeadTailProperties
<1>4. Head(c) = c[1] /\ c[1] \in S
  BY <1>1, ElementOfSeq
<1>5. ASSUME NEW t PROVE ZHas(c, t) <=> c[1].type = t \/ ZHas(Tail(c), t)
  <2>1. ASSUME ZHas(c, t), c[1].type # t PROVE ZHas(Tail(c), t)
    <3>1. PICK i \in 1..Len(c) : c[i].type = t BY <2>1 DEF ZHas
    <3>2. i - 1 \in 1..(Len(c) - 1) BY <3>1, <2>1, <1>1
    <3>3. Tail(c)[i - 1] = c[i] BY <3>2, <1>3, <1>1
    <3> QED BY <3>1, <3>2, <3>3, <1>2 DEF ZHas
  <2>2. ASSUME c[1].type = t PROVE ZHas(c, t)
    BY <2>2, <1>1 DEF ZHas
  <2>3. ASSUME ZHas(Tail(c), t) PROVE ZHas(c, t)
    <3>1. PICK i \in 1..(Len(c) - 1) : Tail(c)[i].type = t BY <2>3, <1>2 DEF ZHas
    <3>2. i + 1 \in 1..Len(c) /\ c[i + 1].type = t BY <3>1, <1>1, <1>3
    <3> QED BY <3>2 DEF ZHas
  <2> QED BY <2>1, <2>2, <2>3
<1> QED BY <1>1, <1>2, <1>3, <1>4, <1>5

(* The order of the commands survives when the first one is taken. *)
LEMMA ZOrderedTail ==
    ASSUME NEW S, NEW c \in Seq(S), c # <<>>, ZOrdered(c)
    PROVE  /\ ZOrdered(Tail(c))
           /\ c[1].type = "pipe_term" => ~ZHas(Tail(c), "pipe_term") /\ ~ZHas(Tail(c), "hiccup")
           /\ c[1].type = "pipe_term_ack" => Tail(c) = <<>>
<1> DEFINE d == Tail(c)
<1>1. /\ Len(c) \in Nat \ {0} /\ d \in Seq(S) /\ Len(d) = Len(c) - 1
      /\ \A i \in 1..Len(d) : d[i] = c[i + 1] /\ i + 1 \in 1..Len(c)
  BY ZTailOf
<1> HIDE DEF d
<1>2. ZOrdered(d)
  <2>1. ASSUME NEW i \in 1..Len(d), NEW j \in 1..Len(d), d[i].type = "pipe_term"
        PROVE  (d[j].type = "pipe_term" => i = j) /\ (d[j].type = "hiccup" => j < i)
    BY <2>1, <1>1 DEF ZOrdered
  <2>2. ASSUME NEW i \in 1..Len(d), d[i].type = "pipe_term_ack" PROVE i = Len(d)
    BY <2>2, <1>1 DEF ZOrdered
  <2> QED BY <2>1, <2>2 DEF ZOrdered
<1>3. ASSUME c[1].type = "pipe_term" PROVE ~ZHas(d, "pipe_term") /\ ~ZHas(d, "hiccup")
  BY <1>3, <1>1 DEF ZOrdered, ZHas
<1>4. ASSUME c[1].type = "pipe_term_ack" PROVE d = <<>>
  <2>1. 1 = Len(c) BY <1>4, <1>1 DEF ZOrdered
  <2> QED BY <2>1, <1>1, EmptySeq
<1> QED BY <1>2, <1>3, <1>4 DEF d

(* Commands are put behind those in a mailbox. *)
LEMMA ZHasConcat ==
    ASSUME NEW S, NEW c \in Seq(S), NEW d \in Seq(S), NEW t
    PROVE  ZHas(c \o d, t) <=> ZHas(c, t) \/ ZHas(d, t)
<1>1. /\ Len(c) \in Nat /\ Len(d) \in Nat /\ Len(c \o d) = Len(c) + Len(d)
      /\ \A i \in 1..(Len(c) + Len(d)) :
            (c \o d)[i] = IF i <= Len(c) THEN c[i] ELSE d[i - Len(c)]
  BY ConcatProperties
<1>2. ASSUME ZHas(c \o d, t), ~ZHas(c, t) PROVE ZHas(d, t)
  <2>1. PICK i \in 1..(Len(c) + Len(d)) : (c \o d)[i].type = t BY <1>1, <1>2 DEF ZHas
  <2>2. ~(i <= Len(c)) BY <1>1, <1>2, <2>1 DEF ZHas
  <2>3. i - Len(c) \in 1..Len(d) /\ d[i - Len(c)].type = t BY <1>1, <2>1, <2>2
  <2> QED BY <2>3 DEF ZHas
<1>3. ASSUME ZHas(c, t) PROVE ZHas(c \o d, t)
  <2>1. PICK i \in 1..Len(c) : c[i].type = t BY <1>3 DEF ZHas
  <2>2. i \in 1..(Len(c) + Len(d)) /\ (c \o d)[i].type = t BY <1>1, <2>1
  <2> QED BY <2>2, <1>1 DEF ZHas
<1>4. ASSUME ZHas(d, t) PROVE ZHas(c \o d, t)
  <2>1. PICK i \in 1..Len(d) : d[i].type = t BY <1>4 DEF ZHas
  <2>2. Len(c) + i \in 1..(Len(c) + Len(d)) /\ (c \o d)[Len(c) + i].type = t BY <1>1, <2>1
  <2> QED BY <2>2, <1>1 DEF ZHas
<1> QED BY <1>2, <1>3, <1>4

(* It survives when commands are put behind that may stand there. *)
LEMMA ZOrderedConcat ==
    ASSUME NEW S, NEW c \in Seq(S), NEW d \in Seq(S), ZOrdered(c), ZOrdered(d),
           d # <<>> => ~ZHas(c, "pipe_term_ack"),
           ZHas(c, "pipe_term") => ~ZHas(d, "pipe_term") /\ ~ZHas(d, "hiccup")
    PROVE  ZOrdered(c \o d)
<1> DEFINE x == c \o d
<1>1. /\ Len(c) \in Nat /\ Len(d) \in Nat /\ Len(x) = Len(c) + Len(d)
      /\ \A i \in 1..Len(x) : x[i] = IF i <= Len(c) THEN c[i] ELSE d[i - Len(c)]
  BY ConcatProperties
<1> HIDE DEF x
<1>2. /\ \A i \in 1..Len(x) : i <= Len(c) => i \in 1..Len(c)
      /\ \A i \in 1..Len(x) : ~(i <= Len(c)) => i - Len(c) \in 1..Len(d)
  BY <1>1
<1>3. ASSUME NEW i \in 1..Len(x), NEW j \in 1..Len(x), x[i].type = "pipe_term"
      PROVE  (x[j].type = "pipe_term" => i = j) /\ (x[j].type = "hiccup" => j < i)
  <2>1. CASE i <= Len(c) /\ j <= Len(c)
    BY <1>1, <1>2, <1>3, <2>1 DEF ZOrdered
  <2>2. CASE i <= Len(c) /\ ~(j <= Len(c))
    <3>1. ZHas(c, "pipe_term") BY <1>1, <1>2, <1>3, <2>2 DEF ZHas
    <3>2. x[j] = d[j - Len(c)] /\ j - Len(c) \in 1..Len(d) BY <1>1, <1>2, <2>2
    <3> QED BY <3>1, <3>2 DEF ZHas
  <2>3. CASE ~(i <= Len(c)) /\ j <= Len(c)
    <3>1. ZHas(d, "pipe_term") BY <1>1, <1>2, <1>3, <2>3 DEF ZHas
    <3>2. x[j] = c[j] /\ j \in 1..Len(c) BY <1>1, <1>2, <2>3
    <3>3. x[j].type # "pipe_term" BY <3>1, <3>2 DEF ZHas
    <3> QED BY <3>3, <2>3, <1>1
  <2>4. CASE ~(i <= Len(c)) /\ ~(j <= Len(c))
    <3>1. /\ x[i] = d[i - Len(c)] /\ i - Len(c) \in 1..Len(d)
          /\ x[j] = d[j - Len(c)] /\ j - Len(c) \in 1..Len(d)
      BY <1>1, <1>2, <2>4
    <3>2. /\ x[j].type = "pipe_term" => i - Len(c) = j - Len(c)
          /\ x[j].type = "hiccup" => j - Len(c) < i - Len(c)
      BY <3>1, <1>3 DEF ZOrdered
    <3> QED BY <3>2, <1>1
  <2> QED BY <2>1, <2>2, <2>3, <2>4
<1>4. ASSUME NEW i \in 1..Len(x), x[i].type = "pipe_term_ack" PROVE i = Len(x)
  <2>1. CASE i <= Len(c)
    <3>1. ZHas(c, "pipe_term_ack") BY <1>1, <1>2, <1>4, <2>1 DEF ZHas
    <3>2. Len(d) = 0 BY <3>1
    <3> QED BY <3>2, <2>1, <1>1, <1>2, <1>4 DEF ZOrdered
  <2>2. CASE ~(i <= Len(c))
    <3>1. i - Len(c) = Len(d) BY <1>1, <1>2, <1>4, <2>2 DEF ZOrdered
    <3> QED BY <3>1, <1>1
  <2> QED BY <2>1, <2>2
<1> QED BY <1>3, <1>4 DEF ZOrdered, x

(* The commands that one step sends. *)
LEMMA ZNothingSent ==
    /\ <<>> \in Seq(ZCommand) /\ ZOrdered(<<>>) /\ \A t : ~ZHas(<<>>, t)
BY DEF ZOrdered, ZHas

(* One command is sent. *)
LEMMA ZOneSent ==
    ASSUME NEW m \in ZCommand
    PROVE  /\ <<m>> \in Seq(ZCommand) /\ ZOrdered(<<m>>)
           /\ \A t : ZHas(<<m>>, t) <=> m.type = t
<1>1. <<m>> \in Seq(ZCommand) /\ Len(<<m>>) = 1 /\ <<m>>[1] = m
  OBVIOUS
<1>2. 1..1 = {1}
  OBVIOUS
<1> QED BY <1>1, <1>2 DEF ZOrdered, ZHas

-----------------------------------------------------------------------------
(* The shutdown, as a game between an end in phase a, to which ca is on its  *)
(* way, and its peer in phase b, to which cb is.                               *)

(* The two ends are alike. *)
LEMMA ZControlSym ==
    ASSUME NEW a, NEW b, NEW ca, NEW cb
    PROVE  ZControl(a, b, ca, cb) <=> ZControl(b, a, cb, ca)
BY DEF ZControl

(* Commands that are not part of the shutdown. *)
LEMMA ZControlSends ==
    ASSUME NEW a \in ZPhases, NEW b \in ZPhases,
           NEW ca \in Seq(ZCommand), NEW cb \in Seq(ZCommand), NEW d \in Seq(ZCommand),
           ZControl(a, b, ca, cb), ZOrdered(d),
           ~ZHas(d, "pipe_term"), ~ZHas(d, "pipe_term_ack"),
           ZHas(d, "hiccup") => a \in ZOpen,
           d # <<>> => a \in ZOpen \cup {"pending", "terminated"}
    PROVE  cb \o d \in Seq(ZCommand) /\ ZControl(a, b, ca, cb \o d)
<1>1. CASE d = <<>>
  BY <1>1, ConcatEmptySeq
<1>2. CASE d # <<>>
  <2>1. b # "gone" /\ ~ZHas(cb, "pipe_term_ack")
    BY <1>2 DEF ZControl, ZMeets, ZFlow, ZOpen
  <2>2. ZHas(d, "hiccup") => ~ZHas(cb, "pipe_term") /\ b \in ZOpen \cup {"terminated"}
    BY DEF ZControl, ZMeets, ZFlow, ZOpen
  <2>3. ZOrdered(cb \o d)
    BY <2>1, <2>2, ZOrderedConcat DEF ZControl, ZFlow
  <2>4. \A t : ZHas(cb \o d, t) <=> ZHas(cb, t) \/ ZHas(d, t)
    BY ZHasConcat
  <2>5. ZFlow(b, a, cb \o d)
    BY <2>1, <2>2, <2>3, <2>4 DEF ZControl, ZFlow
  <2> QED BY <2>5, ConcatProperties DEF ZControl
<1> QED BY <1>1, <1>2

(* A command that is not part of the shutdown is taken. *)
LEMMA ZControlTakes ==
    ASSUME NEW a \in ZPhases, NEW b \in ZPhases,
           NEW ca \in Seq(ZCommand), NEW cb, ca # <<>>,
           ZControl(a, b, ca, cb), ca[1].type \notin {"pipe_term", "pipe_term_ack"}
    PROVE  Tail(ca) \in Seq(ZCommand) /\ ZControl(a, b, Tail(ca), cb)
<1>1. \A t : ZHas(ca, t) <=> ca[1].type = t \/ ZHas(Tail(ca), t)
  BY ZTailOf
<1>2. ZOrdered(Tail(ca)) /\ Tail(ca) \in Seq(ZCommand)
  BY ZOrderedTail, ZTailOf DEF ZControl, ZFlow
<1> QED BY <1>1, <1>2 DEF ZControl, ZFlow

(* The delimiter is read. *)
LEMMA ZControlOpen ==
    ASSUME NEW a \in ZOpen, NEW a2 \in ZOpen, NEW b \in ZPhases, NEW ca, NEW cb,
           ZControl(a, b, ca, cb)
    PROVE  ZControl(a2, b, ca, cb)
BY DEF ZControl, ZFlow, ZMeets, ZOpen

(* terminate() of an end that was not asked to. *)
LEMMA ZControlTerminates ==
    ASSUME NEW a \in ZOpen, NEW b \in ZPhases,
           NEW ca \in Seq(ZCommand), NEW cb \in Seq(ZCommand), NEW d \in Seq(ZCommand),
           ZControl(a, b, ca, cb), ZOrdered(d),
           ZHas(d, "pipe_term"), ~ZHas(d, "pipe_term_ack"), ~ZHas(d, "hiccup")
    PROVE  cb \o d \in Seq(ZCommand) /\ ZControl("terminated", b, ca, cb \o d)
<1>1. b \in ZOpen \cup {"terminated"} /\ ~ZHas(cb, "pipe_term_ack") /\ ~ZHas(cb, "pipe_term")
  BY DEF ZControl, ZMeets, ZFlow, ZOpen
<1>2. ZOrdered(cb \o d)
  BY <1>1, ZOrderedConcat DEF ZControl, ZFlow
<1>3. \A t : ZHas(cb \o d, t) <=> ZHas(cb, t) \/ ZHas(d, t)
  BY ZHasConcat
<1>4. ZFlow(b, "terminated", cb \o d)
  BY <1>1, <1>2, <1>3 DEF ZControl, ZFlow, ZOpen
<1>5. ZFlow("terminated", b, ca)
  BY <1>1 DEF ZControl, ZFlow, ZOpen
<1>6. ZMeets("terminated", b) /\ ZMeets(b, "terminated")
  BY <1>1 DEF ZMeets, ZOpen
<1> QED BY <1>4, <1>5, <1>6, ConcatProperties DEF ZControl

(* The delayed answer to pipe_term. *)
LEMMA ZControlAnswers ==
    ASSUME NEW b \in ZPhases,
           NEW ca \in Seq(ZCommand), NEW cb \in Seq(ZCommand), NEW d \in Seq(ZCommand),
           ZControl("pending", b, ca, cb), ZOrdered(d),
           ~ZHas(d, "pipe_term"), ZHas(d, "pipe_term_ack"), ~ZHas(d, "hiccup")
    PROVE  cb \o d \in Seq(ZCommand) /\ ZControl("terminating", b, ca, cb \o d)
<1>1. b = "terminated" /\ ~ZHas(cb, "pipe_term_ack") /\ ~ZHas(cb, "pipe_term")
  BY DEF ZControl, ZMeets, ZFlow, ZOpen
<1>2. ZOrdered(cb \o d)
  BY <1>1, ZOrderedConcat DEF ZControl, ZFlow
<1>3. \A t : ZHas(cb \o d, t) <=> ZHas(cb, t) \/ ZHas(d, t)
  BY ZHasConcat
<1>4. ZFlow(b, "terminating", cb \o d)
  BY <1>1, <1>2, <1>3 DEF ZControl, ZFlow, ZOpen
<1>5. ZFlow("terminating", b, ca)
  BY <1>1 DEF ZControl, ZFlow, ZOpen
<1>6. ZMeets("terminating", b) /\ ZMeets(b, "terminating")
  BY <1>1 DEF ZMeets, ZOpen
<1> QED BY <1>4, <1>5, <1>6, ConcatProperties DEF ZControl

(* pipe_term arrives: only at an end that does not know of it yet. *)
LEMMA ZControlPipeTerm ==
    ASSUME NEW a \in ZPhases, NEW b \in ZPhases,
           NEW ca \in Seq(ZCommand), NEW cb \in Seq(ZCommand), NEW d \in Seq(ZCommand),
           ca # <<>>, ca[1].type = "pipe_term", ZControl(a, b, ca, cb), ZOrdered(d),
           ~ZHas(d, "pipe_term"), ZHas(d, "pipe_term_ack"), ~ZHas(d, "hiccup")
    PROVE  /\ Tail(ca) \in Seq(ZCommand) /\ cb \o d \in Seq(ZCommand)
           /\ a \in ZOpen \cup {"terminated"}
           /\ a \in ZOpen => /\ ZControl("pending", b, Tail(ca), cb)
                             /\ ZControl("terminating", b, Tail(ca), cb \o d)
           /\ a = "terminated" => ZControl("double_terminated", b, Tail(ca), cb \o d)
<1>1. \A t : ZHas(ca, t) <=> ca[1].type = t \/ ZHas(Tail(ca), t)
  BY ZTailOf
<1>2. /\ ZOrdered(Tail(ca)) /\ Tail(ca) \in Seq(ZCommand)
      /\ ~ZHas(Tail(ca), "pipe_term") /\ ~ZHas(Tail(ca), "hiccup")
  BY ZOrderedTail, ZTailOf DEF ZControl, ZFlow
<1>3. a \in ZOpen \cup {"terminated"} /\ b \in {"terminated", "double_terminated"}
  BY <1>1 DEF ZControl, ZFlow
<1>4. ~ZHas(cb, "pipe_term_ack")
  BY <1>3 DEF ZControl, ZFlow, ZMeets, ZOpen
<1>5. ZOrdered(cb \o d) /\ cb \o d \in Seq(ZCommand)
  BY <1>4, ZOrderedConcat, ConcatProperties DEF ZControl, ZFlow
<1>6. \A t : ZHas(cb \o d, t) <=> ZHas(cb, t) \/ ZHas(d, t)
  BY ZHasConcat
<1>7. CASE a \in ZOpen
  <2>1. b = "terminated" /\ ~ZHas(cb, "pipe_term") /\ ~ZHas(Tail(ca), "pipe_term_ack")
    BY <1>1, <1>3, <1>7 DEF ZControl, ZFlow, ZMeets, ZOpen
  <2>2. ZFlow("pending", b, Tail(ca)) /\ ZFlow("terminating", b, Tail(ca))
    BY <1>2, <2>1 DEF ZFlow, ZOpen
  <2>3. ZFlow(b, "pending", cb) /\ ZFlow(b, "terminating", cb \o d)
    BY <1>4, <1>5, <1>6, <2>1 DEF ZControl, ZFlow, ZOpen
  <2>4. /\ ZMeets("pending", b) /\ ZMeets(b, "pending")
        /\ ZMeets("terminating", b) /\ ZMeets(b, "terminating")
    BY <2>1 DEF ZMeets, ZOpen
  <2> QED BY <1>2, <1>3, <1>5, <1>7, <2>2, <2>3, <2>4 DEF ZControl, ZOpen
<1>8. CASE a = "terminated"
  <2>1. ZFlow("double_terminated", b, Tail(ca))
    BY <1>1, <1>2, <1>3, <1>8 DEF ZControl, ZFlow, ZOpen
  <2>2. ZFlow(b, "double_terminated", cb \o d)
    BY <1>3, <1>4, <1>5, <1>6, <1>8 DEF ZControl, ZFlow, ZOpen
  <2>3. ZMeets("double_terminated", b) /\ ZMeets(b, "double_terminated")
    BY <1>3 DEF ZMeets, ZOpen
  <2> QED BY <1>2, <1>3, <1>5, <1>8, <2>1, <2>2, <2>3 DEF ZControl, ZOpen
<1> QED BY <1>3, <1>7, <1>8

(* pipe_term_ack arrives: only at an end that waits for it, and last. *)
LEMMA ZControlAck ==
    ASSUME NEW a \in ZPhases, NEW b \in ZPhases,
           NEW ca \in Seq(ZCommand), NEW cb \in Seq(ZCommand), NEW d \in Seq(ZCommand),
           ca # <<>>, ca[1].type = "pipe_term_ack", ZControl(a, b, ca, cb), ZOrdered(d),
           ~ZHas(d, "pipe_term"), ZHas(d, "pipe_term_ack"), ~ZHas(d, "hiccup")
    PROVE  /\ Tail(ca) = <<>> /\ cb \o d \in Seq(ZCommand)
           /\ a \in {"terminated", "terminating", "double_terminated"}
           /\ a = "terminated" => ZControl("gone", b, Tail(ca), cb \o d)
           /\ a # "terminated" => ZControl("gone", b, Tail(ca), cb)
<1>1. \A t : ZHas(ca, t) <=> ca[1].type = t \/ ZHas(Tail(ca), t)
  BY ZTailOf
<1>2. Tail(ca) = <<>>
  BY ZOrderedTail DEF ZControl, ZFlow
<1>3. ZOrdered(Tail(ca)) /\ \A t : ~ZHas(Tail(ca), t)
  BY <1>2, ZNothingSent
<1>4. /\ a \in {"terminated", "terminating", "double_terminated"}
      /\ a = "terminated" => b = "terminating"
      /\ a = "terminating" => b = "gone"
      /\ a = "double_terminated" => b \in {"double_terminated", "gone"}
  BY <1>1, <1>3 DEF ZControl, ZFlow, ZOpen
<1>5. cb \o d \in Seq(ZCommand)
  BY ConcatProperties
<1>6. ZFlow("gone", b, Tail(ca))
  BY <1>2, <1>3 DEF ZFlow, ZOpen
<1>7. CASE a = "terminated"
  <2>1. ~ZHas(cb, "pipe_term_ack") /\ ~ZHas(cb, "pipe_term")
    BY <1>4, <1>7 DEF ZControl, ZFlow, ZOpen
  <2>2. ZOrdered(cb \o d)
    BY <2>1, ZOrderedConcat DEF ZControl, ZFlow
  <2>3. \A t : ZHas(cb \o d, t) <=> ZHas(cb, t) \/ ZHas(d, t)
    BY ZHasConcat
  <2>4. ZFlow(b, "gone", cb \o d)
    BY <1>4, <1>7, <2>1, <2>2, <2>3 DEF ZControl, ZFlow, ZOpen
  <2>5. ZMeets("gone", b) /\ ZMeets(b, "gone")
    BY <1>4, <1>7 DEF ZMeets, ZOpen
  <2> QED BY <1>2, <1>4, <1>5, <1>6, <1>7, <2>4, <2>5 DEF ZControl
<1>8. CASE a # "terminated"
  <2>1. ZFlow(b, "gone", cb)
    BY <1>4, <1>8 DEF ZControl, ZFlow, ZOpen
  <2>2. ZMeets("gone", b) /\ ZMeets(b, "gone")
    BY <1>4, <1>8 DEF ZMeets, ZOpen
  <2> QED BY <1>2, <1>4, <1>5, <1>6, <1>8, <2>1, <2>2 DEF ZControl
<1> QED BY <1>7, <1>8

-----------------------------------------------------------------------------
(* The flush queue *)

(* A new upipe_t. *)
LEMMA ZEmptyIsGood == ZGood(ZEmpty)
<1>1. Len(ZEmpty.items) = 0 /\ ZEmpty.items \in Seq(ZItem) /\ ZEmpty.items = <<>>
  BY DEF ZEmpty
<1> QED BY <1>1 DEF ZEmpty, ZGood

(* A part is written.  The delimiter is written after a rollback. *)
LEMMA ZPutIsGood ==
    ASSUME NEW q, NEW part \in ZItem, ZGood(q),
           part = "delimiter" => q.complete = Len(q.items)
    PROVE  /\ ZGood(ZPut(q, part))
           /\ ZPut(q, part).items = Append(q.items, part)
           /\ ZPut(q, part).flushed = q.flushed
           /\ ZPut(q, part).asleep = q.asleep
           /\ ZRestReady(q) => ZRestReady(ZPut(q, part))
<1> DEFINE r == ZPut(q, part)
           n == Len(q.items)
<1>1. /\ q.items \in Seq(ZItem) /\ n \in Nat /\ q.complete \in Nat /\ q.flushed \in Nat
      /\ q.complete <= n /\ q.flushed <= q.complete
  BY DEF ZGood
<1>2. /\ r \in [items : Seq(ZItem), complete : Nat, flushed : Nat, asleep : BOOLEAN]
      /\ r.items = Append(q.items, part) /\ r.flushed = q.flushed /\ r.asleep = q.asleep
      /\ r.complete = IF part = "more" THEN q.complete ELSE n + 1
  <2>1. Append(q.items, part) \in Seq(ZItem) /\ n + 1 \in Nat
    BY <1>1
  <2>2. q \in [items : Seq(ZItem), complete : Nat, flushed : Nat, asleep : BOOLEAN]
    BY DEF ZGood
  <2>3. CASE part = "more"
    BY <2>1, <2>2, <2>3 DEF ZPut
  <2>4. CASE part # "more"
    <3>1. r = [q EXCEPT !.items = Append(@, part), !.complete = n + 1]
      BY <2>4 DEF ZPut
    <3> HIDE DEF r, n
    <3> QED BY <2>1, <2>2, <2>4, <3>1
  <2> QED BY <2>3, <2>4
<1>3. /\ Len(r.items) = n + 1
      /\ \A i \in 1..n : r.items[i] = q.items[i]
      /\ r.items[n + 1] = part
  BY <1>1, <1>2, AppendProperties
<1> HIDE DEF r, n
<1>4. /\ r.complete > 0 => r.items[r.complete] # "more"
      /\ r.flushed > 0 => r.items[r.flushed] # "more"
      /\ r.flushed <= r.complete /\ r.complete <= Len(r.items)
  BY <1>1, <1>2, <1>3 DEF ZGood
<1>5. ASSUME NEW i \in 1..Len(r.items), r.complete < i PROVE r.items[i] = "more"
  <2>1. part = "more" BY <1>2, <1>3, <1>5, <1>1
  <2>2. CASE i = n + 1 BY <2>1, <2>2, <1>3
  <2>3. CASE i # n + 1
    <3>1. i \in 1..n BY <2>3, <1>1, <1>3
    <3> QED BY <3>1, <2>1, <1>2, <1>3, <1>5 DEF ZGood, n
  <2> QED BY <2>2, <2>3
<1>6. ASSUME NEW i \in 2..Len(r.items), r.items[i] = "delimiter" PROVE r.items[i - 1] # "more"
  <2>1. i - 1 \in 1..n /\ r.items[i - 1] = q.items[i - 1]
    BY <1>1, <1>3
  <2>2. CASE i = n + 1
    <3>1. part = "delimiter" BY <1>3, <1>6, <2>2
    <3>2. q.complete = i - 1 /\ q.complete > 0 BY <3>1, <2>1, <2>2, <1>1 DEF n
    <3> QED BY <3>2, <2>1 DEF ZGood
  <2>3. CASE i # n + 1
    <3>1. i \in 2..n /\ r.items[i] = q.items[i] BY <2>3, <1>1, <1>3
    <3> QED BY <3>1, <2>1, <1>6 DEF ZGood, n
  <2> QED BY <2>2, <2>3
<1>7. ZGood(r)
  BY <1>2, <1>4, <1>5, <1>6 DEF ZGood
<1>9. ASSUME ZRestReady(q) PROVE ZRestReady(r)
  <2>1. r.items[1] = q.items[1] BY <1>1, <1>3, <1>9 DEF ZRestReady
  <2> QED BY <2>1, <1>2, <1>9 DEF ZRestReady
<1> QED BY <1>2, <1>7, <1>9 DEF r

(* An unfinished message is taken back. *)
LEMMA ZRollbackIsGood ==
    ASSUME NEW q, ZGood(q)
    PROVE  /\ ZGood(ZRollback(q))
           /\ ZRollback(q).items \in Seq(ZItem)
           /\ Len(ZRollback(q).items) = q.complete
           /\ \A i \in 1..q.complete : ZRollback(q).items[i] = q.items[i]
           /\ ZRollback(q).complete = q.complete
           /\ ZRollback(q).flushed = q.flushed
           /\ ZRollback(q).asleep = q.asleep
           /\ ZRestReady(q) => ZRestReady(ZRollback(q))
<1> DEFINE r == ZRollback(q)
           n == q.complete
<1>1. /\ q.items \in Seq(ZItem) /\ Len(q.items) \in Nat /\ n \in Nat /\ q.flushed \in Nat
      /\ n <= Len(q.items) /\ q.flushed <= n
  BY DEF ZGood
<1>2. /\ SubSeq(q.items, 1, n) \in Seq(ZItem)
      /\ Len(SubSeq(q.items, 1, n)) = n
      /\ \A i \in 1..n : SubSeq(q.items, 1, n)[i] = q.items[i]
  <2>1. \A i \in 1..n : q.items[i] \in ZItem
    BY <1>1, ElementOfSeq
  <2>2. /\ SubSeq(q.items, 1, n) \in Seq(ZItem)
        /\ Len(SubSeq(q.items, 1, n)) = IF 1 <= n THEN n - 1 + 1 ELSE 0
        /\ \A i \in 1..(n - 1 + 1) : SubSeq(q.items, 1, n)[i] = q.items[1 + i - 1]
    BY <1>1, <2>1, SubSeqProperties
  <2> QED BY <1>1, <2>2
<1>3. /\ r \in [items : Seq(ZItem), complete : Nat, flushed : Nat, asleep : BOOLEAN]
      /\ r.items = SubSeq(q.items, 1, n) /\ r.flushed = q.flushed /\ r.asleep = q.asleep
      /\ r.complete = n
  BY <1>1, <1>2 DEF ZGood, ZRollback
<1> HIDE DEF r
<1>4. Len(r.items) = n /\ \A i \in 1..n : r.items[i] = q.items[i]
  BY <1>2, <1>3
<1>5. ZGood(r)
  BY <1>1, <1>3, <1>4 DEF ZGood
<1>7. ASSUME ZRestReady(q) PROVE ZRestReady(r)
  <2>1. r.items[1] = q.items[1] BY <1>1, <1>4, <1>7 DEF ZRestReady
  <2> QED BY <2>1, <1>3, <1>7 DEF ZRestReady
<1> QED BY <1>3, <1>4, <1>5, <1>7 DEF r

(* What is complete becomes readable. *)
LEMMA ZFlushIsGood ==
    ASSUME NEW q, ZGood(q)
    PROVE  /\ ZGood(ZFlush(q))
           /\ ZFlush(q).items = q.items
           /\ ZRestReady(q) => ZRestReady(ZFlush(q))
<1> DEFINE r == ZFlush(q)
<1>1. /\ r \in [items : Seq(ZItem), complete : Nat, flushed : Nat, asleep : BOOLEAN]
      /\ r.items = q.items /\ r.flushed = q.complete /\ r.complete = q.complete
      /\ r.asleep => q.asleep
  BY DEF ZGood, ZFlush
<1>2. q.complete \in Nat /\ q.flushed \in Nat /\ q.flushed <= q.complete
  BY DEF ZGood
<1> HIDE DEF r
<1>3. ZGood(r)
  BY <1>1, <1>2 DEF ZGood
<1>4. ZRestReady(q) => ZRestReady(r)
  BY <1>1, <1>2 DEF ZRestReady
<1> QED BY <1>1, <1>3, <1>4 DEF r

(* The reader falls asleep. *)
LEMMA ZSleepIsGood ==
    ASSUME NEW q, ZGood(q)
    PROVE  /\ ZGood([q EXCEPT !.asleep = TRUE])
           /\ [q EXCEPT !.asleep = TRUE].items = q.items
<1> DEFINE r == [q EXCEPT !.asleep = TRUE]
<1>1. /\ r \in [items : Seq(ZItem), complete : Nat, flushed : Nat, asleep : BOOLEAN]
      /\ r.items = q.items /\ r.flushed = q.flushed /\ r.complete = q.complete
  BY DEF ZGood
<1> HIDE DEF r
<1> QED BY <1>1 DEF r, ZGood

(* A part is read: after the first part of a message the rest is ready. *)
LEMMA ZTakeIsGood ==
    ASSUME NEW q, ZGood(q), ZReadable(q)
    PROVE  /\ ZGood(ZTake(q))
           /\ q.items # <<>> /\ q.items \in Seq(ZItem) /\ ZTake(q).items = Tail(q.items)
           /\ Head(q.items) = q.items[1] /\ q.items[1] \in ZItem
           /\ q.items[1] = "more" => ZRestReady(ZTake(q))
<1> DEFINE r == ZTake(q)
           n == Len(q.items)
<1>1. /\ q.items \in Seq(ZItem) /\ n \in Nat /\ q.complete \in Nat /\ q.flushed \in Nat
      /\ q.complete <= n /\ q.flushed <= q.complete /\ q.flushed > 0 /\ ~q.asleep
  BY DEF ZGood, ZReadable
<1>2. q.items # <<>> /\ n > 0
  BY <1>1
<1>3. /\ Tail(q.items) \in Seq(ZItem) /\ Len(Tail(q.items)) = n - 1
      /\ \A i \in 1..(n - 1) : Tail(q.items)[i] = q.items[i + 1]
      /\ Head(q.items) = q.items[1] /\ q.items[1] \in ZItem
  BY <1>1, <1>2, ZTailOf
<1>4. /\ r \in [items : Seq(ZItem), complete : Nat, flushed : Nat, asleep : BOOLEAN]
      /\ r.items = Tail(q.items) /\ r.flushed = q.flushed - 1 /\ r.complete = q.complete - 1
      /\ r.asleep = q.asleep
  <2>1. q.complete - 1 \in Nat /\ q.flushed - 1 \in Nat
    BY <1>1
  <2>2. q \in [items : Seq(ZItem), complete : Nat, flushed : Nat, asleep : BOOLEAN]
    BY DEF ZGood
  <2> QED BY <1>3, <2>1, <2>2 DEF ZTake
<1> HIDE DEF r, n
<1>5. Len(r.items) = n - 1 /\ \A i \in 1..(n - 1) : r.items[i] = q.items[i + 1]
  BY <1>3, <1>4
<1>6. /\ r.complete > 0 => r.items[r.complete] # "more"
      /\ r.flushed > 0 => r.items[r.flushed] # "more"
      /\ r.flushed <= r.complete /\ r.complete <= Len(r.items)
  BY <1>1, <1>4, <1>5 DEF ZGood
<1>7. ASSUME NEW i \in 1..Len(r.items), r.complete < i PROVE r.items[i] = "more"
  <2>1. i + 1 \in 1..n /\ q.complete < i + 1 BY <1>1, <1>4, <1>5, <1>7
  <2> QED BY <2>1, <1>5 DEF ZGood, n
<1>8. ASSUME NEW i \in 2..Len(r.items), r.items[i] = "delimiter" PROVE r.items[i - 1] # "more"
  <2>1. i + 1 \in 2..n /\ i \in 1..(n - 1) /\ i - 1 \in 1..(n - 1) BY <1>1, <1>5
  <2>2. r.items[i] = q.items[i + 1] /\ r.items[i - 1] = q.items[i] BY <2>1, <1>5
  <2>3. q.items[(i + 1) - 1] # "more" BY <2>1, <2>2, <1>8 DEF ZGood, n
  <2> QED BY <2>2, <2>3
<1>9. ZGood(r)
  BY <1>4, <1>6, <1>7, <1>8 DEF ZGood
<1>11. ASSUME q.items[1] = "more" PROVE ZRestReady(r)
  <2>1. q.flushed # 1 BY <1>11, <1>1 DEF ZGood
  <2>2. 2 \in 2..n /\ 1 \in 1..(n - 1) BY <2>1, <1>1
  <2>3. r.items[1] = q.items[2] BY <2>2, <1>5
  <2>4. q.items[2] # "delimiter"
    <3>1. q.items[2] = "delimiter" => q.items[2 - 1] # "more" BY <2>2 DEF ZGood, n
    <3> QED BY <3>1, <1>11
  <2> QED BY <2>1, <2>3, <2>4, <1>1, <1>4 DEF ZRestReady
<1> QED BY <1>2, <1>1, <1>3, <1>4, <1>9, <1>11 DEF r

-----------------------------------------------------------------------------
(* The hiccups on their way *)

(* Commands other than hiccups are put behind those in a mailbox. *)
LEMMA ZNamesConcat ==
    ASSUME NEW S, NEW c \in Seq(S), NEW d \in Seq(S), NEW w, NEW made,
           ZNames(c, w, made), ~ZHas(d, "hiccup")
    PROVE  ZNames(c \o d, w, made)
<1> DEFINE x == c \o d
<1>1. /\ Len(c) \in Nat /\ Len(d) \in Nat /\ Len(x) = Len(c) + Len(d)
      /\ \A i \in 1..Len(x) : x[i] = IF i <= Len(c) THEN c[i] ELSE d[i - Len(c)]
  BY ConcatProperties
<1> HIDE DEF x
<1>2. \A i \in 1..Len(x) : x[i].type = "hiccup" => i \in 1..Len(c) /\ x[i] = c[i]
  <2> TAKE i \in 1..Len(x)
  <2>1. CASE i <= Len(c) BY <2>1, <1>1
  <2>2. CASE ~(i <= Len(c))
    <3>1. x[i] = d[i - Len(c)] /\ i - Len(c) \in 1..Len(d) BY <2>2, <1>1
    <3> QED BY <3>1 DEF ZHas
  <2> QED BY <2>1, <2>2
<1>3. \A i \in 1..Len(c) : i \in 1..Len(x) /\ x[i] = c[i]
  BY <1>1
<1>4. ASSUME NEW u \in ZToSession(made), w < u
      PROVE  \E i \in 1..Len(x) : x[i].type = "hiccup" /\ x[i].pipe = u
  BY <1>3, <1>4 DEF ZNames
<1>5. ZNames(x, w, made)
  BY <1>2, <1>4 DEF ZNames
<1> QED BY <1>5 DEF x

(* A command other than a hiccup is taken. *)
LEMMA ZNamesTail ==
    ASSUME NEW S, NEW c \in Seq(S), c # <<>>, NEW w, NEW made,
           ZNames(c, w, made), c[1].type # "hiccup"
    PROVE  ZNames(Tail(c), w, made)
<1> DEFINE d == Tail(c)
<1>1. /\ Len(c) \in Nat \ {0} /\ Len(d) = Len(c) - 1
      /\ \A i \in 1..Len(d) : d[i] = c[i + 1] /\ i + 1 \in 1..Len(c)
  BY ZTailOf
<1> HIDE DEF d
<1>2. ASSUME NEW i \in 1..Len(d), NEW j \in 1..Len(d),
             d[i].type = "hiccup", d[j].type = "hiccup", i < j
      PROVE  d[i].pipe < d[j].pipe
  BY <1>1, <1>2 DEF ZNames
<1>3. ASSUME NEW u \in ZToSession(made), w < u
      PROVE  \E i \in 1..Len(d) : d[i].type = "hiccup" /\ d[i].pipe = u
  <2>1. PICK i \in 1..Len(c) : c[i].type = "hiccup" /\ c[i].pipe = u
    BY <1>3 DEF ZNames
  <2>2. i # 1 BY <2>1
  <2>3. i - 1 \in 1..Len(d) /\ d[i - 1] = c[i] BY <2>2, <1>1
  <2> QED BY <2>1, <2>3
<1>4. ZNames(d, w, made)
  BY <1>1, <1>2, <1>3 DEF ZNames
<1> QED BY <1>4 DEF d

(* The first hiccup names the upipe_t next to the one it replaces. *)
LEMMA ZNamesTakeHiccup ==
    ASSUME NEW c \in Seq(ZCommand), c # <<>>, NEW made \in Nat, NEW w \in ZToSession(made),
           ZNames(c, w, made), c[1].type = "hiccup"
    PROVE  /\ c[1].pipe \in ZToSession(made) /\ w < c[1].pipe
           /\ ZNames(Tail(c), c[1].pipe, made)
           /\ {u \in ZToSession(made) : u < c[1].pipe} = {u \in ZToSession(made) : u < w} \cup {w}
<1> DEFINE d == Tail(c)
           h == c[1].pipe
<1>1. /\ Len(c) \in Nat \ {0} /\ Len(d) = Len(c) - 1
      /\ \A i \in 1..Len(d) : d[i] = c[i + 1] /\ i + 1 \in 1..Len(c) /\ 1 < i + 1
  BY ZTailOf
<1>2. h \in ZToSession(made) /\ w < h
  BY <1>1 DEF ZNames
<1>3. \A u \in ZToSession(made) : u \in Nat
  BY DEF ZToSession
<1> HIDE DEF d
<1>4. \A i \in 1..Len(c) : c[i].type = "hiccup" /\ i # 1 => h < c[i].pipe
  BY <1>1 DEF ZNames
<1> HIDE DEF h
<1>5. ASSUME NEW u \in ZToSession(made), w < u, u # h
      PROVE  h < u /\ \E i \in 1..Len(d) : d[i].type = "hiccup" /\ d[i].pipe = u
  <2>1. PICK i \in 1..Len(c) : c[i].type = "hiccup" /\ c[i].pipe = u
    BY <1>5 DEF ZNames
  <2>2. i # 1 BY <2>1, <1>5 DEF h
  <2>3. i - 1 \in 1..Len(d) /\ d[i - 1] = c[i] BY <2>2, <1>1
  <2>4. h < u BY <2>1, <2>2, <1>4
  <2> QED BY <2>1, <2>3, <2>4
<1>6. ZNames(d, h, made)
  <2>1. ASSUME NEW i \in 1..Len(d), d[i].type = "hiccup"
        PROVE  d[i].pipe \in ZToSession(made) /\ h < d[i].pipe
    BY <2>1, <1>1, <1>4 DEF ZNames
  <2>2. ASSUME NEW i \in 1..Len(d), NEW j \in 1..Len(d),
               d[i].type = "hiccup", d[j].type = "hiccup", i < j
        PROVE  d[i].pipe < d[j].pipe
    <3>1. /\ d[i] = c[i + 1] /\ i + 1 \in 1..Len(c) /\ d[j] = c[j + 1] /\ j + 1 \in 1..Len(c)
          /\ i + 1 < j + 1
      BY <1>1, <2>2
    <3> QED BY <2>2, <3>1 DEF ZNames
  <2>3. ASSUME NEW u \in ZToSession(made), h < u
        PROVE  \E i \in 1..Len(d) : d[i].type = "hiccup" /\ d[i].pipe = u
    <3>1. w < u /\ u # h BY <2>3, <1>2, <1>3
    <3> QED BY <3>1, <1>5
  <2> QED BY <2>1, <2>2, <2>3 DEF ZNames
<1>7. {u \in ZToSession(made) : u < h} = {u \in ZToSession(made) : u < w} \cup {w}
  <2>1. ASSUME NEW u \in ZToSession(made), u < h, u # w PROVE u < w
    BY <2>1, <1>2, <1>3, <1>5
  <2>2. ASSUME NEW u \in ZToSession(made), u < w PROVE u < h
    BY <2>2, <1>2, <1>3
  <2> QED BY <2>1, <2>2, <1>2
<1> QED BY <1>2, <1>6, <1>7 DEF d, h

(* A hiccup names a new upipe_t. *)
LEMMA ZNamesHiccup ==
    ASSUME NEW c \in Seq(ZCommand), NEW made \in Nat, made >= 2, NEW w,
           ZNames(c, w, made), w \in ZToSession(made),
           NEW m \in ZCommand, m.type = "hiccup", m.pipe = made + 1
    PROVE  ZNames(c \o <<m>>, w, made + 1) /\ w \in ZToSession(made + 1)
<1> DEFINE x == c \o <<m>>
<1>1. <<m>> \in Seq(ZCommand) /\ Len(<<m>>) = 1 /\ <<m>>[1] = m
  OBVIOUS
<1>2. /\ Len(c) \in Nat /\ Len(x) = Len(c) + 1
      /\ \A i \in 1..Len(c) : i \in 1..Len(x) /\ x[i] = c[i]
      /\ x[Len(c) + 1] = m
  BY <1>1, ConcatProperties
<1> HIDE DEF x
<1>3. /\ ZToSession(made + 1) = ZToSession(made) \cup {made + 1}
      /\ \A u \in ZToSession(made) : u \in Nat /\ u < made + 1
  BY DEF ZToSession
<1>4. \A i \in 1..Len(x) : i \in 1..Len(c) \/ i = Len(c) + 1
  BY <1>2
<1>5. ASSUME NEW i \in 1..Len(x), x[i].type = "hiccup"
      PROVE  x[i].pipe \in ZToSession(made + 1) /\ w < x[i].pipe
  BY <1>2, <1>3, <1>4, <1>5 DEF ZNames
<1>6. ASSUME NEW i \in 1..Len(x), NEW j \in 1..Len(x),
             x[i].type = "hiccup", x[j].type = "hiccup", i < j
      PROVE  x[i].pipe < x[j].pipe
  <2>1. i \in 1..Len(c) BY <1>2, <1>4, <1>6
  <2>2. CASE j \in 1..Len(c) BY <2>1, <2>2, <1>2, <1>6 DEF ZNames
  <2>3. CASE j = Len(c) + 1
    <3>1. x[i].pipe \in ZToSession(made) BY <2>1, <1>2, <1>6 DEF ZNames
    <3> QED BY <3>1, <2>3, <1>2, <1>3
  <2> QED BY <2>2, <2>3, <1>4
<1>7. ASSUME NEW u \in ZToSession(made + 1), w < u
      PROVE  \E i \in 1..Len(x) : x[i].type = "hiccup" /\ x[i].pipe = u
  <2>1. CASE u = made + 1
    <3>1. Len(c) + 1 \in 1..Len(x) BY <1>2
    <3> QED BY <3>1, <2>1, <1>2
  <2>2. CASE u \in ZToSession(made)
    <3>1. PICK i \in 1..Len(c) : c[i].type = "hiccup" /\ c[i].pipe = u
      BY <2>2, <1>7 DEF ZNames
    <3> QED BY <3>1, <1>2
  <2> QED BY <2>1, <2>2, <1>3
<1>8. ZNames(x, w, made + 1)
  BY <1>5, <1>6, <1>7 DEF ZNames
<1> QED BY <1>3, <1>8 DEF x

(* Without a hiccup on its way the socket writes to the newest upipe_t. *)
LEMMA ZNoHiccup ==
    ASSUME NEW c, NEW made \in Nat, made >= 2, NEW w \in ZToSession(made),
           ZNames(c, w, made), ~ZHas(c, "hiccup")
    PROVE  w = ZNewest(made)
<1>1. ZNewest(made) \in ZToSession(made) /\ \A u \in ZToSession(made) : u \in Nat /\ u <= ZNewest(made)
  BY DEF ZNewest, ZToSession
<1>2. ~(w < ZNewest(made))
  BY <1>1 DEF ZNames, ZHas
<1> QED BY <1>1, <1>2

-----------------------------------------------------------------------------
(* Steps, by what they do to the shutdown and to the upipe_t.                *)

ZCore == ZPipeTypeOK /\ ZShutdown /\ ZUpipes

(* The peer of the peer of an end is the end. *)
LEMMA ZPeers ==
    ASSUME NEW e \in ZEnd
    PROVE  /\ ZPeer(e) \in ZEnd /\ ZPeer(e) # e /\ ZPeer(ZPeer(e)) = e
           /\ ZEnd = {e, ZPeer(e)}
BY DEF ZEnd, ZPeer

(* The shutdown seen from either end. *)
LEMMA ZEitherEnd ==
    ASSUME NEW e \in ZEnd
    PROVE  /\ ZControlOf("session") <=> ZControlOf(e)
           /\ ZControlOf("session")' <=> ZControlOf(e)'
BY ZControlSym DEF ZControlOf, ZEnd, ZPeer

(* The types of what an end refers to. *)
LEMMA ZTypes ==
    ASSUME ZPipeTypeOK, NEW e \in ZEnd
    PROVE  /\ ZPhase(e) \in ZPhases /\ zChan[e] \in Seq(ZCommand)
           /\ zMade \in Nat /\ (e \in zAlive => ZPhase(e) = zEnd[e].state)
BY ZAssumption DEF ZPipeTypeOK, ZPhase, ZPhases, ZUpipe

(* Commands sent and taken in one step of e. *)
LEMMA ZMail ==
    ASSUME ZPipeTypeOK, NEW e \in ZEnd, NEW d \in Seq(ZCommand)
    PROVE  /\ zChan' = ZSend(zChan, e, d) =>
                /\ zChan'[e] = zChan[e] /\ zChan'[ZPeer(e)] = zChan[ZPeer(e)] \o d
                /\ zChan' \in [ZEnd -> Seq(ZCommand)]
           /\ zChan' = zChan =>
                /\ zChan'[e] = zChan[e] /\ zChan'[ZPeer(e)] = zChan[ZPeer(e)] \o <<>>
                /\ zChan' \in [ZEnd -> Seq(ZCommand)]
           /\ zChan[e] # <<>> /\ zChan' = ZTaken(e) =>
                /\ zChan'[e] = Tail(zChan[e]) /\ zChan'[ZPeer(e)] = zChan[ZPeer(e)] \o <<>>
                /\ zChan' \in [ZEnd -> Seq(ZCommand)]
           /\ zChan[e] # <<>> /\ zChan' = ZSend(ZTaken(e), e, d) =>
                /\ zChan'[e] = Tail(zChan[e]) /\ zChan'[ZPeer(e)] = zChan[ZPeer(e)] \o d
                /\ zChan' \in [ZEnd -> Seq(ZCommand)]
<1> DEFINE f == ZPeer(e)
<1>1. f \in ZEnd /\ f # e
  BY ZPeers
<1>2. zChan \in [ZEnd -> Seq(ZCommand)]
  BY DEF ZPipeTypeOK
<1>3. zChan[f] \o d \in Seq(ZCommand) /\ zChan[f] \o <<>> = zChan[f]
  BY <1>1, <1>2, ConcatProperties, ConcatEmptySeq
<1>4. zChan[e] # <<>> => Tail(zChan[e]) \in Seq(ZCommand)
  BY <1>2, ZTailOf
<1>5. ZTaken(e)[f] = zChan[f]
  BY <1>1, <1>2 DEF ZTaken
<1> QED BY <1>1, <1>2, <1>3, <1>4, <1>5 DEF ZSend, ZTaken

(* A step of e that deletes nothing and makes no hiccup, by what it does to  *)
(* the state of e and to the two mailboxes.                                    *)
LEMMA ZStep ==
    ASSUME ZCore, NEW e \in ZEnd, e \in zAlive,
           zAlive' = zAlive, zMade' = zMade, zFreed' = zFreed,
           zEnd'[ZPeer(e)] = zEnd[ZPeer(e)],
           zEnd'[e].in = zEnd[e].in,
           zEnd'[e].out = zEnd[e].out
              \/ (zEnd'[e].out = ZNone /\ ~ZHas(zChan[e], "hiccup")),
           zEnd'[e].out = ZNone <=> zEnd'[e].state \in {"terminating", "double_terminated"},
           NEW d \in Seq(ZCommand), ~ZHas(d, "hiccup"),
           zChan'[ZPeer(e)] = zChan[ZPeer(e)] \o d,
           zChan'[e] = zChan[e]
              \/ (zChan[e] # <<>> /\ zChan[e][1].type # "hiccup" /\ zChan'[e] = Tail(zChan[e])),
           ZControl(zEnd'[e].state, ZPhase(ZPeer(e)), zChan'[e], zChan'[ZPeer(e)])
    PROVE  ZShutdown' /\ ZUpipes'
<1> DEFINE f == ZPeer(e)
<1> USE DEF ZCore
<1>1. f \in ZEnd /\ f # e /\ ZPeer(f) = e /\ ZEnd = {e, f}
  BY ZPeers
<1>2. /\ zChan[e] \in Seq(ZCommand) /\ zChan[f] \in Seq(ZCommand) /\ zMade \in Nat
  BY <1>1, ZTypes
<1>3. ZPhase(f)' = ZPhase(f) /\ ZPhase(e)' = zEnd'[e].state
  BY DEF ZPhase
<1>4. ZControlOf("session")'
  <2>1. ZControlOf(e)' BY <1>3 DEF ZControlOf
  <2> QED BY <2>1, ZEitherEnd
<1>5. ZShutdown'
  <2>1. ASSUME NEW x \in zAlive'
        PROVE  zEnd'[x].out = ZNone <=> zEnd'[x].state \in {"terminating", "double_terminated"}
    <3>1. CASE x = f BY <3>1, <2>1 DEF ZShutdown
    <3>2. CASE x = e BY <3>2, <2>1
    <3>3. x \in ZEnd BY <2>1 DEF ZPipeTypeOK
    <3> QED BY <3>1, <3>2, <3>3, <1>1
  <2> QED BY <1>4, <2>1 DEF ZShutdown
<1>6. ZWritten' = ZWritten
  <2>1. CASE zEnd'["socket"].out = zEnd["socket"].out
    BY <2>1 DEF ZWritten
  <2>2. CASE zEnd'["socket"].out # zEnd["socket"].out
    <3>1. e = "socket" BY <1>1, <2>2 DEF ZEnd
    <3>2. zEnd'["socket"].out = ZNone /\ ~ZHas(zChan["socket"], "hiccup") BY <3>1, <2>2
    <3>3. ZWritten = ZNewest(zMade) BY <3>2, <1>2, ZNoHiccup DEF ZUpipes
    <3> QED BY <3>2, <3>3 DEF ZWritten
  <2> QED BY <2>1, <2>2
<1>7. ZDropped' = ZDropped
  BY <1>6 DEF ZDropped
<1>8. ZNames(zChan'["socket"], ZWritten, zMade) /\ ~ZHas(zChan'["session"], "hiccup")
  <2>1. CASE e = "socket"
    <3>1. f = "session" BY <2>1 DEF ZPeer
    <3>2. ~ZHas(zChan["session"] \o d, "hiccup")
      BY <3>1, <1>2, ZHasConcat DEF ZUpipes
    <3>3. CASE zChan'[e] = zChan[e]
      BY <3>1, <3>2, <3>3, <2>1 DEF ZUpipes
    <3>4. CASE zChan[e] # <<>> /\ zChan[e][1].type # "hiccup" /\ zChan'[e] = Tail(zChan[e])
      <4>1. ZNames(zChan["socket"], ZWritten, zMade) BY DEF ZUpipes
      <4>2. ZNames(Tail(zChan["socket"]), ZWritten, zMade)
        BY <4>1, <3>4, <2>1, <1>2, ZNamesTail
      <4> QED BY <4>2, <3>1, <3>2, <3>4, <2>1
    <3> QED BY <3>3, <3>4
  <2>2. CASE e = "session"
    <3>1. f = "socket" BY <2>2 DEF ZPeer
    <3>2. ZNames(zChan["socket"], ZWritten, zMade) BY DEF ZUpipes
    <3>3. ZNames(zChan["socket"] \o d, ZWritten, zMade)
      BY <3>1, <3>2, <1>2, ZNamesConcat
    <3>4. ~ZHas(zChan["session"], "hiccup") BY DEF ZUpipes
    <3>5. zChan[e] # <<>> => ~ZHas(Tail(zChan[e]), "hiccup") BY <3>4, <2>2, <1>2, ZTailOf
    <3> QED BY <3>1, <3>3, <3>4, <3>5, <2>2
  <2> QED BY <2>1, <2>2 DEF ZEnd
<1>9. ZUpipes'
  <2>1. zEnd'["session"].in = zEnd["session"].in /\ zEnd'["socket"].in = zEnd["socket"].in
    BY <1>1 DEF ZEnd
  <2>2. zEnd'["session"].out \in {zEnd["session"].out, ZNone}
    BY <1>1 DEF ZEnd
  <2> QED BY <1>6, <1>7, <1>8, <2>1, <2>2 DEF ZUpipes
<1> QED BY <1>5, <1>9

-----------------------------------------------------------------------------
(* The invariant without the credit, and what every action does to it.       *)

ZBase == ZCore /\ ZQueues /\ ZMiddle /\ ~zFailed

ZFields ==
    [state : ZState, delay : BOOLEAN, in : ZUpipe, out : ZUpipe \cup {ZNone},
     inActive : BOOLEAN, outActive : BOOLEAN, read : Nat, written : Nat, peersRead : Nat]

ZFlushQueue == [items : Seq(ZItem), complete : Nat, flushed : Nat, asleep : BOOLEAN]

(* The upipe_t towards the session, and the newest of them. *)
LEMMA ZNewestIs ==
    ASSUME NEW made \in Nat, made >= 2
    PROVE  /\ ZNewest(made) \in ZToSession(made) /\ ZNewest(made) # 2
           /\ \A u \in ZToSession(made) : u \in Nat /\ u # 2 /\ u <= ZNewest(made)
           /\ ZNewest(made + 1) = made + 1
           /\ ZToSession(made + 1) = ZToSession(made) \cup {made + 1}
           /\ \A u \in ZToSession(made) : ~(made + 1 < u)
BY DEF ZNewest, ZToSession

(* Whose upipe_t is which. *)
LEMMA ZWhose ==
    ASSUME ZBase, NEW e \in ZEnd, e \in zAlive
    PROVE  /\ zEnd[e] \in ZFields /\ zEnd[e].in \in ZUpipe
           /\ e = "socket" <=> zEnd[e].in = 2
           /\ zEnd[e].out # ZNone => zEnd[e].out \in ZUpipe /\ (e = "session" <=> zEnd[e].out = 2)
           /\ zEnd[e].out = ZNone <=> zEnd[e].state \in {"terminating", "double_terminated"}
           /\ ZPhase(e) = zEnd[e].state
           /\ ZControl(zEnd[e].state, ZPhase(ZPeer(e)), zChan[e], zChan[ZPeer(e)])
           /\ ZPhase(ZPeer(e)) \in ZPhases /\ zEnd[e].state \in ZPhases
           /\ zChan[e] \in Seq(ZCommand) /\ zChan[ZPeer(e)] \in Seq(ZCommand)
           /\ zEnd[e].in = ZInOf(e, zMade)
<1> USE DEF ZBase, ZCore
<1>1. zEnd[e] \in ZFields /\ zEnd[e].in \in ZUpipe /\ zEnd[e].out \in ZUpipe \cup {ZNone}
  BY DEF ZPipeTypeOK, ZFields
<1>2. zMade \in Nat /\ zMade >= 2
  BY ZTypes DEF ZUpipes
<1>3. e = "socket" <=> zEnd[e].in = 2
  BY <1>2 DEF ZUpipes, ZNewest, ZEnd
<1>4. zEnd[e].out # ZNone => (e = "session" <=> zEnd[e].out = 2)
  BY <1>2 DEF ZUpipes, ZWritten, ZToSession, ZEnd
<1>5. ZPhase(e) = zEnd[e].state
  BY DEF ZPhase
<1>6. ZControlOf(e)
  BY ZEitherEnd DEF ZShutdown
<1>7. ZPhase(ZPeer(e)) \in ZPhases /\ ZPhase(e) \in ZPhases
      /\ zChan[e] \in Seq(ZCommand) /\ zChan[ZPeer(e)] \in Seq(ZCommand)
  BY ZTypes, ZPeers
<1>8. zEnd[e].in = ZInOf(e, zMade)
  BY DEF ZUpipes, ZInOf, ZEnd
<1> QED BY <1>1, <1>3, <1>4, <1>5, <1>6, <1>7, <1>8 DEF ZShutdown, ZControlOf

(* The two ends read from different upipe_t. *)
LEMMA ZApart ==
    ASSUME ZBase, NEW e \in ZEnd
    PROVE  /\ ZInOf(e, zMade) \in ZUpipe
           /\ \A x \in ZEnd : ZInOf(x, zMade) = ZInOf(e, zMade) => x = e
<1>1. zMade \in Nat /\ zMade >= 2 /\ zMade \in ZUpipe
  BY ZTypes DEF ZBase, ZCore, ZUpipes, ZPipeTypeOK
<1>2. ZNewest(zMade) # 2 /\ ZNewest(zMade) \in ZUpipe /\ 2 \in ZUpipe
  BY <1>1, ZAssumption DEF ZNewest, ZUpipe
<1> QED BY <1>2 DEF ZInOf, ZEnd

(* One upipe_t changes, and the rest of a message that was in it is still there. *)
LEMMA ZMidStep ==
    ASSUME ZBase, zMade' = zMade, zMid' \subseteq zAlive', zAlive' \subseteq ZEnd,
           NEW u, \A v \in ZUpipe : v # u => zQueue'[v] = zQueue[v],
           \A x \in zMid' : \/ x \in zMid /\ ZInOf(x, zMade) # u
                            \/ ZInOf(x, zMade) = u /\ ZRestReady(zQueue'[u])
    PROVE  ZMiddle'
<1>1. ASSUME NEW x \in zMid' PROVE ZRestReady(zQueue'[ZInOf(x, zMade)])
  <2>1. x \in ZEnd /\ ZInOf(x, zMade) \in ZUpipe BY <1>1, ZApart
  <2>2. CASE x \in zMid /\ ZInOf(x, zMade) # u
    <3>1. ZRestReady(zQueue[ZInOf(x, zMade)]) BY <2>2 DEF ZBase, ZMiddle
    <3> QED BY <3>1, <2>1, <2>2
  <2>3. CASE ZInOf(x, zMade) = u /\ ZRestReady(zQueue'[u]) BY <2>3
  <2> QED BY <1>1, <2>2, <2>3
<1> QED BY <1>1 DEF ZMiddle

(* One upipe_t changes. *)
LEMMA ZQueueStep ==
    ASSUME ZPipeTypeOK, ZQueues, NEW u \in ZUpipe, NEW r, ZGood(r),
           zQueue' = [zQueue EXCEPT ![u] = r]
    PROVE  /\ ZQueues' /\ zQueue' \in [ZUpipe -> ZFlushQueue]
           /\ zQueue'[u] = r /\ \A v \in ZUpipe : v # u => zQueue'[v] = zQueue[v]
<1>1. zQueue \in [ZUpipe -> ZFlushQueue] /\ r \in ZFlushQueue
  BY DEF ZPipeTypeOK, ZFlushQueue, ZItem, ZGood
<1>2. zQueue' \in [ZUpipe -> ZFlushQueue] /\ zQueue'[u] = r
      /\ \A v \in ZUpipe : v # u => zQueue'[v] = zQueue[v]
  BY <1>1
<1>3. ZQueues'
  <2>1. ASSUME NEW v \in ZUpipe PROVE ZGood(zQueue'[v])
    <3>1. CASE v = u BY <3>1, <1>2
    <3>2. CASE v # u BY <3>2, <1>2 DEF ZQueues
    <3> QED BY <3>1, <3>2
  <2> QED BY <2>1 DEF ZQueues
<1> QED BY <1>2, <1>3

(* The parts of the type invariant that most actions touch. *)
LEMMA ZTypeStep ==
    ASSUME ZPipeTypeOK, zEnd' \in [ZEnd -> ZFields], zChan' \in [ZEnd -> Seq(ZCommand)],
           zQueue' \in [ZUpipe -> ZFlushQueue], zMade' = zMade,
           zFreed' \subseteq ZUpipe, zAlive' \subseteq ZEnd, zMid' \subseteq ZEnd,
           zParts' = zParts, zTerms' = zTerms, zFailed' \in BOOLEAN
    PROVE  ZPipeTypeOK'
BY DEF ZPipeTypeOK, ZFields, ZFlushQueue, ZItem

(* check_read() finds nothing: the end stops reading. *)
LEMMA ZReadNothingKeeps ==
    ASSUME ZBase, NEW e \in ZEnd, ZReadNothing(e)
    PROVE  ZBase'
<1> DEFINE p == zEnd[e]
           q == zQueue[p.in]
<1> USE DEF ZBase, ZCore
<1>1. e \in zAlive /\ p.state \in {"active", "pending"} /\ ~ZReadable(q)
  BY DEF ZReadNothing, ZMayRead
<1>2. p \in ZFields /\ p.in \in ZUpipe /\ (e = "socket" <=> p.in = 2)
  BY <1>1, ZWhose
<1>3. ZGood(q)
  BY <1>2 DEF ZQueues
<1>4. zQueue' = [zQueue EXCEPT ![p.in] = [q EXCEPT !.asleep = TRUE]]
  BY DEF ZReadNothing
<1>5. /\ ZQueues' /\ zQueue' \in [ZUpipe -> ZFlushQueue]
      /\ \A v \in ZUpipe : v # p.in => zQueue'[v] = zQueue[v]
  BY <1>2, <1>3, <1>4, ZQueueStep, ZSleepIsGood
<1>6. /\ zEnd' \in [ZEnd -> ZFields] /\ zEnd'[ZPeer(e)] = zEnd[ZPeer(e)]
      /\ zEnd'[e] = [p EXCEPT !.inActive = FALSE]
  BY <1>2, ZPeers DEF ZReadNothing, ZPipeTypeOK, ZFields
<1>7. ZPipeTypeOK'
  BY <1>5, <1>6, ZTypeStep DEF ZReadNothing, ZPipeTypeOK
<1>8. ZShutdown' /\ ZUpipes'
  <2>1. zChan'[e] = zChan[e] /\ zChan'[ZPeer(e)] = zChan[ZPeer(e)] \o <<>>
    BY ZMail, ZNothingSent DEF ZReadNothing
  <2>2. ZControl(p.state, ZPhase(ZPeer(e)), zChan'[e], zChan'[ZPeer(e)])
    BY <1>1, ZWhose DEF ZReadNothing
  <2>3. zEnd'[e].in = p.in /\ zEnd'[e].out = p.out /\ zEnd'[e].state = p.state
    BY <1>2, <1>6 DEF ZFields
  <2>4. zAlive' = zAlive /\ zMade' = zMade /\ zFreed' = zFreed BY DEF ZReadNothing
  <2>5. p.out = ZNone <=> p.state \in {"terminating", "double_terminated"} BY <1>1, ZWhose
  <2>6. ZCore /\ <<>> \in Seq(ZCommand) /\ ~ZHas(<<>>, "hiccup") BY ZNothingSent
  <2> HIDE DEF ZBase, ZCore
  <2> QED BY <1>1, <1>6, <2>1, <2>2, <2>3, <2>4, <2>5, <2>6, ZStep
<1>9. ZMiddle'
  <2>1. \A x \in zMid : ZInOf(x, zMade) # p.in
    BY <1>1 DEF ZMiddle, ZRestReady, ZReadable
  <2>2. /\ zMid' = zMid /\ zAlive' = zAlive /\ zMade' = zMade
        /\ zMid \subseteq zAlive /\ zAlive \subseteq ZEnd
    BY DEF ZReadNothing, ZMiddle, ZPipeTypeOK
  <2> HIDE DEF ZBase, ZCore
  <2> QED BY <1>5, <2>1, <2>2, ZMidStep
<1> QED BY <1>5, <1>7, <1>8, <1>9 DEF ZReadNothing

(* Commands that have nothing to do with the shutdown. *)
ZHarmless(d) ==
    /\ d \in Seq(ZCommand) /\ ZOrdered(d)
    /\ ~ZHas(d, "pipe_term") /\ ~ZHas(d, "pipe_term_ack") /\ ~ZHas(d, "hiccup")

(* The commands that wake a reader or a writer are not part of the shutdown. *)
LEMMA ZActivates ==
    /\ ZHarmless(<<>>) /\ ZHarmless(<<ZCmd("activate_read")>>)
    /\ \A n \in Nat : ZHarmless(<<[type |-> "activate_write", read |-> n]>>)
<1>1. ZHarmless(<<>>)
  BY ZNothingSent DEF ZHarmless
<1>2. ZCmd("activate_read") \in ZCommand /\ ZCmd("activate_read").type = "activate_read"
  BY DEF ZCmd, ZCommand
<1>3. ZHarmless(<<ZCmd("activate_read")>>)
  BY <1>2, ZOneSent DEF ZHarmless
<1>4. ASSUME NEW n \in Nat PROVE ZHarmless(<<[type |-> "activate_write", read |-> n]>>)
  <2> DEFINE m == [type |-> "activate_write", read |-> n]
  <2>1. m \in ZCommand /\ m.type = "activate_write" BY DEF ZCommand
  <2> HIDE DEF m
  <2>2. ZHarmless(<<m>>) BY <2>1, ZOneSent DEF ZHarmless
  <2> QED BY <2>2 DEF m
<1> QED BY <1>1, <1>3, <1>4

(* A step of e that leaves the shutdown where it is. *)
LEMMA ZQuiet ==
    ASSUME ZBase, NEW e \in ZEnd, e \in zAlive,
           zAlive' = zAlive, zMade' = zMade, zFreed' = zFreed,
           zEnd'[ZPeer(e)] = zEnd[ZPeer(e)],
           zEnd'[e].in = zEnd[e].in, zEnd'[e].out = zEnd[e].out,
           zEnd'[e].state = zEnd[e].state \/ {zEnd'[e].state, zEnd[e].state} \subseteq ZOpen,
           NEW d, ZHarmless(d),
           d # <<>> => zEnd[e].state \in ZOpen \cup {"pending", "terminated"},
           zChan'[e] = zChan[e], zChan'[ZPeer(e)] = zChan[ZPeer(e)] \o d
    PROVE  ZShutdown' /\ ZUpipes'
<1> DEFINE f == ZPeer(e)
           s == zEnd[e].state
<1>1. /\ ZControl(s, ZPhase(f), zChan[e], zChan[f]) /\ s \in ZPhases /\ ZPhase(f) \in ZPhases
      /\ zChan[e] \in Seq(ZCommand) /\ zChan[f] \in Seq(ZCommand)
      /\ zEnd[e].out = ZNone <=> s \in {"terminating", "double_terminated"}
  BY ZWhose
<1>2. ZControl(s, ZPhase(f), zChan[e], zChan[f] \o d)
  BY <1>1, ZControlSends DEF ZHarmless
<1>3. /\ ZControl(zEnd'[e].state, ZPhase(f), zChan'[e], zChan'[f])
      /\ zEnd'[e].out = ZNone <=> zEnd'[e].state \in {"terminating", "double_terminated"}
  <2>1. CASE zEnd'[e].state = s
    BY <2>1, <1>1, <1>2
  <2>2. CASE {zEnd'[e].state, s} \subseteq ZOpen
    <3>1. ZControl(zEnd'[e].state, ZPhase(f), zChan[e], zChan[f] \o d)
      BY <2>2, <1>1, <1>2, ZControlOpen
    <3> QED BY <3>1, <2>2, <1>1 DEF ZOpen
  <2> QED BY <2>1, <2>2
<1>4. ZCore /\ d \in Seq(ZCommand) /\ ~ZHas(d, "hiccup")
  BY DEF ZBase, ZHarmless
<1> QED BY <1>3, <1>4, ZStep

(* Delimited by the peer, an end that waited for it answers pipe_term. *)
LEMMA ZAnswer ==
    ASSUME ZBase, NEW e \in ZEnd, e \in zAlive, zEnd[e].state = "pending",
           zAlive' = zAlive, zMade' = zMade, zFreed' = zFreed,
           zEnd'[ZPeer(e)] = zEnd[ZPeer(e)],
           zEnd'[e].in = zEnd[e].in, zEnd'[e].out = ZNone, zEnd'[e].state = "terminating",
           zChan'[e] = zChan[e], zChan'[ZPeer(e)] = zChan[ZPeer(e)] \o <<ZCmd("pipe_term_ack")>>
    PROVE  ZShutdown' /\ ZUpipes'
<1> DEFINE f == ZPeer(e)
           d == <<ZCmd("pipe_term_ack")>>
<1>1. /\ ZControl("pending", ZPhase(f), zChan[e], zChan[f]) /\ ZPhase(f) \in ZPhases
      /\ zChan[e] \in Seq(ZCommand) /\ zChan[f] \in Seq(ZCommand)
  BY ZWhose
<1>2. ZCmd("pipe_term_ack") \in ZCommand /\ ZCmd("pipe_term_ack").type = "pipe_term_ack"
  BY DEF ZCmd, ZCommand
<1>3. /\ d \in Seq(ZCommand) /\ ZOrdered(d) /\ ZHas(d, "pipe_term_ack")
      /\ ~ZHas(d, "hiccup") /\ ~ZHas(d, "pipe_term")
  BY <1>2, ZOneSent
<1> HIDE DEF d
<1>4. ZControl("terminating", ZPhase(f), zChan[e], zChan[f] \o d)
  BY <1>1, <1>3, ZControlAnswers
<1>5. ~ZHas(zChan[e], "hiccup")
  BY <1>1 DEF ZControl, ZFlow, ZOpen
<1>6. ZCore /\ zChan'[f] = zChan[f] \o d
  BY DEF ZBase, d
<1> QED BY <1>3, <1>4, <1>5, <1>6, ZStep

(* check_read() finds the delimiter. *)
LEMMA ZReadDelimiterKeeps ==
    ASSUME ZBase, NEW e \in ZEnd, ZReadDelimiter(e)
    PROVE  ZBase'
<1> DEFINE p == zEnd[e]
           q == zQueue[p.in]
<1>1. e \in zAlive /\ p.state \in {"active", "pending"} /\ ZReadable(q) /\ Head(q.items) = "delimiter"
  BY DEF ZReadDelimiter, ZMayRead
<1>2. p \in ZFields /\ p.in \in ZUpipe /\ (e = "socket" <=> p.in = 2)
  BY <1>1, ZWhose
<1>3. ZGood(q) /\ ZPipeTypeOK /\ ZQueues
  BY <1>2 DEF ZQueues, ZBase, ZCore
<1>4. zQueue' = [zQueue EXCEPT ![p.in] = ZTake(q)]
  BY DEF ZReadDelimiter
<1>5. /\ ZQueues' /\ zQueue' \in [ZUpipe -> ZFlushQueue]
      /\ \A v \in ZUpipe : v # p.in => zQueue'[v] = zQueue[v]
  BY <1>1, <1>2, <1>3, <1>4, ZQueueStep, ZTakeIsGood
<1>6. /\ zEnd' \in [ZEnd -> ZFields] /\ zEnd'[ZPeer(e)] = zEnd[ZPeer(e)]
      /\ zEnd'[e] = ZDelimited(p)
  <2>1. ZDelimited(p) \in ZFields BY <1>2 DEF ZDelimited, ZFields, ZState
  <2> QED BY <2>1, <1>3, ZPeers DEF ZReadDelimiter, ZPipeTypeOK, ZFields
<1>7. /\ zAlive' = zAlive /\ zMade' = zMade /\ zFreed' = zFreed /\ zMid' = zMid
      /\ zParts' = zParts /\ zTerms' = zTerms /\ zFailed' = zFailed
      /\ zChan' = ZSend(zChan, e, ZDelimitAck(p))
  BY DEF ZReadDelimiter
<1>8. ASSUME p.state = "active" PROVE ZShutdown' /\ ZUpipes'
  <2>1. zEnd'[e].in = p.in /\ zEnd'[e].out = p.out /\ zEnd'[e].state = "delimited"
    BY <1>2, <1>6, <1>8 DEF ZFields, ZDelimited
  <2>2. zChan' = ZSend(zChan, e, <<>>) BY <1>7, <1>8 DEF ZDelimitAck
  <2>3. /\ zChan'[e] = zChan[e] /\ zChan'[ZPeer(e)] = zChan[ZPeer(e)] \o <<>>
        /\ zChan' \in [ZEnd -> Seq(ZCommand)]
    BY <2>2, <1>3, ZMail, ZNothingSent
  <2>4. {zEnd'[e].state, p.state} \subseteq ZOpen BY <2>1, <1>8 DEF ZOpen
  <2> QED BY <1>1, <1>6, <1>7, <2>1, <2>3, <2>4, ZQuiet, ZActivates
<1>9. ASSUME p.state = "pending" PROVE ZShutdown' /\ ZUpipes'
  <2>1. zEnd'[e].in = p.in /\ zEnd'[e].out = ZNone /\ zEnd'[e].state = "terminating"
    BY <1>2, <1>6, <1>9 DEF ZFields, ZDelimited
  <2>2. zChan' = ZSend(zChan, e, <<ZCmd("pipe_term_ack")>>) BY <1>7, <1>9 DEF ZDelimitAck
  <2>3. <<ZCmd("pipe_term_ack")>> \in Seq(ZCommand) BY DEF ZCmd, ZCommand
  <2>4. zChan'[e] = zChan[e] /\ zChan'[ZPeer(e)] = zChan[ZPeer(e)] \o <<ZCmd("pipe_term_ack")>>
        /\ zChan' \in [ZEnd -> Seq(ZCommand)]
    BY <2>2, <2>3, <1>3, ZMail
  <2> QED BY <1>1, <1>6, <1>7, <1>9, <2>1, <2>4, ZAnswer
<1>10. ZMiddle'
  <2>1. q.items[1] = "delimiter" BY <1>1, <1>3, ZTakeIsGood
  <2>2. \A x \in zMid : ZInOf(x, zMade) # p.in
    BY <2>1 DEF ZBase, ZMiddle, ZRestReady
  <2>3. zMid \subseteq zAlive /\ zAlive \subseteq ZEnd
    BY DEF ZBase, ZCore, ZMiddle, ZPipeTypeOK
  <2> QED BY <1>5, <1>7, <2>2, <2>3, ZMidStep
<1>11. zChan' \in [ZEnd -> Seq(ZCommand)]
  <2>1. <<ZCmd("pipe_term_ack")>> \in Seq(ZCommand) BY DEF ZCmd, ZCommand
  <2>2. ZDelimitAck(p) \in Seq(ZCommand) BY <2>1, ZNothingSent DEF ZDelimitAck
  <2> QED BY <2>2, <1>3, <1>7, ZMail
<1>12. ZPipeTypeOK'
  BY <1>3, <1>5, <1>6, <1>7, <1>11, ZTypeStep DEF ZPipeTypeOK
<1> QED BY <1>1, <1>5, <1>7, <1>8, <1>9, <1>10, <1>12 DEF ZBase, ZCore

(* read() of a part, with the report to the writer. *)
LEMMA ZReadPartKeeps ==
    ASSUME ZBase, NEW e \in ZEnd, ZReadPart(e)
    PROVE  ZBase'
<1> DEFINE p == zEnd[e]
           q == zQueue[p.in]
           part == Head(q.items)
           read == IF part = "last" THEN p.read + 1 ELSE p.read
           told == IF ZLwm > 0 /\ read % ZLwm = 0
                   THEN <<[type |-> "activate_write", read |-> read]>> ELSE <<>>
<1>1. e \in zAlive /\ p.state \in {"active", "pending"} /\ ZReadable(q) /\ part # "delimiter"
  BY DEF ZReadPart, ZMayRead
<1>2. p \in ZFields /\ p.in \in ZUpipe /\ (e = "socket" <=> p.in = 2)
  BY <1>1, ZWhose
<1>3. ZGood(q) /\ ZPipeTypeOK /\ ZQueues
  BY <1>2 DEF ZQueues, ZBase, ZCore
<1>4. zQueue' = [zQueue EXCEPT ![p.in] = ZTake(q)]
  BY DEF ZReadPart
<1>5. /\ ZQueues' /\ zQueue' \in [ZUpipe -> ZFlushQueue]
      /\ zQueue'[p.in] = ZTake(q)
      /\ \A v \in ZUpipe : v # p.in => zQueue'[v] = zQueue[v]
  BY <1>1, <1>2, <1>3, <1>4, ZQueueStep, ZTakeIsGood
<1>6. read \in Nat
  BY <1>2 DEF ZFields
<1>7. /\ zEnd' = [zEnd EXCEPT ![e].read = read]
      /\ zAlive' = zAlive /\ zMade' = zMade /\ zFreed' = zFreed
      /\ zMid' = IF part = "more" THEN zMid \cup {e} ELSE zMid \ {e}
      /\ zParts' = zParts /\ zTerms' = zTerms /\ zFailed' = zFailed
      /\ zChan' = IF ZLwm > 0 /\ read % ZLwm = 0
                  THEN ZSend(zChan, e, <<[type |-> "activate_write", read |-> read]>>)
                  ELSE zChan
  BY DEF ZReadPart
<1>8. /\ zChan'[e] = zChan[e] /\ zChan'[ZPeer(e)] = zChan[ZPeer(e)] \o told
      /\ zChan' \in [ZEnd -> Seq(ZCommand)] /\ ZHarmless(told)
  <2>1. CASE ZLwm > 0 /\ read % ZLwm = 0
    <3>1. told = <<[type |-> "activate_write", read |-> read]>> BY <2>1
    <3>2. ZHarmless(told) BY <1>6, <3>1, ZActivates
    <3>3. zChan' = ZSend(zChan, e, told) BY <1>7, <2>1
    <3> HIDE DEF told
    <3> QED BY <3>2, <3>3, <1>3, ZMail DEF ZHarmless
  <2>2. CASE ~(ZLwm > 0 /\ read % ZLwm = 0)
    <3>1. told = <<>> /\ zChan' = zChan BY <1>7, <2>2
    <3> HIDE DEF told
    <3> QED BY <3>1, <1>3, ZMail, ZActivates DEF ZHarmless
  <2> QED BY <2>1, <2>2
<1> HIDE DEF read, told
<1>9. /\ zEnd' \in [ZEnd -> ZFields] /\ zEnd'[ZPeer(e)] = zEnd[ZPeer(e)]
      /\ zEnd'[e].in = p.in /\ zEnd'[e].out = p.out /\ zEnd'[e].state = p.state
  <2>1. zEnd \in [ZEnd -> ZFields] BY <1>3 DEF ZPipeTypeOK, ZFields
  <2>2. /\ zEnd' = [zEnd EXCEPT ![e] = [p EXCEPT !.read = read]]
        /\ [p EXCEPT !.read = read] \in ZFields
    BY <1>2, <1>6, <1>7 DEF ZFields
  <2>3. zEnd'[e] = [p EXCEPT !.read = read] BY <2>1, <2>2
  <2>4. zEnd' \in [ZEnd -> ZFields] /\ zEnd'[ZPeer(e)] = zEnd[ZPeer(e)]
    BY <2>1, <2>2, ZPeers
  <2> QED BY <1>2, <2>3, <2>4 DEF ZFields
<1>10. ZPipeTypeOK'
  BY <1>3, <1>5, <1>7, <1>8, <1>9, ZTypeStep DEF ZPipeTypeOK
<1>11. ZShutdown' /\ ZUpipes'
  <2>1. p.state \in ZOpen \cup {"pending", "terminated"} BY <1>1 DEF ZOpen
  <2> QED BY <1>1, <1>7, <1>8, <1>9, <2>1, ZQuiet
<1>12. ZMiddle'
  <2>1. part = "more" => ZRestReady(ZTake(q))
    BY <1>1, <1>3, ZTakeIsGood
  <2>2. zMid \subseteq zAlive /\ zAlive \subseteq ZEnd
    BY DEF ZBase, ZCore, ZMiddle, ZPipeTypeOK
  <2>3. p.in = ZInOf(e, zMade) BY <1>1, ZWhose
  <2>4. ASSUME NEW x \in zMid'
        PROVE  \/ x \in zMid /\ ZInOf(x, zMade) # p.in
               \/ ZInOf(x, zMade) = p.in /\ ZRestReady(zQueue'[p.in])
    <3>1. CASE x = e
      <4>1. part = "more" BY <1>7, <2>4, <3>1
      <4> QED BY <4>1, <3>1, <1>5, <2>1, <2>3
    <3>2. CASE x # e
      <4>1. x \in zMid /\ x \in ZEnd BY <1>7, <2>2, <2>4, <3>2
      <4> QED BY <4>1, <3>2, <2>3, ZApart
    <3> QED BY <3>1, <3>2
  <2>5. zMid' \subseteq zAlive' BY <1>1, <1>7, <2>2
  <2> QED BY <1>5, <1>7, <2>2, <2>4, <2>5, ZMidStep
<1> QED BY <1>5, <1>7, <1>10, <1>11, <1>12 DEF ZBase, ZCore

(* An end writes r to its outbound upipe_t and may wake the peer. *)
LEMMA ZOutStep ==
    ASSUME ZBase, NEW e \in ZEnd, e \in zAlive,
           zEnd[e].state \in ZOpen \cup {"pending", "terminated"},
           NEW r, ZGood(r), ZRestReady(zQueue[zEnd[e].out]) => ZRestReady(r),
           zQueue' = [zQueue EXCEPT ![zEnd[e].out] = r], zMid' = zMid, zAlive' = zAlive,
           zMade' = zMade
    PROVE  ZQueues' /\ ZMiddle' /\ zQueue' \in [ZUpipe -> ZFlushQueue]
<1> DEFINE u == zEnd[e].out
<1>1. u \in ZUpipe
  BY ZWhose DEF ZOpen
<1>2. /\ ZQueues' /\ zQueue' \in [ZUpipe -> ZFlushQueue]
      /\ zQueue'[u] = r /\ \A v \in ZUpipe : v # u => zQueue'[v] = zQueue[v]
  BY <1>1, ZQueueStep DEF ZBase, ZCore
<1>3. ZMiddle'
  <2>1. zMid \subseteq zAlive /\ zAlive \subseteq ZEnd
    BY DEF ZBase, ZCore, ZMiddle, ZPipeTypeOK
  <2>2. \A x \in zMid : ZInOf(x, zMade) = u => ZRestReady(r)
    BY DEF ZBase, ZMiddle
  <2> HIDE DEF u
  <2> QED BY <1>2, <2>1, <2>2, ZMidStep
<1> QED BY <1>2, <1>3

(* flush(). *)
LEMMA ZFlushOutKeeps ==
    ASSUME ZBase, ZFlushOut
    PROVE  ZBase'
<1> DEFINE p == zEnd["session"]
           q == zQueue[p.out]
           told == IF ZWakes(q) THEN <<ZCmd("activate_read")>> ELSE <<>>
           e == "session"
<1>1. /\ e \in zAlive /\ e \in ZEnd /\ p.state # "terminating" /\ p.out # ZNone
      /\ zQueue' = [zQueue EXCEPT ![p.out] = ZFlush(q)]
      /\ zChan' = IF ZWakes(q) THEN ZSend(zChan, e, <<ZCmd("activate_read")>>) ELSE zChan
      /\ zEnd' = zEnd /\ zAlive' = zAlive /\ zMade' = zMade /\ zFreed' = zFreed /\ zMid' = zMid
      /\ zParts' = zParts /\ zTerms' = zTerms /\ zFailed' = zFailed
  BY DEF ZFlushOut, ZEnd
<1>2. /\ p \in ZFields /\ p.out \in ZUpipe /\ p.state \in ZOpen \cup {"pending", "terminated"}
      /\ ZPipeTypeOK
  BY <1>1, ZWhose DEF ZFields, ZState, ZOpen, ZBase, ZCore
<1>3. ZGood(q)
  BY <1>2 DEF ZBase, ZQueues
<1>4. ZQueues' /\ ZMiddle' /\ zQueue' \in [ZUpipe -> ZFlushQueue]
  <2>1. ZGood(ZFlush(q)) /\ (ZRestReady(q) => ZRestReady(ZFlush(q)))
    BY <1>3, ZFlushIsGood
  <2> QED BY <1>1, <1>2, <2>1, ZOutStep
<1>5. /\ zChan'[e] = zChan[e] /\ zChan'[ZPeer(e)] = zChan[ZPeer(e)] \o told
      /\ zChan' \in [ZEnd -> Seq(ZCommand)] /\ ZHarmless(told)
  BY <1>1, <1>2, ZMail, ZActivates DEF ZHarmless
<1> HIDE DEF told
<1>6. ZPipeTypeOK'
  BY <1>1, <1>2, <1>4, <1>5, ZTypeStep DEF ZPipeTypeOK, ZFields
<1>7. ZShutdown' /\ ZUpipes'
  BY <1>1, <1>2, <1>5, ZQuiet
<1> QED BY <1>1, <1>4, <1>6, <1>7 DEF ZBase, ZCore

(* rollback() and flush(), as a session cleans its pipe; nothing happens without  *)
(* an outbound upipe_t.                                                          *)
LEMMA ZCleanPipesKeeps ==
    ASSUME ZBase, ZCleanPipes, zEnd["session"].out # ZNone
    PROVE  ZBase'
<1> DEFINE p == zEnd["session"]
           q == ZRollback(zQueue[p.out])
           told == IF ZWakes(q) THEN <<ZCmd("activate_read")>> ELSE <<>>
           e == "session"
<1>1. /\ e \in zAlive /\ e \in ZEnd /\ p.out # ZNone
      /\ zQueue' = [zQueue EXCEPT ![p.out] = ZFlush(q)]
      /\ zChan' = IF ZWakes(q) THEN ZSend(zChan, e, <<ZCmd("activate_read")>>) ELSE zChan
      /\ zEnd' = zEnd /\ zAlive' = zAlive /\ zMade' = zMade /\ zFreed' = zFreed /\ zMid' = zMid
      /\ zParts' = zParts /\ zTerms' = zTerms /\ zFailed' = zFailed
  BY DEF ZCleanPipes, ZEnd
<1>2. /\ p \in ZFields /\ p.out \in ZUpipe /\ p.state \in ZOpen \cup {"pending", "terminated"}
      /\ ZPipeTypeOK
  BY <1>1, ZWhose DEF ZFields, ZState, ZOpen, ZBase, ZCore
<1>3. ZGood(zQueue[p.out])
  BY <1>2 DEF ZBase, ZQueues
<1>4. ZGood(q) /\ (ZRestReady(zQueue[p.out]) => ZRestReady(q))
  BY <1>3, ZRollbackIsGood
<1> HIDE DEF q
<1>5. ZQueues' /\ ZMiddle' /\ zQueue' \in [ZUpipe -> ZFlushQueue]
  <2>1. ZGood(ZFlush(q)) /\ (ZRestReady(q) => ZRestReady(ZFlush(q)))
    BY <1>4, ZFlushIsGood
  <2> QED BY <1>1, <1>2, <1>4, <2>1, ZOutStep
<1>6. /\ zChan'[e] = zChan[e] /\ zChan'[ZPeer(e)] = zChan[ZPeer(e)] \o told
      /\ zChan' \in [ZEnd -> Seq(ZCommand)] /\ ZHarmless(told)
  BY <1>1, <1>2, ZMail, ZActivates DEF ZHarmless
<1> HIDE DEF told
<1>7. ZPipeTypeOK'
  BY <1>1, <1>2, <1>5, <1>6, ZTypeStep DEF ZPipeTypeOK, ZFields
<1>8. ZShutdown' /\ ZUpipes'
  BY <1>1, <1>2, <1>6, ZQuiet
<1> QED BY <1>1, <1>5, <1>7, <1>8 DEF ZBase, ZCore

(* The fields of one end change. *)
LEMMA ZEndStep ==
    ASSUME ZPipeTypeOK, NEW e \in ZEnd, NEW r \in ZFields, zEnd' = [zEnd EXCEPT ![e] = r]
    PROVE  zEnd' \in [ZEnd -> ZFields] /\ zEnd'[e] = r /\ zEnd'[ZPeer(e)] = zEnd[ZPeer(e)]
<1>1. zEnd \in [ZEnd -> ZFields]
  BY DEF ZPipeTypeOK, ZFields
<1> QED BY <1>1, ZPeers

(* write() of a part. *)
LEMMA ZWriteKeeps ==
    ASSUME ZBase, NEW e \in ZEnd, NEW part \in {"more", "last"}, ZWrite(e, part)
    PROVE  ZBase'
<1> DEFINE p == zEnd[e]
           q == ZPut(zQueue[p.out], part)
           told == IF e = "socket" /\ part = "last" /\ ZWakes(q)
                   THEN <<ZCmd("activate_read")>> ELSE <<>>
           f == ZPeer(e)
<1>1. /\ e \in zAlive /\ p.state = "active"
      /\ zAlive' = zAlive /\ zMade' = zMade /\ zFreed' = zFreed /\ zMid' = zMid
      /\ zTerms' = zTerms /\ zFailed' = zFailed
  BY DEF ZWrite
<1>2. p \in ZFields /\ p.out \in ZUpipe /\ (e = "session" <=> p.out = 2) /\ ZPipeTypeOK
  BY <1>1, ZWhose DEF ZBase, ZCore
<1>3. CASE ZFull(p)
  <2>1. /\ zEnd' = [zEnd EXCEPT ![e].outActive = FALSE]
        /\ zQueue' = zQueue /\ zChan' = zChan /\ zParts' = zParts
    BY <1>3 DEF ZWrite
  <2>2. /\ zEnd' = [zEnd EXCEPT ![e] = [p EXCEPT !.outActive = FALSE]]
        /\ [p EXCEPT !.outActive = FALSE] \in ZFields
    BY <1>2, <2>1 DEF ZFields
  <2>3. /\ zEnd' \in [ZEnd -> ZFields] /\ zEnd'[f] = zEnd[f]
        /\ zEnd'[e] = [p EXCEPT !.outActive = FALSE]
    BY <1>2, <2>2, ZEndStep
  <2>4. zEnd'[e].in = p.in /\ zEnd'[e].out = p.out /\ zEnd'[e].state = p.state
    BY <1>2, <2>3 DEF ZFields
  <2>5. /\ zChan'[e] = zChan[e] /\ zChan'[f] = zChan[f] \o <<>> /\ ZHarmless(<<>>)
        /\ zChan' \in [ZEnd -> Seq(ZCommand)]
    BY <1>2, <2>1, ZMail, ZActivates DEF ZHarmless
  <2>6. ZPipeTypeOK'
    BY <1>1, <1>2, <2>1, <2>3, <2>5, ZTypeStep DEF ZPipeTypeOK, ZFlushQueue, ZItem
  <2>7. ZShutdown' /\ ZUpipes'
    BY <1>1, <2>3, <2>4, <2>5, ZQuiet
  <2>8. ZQueues' /\ ZMiddle'
    BY <1>1, <2>1 DEF ZBase, ZQueues, ZMiddle
  <2> QED BY <1>1, <2>6, <2>7, <2>8 DEF ZBase, ZCore
<1>4. CASE ~ZFull(p)
  <2> DEFINE r == IF e = "socket" /\ part = "last" THEN ZFlush(q) ELSE q
             w == IF part = "last" THEN p.written + 1 ELSE p.written
  <2>1. /\ zParts[e] < ZWrites[e]
        /\ zQueue' = [zQueue EXCEPT ![p.out] = r]
        /\ zEnd' = [zEnd EXCEPT ![e].written = w]
        /\ zParts' = [zParts EXCEPT ![e] = @ + 1]
        /\ zChan' = IF e = "socket" /\ part = "last" /\ ZWakes(q)
                    THEN ZSend(zChan, e, <<ZCmd("activate_read")>>) ELSE zChan
    BY <1>4 DEF ZWrite
  <2>2. ZGood(zQueue[p.out])
    BY <1>2 DEF ZBase, ZQueues, ZEnd
  <2>3. /\ ZGood(q)
        /\ (ZRestReady(zQueue[p.out]) => ZRestReady(q))
    BY <2>1, <2>2, ZPutIsGood DEF ZItem
  <2> HIDE DEF q
  <2>4. /\ ZGood(r)
        /\ (ZRestReady(zQueue[p.out]) => ZRestReady(r))
    BY <2>3, ZFlushIsGood
  <2> HIDE DEF r
  <2>5. ZQueues' /\ ZMiddle' /\ zQueue' \in [ZUpipe -> ZFlushQueue]
    BY <1>1, <2>1, <2>4, ZOutStep DEF ZOpen
  <2>6. w \in Nat BY <1>2 DEF ZFields
  <2> HIDE DEF w
  <2>7. /\ zEnd' = [zEnd EXCEPT ![e] = [p EXCEPT !.written = w]]
        /\ [p EXCEPT !.written = w] \in ZFields
    BY <1>2, <2>1, <2>6 DEF ZFields
  <2>8. /\ zEnd' \in [ZEnd -> ZFields] /\ zEnd'[f] = zEnd[f]
        /\ zEnd'[e] = [p EXCEPT !.written = w]
    BY <1>2, <2>7, ZEndStep
  <2>9. zEnd'[e].in = p.in /\ zEnd'[e].out = p.out /\ zEnd'[e].state = p.state
    BY <1>2, <2>8 DEF ZFields
  <2>10. /\ zChan'[e] = zChan[e] /\ zChan'[f] = zChan[f] \o told
         /\ zChan' \in [ZEnd -> Seq(ZCommand)] /\ ZHarmless(told)
    BY <1>2, <2>1, ZMail, ZActivates DEF ZHarmless
  <2> HIDE DEF told
  <2>11. /\ zParts' \in [ZEnd -> Nat] /\ \A x \in ZEnd : zParts'[x] <= ZWrites[x]
    <3>1. zParts[e] \in Nat /\ ZWrites[e] \in Nat BY <1>2, ZAssumption DEF ZPipeTypeOK, ZEnd
    <3>2. zParts[e] + 1 \in Nat /\ zParts[e] + 1 <= ZWrites[e] BY <3>1, <2>1
    <3>3. zParts' = [zParts EXCEPT ![e] = zParts[e] + 1] BY <2>1
    <3> QED BY <1>2, <3>2, <3>3 DEF ZPipeTypeOK
  <2>12. ZPipeTypeOK'
    BY <1>1, <1>2, <2>5, <2>8, <2>10, <2>11 DEF ZPipeTypeOK, ZFlushQueue, ZItem, ZFields
  <2>13. ZShutdown' /\ ZUpipes'
    BY <1>1, <2>8, <2>9, <2>10, ZQuiet DEF ZOpen
  <2> QED BY <1>1, <2>5, <2>12, <2>13 DEF ZBase, ZCore
<1> QED BY <1>3, <1>4

(* A command that has nothing to do with the shutdown is processed. *)
LEMMA ZQuietly ==
    ASSUME ZBase, NEW e \in ZEnd, e \in zAlive,
           zChan[e] # <<>>, Head(zChan[e]).type \in {"activate_read", "activate_write"},
           zChan' = ZTaken(e), zQueue' = zQueue, zMade' = zMade, zFreed' = zFreed,
           zAlive' = zAlive, zMid' = zMid, zParts' = zParts, zTerms' = zTerms,
           zFailed' = zFailed,
           NEW r \in ZFields, zEnd' = [zEnd EXCEPT ![e] = r],
           r.in = zEnd[e].in, r.out = zEnd[e].out, r.state = zEnd[e].state
    PROVE  ZBase'
<1> DEFINE f == ZPeer(e)
<1>1. ZPipeTypeOK /\ ZCore
  BY DEF ZBase, ZCore
<1>2. zEnd' \in [ZEnd -> ZFields] /\ zEnd'[f] = zEnd[f] /\ zEnd'[e] = r
  BY <1>1, ZEndStep
<1>3. /\ zChan'[e] = Tail(zChan[e]) /\ zChan'[f] = zChan[f] \o <<>>
      /\ zChan' \in [ZEnd -> Seq(ZCommand)] /\ ZHarmless(<<>>)
  BY <1>1, ZMail, ZActivates DEF ZHarmless
<1>4. /\ ZControl(zEnd[e].state, ZPhase(f), zChan[e], zChan[f])
      /\ zEnd[e].state \in ZPhases /\ ZPhase(f) \in ZPhases
      /\ zChan[e] \in Seq(ZCommand) /\ zChan[f] \in Seq(ZCommand)
      /\ zEnd[e].out = ZNone <=> zEnd[e].state \in {"terminating", "double_terminated"}
  BY ZWhose
<1>5. zChan[e][1].type \in {"activate_read", "activate_write"}
  BY <1>4, ZTailOf
<1>6. ZControl(zEnd[e].state, ZPhase(f), Tail(zChan[e]), zChan[f])
  BY <1>4, <1>5, ZControlTakes
<1>7. zChan'[f] = zChan[f]
  BY <1>3, <1>4, ConcatEmptySeq
<1>8. ZShutdown' /\ ZUpipes'
  <2>1. zChan[e][1].type # "hiccup" BY <1>5
  <2> QED BY <1>1, <1>2, <1>3, <1>4, <1>6, <1>7, <2>1, ZStep DEF ZHarmless
<1>9. ZPipeTypeOK'
  BY <1>1, <1>2, <1>3, ZTypeStep DEF ZPipeTypeOK, ZFlushQueue, ZItem
<1> QED BY <1>8, <1>9 DEF ZBase, ZCore, ZQueues, ZMiddle

(* The reader wakes up. *)
LEMMA ZProcessActivateReadKeeps ==
    ASSUME ZBase, NEW e \in ZEnd, ZProcessActivateRead(e)
    PROVE  ZBase'
<1> DEFINE p == zEnd[e]
           active == p.inActive \/ p.state \in {"active", "pending"}
           r == [p EXCEPT !.inActive = active]
<1>1. /\ e \in zAlive /\ zChan[e] # <<>> /\ Head(zChan[e]).type = "activate_read"
      /\ zEnd' = [zEnd EXCEPT ![e] = r] /\ zChan' = ZTaken(e)
  BY DEF ZProcessActivateRead, ZReceive
<1>2. active \in BOOLEAN /\ p \in ZFields
  BY <1>1, ZWhose DEF ZFields
<1> HIDE DEF active
<1>3. r \in ZFields /\ r.in = p.in /\ r.out = p.out /\ r.state = p.state
  BY <1>2 DEF ZFields
<1> QED BY <1>1, <1>3, ZQuietly DEF ZProcessActivateRead

(* A report reaches the writer. *)
LEMMA ZProcessActivateWriteKeeps ==
    ASSUME ZBase, NEW e \in ZEnd, ZProcessActivateWrite(e)
    PROVE  ZBase'
<1> DEFINE p == zEnd[e]
           active == p.outActive \/ p.state = "active"
           n == Head(zChan[e]).read
           r == [p EXCEPT !.peersRead = n, !.outActive = active]
<1>1. /\ e \in zAlive /\ zChan[e] # <<>> /\ Head(zChan[e]).type = "activate_write"
      /\ zEnd' = [zEnd EXCEPT ![e] = r] /\ zChan' = ZTaken(e)
  BY DEF ZProcessActivateWrite, ZReceive
<1>2. active \in BOOLEAN /\ p \in ZFields
  BY <1>1, ZWhose DEF ZFields
<1>3. n \in Nat
  <2>1. Head(zChan[e]) \in ZCommand BY <1>1, ZWhose, ZTailOf
  <2> QED BY <1>1, <2>1 DEF ZCommand
<1> HIDE DEF active, n
<1>4. r \in ZFields /\ r.in = p.in /\ r.out = p.out /\ r.state = p.state
  BY <1>2, <1>3 DEF ZFields
<1> QED BY <1>1, <1>4, ZQuietly DEF ZProcessActivateWrite

(* The delimiter goes into the outbound upipe_t. *)
LEMMA ZDelimiterIsGood ==
    ASSUME NEW q, ZGood(q)
    PROVE  LET r == ZFlush(ZPut(ZRollback(q), "delimiter"))
           IN  ZGood(r) /\ (ZRestReady(q) => ZRestReady(r))
<1> DEFINE b == ZRollback(q)
           c == ZPut(b, "delimiter")
<1>1. /\ ZGood(b) /\ b.complete = Len(b.items)
      /\ (ZRestReady(q) => ZRestReady(b))
  BY ZRollbackIsGood
<1> HIDE DEF b
<1>2. ZGood(c) /\ (ZRestReady(b) => ZRestReady(c))
  BY <1>1, ZPutIsGood DEF ZItem
<1> HIDE DEF c
<1>3. ZGood(ZFlush(c)) /\ (ZRestReady(c) => ZRestReady(ZFlush(c)))
  BY <1>2, ZFlushIsGood
<1> QED BY <1>1, <1>2, <1>3 DEF b, c

(* terminate(), in each of the states that it tells apart. *)
LEMMA ZTerminateKeeps ==
    ASSUME ZBase, NEW e \in ZEnd, NEW delay \in BOOLEAN, ZTerminate(e, delay)
    PROVE  ZBase'
<1> DEFINE p == zEnd[e]
           new == ZTermEnd(p, delay)
           q == ZPut(ZRollback(zQueue[p.out]), "delimiter")
           told == IF ZWakes(q) THEN <<ZCmd("activate_read")>> ELSE <<>>
           f == ZPeer(e)
<1>1. /\ e \in zAlive /\ zTerms[e] < ZTerms[e] /\ zTerms' = [zTerms EXCEPT ![e] = @ + 1]
      /\ zAlive' = zAlive /\ zMade' = zMade /\ zFreed' = zFreed /\ zMid' = zMid
      /\ zParts' = zParts /\ zFailed' = zFailed
  BY DEF ZTerminate
<1>2. p \in ZFields /\ p.state \in ZState /\ ZPipeTypeOK
  BY <1>1, ZWhose DEF ZBase, ZCore, ZFields
<1>3. zTerms' \in [ZEnd -> Nat] /\ \A x \in ZEnd : zTerms'[x] <= ZTerms[x]
  <2>1. zTerms[e] \in Nat /\ ZTerms[e] \in Nat BY <1>2, ZAssumption DEF ZPipeTypeOK, ZEnd
  <2>2. zTerms[e] + 1 \in Nat /\ zTerms[e] + 1 <= ZTerms[e] BY <2>1, <1>1
  <2>3. zTerms' = [zTerms EXCEPT ![e] = zTerms[e] + 1] BY <1>1
  <2> QED BY <1>2, <2>2, <2>3 DEF ZPipeTypeOK
<1>4. ASSUME zEnd' \in [ZEnd -> ZFields], zChan' \in [ZEnd -> Seq(ZCommand)],
             zQueue' \in [ZUpipe -> ZFlushQueue]
      PROVE  ZPipeTypeOK'
  BY <1>1, <1>2, <1>3, <1>4 DEF ZPipeTypeOK, ZFlushQueue, ZItem, ZFields
<1>5. CASE p.state \in {"terminated", "double_terminated", "terminating"}
  <2>1. zEnd' = [zEnd EXCEPT ![e] = [p EXCEPT !.delay = delay]] /\ zQueue' = zQueue /\ zChan' = zChan
    BY <1>5 DEF ZTerminate
  <2>2. [p EXCEPT !.delay = delay] \in ZFields BY <1>2 DEF ZFields
  <2>3. zEnd' \in [ZEnd -> ZFields] /\ zEnd'[f] = zEnd[f] /\ zEnd'[e] = [p EXCEPT !.delay = delay]
    BY <1>2, <2>1, <2>2, ZEndStep
  <2>4. zEnd'[e].in = p.in /\ zEnd'[e].out = p.out /\ zEnd'[e].state = p.state
    BY <1>2, <2>3 DEF ZFields
  <2>5. /\ zChan'[e] = zChan[e] /\ zChan'[f] = zChan[f] \o <<>> /\ ZHarmless(<<>>)
        /\ zChan' \in [ZEnd -> Seq(ZCommand)]
    BY <1>2, <2>1, ZMail, ZActivates DEF ZHarmless
  <2>6. ZPipeTypeOK'
    BY <1>2, <1>4, <2>1, <2>3, <2>5 DEF ZPipeTypeOK, ZFlushQueue, ZItem
  <2>7. ZShutdown' /\ ZUpipes'
    BY <1>1, <2>3, <2>4, <2>5, ZQuiet
  <2>8. ZQueues' /\ ZMiddle'
    BY <1>1, <2>1 DEF ZBase, ZQueues, ZMiddle
  <2> QED BY <1>1, <2>6, <2>7, <2>8 DEF ZBase, ZCore
<1>6. CASE p.state \in ZOpen \cup {"pending"}
  <2>1. /\ zEnd' = [zEnd EXCEPT ![e] = new]
        /\ zQueue' = IF new.out = ZNone THEN zQueue ELSE [zQueue EXCEPT ![p.out] = ZFlush(q)]
        /\ zChan' = ZSend(zChan, e, ZTermSend(p, delay) \o
                            IF new.out # ZNone /\ ZWakes(q)
                            THEN <<ZCmd("activate_read")>> ELSE <<>>)
    BY <1>6 DEF ZTerminate, ZOpen
  <2>2. /\ p.out # ZNone /\ p.out \in ZUpipe /\ (e = "session" <=> p.out = 2)
        /\ ZControl(p.state, ZPhase(f), zChan[e], zChan[f])
        /\ p.state \in ZPhases /\ ZPhase(f) \in ZPhases
        /\ zChan[e] \in Seq(ZCommand) /\ zChan[f] \in Seq(ZCommand)
    BY <1>1, <1>6, ZWhose DEF ZOpen
  <2>3. /\ ZGood(ZFlush(q))
        /\ (ZRestReady(zQueue[p.out]) => ZRestReady(ZFlush(q)))
    <3>1. ZGood(zQueue[p.out])
      BY <2>2 DEF ZBase, ZQueues, ZEnd
    <3> QED BY <3>1, ZDelimiterIsGood
  <2>4. ZHarmless(told) BY ZActivates
  <2> HIDE DEF q, told
  <2>5. ASSUME new.out = p.out
        PROVE  /\ ZQueues' /\ ZMiddle' /\ zQueue' \in [ZUpipe -> ZFlushQueue]
               /\ zChan' = ZSend(zChan, e, ZTermSend(p, delay) \o told)
    <3>1. zQueue' = [zQueue EXCEPT ![p.out] = ZFlush(q)] BY <2>1, <2>2, <2>5
    <3>2. ZQueues' /\ ZMiddle' /\ zQueue' \in [ZUpipe -> ZFlushQueue]
      BY <3>1, <1>1, <1>6, <2>3, ZOutStep
    <3> QED BY <2>1, <2>2, <2>5, <3>2 DEF told
  <2>6. CASE p.state \in ZOpen
    <3> DEFINE d == <<ZCmd("pipe_term")>> \o told
    <3>1. /\ new \in ZFields /\ new.out = p.out /\ new.in = p.in /\ new.state = "terminated"
      BY <1>2, <2>6 DEF ZTermEnd, ZFields, ZState, ZOpen
    <3>2. ZTermSend(p, delay) = <<ZCmd("pipe_term")>> BY <2>6 DEF ZTermSend, ZOpen
    <3> HIDE DEF new
    <3>3. ZCmd("pipe_term") \in ZCommand /\ ZCmd("pipe_term").type = "pipe_term"
      BY DEF ZCmd, ZCommand
    <3>4. /\ <<ZCmd("pipe_term")>> \in Seq(ZCommand) /\ ZOrdered(<<ZCmd("pipe_term")>>)
          /\ \A t : ZHas(<<ZCmd("pipe_term")>>, t) <=> t = "pipe_term"
      BY <3>3, ZOneSent
    <3>5. /\ d \in Seq(ZCommand) /\ ZOrdered(d) /\ ZHas(d, "pipe_term")
          /\ ~ZHas(d, "pipe_term_ack") /\ ~ZHas(d, "hiccup")
      BY <3>4, <2>4, ZHasConcat, ZOrderedConcat, ConcatProperties DEF ZHarmless
    <3>6. /\ ZQueues' /\ ZMiddle' /\ zQueue' \in [ZUpipe -> ZFlushQueue]
          /\ zChan' = ZSend(zChan, e, d)
      BY <2>5, <3>1, <3>2
    <3> HIDE DEF d
    <3>7. /\ zChan'[e] = zChan[e] /\ zChan'[f] = zChan[f] \o d
          /\ zChan' \in [ZEnd -> Seq(ZCommand)]
      BY <1>2, <3>5, <3>6, ZMail
    <3>8. zEnd' \in [ZEnd -> ZFields] /\ zEnd'[f] = zEnd[f] /\ zEnd'[e] = new
      BY <1>2, <2>1, <3>1, ZEndStep
    <3>9. ZControl("terminated", ZPhase(f), zChan[e], zChan[f] \o d)
      BY <2>2, <2>6, <3>5, ZControlTerminates
    <3>10. ZShutdown' /\ ZUpipes'
      <4>1. ZCore BY DEF ZBase
      <4> QED BY <4>1, <1>1, <2>2, <3>1, <3>5, <3>7, <3>8, <3>9, ZStep
    <3>11. ZPipeTypeOK' BY <1>4, <3>6, <3>7, <3>8
    <3> QED BY <1>1, <3>6, <3>10, <3>11 DEF ZBase, ZCore
  <2>7. CASE p.state = "pending" /\ ~delay
    <3>1. /\ new \in ZFields /\ new.out = ZNone /\ new.in = p.in /\ new.state = "terminating"
      BY <1>2, <2>7 DEF ZTermEnd, ZFields, ZState
    <3>2. ZTermSend(p, delay) = <<ZCmd("pipe_term_ack")>> BY <2>7 DEF ZTermSend
    <3> HIDE DEF new
    <3>3. <<ZCmd("pipe_term_ack")>> \in Seq(ZCommand) BY DEF ZCmd, ZCommand
    <3>4. zChan' = ZSend(zChan, e, <<ZCmd("pipe_term_ack")>>) /\ zQueue' = zQueue
      BY <2>1, <3>1, <3>2, <3>3, ConcatEmptySeq
    <3>5. /\ zChan'[e] = zChan[e] /\ zChan'[f] = zChan[f] \o <<ZCmd("pipe_term_ack")>>
          /\ zChan' \in [ZEnd -> Seq(ZCommand)]
      BY <1>2, <3>3, <3>4, ZMail
    <3>6. zEnd' \in [ZEnd -> ZFields] /\ zEnd'[f] = zEnd[f] /\ zEnd'[e] = new
      BY <1>2, <2>1, <3>1, ZEndStep
    <3>7. ZShutdown' /\ ZUpipes'
      BY <1>1, <2>7, <3>1, <3>5, <3>6, ZAnswer
    <3>8. ZPipeTypeOK' BY <1>2, <1>4, <3>4, <3>5, <3>6 DEF ZPipeTypeOK, ZFlushQueue, ZItem
    <3> QED BY <1>1, <3>4, <3>7, <3>8 DEF ZBase, ZCore, ZQueues, ZMiddle
  <2>8. CASE p.state = "pending" /\ delay
    <3>1. /\ new \in ZFields /\ new.out = p.out /\ new.in = p.in /\ new.state = "pending"
      BY <1>2, <2>8 DEF ZTermEnd, ZFields, ZState
    <3>2. ZTermSend(p, delay) = <<>> BY <2>8 DEF ZTermSend
    <3> HIDE DEF new
    <3>3. /\ ZQueues' /\ ZMiddle' /\ zQueue' \in [ZUpipe -> ZFlushQueue]
          /\ zChan' = ZSend(zChan, e, told)
      BY <2>4, <2>5, <3>1, <3>2, ConcatEmptySeq DEF ZHarmless
    <3>4. /\ zChan'[e] = zChan[e] /\ zChan'[f] = zChan[f] \o told
          /\ zChan' \in [ZEnd -> Seq(ZCommand)]
      BY <1>2, <2>4, <3>3, ZMail DEF ZHarmless
    <3>5. zEnd' \in [ZEnd -> ZFields] /\ zEnd'[f] = zEnd[f] /\ zEnd'[e] = new
      BY <1>2, <2>1, <3>1, ZEndStep
    <3>6. ZShutdown' /\ ZUpipes'
      BY <1>1, <2>4, <2>8, <3>1, <3>4, <3>5, ZQuiet
    <3>7. ZPipeTypeOK' BY <1>4, <3>3, <3>4, <3>5
    <3> QED BY <1>1, <3>3, <3>6, <3>7 DEF ZBase, ZCore
  <2> QED BY <1>6, <2>6, <2>7, <2>8
<1> QED BY <1>2, <1>5, <1>6 DEF ZState, ZOpen

(* process_pipe_term(), in each state that it can find. *)
LEMMA ZProcessPipeTermKeeps ==
    ASSUME ZBase, NEW e \in ZEnd, ZProcessPipeTerm(e)
    PROVE  ZBase'
<1> DEFINE p == zEnd[e]
           f == ZPeer(e)
           waits == p.state = "active" /\ p.delay
           new == IF waits THEN [p EXCEPT !.state = "pending"]
                  ELSE [p EXCEPT !.out = ZNone,
                                 !.state = IF @ = "terminated" THEN "double_terminated"
                                           ELSE "terminating"]
           d == <<ZCmd("pipe_term_ack")>>
<1>1. /\ e \in zAlive /\ zChan[e] # <<>> /\ Head(zChan[e]).type = "pipe_term"
      /\ zFailed' = (zFailed \/ p.state \notin {"active", "delimited", "terminated"})
      /\ zEnd' = [zEnd EXCEPT ![e] = new]
      /\ zChan' = IF waits THEN ZTaken(e) ELSE ZSend(ZTaken(e), e, d)
      /\ zQueue' = zQueue /\ zMade' = zMade /\ zFreed' = zFreed /\ zAlive' = zAlive
      /\ zMid' = zMid /\ zParts' = zParts /\ zTerms' = zTerms
  BY DEF ZProcessPipeTerm, ZReceive
<1>2. /\ p \in ZFields /\ ZPipeTypeOK /\ ZCore
      /\ ZControl(p.state, ZPhase(f), zChan[e], zChan[f])
      /\ p.state \in ZPhases /\ ZPhase(f) \in ZPhases
      /\ zChan[e] \in Seq(ZCommand) /\ zChan[f] \in Seq(ZCommand)
      /\ p.out = ZNone <=> p.state \in {"terminating", "double_terminated"}
  BY <1>1, ZWhose DEF ZBase, ZCore
<1>3. /\ zChan[e][1].type = "pipe_term"
      /\ \A t : ZHas(zChan[e], t) <=> t = "pipe_term" \/ ZHas(Tail(zChan[e]), t)
  BY <1>1, <1>2, ZTailOf
<1>4. ZCmd("pipe_term_ack") \in ZCommand /\ ZCmd("pipe_term_ack").type = "pipe_term_ack"
  BY DEF ZCmd, ZCommand
<1>5. /\ d \in Seq(ZCommand) /\ ZOrdered(d) /\ ZHas(d, "pipe_term_ack")
      /\ ~ZHas(d, "hiccup") /\ ~ZHas(d, "pipe_term")
  BY <1>4, ZOneSent
<1> HIDE DEF d
<1>6. /\ p.state \in ZOpen \cup {"terminated"}
      /\ p.state \in ZOpen => /\ ZControl("pending", ZPhase(f), Tail(zChan[e]), zChan[f])
                              /\ ZControl("terminating", ZPhase(f), Tail(zChan[e]), zChan[f] \o d)
      /\ p.state = "terminated" =>
            ZControl("double_terminated", ZPhase(f), Tail(zChan[e]), zChan[f] \o d)
  BY <1>1, <1>2, <1>3, <1>5, ZControlPipeTerm
<1>7. ~ZHas(zChan[e], "hiccup")
  <2>1. ~ZHas(Tail(zChan[e]), "hiccup")
    BY <1>1, <1>2, <1>3, ZOrderedTail DEF ZControl, ZFlow
  <2> QED BY <2>1, <1>3
<1>8. /\ new \in ZFields /\ new.in = p.in
      /\ waits => new.state = "pending" /\ new.out = p.out
      /\ ~waits => new.out = ZNone
      /\ ~waits /\ p.state \in ZOpen => new.state = "terminating"
      /\ p.state = "terminated" => new.state = "double_terminated"
  BY <1>2 DEF ZFields, ZState, ZOpen
<1>9. zFailed' = zFailed
  BY <1>1, <1>2, <1>6 DEF ZOpen, ZPipeTypeOK
<1> HIDE DEF new
<1>10. zEnd' \in [ZEnd -> ZFields] /\ zEnd'[f] = zEnd[f] /\ zEnd'[e] = new
  BY <1>1, <1>2, <1>8, ZEndStep
<1>11. zChan[e] # <<>> /\ zChan[e][1].type # "hiccup"
  BY <1>1, <1>3
<1>12. CASE waits
  <2>1. /\ zChan'[e] = Tail(zChan[e]) /\ zChan'[f] = zChan[f] \o <<>>
        /\ zChan' \in [ZEnd -> Seq(ZCommand)] /\ ZHarmless(<<>>)
    BY <1>1, <1>2, <1>12, ZMail, ZActivates DEF ZHarmless
  <2>2. zChan'[f] = zChan[f] BY <2>1, <1>2, ConcatEmptySeq
  <2>3. new.state = "pending" /\ new.out = p.out /\ p.state \in ZOpen /\ p.out # ZNone
    BY <1>2, <1>8, <1>12 DEF ZOpen
  <2>4. ZShutdown' /\ ZUpipes'
    BY <1>1, <1>2, <1>6, <1>8, <1>10, <1>11, <2>1, <2>2, <2>3, ZStep DEF ZHarmless
  <2>5. ZPipeTypeOK'
    BY <1>1, <1>2, <1>9, <1>10, <2>1, ZTypeStep DEF ZPipeTypeOK, ZFlushQueue, ZItem
  <2> QED BY <1>1, <1>9, <2>4, <2>5 DEF ZBase, ZCore, ZQueues, ZMiddle
<1>13. CASE ~waits
  <2>1. /\ zChan'[e] = Tail(zChan[e]) /\ zChan'[f] = zChan[f] \o d
        /\ zChan' \in [ZEnd -> Seq(ZCommand)]
    BY <1>1, <1>2, <1>5, <1>13, ZMail
  <2>2. /\ new.state \in {"terminating", "double_terminated"} /\ new.out = ZNone
        /\ ZControl(new.state, ZPhase(f), Tail(zChan[e]), zChan[f] \o d)
    BY <1>6, <1>8, <1>13
  <2>3. ZShutdown' /\ ZUpipes'
    BY <1>1, <1>2, <1>5, <1>7, <1>8, <1>10, <1>11, <2>1, <2>2, ZStep
  <2>4. ZPipeTypeOK'
    BY <1>1, <1>2, <1>9, <1>10, <2>1, ZTypeStep DEF ZPipeTypeOK, ZFlushQueue, ZItem
  <2> QED BY <1>1, <1>9, <2>3, <2>4 DEF ZBase, ZCore, ZQueues, ZMiddle
<1> QED BY <1>12, <1>13

(* hiccup(): the session makes a new upipe_t and names it to the socket. *)
LEMMA ZHiccupKeeps ==
    ASSUME ZBase, ZHiccup, "session" \notin zMid
    PROVE  ZBase'
<1> DEFINE e == "session"
           p == zEnd[e]
           f == "socket"
           m == [type |-> "hiccup", pipe |-> zMade + 1]
           new == [p EXCEPT !.in = zMade + 1, !.inActive = TRUE]
<1>1. /\ e \in ZEnd /\ f \in ZEnd /\ ZPeer(e) = f
      /\ e \in zAlive /\ p.state = "active" /\ zMade < 2 + ZHiccups /\ zMade' = zMade + 1
      /\ zEnd' = [zEnd EXCEPT ![e] = new] /\ zChan' = ZSend(zChan, e, <<m>>)
      /\ zQueue' = zQueue /\ zFreed' = zFreed /\ zAlive' = zAlive /\ zMid' = zMid
      /\ zParts' = zParts /\ zTerms' = zTerms /\ zFailed' = zFailed
  BY DEF ZHiccup, ZEnd, ZPeer
<1>2. /\ p \in ZFields /\ ZPipeTypeOK /\ ZCore
      /\ ZControl("active", ZPhase(f), zChan[e], zChan[f]) /\ ZPhase(f) \in ZPhases
      /\ zChan[e] \in Seq(ZCommand) /\ zChan[f] \in Seq(ZCommand) /\ p.out # ZNone
  BY <1>1, ZWhose DEF ZBase, ZCore
<1>3. zMade \in Nat /\ zMade >= 2 /\ zMade + 1 \in ZUpipe
  BY <1>1, <1>2, ZTypes, ZAssumption DEF ZCore, ZUpipes, ZUpipe
<1>4. m \in ZCommand /\ m.type = "hiccup" /\ m.pipe = zMade + 1
  BY <1>3 DEF ZCommand
<1>5. /\ new \in ZFields /\ new.in = zMade + 1 /\ new.out = p.out /\ new.state = "active"
  BY <1>1, <1>2, <1>3 DEF ZFields
<1> HIDE DEF m, new
<1>6. /\ <<m>> \in Seq(ZCommand) /\ ZOrdered(<<m>>)
      /\ \A t : ZHas(<<m>>, t) <=> t = "hiccup"
  BY <1>4, ZOneSent
<1>7. zEnd' \in [ZEnd -> ZFields] /\ zEnd'[f] = zEnd[f] /\ zEnd'[e] = new
  BY <1>1, <1>2, <1>5, ZEndStep
<1>8. /\ zChan'[e] = zChan[e] /\ zChan'[f] = zChan[f] \o <<m>>
      /\ zChan' \in [ZEnd -> Seq(ZCommand)]
  BY <1>1, <1>2, <1>6, ZMail
<1>9. ZPipeTypeOK'
  BY <1>1, <1>2, <1>3, <1>7, <1>8 DEF ZPipeTypeOK, ZFields
<1>10. ZControl("active", ZPhase(f), zChan[e], zChan[f] \o <<m>>)
  <2>1. "active" \in ZPhases /\ "active" \in ZOpen BY DEF ZPhases, ZState, ZOpen
  <2> QED BY <2>1, <1>2, <1>6, ZControlSends
<1>11. ZShutdown'
  <2>1. ZPhase(e)' = "active" /\ ZPhase(f)' = ZPhase(f)
    BY <1>1, <1>5, <1>7 DEF ZPhase
  <2>2. ZControlOf("session")' BY <2>1, <1>1, <1>8, <1>10 DEF ZControlOf
  <2>3. ASSUME NEW x \in zAlive'
        PROVE  zEnd'[x].out = ZNone <=> zEnd'[x].state \in {"terminating", "double_terminated"}
    BY <1>1, <1>2, <1>5, <1>7 DEF ZCore, ZShutdown, ZPipeTypeOK, ZEnd
  <2> QED BY <2>2, <2>3 DEF ZShutdown
<1>12. f \in zAlive /\ zEnd[f].out # ZNone
  <2>1. ZPhase(f) \in ZOpen \cup {"terminated"}
    BY <1>2 DEF ZControl, ZMeets, ZOpen
  <2>2. f \in zAlive /\ zEnd[f].state \in ZOpen \cup {"terminated"}
    BY <2>1 DEF ZPhase, ZOpen
  <2> QED BY <2>2, <1>2 DEF ZCore, ZShutdown, ZOpen
<1>13. ZWritten' = ZWritten /\ ZWritten \in ZToSession(zMade)
       /\ ZNames(zChan[f], ZWritten, zMade)
  BY <1>1, <1>2, <1>7, <1>12 DEF ZWritten, ZCore, ZUpipes
<1>14. ZNames(zChan[f] \o <<m>>, ZWritten, zMade + 1) /\ ZWritten \in ZToSession(zMade + 1)
  BY <1>2, <1>3, <1>4, <1>13, ZNamesHiccup
<1>15. ZDropped' = ZDropped
  <2>1. {u \in ZToSession(zMade + 1) : u < ZWritten} = {u \in ZToSession(zMade) : u < ZWritten}
    BY <1>3, <1>13, ZNewestIs
  <2> QED BY <1>1, <1>12, <1>13, <2>1 DEF ZDropped
<1>16. ZUpipes'
  <2>1. zEnd'["session"].in = ZNewest(zMade + 1) /\ zEnd'["session"].out \in {2, ZNone}
    BY <1>1, <1>2, <1>3, <1>5, <1>7, ZNewestIs DEF ZCore, ZUpipes
  <2>2. zEnd'["socket"].in = 2
    BY <1>2, <1>7, <1>12 DEF ZCore, ZUpipes
  <2>3. ~ZHas(zChan'["session"], "hiccup")
    BY <1>2, <1>8 DEF ZCore, ZUpipes
  <2>4. zFreed' = ZDropped' /\ zMade' >= 2
    BY <1>1, <1>2, <1>3, <1>15 DEF ZCore, ZUpipes
  <2> QED BY <1>1, <1>8, <1>13, <1>14, <2>1, <2>2, <2>3, <2>4 DEF ZUpipes
<1>17. ZMiddle'
  <2>1. \A x \in zMid : ZInOf(x, zMade + 1) = ZInOf(x, zMade)
    BY DEF ZInOf
  <2> QED BY <1>1, <2>1 DEF ZBase, ZMiddle
<1> QED BY <1>1, <1>9, <1>11, <1>16, <1>17 DEF ZBase, ZCore, ZQueues

(* process_hiccup(): the socket deletes the upipe_t it wrote to and takes the new one. *)
LEMMA ZProcessHiccupKeeps ==
    ASSUME ZBase, NEW e \in ZEnd, ZProcessHiccup(e)
    PROVE  ZBase'
<1> DEFINE p == zEnd[e]
           f == ZPeer(e)
           h == Head(zChan[e]).pipe
           new == [p EXCEPT !.out = h, !.outActive = TRUE]
<1>1. /\ e \in zAlive /\ zChan[e] # <<>> /\ Head(zChan[e]).type = "hiccup"
      /\ zFailed' = (zFailed \/ p.out = ZNone)
      /\ zFreed' = zFreed \cup ({p.out} \ {ZNone})
      /\ zQueue' = [u \in ZUpipe |-> IF u = p.out THEN ZEmpty ELSE zQueue[u]]
      /\ zEnd' = [zEnd EXCEPT ![e] = new] /\ zChan' = ZTaken(e)
      /\ zMade' = zMade /\ zAlive' = zAlive /\ zMid' = zMid
      /\ zParts' = zParts /\ zTerms' = zTerms
  BY DEF ZProcessHiccup, ZReceive
<1>2. /\ p \in ZFields /\ ZPipeTypeOK /\ ZCore
      /\ ZControl(p.state, ZPhase(f), zChan[e], zChan[f])
      /\ p.state \in ZPhases /\ ZPhase(f) \in ZPhases
      /\ zChan[e] \in Seq(ZCommand) /\ zChan[f] \in Seq(ZCommand)
      /\ p.out = ZNone <=> p.state \in {"terminating", "double_terminated"}
      /\ p.out # ZNone => p.out \in ZUpipe /\ (e = "session" <=> p.out = 2)
  BY <1>1, ZWhose DEF ZBase, ZCore
<1>3. /\ zChan[e][1].type = "hiccup" /\ Head(zChan[e]) = zChan[e][1] /\ zChan[e][1] \in ZCommand
      /\ ZHas(zChan[e], "hiccup")
  BY <1>1, <1>2, ZTailOf
<1>4. e = "socket" /\ f = "session"
  BY <1>2, <1>3 DEF ZCore, ZUpipes, ZEnd, ZPeer
<1>5. p.state \in ZOpen \cup {"terminated"}
  BY <1>2, <1>3 DEF ZControl, ZFlow
<1>6. p.out \in ZUpipe /\ p.out # 2 /\ p.out # ZNone /\ ZWritten = p.out
  BY <1>1, <1>2, <1>4, <1>5 DEF ZOpen, ZWritten
<1>7. zMade \in Nat /\ zMade >= 2 /\ ZWritten \in ZToSession(zMade) /\ ZNames(zChan[e], ZWritten, zMade)
  BY <1>2, <1>4, ZTypes DEF ZCore, ZUpipes
<1>8. /\ h \in ZToSession(zMade) /\ ZNames(Tail(zChan[e]), h, zMade)
      /\ {u \in ZToSession(zMade) : u < h} = {u \in ZToSession(zMade) : u < ZWritten} \cup {ZWritten}
  BY <1>1, <1>2, <1>3, <1>7, ZNamesTakeHiccup
<1>9. h \in ZUpipe
  BY <1>3 DEF ZCommand
<1>10. h # ZNone
  BY <1>9, ZAssumption DEF ZUpipe, ZNone
<1>11. new \in ZFields /\ new.in = p.in /\ new.out = h /\ new.state = p.state
  BY <1>2, <1>9 DEF ZFields
<1> HIDE DEF new, h
<1>12. zEnd' \in [ZEnd -> ZFields] /\ zEnd'[f] = zEnd[f] /\ zEnd'[e] = new
  BY <1>1, <1>2, <1>11, ZEndStep
<1>13. /\ zChan'[e] = Tail(zChan[e]) /\ zChan'[f] = zChan[f]
       /\ zChan' \in [ZEnd -> Seq(ZCommand)]
  BY <1>1, <1>2, ZMail, ZNothingSent, ConcatEmptySeq
<1>14. zFailed' = zFailed
  BY <1>1, <1>2, <1>6 DEF ZPipeTypeOK
<1>15. zQueue' = [zQueue EXCEPT ![p.out] = ZEmpty]
  BY <1>1, <1>2 DEF ZPipeTypeOK
<1>16. /\ ZQueues' /\ zQueue' \in [ZUpipe -> ZFlushQueue]
       /\ \A v \in ZUpipe : v # p.out => zQueue'[v] = zQueue[v]
  BY <1>2, <1>6, <1>15, ZQueueStep, ZEmptyIsGood DEF ZBase
<1>17. ZMiddle'
  <2>1. p.out < h /\ h <= ZNewest(zMade) /\ h \in Nat /\ p.out \in Nat
        /\ ZNewest(zMade) \in Nat
    <3>1. 1 \in 1..Len(zChan[e]) BY <1>1, <1>2, ZTailOf
    <3>2. zChan[e][1].pipe = h BY <1>3 DEF h
    <3>3. ZWritten < h BY <3>1, <3>2, <1>3, <1>7 DEF ZNames
    <3> QED BY <3>3, <1>6, <1>7, <1>8, ZNewestIs
  <2>2. p.out # ZNewest(zMade) BY <2>1
  <2>3. zMid \subseteq zAlive /\ zAlive \subseteq ZEnd
    BY <1>2 DEF ZBase, ZMiddle, ZPipeTypeOK
  <2>4. \A x \in zMid : ZInOf(x, zMade) # p.out BY <1>6, <2>2 DEF ZInOf
  <2> QED BY <1>1, <1>16, <2>3, <2>4, ZMidStep
<1>18. ZPipeTypeOK'
  BY <1>1, <1>2, <1>6, <1>12, <1>13, <1>14, <1>16, ZTypeStep DEF ZPipeTypeOK
<1>19. ZControl(p.state, ZPhase(f), Tail(zChan[e]), zChan[f])
  BY <1>1, <1>2, <1>3, ZControlTakes
<1>20. ZShutdown'
  <2>1. ZPhase(e)' = p.state /\ ZPhase(f)' = ZPhase(f)
    BY <1>1, <1>11, <1>12 DEF ZPhase
  <2>2. ZControlOf(e)' BY <2>1, <1>13, <1>19 DEF ZControlOf
  <2>3. ASSUME NEW x \in zAlive'
        PROVE  zEnd'[x].out = ZNone <=> zEnd'[x].state \in {"terminating", "double_terminated"}
    BY <1>1, <1>2, <1>4, <1>6, <1>10, <1>11, <1>12 DEF ZCore, ZShutdown, ZPipeTypeOK, ZEnd
  <2> QED BY <2>2, <2>3, ZEitherEnd DEF ZShutdown
<1>21. ZWritten' = h
  BY <1>1, <1>4, <1>10, <1>11, <1>12 DEF ZWritten
<1>22. zFreed' = ZDropped'
  <2>1. zFreed = ZDropped BY <1>2 DEF ZCore, ZUpipes
  <2>2. zFreed' = zFreed \cup {ZWritten} BY <1>1, <1>6
  <2> QED BY <1>1, <1>8, <1>21, <2>1, <2>2 DEF ZDropped
<1>23. ~ZHas(zChan'["session"], "hiccup")
  BY <1>2, <1>4, <1>13 DEF ZCore, ZUpipes
<1>24. ZUpipes'
  BY <1>1, <1>2, <1>4, <1>8, <1>11, <1>12, <1>13, <1>21, <1>22, <1>23 DEF ZCore, ZUpipes
<1> QED BY <1>14, <1>16, <1>17, <1>18, <1>20, <1>24 DEF ZBase, ZCore

(* process_pipe_term_ack(): an end deletes its inbound upipe_t and itself. *)
LEMMA ZProcessPipeTermAckKeeps ==
    ASSUME ZBase, NEW e \in ZEnd, ZProcessPipeTermAck(e)
    PROVE  ZBase'
<1> DEFINE p == zEnd[e]
           f == ZPeer(e)
           a == <<ZCmd("pipe_term_ack")>>
           d == IF p.state = "terminated" THEN a ELSE <<>>
<1>1. /\ e \in zAlive /\ zChan[e] # <<>> /\ Head(zChan[e]).type = "pipe_term_ack"
      /\ zFailed' = (zFailed \/ p.in \in zFreed
                       \/ p.state \notin {"terminated", "terminating", "double_terminated"})
      /\ zChan' = IF p.state = "terminated" THEN ZSend(ZTaken(e), e, a) ELSE ZTaken(e)
      /\ zQueue' = [zQueue EXCEPT ![p.in] = ZEmpty]
      /\ zFreed' = zFreed \cup {p.in} /\ zAlive' = zAlive \ {e}
      /\ zEnd' = [zEnd EXCEPT ![e] = ZGone] /\ zMid' = zMid \ {e}
      /\ zParts' = [zParts EXCEPT ![e] = 0] /\ zTerms' = [zTerms EXCEPT ![e] = 0]
      /\ zMade' = zMade
  BY DEF ZProcessPipeTermAck, ZReceive
<1>2. /\ p \in ZFields /\ ZPipeTypeOK /\ ZCore /\ p.in \in ZUpipe
      /\ ZControl(p.state, ZPhase(f), zChan[e], zChan[f])
      /\ p.state \in ZPhases /\ ZPhase(f) \in ZPhases
      /\ zChan[e] \in Seq(ZCommand) /\ zChan[f] \in Seq(ZCommand)
      /\ e = "socket" <=> p.in = 2
  BY <1>1, ZWhose DEF ZBase, ZCore
<1>3. /\ zChan[e][1].type = "pipe_term_ack"
      /\ \A t : ZHas(zChan[e], t) <=> t = "pipe_term_ack" \/ ZHas(Tail(zChan[e]), t)
  BY <1>1, <1>2, ZTailOf
<1>4. /\ a \in Seq(ZCommand) /\ ZOrdered(a) /\ ZHas(a, "pipe_term_ack")
      /\ ~ZHas(a, "hiccup") /\ ~ZHas(a, "pipe_term")
  <2>1. ZCmd("pipe_term_ack") \in ZCommand /\ ZCmd("pipe_term_ack").type = "pipe_term_ack"
    BY DEF ZCmd, ZCommand
  <2> QED BY <2>1, ZOneSent
<1> HIDE DEF a
<1>5. /\ Tail(zChan[e]) = <<>>
      /\ p.state \in {"terminated", "terminating", "double_terminated"}
      /\ p.state = "terminated" => ZControl("gone", ZPhase(f), <<>>, zChan[f] \o a)
      /\ p.state # "terminated" => ZControl("gone", ZPhase(f), <<>>, zChan[f])
  <2>1. /\ Tail(zChan[e]) = <<>>
        /\ p.state \in {"terminated", "terminating", "double_terminated"}
        /\ p.state = "terminated" => ZControl("gone", ZPhase(f), Tail(zChan[e]), zChan[f] \o a)
        /\ p.state # "terminated" => ZControl("gone", ZPhase(f), Tail(zChan[e]), zChan[f])
    BY <1>1, <1>2, <1>3, <1>4, ZControlAck
  <2> QED BY <2>1
<1>6. /\ zChan'[e] = <<>> /\ zChan'[f] = zChan[f] \o d /\ d \in Seq(ZCommand) /\ ~ZHas(d, "hiccup")
      /\ zChan' \in [ZEnd -> Seq(ZCommand)]
      /\ p.state # "terminated" => zChan'[f] = zChan[f]
  <2>1. CASE p.state = "terminated"
    BY <2>1, <1>1, <1>2, <1>4, <1>5, ZMail
  <2>2. CASE p.state # "terminated"
    BY <2>2, <1>1, <1>2, <1>5, ZMail, ZNothingSent, ConcatEmptySeq
  <2> QED BY <2>1, <2>2
<1> HIDE DEF d
<1>7. zMade \in Nat /\ zMade >= 2 /\ ZWritten \in ZToSession(zMade) /\ zFreed = ZDropped
  BY <1>2, ZTypes DEF ZCore, ZUpipes
<1>8. e = "session" => p.in = ZNewest(zMade)
  BY <1>1, <1>2 DEF ZCore, ZUpipes
<1>9. p.in \notin zFreed
  <2>1. CASE e = "socket"
    BY <2>1, <1>1, <1>2, <1>7, ZNewestIs DEF ZDropped
  <2>2. CASE e = "session"
    <3>1. ~(ZNewest(zMade) < ZWritten) /\ ZNewest(zMade) # 2
      BY <1>7, ZNewestIs
    <3> QED BY <3>1, <2>2, <1>1, <1>7, <1>8 DEF ZDropped
  <2> QED BY <2>1, <2>2 DEF ZEnd
<1>10. zFailed' = zFailed
  BY <1>1, <1>2, <1>5, <1>9 DEF ZPipeTypeOK
<1>11. ZGone \in ZFields
  BY ZAssumption DEF ZGone, ZFields, ZState, ZUpipe, ZNone
<1>12. zEnd' \in [ZEnd -> ZFields] /\ zEnd'[f] = zEnd[f]
  BY <1>1, <1>2, <1>11, ZEndStep
<1>13. /\ ZQueues' /\ zQueue' \in [ZUpipe -> ZFlushQueue]
       /\ \A v \in ZUpipe : v # p.in => zQueue'[v] = zQueue[v]
  BY <1>1, <1>2, ZQueueStep, ZEmptyIsGood DEF ZBase
<1>14. ZMiddle'
  <2>1. zMid \subseteq zAlive /\ zAlive \subseteq ZEnd
    BY <1>2 DEF ZBase, ZMiddle, ZPipeTypeOK
  <2>2. p.in = ZInOf(e, zMade) BY <1>1, ZWhose
  <2>3. \A x \in zMid' : x \in zMid /\ ZInOf(x, zMade) # p.in
    BY <1>1, <2>1, <2>2, ZApart
  <2>4. zMid' \subseteq zAlive' /\ zAlive' \subseteq ZEnd BY <1>1, <2>1
  <2> QED BY <1>1, <1>13, <2>3, <2>4, ZMidStep
<1>15. ZPipeTypeOK'
  <2>1. /\ zParts' \in [ZEnd -> Nat] /\ \A x \in ZEnd : zParts'[x] <= ZWrites[x]
        /\ zTerms' \in [ZEnd -> Nat] /\ \A x \in ZEnd : zTerms'[x] <= ZTerms[x]
    <3>1. \A x \in ZEnd : 0 <= ZWrites[x] /\ 0 <= ZTerms[x] BY ZAssumption DEF ZEnd
    <3> QED BY <3>1, <1>1, <1>2 DEF ZPipeTypeOK
  <2> QED BY <2>1, <1>1, <1>2, <1>6, <1>10, <1>12, <1>13
          DEF ZPipeTypeOK, ZFlushQueue, ZItem, ZFields
<1>16. ZShutdown'
  <2>1. ZPhase(e)' = "gone" /\ ZPhase(f)' = ZPhase(f)
    BY <1>1, <1>12, ZPeers DEF ZPhase
  <2>2. ZControl("gone", ZPhase(f), zChan'[e], zChan'[f])
    BY <1>5, <1>6 DEF d
  <2>3. ZControlOf(e)' BY <2>1, <2>2 DEF ZControlOf
  <2>4. ASSUME NEW x \in zAlive'
        PROVE  zEnd'[x].out = ZNone <=> zEnd'[x].state \in {"terminating", "double_terminated"}
    <3>1. x = f /\ x \in zAlive BY <1>1, <1>2, <2>4, ZPeers DEF ZPipeTypeOK
    <3> QED BY <3>1, <1>2, <1>12 DEF ZCore, ZShutdown
  <2> QED BY <2>3, <2>4, ZEitherEnd DEF ZShutdown
<1>17. CASE e = "session"
  <2>1. f = "socket" /\ "session" \notin zAlive' /\ ("socket" \in zAlive' <=> "socket" \in zAlive)
    BY <1>1, <1>17 DEF ZPeer
  <2>2. ZWritten' = ZWritten
    BY <2>1, <1>1, <1>12 DEF ZWritten
  <2>3. zFreed' = ZDropped'
    BY <2>1, <2>2, <1>1, <1>7, <1>8, <1>17 DEF ZDropped
  <2>4. ZNames(zChan'["socket"], ZWritten, zMade)
    <3>1. ZNames(zChan["socket"], ZWritten, zMade) BY <1>2 DEF ZCore, ZUpipes
    <3>2. ZNames(zChan["socket"] \o d, ZWritten, zMade)
      BY <3>1, <2>1, <1>2, <1>6, ZNamesConcat
    <3> QED BY <3>2, <2>1, <1>6
  <2>5. ~ZHas(zChan'["session"], "hiccup")
    BY <1>6, <1>17, ZNothingSent
  <2>6. ZUpipes'
    BY <2>1, <2>2, <2>3, <2>4, <2>5, <1>1, <1>2, <1>7, <1>12 DEF ZCore, ZUpipes
  <2> QED BY <2>6, <1>10, <1>13, <1>14, <1>15, <1>16 DEF ZBase, ZCore
<1>18. CASE e = "socket"
  <2>1. f = "session" /\ "socket" \notin zAlive' /\ ("session" \in zAlive' <=> "session" \in zAlive)
    BY <1>1, <1>18 DEF ZPeer
  <2>2. ZNames(zChan["socket"], ZWritten, zMade) BY <1>2 DEF ZCore, ZUpipes
  <2>3. ~ZHas(zChan["socket"], "hiccup")
    BY <1>3, <1>5, <1>18, ZNothingSent
  <2>4. ZWritten = ZNewest(zMade) BY <2>2, <2>3, <1>7, ZNoHiccup
  <2>5. ZWritten' = ZNewest(zMade) BY <2>1, <1>1 DEF ZWritten
  <2>6. zFreed' = ZDropped'
    BY <2>1, <2>4, <2>5, <1>1, <1>2, <1>7, <1>18 DEF ZDropped
  <2>7. ZNames(zChan'["socket"], ZWritten, zMade)
    <3>1. ZNames(Tail(zChan["socket"]), ZWritten, zMade)
      BY <2>2, <1>1, <1>2, <1>3, <1>18, ZNamesTail
    <3> QED BY <3>1, <1>5, <1>6, <1>18
  <2>8. ~ZHas(zChan'["session"], "hiccup")
    <3>1. ~ZHas(zChan["session"], "hiccup") BY <1>2 DEF ZCore, ZUpipes
    <3>2. ~ZHas(zChan["session"] \o d, "hiccup") BY <3>1, <2>1, <1>2, <1>6, ZHasConcat
    <3> QED BY <3>2, <2>1, <1>6
  <2>9. ZUpipes'
    BY <2>1, <2>4, <2>5, <2>6, <2>7, <2>8, <1>1, <1>2, <1>7, <1>12 DEF ZCore, ZUpipes
  <2> QED BY <2>9, <1>10, <1>13, <1>14, <1>15, <1>16 DEF ZBase, ZCore
<1> QED BY <1>17, <1>18 DEF ZEnd

-----------------------------------------------------------------------------
(* Both ends are open and nothing is on its way. *)
LEMMA ZBaseInit ==
    ASSUME ZInit
    PROVE  ZBase
<1>1. /\ \A e \in ZEnd : zChan[e] = <<>>
      /\ \A u \in ZUpipe : zQueue[u] = ZEmpty
      /\ zMade = 2 /\ zFreed = {} /\ zAlive = ZEnd /\ zMid = {} /\ zFailed = FALSE
      /\ "session" \in ZEnd /\ "socket" \in ZEnd /\ ZPeer("session") = "socket"
  BY DEF ZInit, ZEnd, ZPeer
<1>2. ZPipeTypeOK
  <2>1. ZUpipe \subseteq Nat /\ 1 \in ZUpipe /\ 2 \in ZUpipe
    BY ZAssumption DEF ZUpipe
  <2>2. ZEmpty \in ZFlushQueue BY ZEmptyIsGood DEF ZGood, ZFlushQueue
  <2>3. zQueue \in [ZUpipe -> ZFlushQueue] BY <2>2 DEF ZInit
  <2>4. zEnd \in [ZEnd -> ZFields] BY <2>1 DEF ZInit, ZFields, ZState, ZNone
  <2>5. \A e \in ZEnd : 0 <= ZWrites[e] /\ 0 <= ZTerms[e] BY ZAssumption DEF ZEnd
  <2>6. /\ zParts \in [ZEnd -> Nat] /\ \A e \in ZEnd : zParts[e] <= ZWrites[e]
        /\ zTerms \in [ZEnd -> Nat] /\ \A e \in ZEnd : zTerms[e] <= ZTerms[e]
    BY <2>5 DEF ZInit
  <2>7. zChan \in [ZEnd -> Seq(ZCommand)] BY ZNothingSent DEF ZInit
  <2> QED BY <1>1, <2>1, <2>3, <2>4, <2>6, <2>7 DEF ZPipeTypeOK, ZFlushQueue, ZFields, ZItem
<1>3. /\ zEnd["session"].state = "active" /\ zEnd["session"].in = 1 /\ zEnd["session"].out = 2
      /\ zEnd["socket"].state = "active" /\ zEnd["socket"].in = 2 /\ zEnd["socket"].out = 1
  <2>1. zEnd["session"] = [state |-> "active", delay |-> TRUE, in |-> 1, out |-> 2,
            inActive |-> TRUE, outActive |-> TRUE, read |-> 0, written |-> 0, peersRead |-> 0]
    BY DEF ZInit, ZEnd
  <2>2. zEnd["socket"] = [state |-> "active", delay |-> TRUE, in |-> 2, out |-> 1,
            inActive |-> TRUE, outActive |-> TRUE, read |-> 0, written |-> 0, peersRead |-> 0]
    BY DEF ZInit, ZEnd
  <2> QED BY <2>1, <2>2
<1>4. ZPhase("session") = "active" /\ ZPhase("socket") = "active"
  BY <1>1, <1>3 DEF ZPhase
<1>5. ZControl("active", "active", <<>>, <<>>)
  BY ZNothingSent DEF ZControl, ZMeets, ZFlow, ZOpen
<1>6. ZShutdown
  BY <1>1, <1>3, <1>4, <1>5 DEF ZShutdown, ZControlOf, ZEnd, ZNone
<1>7. ZUpipes
  <2>1. ZWritten = 1 /\ ZNewest(zMade) = 1 /\ ZToSession(zMade) = {1}
    <3>1. ZNewest(2) = 1 /\ ZToSession(2) = {1} BY DEF ZNewest, ZToSession
    <3> QED BY <3>1, <1>1, <1>3 DEF ZWritten, ZNone
  <2>2. ZNames(<<>>, 1, 2) BY <2>1, <1>1 DEF ZNames
  <2>3. ZDropped = {} BY <1>1, <2>1 DEF ZDropped
  <2> QED BY <1>1, <1>3, <2>1, <2>2, <2>3, ZNothingSent DEF ZUpipes
<1>8. ZQueues /\ ZMiddle
  BY <1>1, ZEmptyIsGood DEF ZQueues, ZMiddle
<1> QED BY <1>1, <1>2, <1>6, <1>7, <1>8 DEF ZBase, ZCore

(* What a step of either thread does to the pipe itself. *)
ZPipeStep ==
    \/ UNCHANGED zPipe
    \/ \E e \in ZEnd : \/ ZReadStep(e) \/ ZProcess(e)
                      \/ \E part \in {"more", "last"} : ZWrite(e, part)
                      \/ \E delay \in BOOLEAN : ZTerminate(e, delay)
    \/ ZFlushOut \/ ZCleanPipes
    \/ ZHiccup /\ "session" \notin zMid

(* The handlers of the two threads are made of these steps. *)
LEMMA ZNextIsPipeStep ==
    ASSUME [ZNext]_zVars
    PROVE  ZPipeStep
<1> USE DEF ZPipeStep, ZEnd
<1>1. CASE UNCHANGED zVars BY <1>1 DEF zVars
<1>2. CASE ZSocketStep \/ ZSocketProcess BY <1>2 DEF ZSocketStep, ZSocketProcess
<1>3. CASE ZAttach BY <1>3 DEF ZAttach
<1>4. CASE ZEngineStep BY <1>4 DEF ZEngineStep
<1>5. CASE ZSessionProcess BY <1>5 DEF ZSessionProcess
<1>6. ASSUME NEW delay \in BOOLEAN, ZSessionTerminate(delay) PROVE ZPipeStep
  BY <1>6 DEF ZSessionTerminate
<1>7. CASE ZDetach BY <1>7 DEF ZDetach
<1>8. CASE ZDrain BY <1>8 DEF ZDrain, ZReadStep
<1>9. CASE ZDetached BY <1>9 DEF ZDetached
<1>10. CASE ZCheckRead BY <1>10 DEF ZCheckRead, ZReadStep
<1> HIDE DEF ZPipeStep
<1> QED BY <1>1, <1>2, <1>3, <1>4, <1>5, <1>6, <1>7, <1>8, <1>9, <1>10 DEF ZNext, ZHandler

(* All parts of the invariant but the credit are kept by every step. *)
LEMMA ZBaseNext ==
    ASSUME ZBase, ZPipeStep
    PROVE  ZBase'
<1>1. ASSUME UNCHANGED zPipe PROVE ZBase'
  BY <1>1 DEF zPipe, ZBase, ZCore, ZPipeTypeOK, ZShutdown, ZControlOf, ZPhase, ZUpipes, ZWritten,
              ZDropped, ZQueues, ZMiddle
<1>2. ASSUME NEW e \in ZEnd, ZReadStep(e) PROVE ZBase'
  BY <1>2, ZReadNothingKeeps, ZReadDelimiterKeeps, ZReadPartKeeps DEF ZReadStep
<1>3. ASSUME NEW e \in ZEnd, ZProcess(e) PROVE ZBase'
  BY <1>3, ZProcessActivateReadKeeps, ZProcessActivateWriteKeeps, ZProcessHiccupKeeps,
     ZProcessPipeTermKeeps, ZProcessPipeTermAckKeeps DEF ZProcess
<1>4. ASSUME ZCleanPipes PROVE ZBase'
  <2>1. CASE zEnd["session"].out = ZNone
    <3>1. UNCHANGED zPipe BY <1>4, <2>1 DEF ZCleanPipes, zPipe
    <3> QED BY <3>1, <1>1
  <2>2. CASE zEnd["session"].out # ZNone BY <1>4, <2>2, ZCleanPipesKeeps
  <2> QED BY <2>1, <2>2
<1> QED BY <1>1, <1>2, <1>3, <1>4, ZWriteKeeps, ZTerminateKeeps, ZFlushOutKeeps,
           ZHiccupKeeps DEF ZPipeStep

(* An end falls asleep only when it has read all of a message. *)
LEMMA ZAwakeNext ==
    ASSUME ZBase, ZAwake, ZPipeStep
    PROVE  ZAwake'
<1>1. zEnd \in [ZEnd -> ZFields] /\ zMid \subseteq zAlive /\ zMid \subseteq ZEnd
  BY DEF ZBase, ZCore, ZPipeTypeOK, ZFields, ZMiddle
<1>2. ASSUME UNCHANGED zPipe PROVE ZAwake'
  BY <1>2 DEF zPipe, ZAwake
<1>3. ASSUME zMid' \subseteq zMid, NEW e \in ZEnd, NEW r \in ZFields,
             zEnd' = [zEnd EXCEPT ![e] = r],
             r.inActive = zEnd[e].inActive \/ r.inActive = TRUE \/ e \notin zMid'
      PROVE  ZAwake'
  <2>1. \A x \in ZEnd : zEnd'[x] = IF x = e THEN r ELSE zEnd[x] BY <1>1, <1>3
  <2> QED BY <2>1, <1>1, <1>3 DEF ZAwake
<1>4. ASSUME NEW e \in ZEnd, ZReadNothing(e) PROVE ZAwake'
  <2>1. e \in zAlive /\ ~ZReadable(zQueue[zEnd[e].in]) /\ zMid' = zMid
        /\ zEnd' = [zEnd EXCEPT ![e] = [zEnd[e] EXCEPT !.inActive = FALSE]]
    BY <1>4 DEF ZReadNothing, ZMayRead
  <2>2. zEnd[e].in = ZInOf(e, zMade) BY <2>1, ZWhose
  <2>3. e \notin zMid BY <2>1, <2>2 DEF ZBase, ZMiddle, ZRestReady, ZReadable
  <2>4. [zEnd[e] EXCEPT !.inActive = FALSE] \in ZFields BY <1>1 DEF ZFields
  <2> QED BY <1>3, <2>1, <2>3, <2>4
<1>5. ASSUME NEW e \in ZEnd, ZReadDelimiter(e) PROVE ZAwake'
  <2>1. zEnd' = [zEnd EXCEPT ![e] = ZDelimited(zEnd[e])] /\ zMid' = zMid
    BY <1>5 DEF ZReadDelimiter
  <2>2. zEnd[e] \in ZFields BY <1>1
  <2>3. ZDelimited(zEnd[e]) \in ZFields /\ ZDelimited(zEnd[e]).inActive = zEnd[e].inActive
    BY <2>2 DEF ZDelimited, ZFields, ZState
  <2> QED BY <1>3, <2>1, <2>3
<1>6. ASSUME NEW e \in ZEnd, ZReadPart(e) PROVE ZAwake'
  <2> DEFINE q == zQueue[zEnd[e].in]
             read == IF Head(q.items) = "last" THEN zEnd[e].read + 1 ELSE zEnd[e].read
             new == [zEnd[e] EXCEPT !.read = read]
  <2>1. /\ zEnd[e].inActive /\ zMid' \subseteq zMid \cup {e}
        /\ zEnd' = [zEnd EXCEPT ![e] = new]
    BY <1>6 DEF ZReadPart, ZMayRead
  <2>2. zEnd[e] \in ZFields BY <1>1
  <2>3. read \in Nat BY <2>2 DEF ZFields
  <2> HIDE DEF read
  <2>4. new.inActive = zEnd[e].inActive BY <2>2, <2>3 DEF ZFields
  <2>5. zEnd[e].inActive = TRUE BY <2>1, <2>2 DEF ZFields
  <2> HIDE DEF new
  <2>6. \A x \in ZEnd : zEnd'[x] = IF x = e THEN new ELSE zEnd[x] BY <1>1, <2>1
  <2> QED BY <1>1, <2>1, <2>4, <2>5, <2>6 DEF ZAwake
<1>7. ASSUME NEW e \in ZEnd, NEW part \in {"more", "last"}, ZWrite(e, part) PROVE ZAwake'
  <2> DEFINE w == IF part = "last" THEN zEnd[e].written + 1 ELSE zEnd[e].written
  <2>1. zEnd[e] \in ZFields /\ zMid' = zMid BY <1>1, <1>7 DEF ZWrite
  <2>2. CASE ZFull(zEnd[e])
    <3> DEFINE new == [zEnd[e] EXCEPT !.outActive = FALSE]
    <3>1. zEnd' = [zEnd EXCEPT ![e] = new] BY <1>7, <2>2 DEF ZWrite
    <3>2. new \in ZFields /\ new.inActive = zEnd[e].inActive BY <2>1 DEF ZFields
    <3> QED BY <1>3, <2>1, <3>1, <3>2
  <2>3. CASE ~ZFull(zEnd[e])
    <3> DEFINE new == [zEnd[e] EXCEPT !.written = w]
    <3>1. zEnd' = [zEnd EXCEPT ![e] = new] BY <1>7, <2>3 DEF ZWrite
    <3>2. w \in Nat BY <2>1 DEF ZFields
    <3> HIDE DEF w
    <3>3. new \in ZFields /\ new.inActive = zEnd[e].inActive BY <2>1, <3>2 DEF ZFields
    <3> QED BY <1>3, <2>1, <3>1, <3>3
  <2> QED BY <2>2, <2>3
<1>8. ASSUME NEW e \in ZEnd, NEW delay \in BOOLEAN, ZTerminate(e, delay) PROVE ZAwake'
  <2> DEFINE late == [zEnd[e] EXCEPT !.delay = delay]
             new == ZTermEnd(zEnd[e], delay)
  <2>1. zEnd[e] \in ZFields BY <1>1
  <2>2. zMid' = zMid /\ (zEnd' = [zEnd EXCEPT ![e] = late] \/ zEnd' = [zEnd EXCEPT ![e] = new])
    BY <1>8 DEF ZTerminate
  <2>3. late \in ZFields /\ late.inActive = zEnd[e].inActive BY <2>1 DEF ZFields
  <2>4. new \in ZFields /\ new.inActive = zEnd[e].inActive
    BY <2>1 DEF ZTermEnd, ZFields, ZState, ZNone
  <2> HIDE DEF late, new
  <2> QED BY <1>3, <2>2, <2>3, <2>4
<1>9. ASSUME ZFlushOut \/ ZCleanPipes PROVE ZAwake'
  BY <1>9 DEF ZFlushOut, ZCleanPipes, ZAwake
<1>10. ASSUME ZHiccup, "session" \notin zMid PROVE ZAwake'
  <2>1. /\ zMid' = zMid /\ zEnd' = [zEnd EXCEPT !["session"] =
            [zEnd["session"] EXCEPT !.in = zMade + 1, !.inActive = TRUE]]
    BY <1>10 DEF ZHiccup
  <2>2. \A x \in zMid : zEnd'[x] = zEnd[x] BY <2>1, <1>1, <1>10
  <2> QED BY <2>1, <2>2 DEF ZAwake
<1>11. ASSUME NEW e \in ZEnd, ZProcessActivateRead(e) PROVE ZAwake'
  <2> DEFINE active == zEnd[e].inActive \/ zEnd[e].state \in {"active", "pending"}
             new == [zEnd[e] EXCEPT !.inActive = active]
  <2>1. zEnd' = [zEnd EXCEPT ![e] = new] /\ zMid' = zMid /\ zEnd[e] \in ZFields
    BY <1>1, <1>11 DEF ZProcessActivateRead
  <2>2. active \in BOOLEAN /\ (zEnd[e].inActive = TRUE => active = TRUE) BY <2>1 DEF ZFields
  <2>3. zEnd[e].inActive \in BOOLEAN BY <2>1 DEF ZFields
  <2> HIDE DEF active
  <2>4. new \in ZFields /\ new.inActive = active BY <2>1, <2>2 DEF ZFields
  <2>5. new.inActive = zEnd[e].inActive \/ new.inActive = TRUE BY <2>2, <2>3, <2>4
  <2> HIDE DEF new
  <2> QED BY <1>3, <2>1, <2>4, <2>5
<1>12. ASSUME NEW e \in ZEnd, ZProcessActivateWrite(e) PROVE ZAwake'
  <2> DEFINE active == zEnd[e].outActive \/ zEnd[e].state = "active"
             n == Head(zChan[e]).read
             new == [zEnd[e] EXCEPT !.peersRead = n, !.outActive = active]
  <2>1. /\ zEnd' = [zEnd EXCEPT ![e] = new] /\ zMid' = zMid /\ zEnd[e] \in ZFields
        /\ e \in zAlive /\ zChan[e] # <<>> /\ Head(zChan[e]).type = "activate_write"
    BY <1>1, <1>12 DEF ZProcessActivateWrite, ZReceive
  <2>2. \A x \in ZEnd : zEnd'[x] = IF x = e THEN new ELSE zEnd[x] BY <1>1, <2>1
  <2> HIDE DEF active, n
  <2>3. new.inActive = zEnd[e].inActive BY <2>1 DEF ZFields
  <2> HIDE DEF new
  <2> QED BY <1>1, <2>1, <2>2, <2>3 DEF ZAwake
<1>13. ASSUME NEW e \in ZEnd, ZProcessHiccup(e) PROVE ZAwake'
  <2> DEFINE h == Head(zChan[e]).pipe
             new == [zEnd[e] EXCEPT !.out = h, !.outActive = TRUE]
  <2>1. zEnd' = [zEnd EXCEPT ![e] = new] /\ zMid' = zMid /\ zEnd[e] \in ZFields
    BY <1>1, <1>13 DEF ZProcessHiccup
  <2>2. \A x \in ZEnd : zEnd'[x] = IF x = e THEN new ELSE zEnd[x] BY <1>1, <2>1
  <2> HIDE DEF h
  <2>3. new.inActive = zEnd[e].inActive BY <2>1 DEF ZFields
  <2> HIDE DEF new
  <2> QED BY <1>1, <2>1, <2>2, <2>3 DEF ZAwake
<1>14. ASSUME NEW e \in ZEnd, ZProcessPipeTerm(e) PROVE ZAwake'
  <2> DEFINE waits == zEnd[e].state = "active" /\ zEnd[e].delay
             new == IF waits THEN [zEnd[e] EXCEPT !.state = "pending"]
                    ELSE [zEnd[e] EXCEPT !.out = ZNone,
                                         !.state = IF @ = "terminated" THEN "double_terminated"
                                                   ELSE "terminating"]
  <2>1. zEnd' = [zEnd EXCEPT ![e] = new] /\ zMid' = zMid /\ zEnd[e] \in ZFields
    BY <1>1, <1>14 DEF ZProcessPipeTerm
  <2>2. new \in ZFields /\ new.inActive = zEnd[e].inActive
    BY <2>1 DEF ZFields, ZState, ZNone
  <2> HIDE DEF new
  <2> QED BY <1>3, <2>1, <2>2
<1>15. ASSUME NEW e \in ZEnd, ZProcessPipeTermAck(e) PROVE ZAwake'
  <2>1. zEnd' = [zEnd EXCEPT ![e] = ZGone] /\ zMid' = zMid \ {e}
    BY <1>15 DEF ZProcessPipeTermAck
  <2>2. \A x \in zMid' : zEnd'[x] = zEnd[x] BY <1>1, <2>1
  <2> QED BY <2>1, <2>2 DEF ZAwake
<1>16. ASSUME NEW e \in ZEnd, ZReadStep(e) \/ ZProcess(e) PROVE ZAwake'
  BY <1>4, <1>5, <1>6, <1>11, <1>12, <1>13, <1>14, <1>15, <1>16 DEF ZReadStep, ZProcess
<1> QED BY <1>2, <1>7, <1>8, <1>9, <1>10, <1>16 DEF ZPipeStep

(* What the invariant says of assertions, of memory and of messages. *)
LEMMA ZBaseIsSafe ==
    ASSUME ZBase
    PROVE  ~zFailed /\ ZNothingDangles /\ ZMessagesWhole
<1>1. /\ zMade \in Nat /\ zMade >= 2 /\ ZWritten \in ZToSession(zMade) /\ zFreed = ZDropped
      /\ zFreed \subseteq ZUpipe /\ zAlive \subseteq ZEnd /\ ZPipeTypeOK
      /\ ZEnd = {"session", "socket"}
  BY ZTypes DEF ZBase, ZCore, ZUpipes, ZPipeTypeOK, ZEnd
<1>2. ASSUME NEW e \in ZEnd \ zAlive PROVE zChan[e] = <<>>
  <2>1. ZControlOf(e) BY ZEitherEnd DEF ZBase, ZCore, ZShutdown
  <2>2. ZPhase(e) = "gone" BY <1>2 DEF ZPhase
  <2> QED BY <2>1, <2>2 DEF ZControlOf, ZControl, ZFlow
<1>3. ASSUME NEW e \in zAlive PROVE zEnd[e].in \notin zFreed /\ zEnd[e].out \notin zFreed
  <2>1. /\ e \in ZEnd /\ (e = "socket" <=> zEnd[e].in = 2)
        /\ zEnd[e].out # ZNone => (e = "session" <=> zEnd[e].out = 2)
        /\ zEnd[e].out = ZNone <=> zEnd[e].state \in {"terminating", "double_terminated"}
        /\ ZControl(zEnd[e].state, ZPhase(ZPeer(e)), zChan[e], zChan[ZPeer(e)])
        /\ zEnd[e].state \in ZState
    BY <1>1, <1>3, ZWhose DEF ZFields
  <2>2. zEnd[e].out # ZNone => ZPeer(e) \in zAlive
    <3>1. zEnd[e].out # ZNone => ZPhase(ZPeer(e)) # "gone"
      BY <2>1 DEF ZControl, ZMeets, ZState, ZOpen
    <3> QED BY <3>1 DEF ZPhase
  <2>3. ZNone \notin zFreed BY <1>1, ZAssumption DEF ZUpipe, ZNone
  <2>4. CASE e = "session"
    <3>1. zEnd[e].in = ZNewest(zMade) BY <2>4, <1>3 DEF ZBase, ZCore, ZUpipes
    <3>2. ~(ZNewest(zMade) < ZWritten) /\ ZNewest(zMade) # 2 /\ 2 \notin ZToSession(zMade)
      BY <1>1, ZNewestIs
    <3>3. zEnd[e].in \notin zFreed BY <3>1, <3>2, <2>4, <1>1, <1>3 DEF ZDropped
    <3>4. zEnd[e].out # ZNone => zEnd[e].out = 2 /\ "socket" \in zAlive
      BY <2>1, <2>2, <2>4 DEF ZPeer
    <3>5. "socket" \in zAlive => 2 \notin zFreed BY <3>2, <2>4, <1>1, <1>3 DEF ZDropped
    <3> QED BY <3>3, <3>4, <3>5, <2>3
  <2>5. CASE e = "socket"
    <3>1. ZNewest(zMade) # 2 /\ 2 \notin ZToSession(zMade) BY <1>1, ZNewestIs
    <3>2. 2 \notin zFreed BY <3>1, <2>5, <1>1, <1>3 DEF ZDropped
    <3>3. ASSUME zEnd[e].out # ZNone PROVE zEnd[e].out \notin zFreed
      <4>1. "session" \in zAlive BY <3>3, <2>2, <2>5 DEF ZPeer
      <4>2. zEnd[e].out = ZWritten BY <3>3, <2>5, <1>3 DEF ZWritten
      <4>3. ~(ZWritten < ZWritten) BY <1>1, ZNewestIs
      <4> QED BY <4>1, <4>2, <4>3, <2>5, <1>1, <1>3 DEF ZDropped
    <3> QED BY <3>2, <3>3, <2>1, <2>3, <2>5
  <2> QED BY <2>1, <2>4, <2>5, <1>1
<1>4. ASSUME zAlive = {} PROVE zFreed = 1..zMade
  <2>1. ZWritten = ZNewest(zMade) BY <1>4 DEF ZWritten
  <2>2. zFreed = {u \in ZToSession(zMade) : u < ZNewest(zMade)} \cup {ZNewest(zMade)} \cup {2}
    BY <2>1, <1>1, <1>4 DEF ZDropped
  <2> QED BY <2>2, <1>1 DEF ZNewest, ZToSession
<1>5. ASSUME NEW e \in zMid \cap zAlive, ZMayRead(e)
      PROVE  /\ ZReadable(zQueue[zEnd[e].in])
             /\ Head(zQueue[zEnd[e].in].items) # "delimiter"
  <2> DEFINE q == zQueue[zEnd[e].in]
  <2>1. e \in ZEnd /\ e \in zAlive BY <1>1, <1>5
  <2>2. zEnd[e].in = ZInOf(e, zMade) /\ zEnd[e].in \in ZUpipe BY <2>1, ZWhose
  <2>3. ZRestReady(q) /\ ZGood(q) BY <2>2, <1>5 DEF ZBase, ZMiddle, ZQueues
  <2> HIDE DEF q
  <2>4. ZReadable(q) BY <2>3 DEF ZRestReady, ZReadable
  <2>5. Head(q.items) = q.items[1] BY <2>3, <2>4, ZTakeIsGood
  <2> QED BY <2>3, <2>4, <2>5 DEF ZRestReady, q
<1> QED BY <1>2, <1>3, <1>4, <1>5 DEF ZBase, ZNothingDangles, ZMessagesWhole

-----------------------------------------------------------------------------
(* Credit *)

(* What is left in a flush queue changes as the queue does. *)
LEMMA ZLeftIs ==
    ASSUME NEW q, ZGood(q)
    PROVE  /\ IsFiniteSet(ZLasts(q.items)) /\ ZLeft(q) \in Nat
           /\ ZLeft(ZFlush(q)) = ZLeft(q) /\ ZLeft(ZRollback(q)) = ZLeft(q)
           /\ ZLeft([q EXCEPT !.asleep = TRUE]) = ZLeft(q)
           /\ \A part \in ZItem \ {"last"} :
                 (part = "delimiter" => q.complete = Len(q.items)) => ZLeft(ZPut(q, part)) = ZLeft(q)
           /\ ZLeft(ZPut(q, "last")) = ZLeft(q) + 1
<1>1. q.items \in Seq(ZItem) /\ Len(q.items) \in Nat /\ q.complete \in Nat /\ q.complete <= Len(q.items)
  BY DEF ZGood
<1>2. IsFiniteSet(ZLasts(q.items)) /\ ZLeft(q) \in Nat
  <2>1. IsFiniteSet(1..Len(q.items)) BY <1>1, FS_Interval
  <2>2. ZLasts(q.items) \subseteq 1..Len(q.items) BY DEF ZLasts
  <2>3. IsFiniteSet(ZLasts(q.items)) BY <2>1, <2>2, FS_Subset
  <2> QED BY <2>3, FS_CardinalityType DEF ZLeft
<1>3. ZLeft(ZFlush(q)) = ZLeft(q)
  BY ZFlushIsGood DEF ZLeft
<1>4. ZLasts(ZRollback(q).items) = ZLasts(q.items)
  <2>1. /\ Len(ZRollback(q).items) = q.complete
        /\ \A i \in 1..q.complete : ZRollback(q).items[i] = q.items[i]
    BY ZRollbackIsGood
  <2>2. \A i \in 1..Len(q.items) : q.items[i] = "last" => i \in 1..q.complete
    BY <1>1 DEF ZGood
  <2>3. \A i \in 1..q.complete : i \in 1..Len(q.items)
    BY <1>1
  <2> QED BY <2>1, <2>2, <2>3 DEF ZLasts
<1>5. ZLeft([q EXCEPT !.asleep = TRUE]) = ZLeft(q)
  BY ZSleepIsGood DEF ZLeft
<1>6. ASSUME NEW part \in ZItem, part = "delimiter" => q.complete = Len(q.items)
      PROVE  /\ part # "last" => ZLasts(ZPut(q, part).items) = ZLasts(q.items)
             /\ part = "last" => ZLasts(ZPut(q, part).items) = ZLasts(q.items) \cup {Len(q.items) + 1}
  <2> DEFINE s == ZPut(q, part).items
  <2>1. s = Append(q.items, part) BY <1>6, ZPutIsGood
  <2>2. /\ Len(s) = Len(q.items) + 1
        /\ \A i \in 1..Len(q.items) : s[i] = q.items[i]
        /\ s[Len(q.items) + 1] = part
    BY <1>1, <2>1, AppendProperties
  <2> HIDE DEF s
  <2>3. \A i : i \in 1..Len(s) <=> i \in 1..Len(q.items) \/ i = Len(q.items) + 1
    BY <1>1, <2>2
  <2>4. CASE part = "last" BY <2>2, <2>3, <2>4 DEF ZLasts, s
  <2>5. CASE part # "last" BY <2>2, <2>3, <2>5 DEF ZLasts, s
  <2> QED BY <2>4, <2>5
<1>7. ZLeft(ZPut(q, "last")) = ZLeft(q) + 1
  <2>1. ZLasts(ZPut(q, "last").items) = ZLasts(q.items) \cup {Len(q.items) + 1}
    BY <1>6 DEF ZItem
  <2>2. Len(q.items) + 1 \notin ZLasts(q.items) BY <1>1 DEF ZLasts
  <2> QED BY <1>2, <2>1, <2>2, FS_AddElement DEF ZLeft
<1> QED BY <1>2, <1>3, <1>4, <1>5, <1>6, <1>7 DEF ZLeft

(* A part that is read is one less message if it was the last of its message. *)
LEMMA ZLeftTakes ==
    ASSUME NEW q, ZGood(q), ZReadable(q)
    PROVE  ZLeft(q) = IF Head(q.items) = "last" THEN ZLeft(ZTake(q)) + 1 ELSE ZLeft(ZTake(q))
<1> DEFINE s == q.items
           t == ZTake(q).items
           S == ZLasts(s) \ {1}
           T == ZLasts(t)
<1>1. /\ s # <<>> /\ s \in Seq(ZItem) /\ t = Tail(s) /\ Head(s) = s[1] /\ ZGood(ZTake(q))
  BY ZTakeIsGood
<1>2. /\ Len(s) \in Nat \ {0} /\ Len(t) = Len(s) - 1
      /\ \A i \in 1..(Len(s) - 1) : t[i] = s[i + 1]
  BY <1>1, ZTailOf
<1>3. IsFiniteSet(ZLasts(s)) /\ IsFiniteSet(T) /\ ZLeft(q) = Cardinality(ZLasts(s))
      /\ ZLeft(ZTake(q)) = Cardinality(T) /\ ZLeft(ZTake(q)) \in Nat /\ ZLeft(q) \in Nat
  BY <1>1, ZLeftIs DEF ZLeft
<1> HIDE DEF s, t
<1>4. ExistsBijection(T, S)
  <2> DEFINE g == [i \in T |-> i + 1]
  <2>1. \A i \in T : i \in 1..(Len(s) - 1) /\ i + 1 \in S
    BY <1>2 DEF ZLasts
  <2>2. ASSUME NEW j \in S PROVE \E i \in T : i + 1 = j
    <3>1. j \in Int /\ j - 1 \in 1..(Len(s) - 1) /\ s[j] = "last" BY <1>2 DEF ZLasts
    <3>2. t[j - 1] = s[j] /\ (j - 1) + 1 = j BY <3>1, <1>2
    <3>3. j - 1 \in T BY <3>1, <3>2, <1>2 DEF ZLasts
    <3> QED BY <3>3, <3>2
  <2>3. \A i \in T : g[i] = i + 1 /\ i \in Int BY <2>1
  <2>4. g \in [T -> S] BY <2>1
  <2> HIDE DEF g, S, T
  <2>5. \A i, j \in T : g[i] = g[j] => i = j BY <2>3
  <2>6. \A j \in S : \E i \in T : g[i] = j BY <2>2, <2>3
  <2>7. g \in Bijection(T, S)
    BY <2>4, <2>5, <2>6 DEF Bijection, Injection, Surjection, IsInjective
  <2> QED BY <2>7 DEF ExistsBijection
<1>5. Cardinality(S) = Cardinality(T) /\ IsFiniteSet(S)
  BY <1>3, <1>4, FS_Bijection
<1>6. CASE s[1] = "last"
  <2>1. 1 \in ZLasts(s) BY <1>2, <1>6 DEF ZLasts
  <2>2. Cardinality(S) = Cardinality(ZLasts(s)) - 1 BY <2>1, <1>3, FS_RemoveElement
  <2> QED BY <2>2, <1>1, <1>3, <1>5, <1>6 DEF s
<1>7. CASE s[1] # "last"
  <2>1. S = ZLasts(s) BY <1>7 DEF ZLasts
  <2> QED BY <2>1, <1>1, <1>3, <1>5, <1>7 DEF s
<1> QED BY <1>6, <1>7

(* The last multiple of the low watermark. *)
LEMMA ZFloorIs ==
    ASSUME ZHwm > 0, NEW n \in Nat
    PROVE  /\ ZLwm \in Nat \ {0}
           /\ n % ZLwm = 0 => ZFloor(n) = n
           /\ (n + 1) % ZLwm # 0 => ZFloor(n + 1) = ZFloor(n)
<1>1. ZLwm \in Nat \ {0}
  BY ZAssumption DEF ZLwm
<1> DEFINE L == ZLwm
<1> HIDE DEF L
<1>2. L \in Nat \ {0} BY <1>1 DEF L
<1>3. n % L \in 0..(L - 1) /\ (n + 1) % L \in 0..(L - 1) BY <1>2
<1>4. n = L * (n \div L) + (n % L) /\ n + 1 = L * ((n + 1) \div L) + ((n + 1) % L)
  <2>1. \A m \in Nat : m = L * (m \div L) + (m % L) BY <1>2
  <2> QED BY <2>1
<1>5. n \div L \in Nat /\ (n + 1) \div L \in Nat BY <1>2
<1>6. ASSUME (n + 1) % L # 0 PROVE (n + 1) % L = (n % L) + 1
  <2> DEFINE q == n \div L
             p == (n + 1) \div L
             r == n % L
             s == (n + 1) % L
  <2>1. q \in Nat /\ p \in Nat /\ r \in 0..(L - 1) /\ s - 1 \in 0..(L - 1)
    BY <1>2, <1>3, <1>5, <1>6
  <2>2. L * q + r = L * p + (s - 1) BY <1>2, <1>4, <1>5, <2>1
  <2> HIDE DEF q, p, r, s
  <2>3. q = p BY <1>2, <2>1, <2>2
  <2>4. r = s - 1 BY <2>1, <2>2, <2>3, <1>2
  <2> QED BY <2>1, <2>4, <1>2, <1>3 DEF r, s
<1>7. n % L = 0 => n - (n % L) = n OBVIOUS
<1>8. (n + 1) % L # 0 => (n + 1) - ((n + 1) % L) = n - (n % L) BY <1>2, <1>3, <1>6
<1> QED BY <1>1, <1>7, <1>8 DEF ZFloor, L

(* The balance when something is on its way that reports nothing, ... *)
LEMMA ZBalanceTells ==
    ASSUME NEW w \in Nat, NEW k \in Nat, NEW r \in Nat, NEW n \in Nat,
           NEW c \in Seq(ZCommand), NEW d \in Seq(ZCommand), ~ZHas(d, "activate_write"),
           ZBalance(w, k, r, n, c)
    PROVE  ZBalance(w, k, r, n, c \o d)
<1> DEFINE x == c \o d
<1>1. /\ Len(c) \in Nat /\ Len(d) \in Nat /\ Len(x) = Len(c) + Len(d)
      /\ \A i \in 1..Len(x) : x[i] = IF i <= Len(c) THEN c[i] ELSE d[i - Len(c)]
  BY ConcatProperties
<1>2. ZHas(x, "activate_write") <=> ZHas(c, "activate_write")
  BY ZHasConcat
<1> HIDE DEF x
<1>3. \A i \in 1..Len(x) : x[i].type = "activate_write" => i \in 1..Len(c) /\ x[i] = c[i]
  <2> TAKE i \in 1..Len(x)
  <2>1. CASE i <= Len(c) BY <2>1, <1>1
  <2>2. CASE ~(i <= Len(c))
    <3>1. x[i] = d[i - Len(c)] /\ i - Len(c) \in 1..Len(d) BY <2>2, <1>1
    <3> QED BY <3>1 DEF ZHas
  <2> QED BY <2>1, <2>2
<1>4. \A i \in 1..Len(c) : i \in 1..Len(x) /\ x[i] = c[i]
  BY <1>1
<1>5. ZReports(x, k, r)
  BY <1>3 DEF ZBalance, ZReports
<1>6. ASSUME ZHwm > 0 PROVE ZCaughtUp(x, k, r)
  <2>1. ZCaughtUp(c, k, r) BY <1>6 DEF ZBalance
  <2>2. CASE ~ZHas(c, "activate_write") /\ k = ZFloor(r) BY <2>2, <1>2 DEF ZCaughtUp
  <2>3. ASSUME NEW i \in 1..Len(c), c[i].type = "activate_write", c[i].read = ZFloor(r),
               \A j \in 1..Len(c) : i < j => c[j].type # "activate_write"
        PROVE  ZCaughtUp(x, k, r)
    <3>1. i \in 1..Len(x) /\ x[i] = c[i] BY <2>3, <1>4
    <3>2. \A j \in 1..Len(x) : i < j => x[j].type # "activate_write" BY <2>3, <1>3
    <3> QED BY <2>3, <3>1, <3>2 DEF ZCaughtUp
  <2> QED BY <2>1, <2>2, <2>3 DEF ZCaughtUp
<1>7. ZBalance(w, k, r, n, x)
  BY <1>5, <1>6 DEF ZBalance
<1> QED BY <1>7 DEF x

(* ... is taken from the mailbox, ... *)
LEMMA ZBalanceTakes ==
    ASSUME NEW w \in Nat, NEW k \in Nat, NEW r \in Nat, NEW n \in Nat,
           NEW c \in Seq(ZCommand), c # <<>>, ZBalance(w, k, r, n, c)
    PROVE  /\ c[1].type # "activate_write" => ZBalance(w, k, r, n, Tail(c))
           /\ c[1].type = "activate_write" =>
                  c[1].read \in Nat /\ ZBalance(w, c[1].read, r, n, Tail(c))
<1> DEFINE d == Tail(c)
           k2 == IF c[1].type = "activate_write" THEN c[1].read ELSE k
<1>1. /\ Len(c) \in Nat \ {0} /\ Len(d) = Len(c) - 1 /\ c[1] \in ZCommand
      /\ \A i \in 1..Len(d) : d[i] = c[i + 1] /\ i + 1 \in 1..Len(c) /\ 1 < i + 1
      /\ ZHas(c, "activate_write") <=> c[1].type = "activate_write" \/ ZHas(d, "activate_write")
      /\ 1 \in 1..Len(c) /\ d \in Seq(ZCommand)
  BY ZTailOf
<1>2. k2 \in Nat /\ k <= k2 /\ k2 <= r
  <2>1. CASE c[1].type = "activate_write"
    <3>1. c[1].read \in Nat BY <2>1, <1>1 DEF ZCommand
    <3> QED BY <3>1, <2>1, <1>1 DEF ZBalance, ZReports
  <2>2. CASE c[1].type # "activate_write" BY <2>2 DEF ZBalance, ZReports
  <2> QED BY <2>1, <2>2
<1> HIDE DEF d
<1>3. \A i \in 1..Len(d) : d[i] \in ZCommand /\ (d[i].type = "activate_write" => d[i].read \in Nat)
  <2>1. \A i \in 1..Len(d) : d[i] \in ZCommand BY <1>1, ElementOfSeq
  <2> QED BY <2>1 DEF ZCommand
<1>4. ZReports(d, k2, r)
  <2>1. ASSUME NEW i \in 1..Len(d), d[i].type = "activate_write"
        PROVE  k2 <= d[i].read /\ d[i].read <= r
    <3>1. d[i] = c[i + 1] /\ i + 1 \in 1..Len(c) /\ 1 < i + 1 BY <1>1
    <3>2. k <= d[i].read /\ d[i].read <= r BY <2>1, <3>1 DEF ZBalance, ZReports
    <3>3. c[1].type = "activate_write" => c[1].read <= d[i].read
      BY <2>1, <3>1, <1>1 DEF ZBalance, ZReports
    <3> QED BY <3>2, <3>3
  <2>2. ASSUME NEW i \in 1..Len(d), NEW j \in 1..Len(d), d[i].type = "activate_write",
               d[j].type = "activate_write", i < j
        PROVE  d[i].read <= d[j].read
    <3>1. /\ d[i] = c[i + 1] /\ i + 1 \in 1..Len(c) /\ d[j] = c[j + 1] /\ j + 1 \in 1..Len(c)
          /\ i + 1 < j + 1
      BY <1>1, <2>2
    <3> QED BY <2>2, <3>1 DEF ZBalance, ZReports
  <2> QED BY <1>2, <2>1, <2>2 DEF ZReports
<1>5. ASSUME ZHwm > 0 PROVE ZCaughtUp(d, k2, r)
  <2>1. ZCaughtUp(c, k, r) BY <1>5 DEF ZBalance
  <2>2. CASE ~ZHas(c, "activate_write") /\ k = ZFloor(r) BY <2>2, <1>1 DEF ZCaughtUp
  <2>3. ASSUME NEW i \in 1..Len(c), c[i].type = "activate_write", c[i].read = ZFloor(r),
               \A j \in 1..Len(c) : i < j => c[j].type # "activate_write"
        PROVE  ZCaughtUp(d, k2, r)
    <3>1. CASE i = 1
      <4>1. \A j \in 1..Len(d) : d[j].type # "activate_write"
        BY <1>1, <2>3, <3>1
      <4>2. ~ZHas(d, "activate_write") BY <4>1 DEF ZHas
      <4> QED BY <4>2, <2>3, <3>1 DEF ZCaughtUp
    <3>2. CASE i # 1
      <4>1. i - 1 \in 1..Len(d) /\ d[i - 1] = c[i] BY <3>2, <1>1
      <4>2. ASSUME NEW j \in 1..Len(d), i - 1 < j PROVE d[j].type # "activate_write"
        <5>1. d[j] = c[j + 1] /\ j + 1 \in 1..Len(c) /\ i < j + 1 BY <1>1, <4>2
        <5> QED BY <5>1, <2>3
      <4> QED BY <4>1, <4>2, <2>3 DEF ZCaughtUp
    <3> QED BY <3>1, <3>2
  <2> QED BY <2>1, <2>2, <2>3 DEF ZCaughtUp
<1>6. ZBalance(w, k2, r, n, d)
  <2>1. ZHwm > 0 => w - k2 <= ZHwm BY <1>2, ZAssumption DEF ZBalance
  <2> QED BY <2>1, <1>4, <1>5 DEF ZBalance
<1> QED BY <1>2, <1>6 DEF d

(* ... when a message is written to a pipe that is not full, ... *)
LEMMA ZBalanceWrites ==
    ASSUME NEW w \in Nat, NEW k \in Nat, NEW r \in Nat, NEW n \in Nat, NEW c,
           ZBalance(w, k, r, n, c), ~(ZHwm > 0 /\ w - k = ZHwm)
    PROVE  ZBalance(w + 1, k, r, n + 1, c)
<1>1. w + 1 = (n + 1) + r BY DEF ZBalance
<1>2. ZHwm > 0 => (w + 1) - k <= ZHwm BY ZAssumption DEF ZBalance
<1> QED BY <1>1, <1>2 DEF ZBalance

(* ... and when one is read, and perhaps reported. *)
LEMMA ZBalanceReads ==
    ASSUME NEW w \in Nat, NEW k \in Nat, NEW r \in Nat, NEW n \in Nat,
           NEW c \in Seq(ZCommand), ZBalance(w, k, r, n, c),
           NEW r2 \in Nat, NEW n2 \in Nat,
           (r2 = r /\ n = n2) \/ (r2 = r + 1 /\ n = n2 + 1),
           NEW told,
           told = IF ZLwm > 0 /\ r2 % ZLwm = 0
                  THEN <<[type |-> "activate_write", read |-> r2]>> ELSE <<>>
    PROVE  ZBalance(w, k, r2, n2, c \o told)
<1> DEFINE m == [type |-> "activate_write", read |-> r2]
<1>1. w = n2 + r2 BY DEF ZBalance
<1>2. \A i \in 1..Len(c) : c[i].type = "activate_write" => c[i].read \in Nat
  <2>1. \A i \in 1..Len(c) : c[i] \in ZCommand BY ElementOfSeq
  <2> QED BY <2>1 DEF ZCommand
<1>3. ZReports(c, k, r2)
  BY <1>2 DEF ZBalance, ZReports
<1>4. CASE ~(ZLwm > 0 /\ r2 % ZLwm = 0)
  <2>1. c \o told = c BY <1>4, ConcatEmptySeq
  <2>2. ASSUME ZHwm > 0 PROVE ZCaughtUp(c, k, r2)
    <3>1. ZLwm \in Nat \ {0} BY <2>2, ZFloorIs
    <3>2. r2 % ZLwm # 0 BY <3>1, <1>4
    <3>3. ZFloor(r2) = ZFloor(r) BY <2>2, <3>2, ZFloorIs
    <3>4. ZCaughtUp(c, k, r) BY <2>2 DEF ZBalance
    <3> QED BY <3>3, <3>4 DEF ZCaughtUp
  <2> QED BY <1>1, <1>3, <2>1, <2>2 DEF ZBalance
<1>5. CASE ZLwm > 0 /\ r2 % ZLwm = 0
  <2> DEFINE x == c \o <<m>>
  <2>1. m \in ZCommand /\ m.type = "activate_write" /\ m.read = r2 BY DEF ZCommand
  <2> HIDE DEF m
  <2>2. <<m>> \in Seq(ZCommand) /\ Len(<<m>>) = 1 /\ <<m>>[1] = m BY <2>1
  <2>3. /\ Len(c) \in Nat /\ Len(x) = Len(c) + 1
        /\ \A i \in 1..Len(c) : i \in 1..Len(x) /\ x[i] = c[i]
        /\ x[Len(c) + 1] = m
    BY <2>2, ConcatProperties
  <2> HIDE DEF x
  <2>4. \A i \in 1..Len(x) : i \in 1..Len(c) \/ i = Len(c) + 1
    BY <2>3
  <2>5. k <= r2 BY <1>3 DEF ZReports
  <2>6. ASSUME NEW i \in 1..Len(x), x[i].type = "activate_write"
        PROVE  k <= x[i].read /\ x[i].read <= r2
    BY <2>1, <2>3, <2>4, <2>5, <2>6, <1>3 DEF ZReports
  <2>7. ASSUME NEW i \in 1..Len(x), NEW j \in 1..Len(x), x[i].type = "activate_write",
               x[j].type = "activate_write", i < j
        PROVE  x[i].read <= x[j].read
    <3>1. i \in 1..Len(c) BY <2>3, <2>4, <2>7
    <3>2. CASE j \in 1..Len(c) BY <3>1, <3>2, <2>3, <2>7, <1>3 DEF ZReports
    <3>3. CASE j = Len(c) + 1 BY <3>1, <3>3, <2>1, <2>3, <2>7, <1>3 DEF ZReports
    <3> QED BY <3>2, <3>3, <2>4
  <2>8. ZReports(x, k, r2) BY <2>5, <2>6, <2>7 DEF ZReports
  <2>9. ASSUME ZHwm > 0 PROVE ZCaughtUp(x, k, r2)
    <3>1. ZFloor(r2) = r2 BY <2>9, <1>5, ZFloorIs
    <3>2. Len(c) + 1 \in 1..Len(x) /\ \A j \in 1..Len(x) : ~(Len(c) + 1 < j) BY <2>3
    <3> QED BY <3>1, <3>2, <2>1, <2>3 DEF ZCaughtUp
  <2>10. ZBalance(w, k, r2, n2, x) BY <1>1, <2>8, <2>9 DEF ZBalance
  <2> QED BY <2>10, <1>5 DEF x, m
<1> QED BY <1>4, <1>5

(* Two upipe_t, and both ends there. *)
LEMMA ZPlaces ==
    ASSUME ZBase, zMade = 2, zAlive = ZEnd, NEW e \in ZEnd
    PROVE  /\ zEnd[e] \in ZFields /\ zEnd[e].in = ZOutOf(ZPeer(e))
           /\ zEnd[e].out # ZNone => zEnd[e].out = ZOutOf(e)
           /\ ZOutOf(e) \in ZUpipe /\ ZOutOf(e) # ZOutOf(ZPeer(e))
           /\ ZGood(zQueue[ZOutOf(e)]) /\ ZLeft(zQueue[ZOutOf(e)]) \in Nat
           /\ zChan[e] \in Seq(ZCommand) /\ ~ZHas(zChan[e], "hiccup")
           /\ zEnd[e].read \in Nat /\ zEnd[e].written \in Nat /\ zEnd[e].peersRead \in Nat
<1>1. zEnd[e] \in ZFields /\ zChan[e] \in Seq(ZCommand)
  BY ZWhose
<1>2. ZToSession(2) = {1} /\ ZNewest(2) = 1
  BY DEF ZToSession, ZNewest
<1>3. /\ zEnd["session"].in = 1 /\ zEnd["session"].out \in {2, ZNone} /\ zEnd["socket"].in = 2
      /\ zEnd["socket"].out # ZNone => zEnd["socket"].out = 1
      /\ ~ZHas(zChan["session"], "hiccup") /\ ZNames(zChan["socket"], 1, 2)
  BY <1>2 DEF ZBase, ZCore, ZUpipes, ZWritten, ZEnd
<1>4. ~ZHas(zChan["socket"], "hiccup")
  BY <1>2, <1>3 DEF ZNames, ZHas
<1>5. ZOutOf(e) \in ZUpipe /\ ZOutOf(e) # ZOutOf(ZPeer(e))
  BY ZAssumption DEF ZOutOf, ZUpipe, ZPeer
<1>6. ZGood(zQueue[ZOutOf(e)])
  BY <1>5 DEF ZBase, ZQueues
<1>7. ZLeft(zQueue[ZOutOf(e)]) \in Nat
  BY <1>6, ZLeftIs
<1>8. zEnd[e].read \in Nat /\ zEnd[e].written \in Nat /\ zEnd[e].peersRead \in Nat
  BY <1>1 DEF ZFields
<1>9. zEnd[e].in = ZOutOf(ZPeer(e)) /\ (zEnd[e].out # ZNone => zEnd[e].out = ZOutOf(e))
  BY <1>3 DEF ZOutOf, ZPeer, ZEnd
<1> QED BY <1>1, <1>3, <1>4, <1>5, <1>6, <1>7, <1>8, <1>9 DEF ZEnd

(* The balance of the writer x is not touched. *)
LEMMA ZCreditKept ==
    ASSUME ZBase, zMade = 2, zAlive = ZEnd, NEW x \in ZEnd, ZCreditOf(x),
           zEnd'[x].written = zEnd[x].written, zEnd'[x].peersRead = zEnd[x].peersRead,
           zEnd'[ZPeer(x)].read = zEnd[ZPeer(x)].read,
           ZLeft(zQueue'[ZOutOf(x)]) = ZLeft(zQueue[ZOutOf(x)]),
           NEW d \in Seq(ZCommand), ~ZHas(d, "activate_write"),
           \/ zChan'[x] = zChan[x]
           \/ zChan'[x] = zChan[x] \o d
           \/ /\ zChan[x] # <<>> /\ zChan[x][1].type # "activate_write"
              /\ zChan'[x] = Tail(zChan[x])
    PROVE  ZCreditOf(x)'
<1> DEFINE w == zEnd[x].written
           k == zEnd[x].peersRead
           r == zEnd[ZPeer(x)].read
           n == ZLeft(zQueue[ZOutOf(x)])
<1>1. /\ w \in Nat /\ k \in Nat /\ r \in Nat /\ n \in Nat /\ zChan[x] \in Seq(ZCommand)
  BY ZPlaces, ZPeers
<1>2. ZBalance(w, k, r, n, zChan[x])
  BY DEF ZCreditOf
<1> HIDE DEF w, k, r, n
<1>3. ZBalance(w, k, r, n, zChan'[x])
  <2>1. CASE zChan'[x] = zChan[x] BY <2>1, <1>2
  <2>2. CASE zChan'[x] = zChan[x] \o d
    <3>1. ZBalance(w, k, r, n, zChan[x] \o d) BY <1>1, <1>2, ZBalanceTells
    <3> QED BY <3>1, <2>2
  <2>3. CASE /\ zChan[x] # <<>> /\ zChan[x][1].type # "activate_write"
             /\ zChan'[x] = Tail(zChan[x])
    <3>1. ZBalance(w, k, r, n, Tail(zChan[x])) BY <1>1, <1>2, <2>3, ZBalanceTakes
    <3> QED BY <3>1, <2>3
  <2> QED BY <2>1, <2>2, <2>3
<1> QED BY <1>3 DEF ZCreditOf, w, k, r, n

(* Nor is any balance by most steps of e. *)
LEMMA ZCreditQuiet ==
    ASSUME ZBase, ZCredit, NEW e \in ZEnd, zMade' = zMade, zAlive' = zAlive,
           zEnd'[ZPeer(e)] = zEnd[ZPeer(e)], zEnd'[e].read = zEnd[e].read,
           zEnd'[e].written = zEnd[e].written, zEnd'[e].peersRead = zEnd[e].peersRead,
           \A u \in ZUpipe : ZLeft(zQueue'[u]) = ZLeft(zQueue[u]),
           NEW d \in Seq(ZCommand), ~ZHas(d, "activate_write"),
           zChan'[ZPeer(e)] = zChan[ZPeer(e)] \o d,
           \/ zChan'[e] = zChan[e]
           \/ /\ zChan[e] # <<>> /\ zChan[e][1].type # "activate_write"
              /\ zChan'[e] = Tail(zChan[e])
    PROVE  ZCredit'
<1> DEFINE f == ZPeer(e)
<1> SUFFICES ASSUME zMade = 2, zAlive = ZEnd
             PROVE  \A x \in ZEnd : ZCreditOf(x)'
  BY DEF ZCredit
<1>1. f \in ZEnd /\ ZEnd = {e, f} /\ ZPeer(f) = e
  BY ZPeers
<1>2. ZCreditOf(e) /\ ZCreditOf(f)
  BY <1>1 DEF ZCredit
<1>3. ZOutOf(e) \in ZUpipe /\ ZOutOf(f) \in ZUpipe
  BY <1>1, ZPlaces
<1>4. ZCreditOf(e)'
  BY <1>2, <1>3, ZCreditKept
<1>5. ZCreditOf(f)'
  BY <1>1, <1>2, <1>3, ZCreditKept
<1> QED BY <1>1, <1>4, <1>5

(* One upipe_t changes, but not the number of messages in it. *)
LEMMA ZLeftKept ==
    ASSUME ZPipeTypeOK, NEW u \in ZUpipe, NEW r, zQueue' = [zQueue EXCEPT ![u] = r],
           ZLeft(r) = ZLeft(zQueue[u])
    PROVE  \A v \in ZUpipe : ZLeft(zQueue'[v]) = ZLeft(zQueue[v])
<1> TAKE v \in ZUpipe
<1>1. zQueue'[v] = IF v = u THEN r ELSE zQueue[v]
  BY DEF ZPipeTypeOK
<1> QED BY <1>1

(* The commands that report nothing. *)
LEMMA ZSilent ==
    /\ <<>> \in Seq(ZCommand) /\ ~ZHas(<<>>, "activate_write")
    /\ \A t \in {"activate_read", "pipe_term", "pipe_term_ack"} :
          <<ZCmd(t)>> \in Seq(ZCommand) /\ ~ZHas(<<ZCmd(t)>>, "activate_write")
<1>1. ASSUME NEW t \in {"activate_read", "pipe_term", "pipe_term_ack"}
      PROVE  <<ZCmd(t)>> \in Seq(ZCommand) /\ ~ZHas(<<ZCmd(t)>>, "activate_write")
  <2>1. ZCmd(t) \in ZCommand /\ ZCmd(t).type = t BY DEF ZCmd, ZCommand
  <2> QED BY <2>1, ZOneSent
<1> QED BY <1>1, ZNothingSent

(* The credit is kept when nothing is read, ... *)
LEMMA ZReadNothingCredit ==
    ASSUME ZBase, ZCredit, NEW e \in ZEnd, ZReadNothing(e)
    PROVE  ZCredit'
<1> DEFINE p == zEnd[e]
           q == zQueue[p.in]
<1>1. /\ e \in zAlive /\ zQueue' = [zQueue EXCEPT ![p.in] = [q EXCEPT !.asleep = TRUE]]
      /\ zEnd' = [zEnd EXCEPT ![e] = [p EXCEPT !.inActive = FALSE]] /\ zChan' = zChan
      /\ zMade' = zMade /\ zAlive' = zAlive
  BY DEF ZReadNothing, ZMayRead
<1>2. ZPipeTypeOK /\ p \in ZFields /\ p.in \in ZUpipe /\ ZGood(q)
  BY <1>1, ZWhose DEF ZBase, ZCore, ZQueues
<1>3. [p EXCEPT !.inActive = FALSE] \in ZFields BY <1>2 DEF ZFields
<1>4. zEnd'[ZPeer(e)] = zEnd[ZPeer(e)] /\ zEnd'[e] = [p EXCEPT !.inActive = FALSE]
  BY <1>1, <1>2, <1>3, ZEndStep
<1>5. zEnd'[e].read = p.read /\ zEnd'[e].written = p.written /\ zEnd'[e].peersRead = p.peersRead
  BY <1>2, <1>4 DEF ZFields
<1>6. \A u \in ZUpipe : ZLeft(zQueue'[u]) = ZLeft(zQueue[u])
  BY <1>1, <1>2, ZLeftKept, ZLeftIs
<1>7. zChan'[e] = zChan[e] /\ zChan'[ZPeer(e)] = zChan[ZPeer(e)] \o <<>>
  BY <1>1, <1>2, ZMail, ZNothingSent
<1> QED BY <1>1, <1>4, <1>5, <1>6, <1>7, ZCreditQuiet, ZSilent

(* ... when the delimiter is, ... *)
LEMMA ZReadDelimiterCredit ==
    ASSUME ZBase, ZCredit, NEW e \in ZEnd, ZReadDelimiter(e)
    PROVE  ZCredit'
<1> DEFINE p == zEnd[e]
           q == zQueue[p.in]
<1>1. /\ e \in zAlive /\ zQueue' = [zQueue EXCEPT ![p.in] = ZTake(q)]
      /\ ZReadable(q) /\ Head(q.items) = "delimiter"
      /\ zEnd' = [zEnd EXCEPT ![e] = ZDelimited(p)] /\ zChan' = ZSend(zChan, e, ZDelimitAck(p))
      /\ zMade' = zMade /\ zAlive' = zAlive
  BY DEF ZReadDelimiter, ZMayRead
<1>2. ZPipeTypeOK /\ p \in ZFields /\ p.in \in ZUpipe /\ ZGood(q)
  BY <1>1, ZWhose DEF ZBase, ZCore, ZQueues
<1>3. /\ ZDelimited(p) \in ZFields /\ ZDelimited(p).read = p.read
      /\ ZDelimited(p).written = p.written /\ ZDelimited(p).peersRead = p.peersRead
  BY <1>2 DEF ZDelimited, ZFields, ZState
<1>4. zEnd'[ZPeer(e)] = zEnd[ZPeer(e)] /\ zEnd'[e] = ZDelimited(p)
  BY <1>1, <1>2, <1>3, ZEndStep
<1>5. ZLeft(ZTake(q)) = ZLeft(q)
  BY <1>1, <1>2, ZLeftTakes
<1>6. \A u \in ZUpipe : ZLeft(zQueue'[u]) = ZLeft(zQueue[u])
  BY <1>1, <1>2, <1>5, ZLeftKept
<1>7. ZDelimitAck(p) \in Seq(ZCommand) /\ ~ZHas(ZDelimitAck(p), "activate_write")
  BY ZSilent DEF ZDelimitAck
<1>8. zChan'[e] = zChan[e] /\ zChan'[ZPeer(e)] = zChan[ZPeer(e)] \o ZDelimitAck(p)
  BY <1>1, <1>2, <1>7, ZMail
<1> QED BY <1>1, <1>3, <1>4, <1>6, <1>7, <1>8, ZCreditQuiet

(* ... when a part is read and perhaps reported, ... *)
LEMMA ZReadPartCredit ==
    ASSUME ZBase, ZCredit, NEW e \in ZEnd, ZReadPart(e)
    PROVE  ZCredit'
<1> DEFINE p == zEnd[e]
           f == ZPeer(e)
           q == zQueue[p.in]
           part == Head(q.items)
           read == IF part = "last" THEN p.read + 1 ELSE p.read
           told == IF ZLwm > 0 /\ read % ZLwm = 0
                   THEN <<[type |-> "activate_write", read |-> read]>> ELSE <<>>
<1>1. /\ e \in zAlive /\ zQueue' = [zQueue EXCEPT ![p.in] = ZTake(q)] /\ ZReadable(q)
      /\ zEnd' = [zEnd EXCEPT ![e] = [p EXCEPT !.read = read]]
      /\ zChan' = IF ZLwm > 0 /\ read % ZLwm = 0
                  THEN ZSend(zChan, e, <<[type |-> "activate_write", read |-> read]>>)
                  ELSE zChan
      /\ zMade' = zMade /\ zAlive' = zAlive
  BY DEF ZReadPart, ZMayRead
<1> SUFFICES ASSUME zMade = 2, zAlive = ZEnd
             PROVE  \A x \in ZEnd : ZCreditOf(x)'
  BY <1>1 DEF ZCredit
<1>2. f \in ZEnd /\ ZEnd = {e, f} /\ ZPeer(f) = e /\ e # f
  BY ZPeers
<1>3. ZPipeTypeOK /\ ZCreditOf(e) /\ ZCreditOf(f)
  BY <1>2 DEF ZCredit, ZBase, ZCore
<1>4. /\ p \in ZFields /\ p.read \in Nat /\ p.in = ZOutOf(f) /\ ZOutOf(f) \in ZUpipe
      /\ ZOutOf(e) \in ZUpipe /\ ZOutOf(e) # ZOutOf(f) /\ ZGood(q)
      /\ zEnd[f].written \in Nat /\ zEnd[f].peersRead \in Nat /\ ZLeft(q) \in Nat
      /\ zChan[f] \in Seq(ZCommand)
  BY <1>2, ZPlaces
<1>5. read \in Nat BY <1>4
<1>6. ZLeft(ZTake(q)) \in Nat
  BY <1>1, <1>4, ZTakeIsGood, ZLeftIs
<1>7. \/ read = p.read /\ ZLeft(q) = ZLeft(ZTake(q))
      \/ read = p.read + 1 /\ ZLeft(q) = ZLeft(ZTake(q)) + 1
  BY <1>1, <1>4, ZLeftTakes
<1>8. zChan'[e] = zChan[e] /\ zChan'[f] = zChan[f] \o told
  <2>1. CASE ZLwm > 0 /\ read % ZLwm = 0
    <3>1. told \in Seq(ZCommand) BY <1>5, <2>1, ZActivates DEF ZHarmless
    <3>2. zChan' = ZSend(zChan, e, told) BY <1>1, <2>1
    <3> HIDE DEF told
    <3> QED BY <3>1, <3>2, <1>3, ZMail
  <2>2. CASE ~(ZLwm > 0 /\ read % ZLwm = 0)
    <3>1. told = <<>> /\ zChan' = zChan BY <1>1, <2>2
    <3> HIDE DEF told
    <3> QED BY <3>1, <1>3, ZMail, ZNothingSent
  <2> QED BY <2>1, <2>2
<1>9. told = IF ZLwm > 0 /\ read % ZLwm = 0
             THEN <<[type |-> "activate_write", read |-> read]>> ELSE <<>>
  OBVIOUS
<1> HIDE DEF read, told
<1>10. /\ [p EXCEPT !.read = read] \in ZFields
       /\ [p EXCEPT !.read = read].read = read
       /\ [p EXCEPT !.read = read].written = p.written
       /\ [p EXCEPT !.read = read].peersRead = p.peersRead
  BY <1>4, <1>5 DEF ZFields
<1>11. zEnd'[f] = zEnd[f] /\ zEnd'[e] = [p EXCEPT !.read = read]
  BY <1>1, <1>3, <1>10, ZEndStep
<1>12. zQueue'[ZOutOf(f)] = ZTake(q) /\ zQueue'[ZOutOf(e)] = zQueue[ZOutOf(e)]
  BY <1>1, <1>3, <1>4 DEF ZPipeTypeOK
<1>13. ZCreditOf(e)'
  BY <1>2, <1>3, <1>8, <1>10, <1>11, <1>12, ZCreditKept, ZSilent
<1>14. ZCreditOf(f)'
  <2>1. ZBalance(zEnd[f].written, zEnd[f].peersRead, p.read, ZLeft(q), zChan[f])
    BY <1>2, <1>3, <1>4 DEF ZCreditOf
  <2>2. ZBalance(zEnd[f].written, zEnd[f].peersRead, read, ZLeft(ZTake(q)), zChan[f] \o told)
    BY <2>1, <1>4, <1>5, <1>6, <1>7, <1>9, ZBalanceReads
  <2> QED BY <2>2, <1>2, <1>8, <1>10, <1>11, <1>12 DEF ZCreditOf
<1> QED BY <1>2, <1>13, <1>14

(* ... when a part is written, ... *)
LEMMA ZWriteCredit ==
    ASSUME ZBase, ZCredit, NEW e \in ZEnd, NEW part \in {"more", "last"}, ZWrite(e, part)
    PROVE  ZCredit'
<1> DEFINE p == zEnd[e]
           f == ZPeer(e)
           q == ZPut(zQueue[p.out], part)
           told == IF e = "socket" /\ part = "last" /\ ZWakes(q)
                   THEN <<ZCmd("activate_read")>> ELSE <<>>
<1>1. e \in zAlive /\ p.state = "active" /\ zAlive' = zAlive /\ zMade' = zMade
  BY DEF ZWrite
<1>2. p \in ZFields /\ p.out \in ZUpipe /\ p.out # ZNone /\ ZPipeTypeOK /\ ZGood(zQueue[p.out])
  BY <1>1, ZWhose DEF ZBase, ZCore, ZQueues
<1>3. CASE ZFull(p)
  <2>1. /\ zEnd' = [zEnd EXCEPT ![e] = [p EXCEPT !.outActive = FALSE]]
        /\ zQueue' = zQueue /\ zChan' = zChan
    BY <1>3 DEF ZWrite
  <2>2. [p EXCEPT !.outActive = FALSE] \in ZFields BY <1>2 DEF ZFields
  <2>3. zEnd'[f] = zEnd[f] /\ zEnd'[e] = [p EXCEPT !.outActive = FALSE]
    BY <1>2, <2>1, <2>2, ZEndStep
  <2>4. zEnd'[e].read = p.read /\ zEnd'[e].written = p.written /\ zEnd'[e].peersRead = p.peersRead
    BY <1>2, <2>3 DEF ZFields
  <2>5. zChan'[e] = zChan[e] /\ zChan'[f] = zChan[f] \o <<>>
    BY <1>2, <2>1, ZMail, ZNothingSent
  <2>6. \A u \in ZUpipe : ZLeft(zQueue'[u]) = ZLeft(zQueue[u]) BY <2>1
  <2> QED BY <1>1, <2>3, <2>4, <2>5, <2>6, ZCreditQuiet, ZSilent
<1>4. CASE ~ZFull(p)
  <2> DEFINE r == IF e = "socket" /\ part = "last" THEN ZFlush(q) ELSE q
             w == IF part = "last" THEN p.written + 1 ELSE p.written
  <2>1. /\ zQueue' = [zQueue EXCEPT ![p.out] = r]
        /\ zEnd' = [zEnd EXCEPT ![e] = [p EXCEPT !.written = w]]
        /\ zChan' = IF e = "socket" /\ part = "last" /\ ZWakes(q)
                    THEN ZSend(zChan, e, <<ZCmd("activate_read")>>) ELSE zChan
    BY <1>4 DEF ZWrite
  <2>2. ZGood(q) BY <1>2, ZPutIsGood DEF ZItem
  <2>3. /\ part = "last" => ZLeft(q) = ZLeft(zQueue[p.out]) + 1
        /\ part # "last" => ZLeft(q) = ZLeft(zQueue[p.out])
    BY <1>2, ZLeftIs DEF ZItem
  <2>4. told \in Seq(ZCommand) /\ ~ZHas(told, "activate_write") BY ZSilent
  <2>5. zChan'[e] = zChan[e] /\ zChan'[f] = zChan[f] \o told
    BY <1>2, <2>1, ZMail, ZSilent
  <2> HIDE DEF told, q
  <2>6. ZLeft(r) = ZLeft(q) BY <2>2, ZLeftIs
  <2>7. w \in Nat BY <1>2 DEF ZFields
  <2> HIDE DEF r
  <2>8. /\ [p EXCEPT !.written = w] \in ZFields /\ [p EXCEPT !.written = w].read = p.read
        /\ [p EXCEPT !.written = w].written = w /\ [p EXCEPT !.written = w].peersRead = p.peersRead
    BY <1>2, <2>7 DEF ZFields
  <2>9. zEnd'[f] = zEnd[f] /\ zEnd'[e] = [p EXCEPT !.written = w]
    BY <1>2, <2>1, <2>8, ZEndStep
  <2>10. CASE part # "last"
    <3>1. w = p.written /\ ZLeft(r) = ZLeft(zQueue[p.out]) BY <2>3, <2>6, <2>10
    <3>2. \A u \in ZUpipe : ZLeft(zQueue'[u]) = ZLeft(zQueue[u])
      BY <1>2, <2>1, <3>1, ZLeftKept
    <3> QED BY <1>1, <2>4, <2>5, <2>8, <2>9, <3>1, <3>2, ZCreditQuiet
  <2>11. CASE part = "last"
    <3> SUFFICES ASSUME zMade = 2, zAlive = ZEnd
                 PROVE  \A x \in ZEnd : ZCreditOf(x)'
      BY <1>1 DEF ZCredit
    <3>1. f \in ZEnd /\ ZEnd = {e, f} /\ ZPeer(f) = e /\ e # f
      BY ZPeers
    <3>2. ZCreditOf(e) /\ ZCreditOf(f)
      BY <3>1 DEF ZCredit
    <3>3. /\ p.out = ZOutOf(e) /\ ZOutOf(f) \in ZUpipe /\ ZOutOf(e) # ZOutOf(f)
          /\ p.written \in Nat /\ p.peersRead \in Nat /\ zEnd[f].read \in Nat
          /\ ZLeft(zQueue[p.out]) \in Nat
      BY <1>2, <3>1, ZPlaces
    <3>4. zQueue'[ZOutOf(e)] = r /\ zQueue'[ZOutOf(f)] = zQueue[ZOutOf(f)]
      BY <1>2, <2>1, <3>3 DEF ZPipeTypeOK
    <3>5. ZCreditOf(f)'
      BY <2>4, <2>5, <2>8, <2>9, <3>1, <3>2, <3>4, ZCreditKept
    <3>6. ZCreditOf(e)'
      <4>1. ZBalance(p.written, p.peersRead, zEnd[f].read, ZLeft(zQueue[p.out]), zChan[e])
        BY <3>2, <3>3 DEF ZCreditOf
      <4>2. ~(ZHwm > 0 /\ p.written - p.peersRead = ZHwm) BY <1>4 DEF ZFull
      <4>3. ZBalance(p.written + 1, p.peersRead, zEnd[f].read, ZLeft(zQueue[p.out]) + 1, zChan[e])
        BY <3>3, <4>1, <4>2, ZBalanceWrites
      <4>4. w = p.written + 1 /\ ZLeft(r) = ZLeft(zQueue[p.out]) + 1 BY <2>3, <2>6, <2>11
      <4> HIDE DEF w
      <4> QED BY <4>3, <4>4, <2>5, <2>8, <2>9, <3>4 DEF ZCreditOf
    <3> QED BY <3>1, <3>5, <3>6
  <2> QED BY <2>10, <2>11
<1> QED BY <1>3, <1>4

(* flush(), with or without a rollback before it. *)
LEMMA ZFlushCredit ==
    ASSUME ZBase, ZCredit, ZFlushOut \/ ZCleanPipes, zEnd["session"].out # ZNone
    PROVE  ZCredit'
<1> DEFINE e == "session"
           p == zEnd[e]
           q == zQueue[p.out]
           b == ZRollback(q)
<1>1. /\ e \in zAlive /\ e \in ZEnd /\ p.out # ZNone /\ zEnd' = zEnd
      /\ zAlive' = zAlive /\ zMade' = zMade
  BY DEF ZFlushOut, ZCleanPipes, ZEnd
<1>2. ZPipeTypeOK /\ p.out \in ZUpipe /\ ZGood(q)
  BY <1>1, ZWhose DEF ZBase, ZCore, ZQueues
<1>3. ZLeft(ZFlush(q)) = ZLeft(q) /\ ZLeft(ZFlush(b)) = ZLeft(q)
  <2>1. ZGood(b) /\ ZLeft(b) = ZLeft(q) BY <1>2, ZRollbackIsGood, ZLeftIs
  <2> HIDE DEF b
  <2> QED BY <2>1, <1>2, ZLeftIs
<1>4. \/ zQueue' = [zQueue EXCEPT ![p.out] = ZFlush(q)]
      \/ zQueue' = [zQueue EXCEPT ![p.out] = ZFlush(b)]
  BY DEF ZFlushOut, ZCleanPipes
<1>5. \A u \in ZUpipe : ZLeft(zQueue'[u]) = ZLeft(zQueue[u])
  BY <1>2, <1>3, <1>4, ZLeftKept
<1>6. zChan' = ZSend(zChan, e, <<ZCmd("activate_read")>>) \/ zChan' = zChan
  BY DEF ZFlushOut, ZCleanPipes
<1>7. /\ zChan'[e] = zChan[e]
      /\ \/ zChan'[ZPeer(e)] = zChan[ZPeer(e)] \o <<ZCmd("activate_read")>>
         \/ zChan'[ZPeer(e)] = zChan[ZPeer(e)] \o <<>>
  BY <1>1, <1>2, <1>6, ZMail, ZSilent
<1>8. CASE zChan'[ZPeer(e)] = zChan[ZPeer(e)] \o <<ZCmd("activate_read")>>
  BY <1>1, <1>5, <1>7, <1>8, ZCreditQuiet, ZSilent
<1>9. CASE zChan'[ZPeer(e)] = zChan[ZPeer(e)] \o <<>>
  BY <1>1, <1>5, <1>7, <1>9, ZCreditQuiet, ZSilent
<1> QED BY <1>7, <1>8, <1>9

(* ... when an end terminates, ... *)
LEMMA ZTerminateCredit ==
    ASSUME ZBase, ZCredit, NEW e \in ZEnd, NEW delay \in BOOLEAN, ZTerminate(e, delay)
    PROVE  ZCredit'
<1> DEFINE p == zEnd[e]
           f == ZPeer(e)
           new == ZTermEnd(p, delay)
           late == [p EXCEPT !.delay = delay]
           q == ZPut(ZRollback(zQueue[p.out]), "delimiter")
           told == IF new.out # ZNone /\ ZWakes(q) THEN <<ZCmd("activate_read")>> ELSE <<>>
           d == ZTermSend(p, delay) \o told
<1>1. e \in zAlive /\ zAlive' = zAlive /\ zMade' = zMade
  BY DEF ZTerminate
<1>2. p \in ZFields /\ p.state \in ZState /\ ZPipeTypeOK
  BY <1>1, ZWhose DEF ZBase, ZCore, ZFields
<1>3. CASE p.state \in {"terminated", "double_terminated", "terminating"}
  <2>1. zEnd' = [zEnd EXCEPT ![e] = late] /\ zQueue' = zQueue /\ zChan' = zChan
    BY <1>3 DEF ZTerminate
  <2>2. /\ late \in ZFields /\ late.read = p.read /\ late.written = p.written
        /\ late.peersRead = p.peersRead
    BY <1>2 DEF ZFields
  <2>3. zEnd'[f] = zEnd[f] /\ zEnd'[e] = late
    BY <1>2, <2>1, <2>2, ZEndStep
  <2>4. zChan'[e] = zChan[e] /\ zChan'[f] = zChan[f] \o <<>>
    BY <1>2, <2>1, ZMail, ZNothingSent
  <2>5. \A u \in ZUpipe : ZLeft(zQueue'[u]) = ZLeft(zQueue[u]) BY <2>1
  <2> QED BY <1>1, <2>2, <2>3, <2>4, <2>5, ZCreditQuiet, ZSilent
<1>4. CASE p.state \notin {"terminated", "double_terminated", "terminating"}
  <2>1. /\ zEnd' = [zEnd EXCEPT ![e] = new] /\ zChan' = ZSend(zChan, e, d)
        /\ zQueue' = IF new.out = ZNone THEN zQueue ELSE [zQueue EXCEPT ![p.out] = ZFlush(q)]
    BY <1>4 DEF ZTerminate
  <2>2. /\ p.out # ZNone /\ p.out \in ZUpipe /\ ZGood(zQueue[p.out])
    BY <1>1, <1>4, ZWhose DEF ZBase, ZQueues
  <2>3. ZLeft(ZFlush(q)) = ZLeft(zQueue[p.out])
    <3> DEFINE b == ZRollback(zQueue[p.out])
    <3>1. ZGood(b) /\ b.complete = Len(b.items) /\ ZLeft(b) = ZLeft(zQueue[p.out])
      BY <2>2, ZRollbackIsGood, ZLeftIs
    <3> HIDE DEF b
    <3>2. ZGood(ZPut(b, "delimiter")) /\ ZLeft(ZPut(b, "delimiter")) = ZLeft(b)
      BY <3>1, ZPutIsGood, ZLeftIs DEF ZItem
    <3>3. ZLeft(ZFlush(ZPut(b, "delimiter"))) = ZLeft(ZPut(b, "delimiter"))
      BY <3>2, ZLeftIs
    <3> QED BY <3>1, <3>2, <3>3 DEF b
  <2>4. told \in Seq(ZCommand) /\ ~ZHas(told, "activate_write") BY ZSilent
  <2>5. ZTermSend(p, delay) \in Seq(ZCommand) /\ ~ZHas(ZTermSend(p, delay), "activate_write")
    BY ZSilent DEF ZTermSend
  <2>6. /\ new \in ZFields /\ new.read = p.read /\ new.written = p.written
        /\ new.peersRead = p.peersRead
    BY <1>2 DEF ZTermEnd, ZFields, ZState, ZNone
  <2> HIDE DEF told, q, new
  <2>7. d \in Seq(ZCommand) /\ ~ZHas(d, "activate_write")
    BY <2>4, <2>5, ZHasConcat, ConcatProperties
  <2> HIDE DEF d
  <2>8. zChan'[e] = zChan[e] /\ zChan'[f] = zChan[f] \o d
    BY <1>2, <2>1, <2>7, ZMail
  <2>9. zEnd'[f] = zEnd[f] /\ zEnd'[e] = new
    BY <1>2, <2>1, <2>6, ZEndStep
  <2>10. \A u \in ZUpipe : ZLeft(zQueue'[u]) = ZLeft(zQueue[u])
    <3>1. CASE zQueue' = zQueue BY <3>1
    <3>2. CASE zQueue' = [zQueue EXCEPT ![p.out] = ZFlush(q)]
      BY <3>2, <1>2, <2>2, <2>3, ZLeftKept
    <3> QED BY <3>1, <3>2, <2>1
  <2> QED BY <1>1, <2>6, <2>7, <2>8, <2>9, <2>10, ZCreditQuiet
<1> QED BY <1>3, <1>4

(* ... when the reader is woken, ... *)
LEMMA ZProcessActivateReadCredit ==
    ASSUME ZBase, ZCredit, NEW e \in ZEnd, ZProcessActivateRead(e)
    PROVE  ZCredit'
<1> DEFINE p == zEnd[e]
           active == p.inActive \/ p.state \in {"active", "pending"}
           new == [p EXCEPT !.inActive = active]
<1>1. /\ e \in zAlive /\ zChan[e] # <<>> /\ Head(zChan[e]).type = "activate_read"
      /\ zEnd' = [zEnd EXCEPT ![e] = new] /\ zChan' = ZTaken(e)
      /\ zQueue' = zQueue /\ zAlive' = zAlive /\ zMade' = zMade
  BY DEF ZProcessActivateRead, ZReceive
<1>2. ZPipeTypeOK /\ p \in ZFields /\ active \in BOOLEAN /\ zChan[e] \in Seq(ZCommand)
  BY <1>1, ZWhose DEF ZBase, ZCore, ZFields
<1> HIDE DEF active
<1>3. new \in ZFields /\ new.read = p.read /\ new.written = p.written /\ new.peersRead = p.peersRead
  BY <1>2 DEF ZFields
<1>4. zEnd'[ZPeer(e)] = zEnd[ZPeer(e)] /\ zEnd'[e] = new
  BY <1>1, <1>2, <1>3, ZEndStep
<1>5. zChan[e][1].type # "activate_write"
  BY <1>1, <1>2, ZTailOf
<1>6. zChan'[e] = Tail(zChan[e]) /\ zChan'[ZPeer(e)] = zChan[ZPeer(e)] \o <<>>
  BY <1>1, <1>2, ZMail, ZNothingSent
<1>7. \A u \in ZUpipe : ZLeft(zQueue'[u]) = ZLeft(zQueue[u]) BY <1>1
<1> QED BY <1>1, <1>3, <1>4, <1>5, <1>6, <1>7, ZCreditQuiet, ZSilent

(* ... when a report arrives, ... *)
LEMMA ZProcessActivateWriteCredit ==
    ASSUME ZBase, ZCredit, NEW e \in ZEnd, ZProcessActivateWrite(e)
    PROVE  ZCredit'
<1> DEFINE p == zEnd[e]
           f == ZPeer(e)
           active == p.outActive \/ p.state = "active"
           k == Head(zChan[e]).read
           new == [p EXCEPT !.peersRead = k, !.outActive = active]
<1>1. /\ e \in zAlive /\ zChan[e] # <<>> /\ Head(zChan[e]).type = "activate_write"
      /\ zEnd' = [zEnd EXCEPT ![e] = new] /\ zChan' = ZTaken(e)
      /\ zQueue' = zQueue /\ zAlive' = zAlive /\ zMade' = zMade
  BY DEF ZProcessActivateWrite, ZReceive
<1> SUFFICES ASSUME zMade = 2, zAlive = ZEnd
             PROVE  \A x \in ZEnd : ZCreditOf(x)'
  BY <1>1 DEF ZCredit
<1>2. f \in ZEnd /\ ZEnd = {e, f} /\ ZPeer(f) = e /\ e # f
  BY ZPeers
<1>3. ZPipeTypeOK /\ ZCreditOf(e) /\ ZCreditOf(f)
  BY <1>2 DEF ZCredit, ZBase, ZCore
<1>4. /\ p \in ZFields /\ p.written \in Nat /\ p.peersRead \in Nat /\ zEnd[f].read \in Nat
      /\ ZLeft(zQueue[ZOutOf(e)]) \in Nat /\ zChan[e] \in Seq(ZCommand) /\ active \in BOOLEAN
  BY <1>2, ZPlaces DEF ZFields
<1>5. k = zChan[e][1].read /\ zChan[e][1].type = "activate_write"
  BY <1>1, <1>4, ZTailOf
<1>6. ZBalance(p.written, p.peersRead, zEnd[f].read, ZLeft(zQueue[ZOutOf(e)]), zChan[e])
  BY <1>3 DEF ZCreditOf
<1>7. k \in Nat /\ ZBalance(p.written, k, zEnd[f].read, ZLeft(zQueue[ZOutOf(e)]), Tail(zChan[e]))
  BY <1>1, <1>4, <1>5, <1>6, ZBalanceTakes
<1> HIDE DEF k, active
<1>8. new \in ZFields /\ new.read = p.read /\ new.written = p.written /\ new.peersRead = k
  BY <1>4, <1>7 DEF ZFields
<1>9. zEnd'[f] = zEnd[f] /\ zEnd'[e] = new
  BY <1>1, <1>3, <1>8, ZEndStep
<1>10. zChan'[e] = Tail(zChan[e]) /\ zChan'[f] = zChan[f] \o <<>>
  BY <1>1, <1>3, ZMail, ZNothingSent
<1>11. ZCreditOf(e)'
  BY <1>1, <1>7, <1>8, <1>9, <1>10 DEF ZCreditOf
<1>12. ZCreditOf(f)'
  BY <1>1, <1>2, <1>3, <1>8, <1>9, <1>10, ZCreditKept, ZSilent
<1> QED BY <1>2, <1>11, <1>12

(* ... and when the peer terminates. *)
LEMMA ZProcessPipeTermCredit ==
    ASSUME ZBase, ZCredit, NEW e \in ZEnd, ZProcessPipeTerm(e)
    PROVE  ZCredit'
<1> DEFINE p == zEnd[e]
           f == ZPeer(e)
           waits == p.state = "active" /\ p.delay
           new == IF waits THEN [p EXCEPT !.state = "pending"]
                  ELSE [p EXCEPT !.out = ZNone,
                                 !.state = IF @ = "terminated" THEN "double_terminated"
                                           ELSE "terminating"]
           a == <<ZCmd("pipe_term_ack")>>
<1>1. /\ e \in zAlive /\ zChan[e] # <<>> /\ Head(zChan[e]).type = "pipe_term"
      /\ zEnd' = [zEnd EXCEPT ![e] = new]
      /\ zChan' = ZTaken(e) \/ zChan' = ZSend(ZTaken(e), e, a)
      /\ zQueue' = zQueue /\ zMade' = zMade /\ zAlive' = zAlive
  BY DEF ZProcessPipeTerm, ZReceive
<1>2. ZPipeTypeOK /\ p \in ZFields /\ zChan[e] \in Seq(ZCommand)
  BY <1>1, ZWhose DEF ZBase, ZCore
<1>3. new \in ZFields /\ new.read = p.read /\ new.written = p.written /\ new.peersRead = p.peersRead
  BY <1>2 DEF ZFields, ZState, ZNone
<1> HIDE DEF new
<1>4. zEnd'[f] = zEnd[f] /\ zEnd'[e] = new
  BY <1>1, <1>2, <1>3, ZEndStep
<1>5. zChan[e][1].type # "activate_write"
  BY <1>1, <1>2, ZTailOf
<1>6. a \in Seq(ZCommand) /\ ~ZHas(a, "activate_write") BY ZSilent
<1> HIDE DEF a
<1>7. zChan'[e] = Tail(zChan[e]) /\ (zChan'[f] = zChan[f] \o <<>> \/ zChan'[f] = zChan[f] \o a)
  BY <1>1, <1>2, <1>6, ZMail, ZNothingSent
<1>8. \A u \in ZUpipe : ZLeft(zQueue'[u]) = ZLeft(zQueue[u]) BY <1>1
<1>9. CASE zChan'[f] = zChan[f] \o <<>>
  BY <1>1, <1>3, <1>4, <1>5, <1>7, <1>8, <1>9, ZCreditQuiet, ZSilent
<1>10. CASE zChan'[f] = zChan[f] \o a
  BY <1>1, <1>3, <1>4, <1>5, <1>6, <1>7, <1>8, <1>10, ZCreditQuiet
<1> QED BY <1>7, <1>9, <1>10

(* With two upipe_t there is no hiccup to process; a new one, and the deletion  *)
(* of an end, end the claim.                                                     *)
LEMMA ZOtherCredit ==
    ASSUME ZBase, ZCredit, NEW e \in ZEnd,
           ZHiccup \/ ZProcessHiccup(e) \/ ZProcessPipeTermAck(e)
    PROVE  ZCredit'
<1>1. CASE ZHiccup
  <2>1. zMade' # 2 BY <1>1, ZTypes DEF ZHiccup, ZBase, ZCore, ZUpipes
  <2> QED BY <2>1 DEF ZCredit
<1>2. CASE ZProcessHiccup(e)
  <2>1. zMade' = zMade /\ zAlive' = zAlive /\ zChan[e] # <<>> /\ Head(zChan[e]).type = "hiccup"
    BY <1>2 DEF ZProcessHiccup, ZReceive
  <2>2. ASSUME zMade = 2, zAlive = ZEnd PROVE FALSE
    <3>1. zChan[e] \in Seq(ZCommand) /\ ~ZHas(zChan[e], "hiccup") BY <2>2, ZPlaces
    <3> QED BY <3>1, <2>1, ZTailOf
  <2> QED BY <2>1, <2>2 DEF ZCredit
<1>3. CASE ZProcessPipeTermAck(e)
  BY <1>3 DEF ZProcessPipeTermAck, ZCredit
<1> QED BY <1>1, <1>2, <1>3

-----------------------------------------------------------------------------
(* The rest of a message that the session has begun to read can be read, unless   *)
(* it has ended the pipe.                                                          *)
ZStuck == zAt = "aborted" => zEnd["session"].state \notin {"active", "pending"}

(* The inductive invariant. *)
ZIInv == ZBase /\ ZCredit /\ ZAwake /\ ZStuck

(* The invariant holds when the pipe is made, ... *)
LEMMA ZIInvInit ==
    ASSUME ZInit
    PROVE  ZIInv
<1>1. ZBase BY ZBaseInit
<1>2. ASSUME NEW e \in ZEnd PROVE ZCreditOf(e)
  <2>1. /\ zEnd[e].written = 0 /\ zEnd[e].peersRead = 0 /\ zEnd[ZPeer(e)].read = 0
        /\ zChan[e] = <<>>
    <3>1. \A x \in ZEnd : zEnd[x].written = 0 /\ zEnd[x].peersRead = 0 /\ zEnd[x].read = 0
      BY DEF ZInit
    <3> QED BY <3>1, ZPeers DEF ZInit
  <2>2. zQueue[ZOutOf(e)] = ZEmpty BY ZAssumption DEF ZInit, ZOutOf, ZUpipe
  <2>3. ZLeft(ZEmpty) = 0
    <3>1. ZLasts(ZEmpty.items) = {} BY DEF ZLasts, ZEmpty
    <3> QED BY <3>1, FS_EmptySet DEF ZLeft
  <2>4. ZReports(<<>>, 0, 0) BY DEF ZReports
  <2>5. ASSUME ZHwm > 0 PROVE ZCaughtUp(<<>>, 0, 0)
    <3>1. ZLwm \in Nat \ {0} BY <2>5, ZFloorIs
    <3>2. 0 % ZLwm = 0 BY <3>1
    <3>3. ZFloor(0) = 0 BY <2>5, <3>2, ZFloorIs
    <3> QED BY <3>3, ZNothingSent DEF ZCaughtUp
  <2>6. ZBalance(0, 0, 0, 0, <<>>) BY <2>4, <2>5, ZAssumption DEF ZBalance
  <2> QED BY <2>1, <2>2, <2>3, <2>6 DEF ZCreditOf
<1>3. ZAwake /\ ZStuck BY DEF ZInit, ZAwake, ZStuck
<1> QED BY <1>1, <1>2, <1>3 DEF ZIInv, ZCredit

(* ... and every step keeps it. *)
LEMMA ZIInvNext ==
    ASSUME ZIInv, [ZNext]_zVars
    PROVE  ZIInv'
<1> USE DEF ZIInv
<1>1. ZPipeStep /\ ZBase' /\ ZAwake' BY ZNextIsPipeStep, ZBaseNext, ZAwakeNext
<1>2. ASSUME UNCHANGED zPipe PROVE ZCredit'
  BY <1>2 DEF zPipe, ZCredit, ZCreditOf
<1>3. ASSUME NEW e \in ZEnd, ZReadStep(e) PROVE ZCredit'
  BY <1>3, ZReadNothingCredit, ZReadDelimiterCredit, ZReadPartCredit DEF ZReadStep
<1>4. ASSUME NEW e \in ZEnd, ZProcess(e) PROVE ZCredit'
  BY <1>4, ZProcessActivateReadCredit, ZProcessActivateWriteCredit, ZProcessPipeTermCredit,
     ZOtherCredit DEF ZProcess
<1>5. ASSUME ZHiccup PROVE ZCredit'
  BY <1>5, ZOtherCredit DEF ZEnd
<1>6. ASSUME ZFlushOut \/ ZCleanPipes PROVE ZCredit'
  <2>1. CASE ZFlushOut BY <2>1, ZFlushCredit DEF ZFlushOut
  <2>2. CASE ZCleanPipes /\ zEnd["session"].out # ZNone BY <2>2, ZFlushCredit
  <2>3. CASE ZCleanPipes /\ zEnd["session"].out = ZNone
    <3>1. UNCHANGED zPipe BY <2>3 DEF ZCleanPipes, zPipe
    <3> QED BY <3>1, <1>2
  <2> QED BY <1>6, <2>1, <2>2, <2>3
<1>7. ZCredit'
  BY <1>1, <1>2, <1>3, <1>4, <1>5, <1>6, ZWriteCredit, ZTerminateCredit DEF ZPipeStep
<1>8. ZStuck'
  <2>1. CASE UNCHANGED zVars BY <2>1 DEF zVars, zPipe, ZStuck
  <2>2. CASE ZDrain
    <3>1. CASE ZPartReady BY <2>2, <3>1 DEF ZDrain, ZStuck
    <3>2. CASE ~ZPartReady
      <4>1. /\ "session" \in zMid /\ "session" \in zAlive /\ "session" \in ZEnd
            /\ zEnd' = zEnd
        BY <2>2, <3>2 DEF ZDrain, zPipe, ZBase, ZMiddle, ZEnd
      <4>2. ASSUME ZMayRead("session") PROVE FALSE
        BY <3>2, <4>1, <4>2, ZBaseIsSafe DEF ZMessagesWhole, ZPartReady
      <4>3. zEnd["session"].inActive BY <4>1 DEF ZAwake
      <4> QED BY <4>1, <4>2, <4>3 DEF ZMayRead, ZStuck
    <3> QED BY <3>1, <3>2
  <2>3. CASE ZNext /\ ~ZDrain
    <3>1. zAt' # "aborted"
      BY <2>3 DEF ZNext, ZSocketStep, ZSocketProcess, ZAttach, ZEngineStep, ZSessionProcess,
                  ZSessionTerminate, ZDetach, ZHandler, ZDetached, ZCheckRead
    <3> QED BY <3>1 DEF ZStuck
  <2> QED BY <2>1, <2>2, <2>3
<1> QED BY <1>1, <1>7, <1>8

(* Whatever a credit claims of an active end follows from its balance. *)
LEMMA ZIInvIsSafe ==
    ASSUME ZIInv
    PROVE  ZSafe
<1>1. ZBase /\ ZCredit BY DEF ZIInv
<1>2. ZNoAssertionFails /\ ZNothingDangles /\ ZMessagesWhole
  BY <1>1, ZBaseIsSafe DEF ZIInv, ZStuck, ZNoAssertionFails
<1>3. ASSUME NEW e \in zAlive, zMade = 2, zEnd[e].state = "active", ZPeer(e) \in zAlive
      PROVE  LET p == zEnd[e]
                 peer == zEnd[ZPeer(e)]
                 left == Cardinality({i \in 1..Len(zQueue[p.out].items) :
                                         zQueue[p.out].items[i] = "last"})
             IN  /\ p.written = left + peer.read
                 /\ ZHwm > 0 =>
                    /\ p.written - p.peersRead <= ZHwm
                    /\ (p.peersRead = peer.read - (peer.read % ZLwm)
                          \/ \E i \in 1..Len(zChan[e]) :
                                /\ zChan[e][i].type = "activate_write"
                                /\ zChan[e][i].read = peer.read - (peer.read % ZLwm))
  <2>1. e \in ZEnd /\ zAlive = ZEnd
    <3>1. zAlive \subseteq ZEnd /\ e \in ZEnd BY <1>1, <1>3 DEF ZBase, ZCore, ZPipeTypeOK
    <3>2. ZEnd = {e, ZPeer(e)} BY <3>1, ZPeers
    <3> QED BY <1>3, <3>1, <3>2
  <2>2. zEnd[e].out # ZNone BY <1>1, <1>3, <2>1, ZWhose
  <2>3. zEnd[e].out = ZOutOf(e) BY <1>1, <1>3, <2>1, <2>2, ZPlaces
  <2>4. ZCreditOf(e) BY <1>1, <1>3, <2>1 DEF ZCredit
  <2> QED BY <2>3, <2>4 DEF ZCreditOf, ZBalance, ZCaughtUp, ZFloor, ZLeft, ZLasts
<1> QED BY <1>2, <1>3 DEF ZSafe, ZCreditExact

(* The inductive invariant of the pipe: the phases of the two ends, the        *)
(* upipe_t and the commands on their way, whole messages, and the credit.      *)
THEOREM ZInvariance == ZSpec => []ZIInv
<1>1. ZInit => ZIInv BY ZIInvInit
<1>2. ZIInv /\ [ZNext]_zVars => ZIInv' BY ZIInvNext
<1> QED BY <1>1, <1>2, PTL DEF ZSpec

(* A message pipe is safe for every high watermark, any number of messages,    *)
(* terminations and hiccups, in every order of the commands of its two threads. *)
THEOREM PipeIsSafe == ZSpec => []ZSafe
<1>1. ZIInv => ZSafe BY ZIInvIsSafe
<1> QED BY <1>1, ZInvariance, PTL

=============================================================================
