--------------------------- MODULE OwnershipProofs ---------------------------
(***************************************************************************)
(* Proof that the shutdown of a socket never leaves a command or a child   *)
(* behind for an object that was deleted, and that its assertions hold,    *)
(* for every tree of listeners, sessions and connecters and every          *)
(* distribution of it over threads.                                        *)
(*                                                                         *)
(* No command is on its way twice, so the mailboxes can be read as one     *)
(* set.  What each object counts is then the size of a set: the numbered   *)
(* commands on their way to it, and the children it has asked to terminate *)
(* and not heard of.  The order within a mailbox matters in one place: a   *)
(* request to be terminated reaches the owner before the acknowledgement   *)
(* of the object that sent it.                                             *)
(***************************************************************************)
EXTENDS Ownership, FiniteSetTheorems, FunctionTheorems, SequenceTheorems, TLAPS

(* The commands of each kind. *)
OwPlug(c) == OwCmd(c, "plug", OwNone)
OwOwn(c) == OwCmd(OwParent[c], "own", c)
OwAttach(s) == OwCmd(s, "attach", OwNone)
OwBind(s) == OwCmd(OwRoot, "bind", s)
OwReq(c) == OwCmd(OwParent[c], "term_req", c)
OwTerm(c) == OwCmd(c, "term", OwNone)
OwAck(c) == OwCmd(OwParent[c], "term_ack", c)

(* What is on its way in mailboxes in which no command is twice. *)
OwBoxOK(box) ==
    /\ box \in [OwThreads -> Seq(OwCommand)]
    /\ \A t \in OwThreads : \A i \in 1..Len(box[t]) : OwThread[box[t][i].to] = t
    /\ \A t \in OwThreads : \A i, j \in 1..Len(box[t]) : box[t][i] = box[t][j] => i = j

OwFlight(box) ==
    {x \in OwCommand : \E i \in 1..Len(box[OwThread[x.to]]) : box[OwThread[x.to]][i] = x}

(* Behind a request of an object that is gone there is its acknowledgement. *)
OwOrdered(objs, box) ==
    \A t \in OwThreads : \A i \in 1..Len(box[t]) :
        box[t][i].type = "term_req" /\ objs[box[t][i].obj].st # "live" =>
            \E j \in 1..Len(box[t]) : j > i /\ box[t][j] = OwAck(box[t][i].obj)

-----------------------------------------------------------------------------
(* The invariant, of the objects, the set of commands and the pipes.        *)

OwNumbered(F, o) == {x \in F : x.to = o /\ x.type \in {"plug", "own", "attach", "bind"}}

(* c was asked to terminate. *)
OwAsked(objs, F, c) == OwTerm(c) \in F \/ objs[c].term \/ objs[c].pending

(* The children whose acknowledgement p waits for. *)
OwAwaited(objs, F, p) ==
    {c \in OwChildren(p) : OwAck(c) \in F \/ (objs[c].st = "live" /\ OwAsked(objs, F, c))}

(* A connecter that will still give its session an engine. *)
OwActive(objs, F, c) ==
    objs[c].st = "live" /\ OwRole[c] = "connecter" /\ (OwPlug(c) \in F \/ objs[c].fd)

OwGType(objs, F, P) ==
    /\ objs \in [OwObject -> OwFields]
    /\ F \subseteq OwCommand
    /\ P \subseteq OwSessions

OwGShape(F) ==
    \A x \in F :
        /\ x.type \in {"plug", "term"} => x.obj = OwNone /\ x.to # OwRoot
        /\ x.type = "attach" => x.obj = OwNone /\ x.to \in OwSessions
        /\ x.type \in {"own", "term_req", "term_ack"} =>
                x.obj \in OwObject /\ OwParent[x.obj] = x.to
        /\ x.type = "term_req" => OwRole[x.obj] \in {"connecter", "accepted"}
        /\ x.type = "bind" => x.to = OwRoot /\ x.obj \in OwSessions

OwGCount(objs, F) ==
    \A o \in OwObject : objs[o].sent = objs[o].done + Cardinality(OwNumbered(F, o))

OwGAcks(objs, F, P) ==
    \A o \in OwObject :
        objs[o].acks = Cardinality(OwAwaited(objs, F, o))
                        + (IF o = OwRoot /\ objs[o].term THEN Cardinality(P) ELSE 0)

OwGUnborn(objs, F, P) ==
    \A c \in OwObject : objs[c].st = "unborn" =>
        /\ c # OwRoot /\ c \notin P
        /\ ~objs[c].term /\ ~objs[c].pending /\ ~objs[c].engine /\ ~objs[c].fd
        /\ objs[c].pipe = "none" /\ objs[c].owned = {}
        /\ \A x \in F : x.to # c /\ x.obj # c
        /\ \A d \in OwChildren(c) : objs[d].st = "unborn"

OwGDead(objs) ==
    \A o \in OwObject : objs[o].st = "deleted" =>
        objs[o].term /\ objs[o].done = objs[o].sent /\ objs[o].acks = 0

OwGOwned(objs, F) ==
    /\ \A p \in OwObject : \A c \in objs[p].owned :
        /\ OwParent[c] = p /\ objs[c].st = "live"
        /\ OwOwn(c) \notin F /\ ~OwAsked(objs, F, c)
    /\ \A c \in OwObject : OwOwn(c) \in F => objs[c].st = "live" /\ ~OwAsked(objs, F, c)
    /\ \A c \in OwObject : c # OwRoot /\ objs[c].st = "live" =>
        OwOwn(c) \in F \/ c \in objs[OwParent[c]].owned \/ OwAsked(objs, F, c)

OwGTerm(objs, F) ==
    /\ ~objs[OwRoot].pending
    /\ \A c \in OwObject :
        /\ objs[c].term => objs[c].owned = {} /\ ~objs[c].pending
        /\ OwTerm(c) \in F => objs[c].st = "live" /\ ~objs[c].term /\ ~objs[c].pending
        /\ OwAck(c) \in F => objs[c].st = "deleted"

OwGPipe(objs, F, P) ==
    /\ \A s \in OwObject :
        /\ objs[s].pipe # "none" => s \in OwSessions /\ ~objs[s].term
        /\ OwBind(s) \in F <=> objs[s].pipe = "sent"
    /\ \A s \in P : objs[s].pipe = "bound" \/ objs[s].term

OwGEngine(objs, F) ==
    \A s \in OwObject :
        /\ objs[s].fd => OwPlug(s) \notin F
        /\ objs[s].engine => OwAttach(s) \notin F
        /\ OwRole[s] = "session" /\ OwPlug(s) \in F =>
                OwAttach(s) \notin F /\ ~objs[s].engine
        /\ \A c \in OwChildren(s) : OwActive(objs, F, c) =>
                /\ OwAttach(s) \notin F /\ ~objs[s].engine /\ OwPlug(s) \notin F
                /\ \A d \in OwChildren(s) : OwActive(objs, F, d) => c = d

OwGReq(objs, F) ==
    \A c \in OwObject : OwReq(c) \in F =>
        /\ OwRole[c] = "connecter" => ~objs[c].fd /\ OwPlug(c) \notin F
        /\ OwRole[c] = "accepted" => ~objs[c].engine /\ OwAttach(c) \notin F

OwGood(objs, F, P) ==
    /\ OwGType(objs, F, P) /\ OwGShape(F) /\ OwGCount(objs, F) /\ OwGAcks(objs, F, P)
    /\ OwGUnborn(objs, F, P) /\ OwGDead(objs) /\ OwGOwned(objs, F)
    /\ OwGTerm(objs, F) /\ OwGPipe(objs, F, P) /\ OwGEngine(objs, F) /\ OwGReq(objs, F)

OwState(objs, box, P) ==
    OwBoxOK(box) /\ OwOrdered(objs, box) /\ OwGood(objs, OwFlight(box), P)

OwIInv ==
    /\ OwState(owObj, owBox, owPipes)
    /\ owClosed \in BOOLEAN /\ owFailed = FALSE
    /\ owClosed = owObj[OwRoot].term
-----------------------------------------------------------------------------
(* The tree. *)

\* There is one root, and who the parent of an object is follows its role.
LEMMA OwTree ==
    /\ OwRoot \in OwObject /\ OwRole[OwRoot] = "socket"
    /\ \A o \in OwObject :
        /\ o # OwRoot <=> OwRole[o] # "socket"
        /\ o # OwRoot => OwParent[o] \in OwObject /\ OwParent[o] # o
        /\ o = OwRoot => OwParent[o] = OwNone
        /\ OwRole[o] \in {"session", "listener"} => OwParent[o] = OwRoot
        /\ OwThread[o] \in OwThreads
        /\ o \in OwSessions <=> OwRole[o] \in {"session", "accepted"}
    /\ OwNone \notin OwObject
<1> DEFINE S == {o \in OwObject : OwRole[o] = "socket"}
<1>1. IsFiniteSet(S) /\ Cardinality(S) = 1 BY OwAssumption, FS_Subset
<1>2. PICK r : S = {r} BY <1>1, FS_Singleton
<1>3. OwRoot = r /\ OwRoot \in OwObject /\ OwRole[OwRoot] = "socket" BY <1>2 DEF OwRoot
<1>4. \A o \in OwObject : o # OwRoot <=> OwRole[o] # "socket" BY <1>2, <1>3
<1> QED BY <1>3, <1>4, OwAssumption DEF OwThreads, OwSessions

-----------------------------------------------------------------------------
(* Mailboxes as a set of commands. *)

\* A command sent that was not on its way is on its way once, behind the others.
LEMMA OwSendBox ==
    ASSUME NEW box, OwBoxOK(box), NEW c \in OwCommand, c \notin OwFlight(box)
    PROVE  /\ OwBoxOK(OwSend(box, c))
           /\ OwFlight(OwSend(box, c)) = OwFlight(box) \cup {c}
<1> DEFINE u == OwThread[c.to]
           b == OwSend(box, c)
<1>1. c.to \in OwObject /\ u \in OwThreads BY OwTree DEF OwCommand
<1>2. /\ b \in [OwThreads -> Seq(OwCommand)]
      /\ b[u] = Append(box[u], c)
      /\ \A t \in OwThreads : t # u => b[t] = box[t]
  BY <1>1 DEF OwSend, OwBoxOK
<1>3. box[u] \in Seq(OwCommand) BY <1>1 DEF OwBoxOK
<1>4. /\ Len(b[u]) = Len(box[u]) + 1
      /\ b[u][Len(box[u]) + 1] = c
      /\ \A i \in 1..Len(box[u]) : b[u][i] = box[u][i]
      /\ Len(box[u]) \in Nat
  BY <1>2, <1>3
<1>5. \A i \in 1..Len(box[u]) : box[u][i] # c BY DEF OwFlight
<1>6. \A i \in 1..Len(b[u]) : i \in 1..Len(box[u]) \/ i = Len(box[u]) + 1 BY <1>4
<1>7. \A t \in OwThreads : \A i \in 1..Len(b[t]) : OwThread[b[t][i].to] = t
  <2>1. \A i \in 1..Len(b[u]) : OwThread[b[u][i].to] = u BY <1>1, <1>4, <1>6 DEF OwBoxOK
  <2> QED BY <2>1, <1>2 DEF OwBoxOK
<1>8. \A t \in OwThreads : \A i, j \in 1..Len(b[t]) : b[t][i] = b[t][j] => i = j
  <2> SUFFICES ASSUME NEW t \in OwThreads, NEW i \in 1..Len(b[t]), NEW j \in 1..Len(b[t]),
                      b[t][i] = b[t][j]
               PROVE  i = j
      OBVIOUS
  <2>1. CASE t # u BY <2>1, <1>2 DEF OwBoxOK
  <2>2. CASE t = u
    <3>1. \A k, l \in 1..Len(box[u]) : box[u][k] = box[u][l] => k = l BY <1>1 DEF OwBoxOK
    <3> QED BY <2>2, <3>1, <1>4, <1>5, <1>6
  <2> QED BY <2>1, <2>2
<1>9. OwFlight(b) = OwFlight(box) \cup {c}
  <2>1. \A x \in OwCommand : x.to \in OwObject /\ OwThread[x.to] \in OwThreads
    BY OwTree DEF OwCommand
  <2>2. \A x \in OwCommand : OwThread[x.to] # u => (x \in OwFlight(b) <=> x \in OwFlight(box))
    BY <2>1, <1>2 DEF OwFlight
  <2>3. \A x \in OwCommand : OwThread[x.to] = u =>
            (x \in OwFlight(b) <=> x \in OwFlight(box) \/ x = c)
    <3> SUFFICES ASSUME NEW x \in OwCommand, OwThread[x.to] = u
                 PROVE  x \in OwFlight(b) <=> x \in OwFlight(box) \/ x = c
        OBVIOUS
    <3>1. x \in OwFlight(b) <=> \E i \in 1..Len(b[u]) : b[u][i] = x BY DEF OwFlight
    <3>2. x \in OwFlight(box) <=> \E i \in 1..Len(box[u]) : box[u][i] = x BY DEF OwFlight
    <3>3. 1..Len(b[u]) = 1..Len(box[u]) \cup {Len(box[u]) + 1} BY <1>4
    <3> QED BY <3>1, <3>2, <3>3, <1>4
  <2> QED BY <2>2, <2>3 DEF OwFlight
<1> QED BY <1>2, <1>7, <1>8, <1>9 DEF OwBoxOK

\* Sending keeps the order, when the request sent is one of a live object.
LEMMA OwSendOrder ==
    ASSUME NEW objs, NEW box, OwBoxOK(box), NEW c \in OwCommand, OwOrdered(objs, box),
           c.type = "term_req" => objs[c.obj].st = "live"
    PROVE  OwOrdered(objs, OwSend(box, c))
<1> DEFINE u == OwThread[c.to]
           b == OwSend(box, c)
<1>1. c.to \in OwObject /\ u \in OwThreads BY OwTree DEF OwCommand
<1>2. /\ b[u] = Append(box[u], c)
      /\ \A t \in OwThreads : t # u => b[t] = box[t]
  BY <1>1 DEF OwSend, OwBoxOK
<1>3. box[u] \in Seq(OwCommand) BY <1>1 DEF OwBoxOK
<1>4. /\ Len(b[u]) = Len(box[u]) + 1
      /\ b[u][Len(box[u]) + 1] = c
      /\ \A i \in 1..Len(box[u]) : b[u][i] = box[u][i] /\ i \in 1..Len(b[u])
      /\ Len(box[u]) \in Nat
  BY <1>2, <1>3
<1>6. \A i \in 1..Len(b[u]) : i \in 1..Len(box[u]) \/ i = Len(box[u]) + 1 BY <1>4
<1> SUFFICES ASSUME NEW t \in OwThreads, NEW i \in 1..Len(b[t]),
                    b[t][i].type = "term_req", objs[b[t][i].obj].st # "live"
             PROVE  \E j \in 1..Len(b[t]) : j > i /\ b[t][j] = OwAck(b[t][i].obj)
    BY DEF OwOrdered
<1>7. CASE t # u
  <2>1. b[t] = box[t] BY <1>7, <1>2
  <2> QED BY <2>1 DEF OwOrdered
<1>8. CASE t = u
  <2>1. i \in 1..Len(box[u]) /\ b[u][i] = box[u][i] BY <1>8, <1>4, <1>6
  <2>2. PICK j \in 1..Len(box[u]) : j > i /\ box[u][j] = OwAck(box[u][i].obj)
    BY <2>1, <1>8 DEF OwOrdered
  <2> QED BY <2>1, <2>2, <1>4, <1>8
<1> QED BY <1>7, <1>8

\* Taking the first command out of a mailbox.
LEMMA OwRestBox ==
    ASSUME NEW objs, NEW box, OwBoxOK(box), OwOrdered(objs, box),
           NEW u \in OwThreads, box[u] # <<>>
    PROVE  LET b == [box EXCEPT ![u] = Tail(@)] IN
           /\ OwBoxOK(b) /\ OwOrdered(objs, b)
           /\ Head(box[u]) \in OwFlight(box)
           /\ OwFlight(b) = OwFlight(box) \ {Head(box[u])}
<1> DEFINE b == [box EXCEPT ![u] = Tail(@)]
           h == Head(box[u])
           n == Len(box[u])
<1>1. box[u] \in Seq(OwCommand) /\ n \in Nat /\ n > 0 BY DEF OwBoxOK
<1>2. /\ b \in [OwThreads -> Seq(OwCommand)]
      /\ b[u] = Tail(box[u])
      /\ \A t \in OwThreads : t # u => b[t] = box[t]
  BY <1>1 DEF OwBoxOK
<1>3. /\ Len(b[u]) = n - 1
      /\ \A i \in 1..(n - 1) : b[u][i] = box[u][i + 1]
      /\ h = box[u][1] /\ h \in OwCommand
  BY <1>1, <1>2
<1>4. \A i, j \in 1..n : box[u][i] = box[u][j] => i = j BY DEF OwBoxOK
<1>5. OwThread[h.to] = u BY <1>1, <1>3 DEF OwBoxOK
<1>6. \A i \in 1..Len(b[u]) : i + 1 \in 1..n /\ i \in 1..(n - 1) BY <1>1, <1>3
<1>7. \A t \in OwThreads : \A i \in 1..Len(b[t]) : OwThread[b[t][i].to] = t
  BY <1>2, <1>3, <1>6 DEF OwBoxOK
<1>8. \A t \in OwThreads : \A i, j \in 1..Len(b[t]) : b[t][i] = b[t][j] => i = j
  <2> SUFFICES ASSUME NEW t \in OwThreads, NEW i \in 1..Len(b[t]), NEW j \in 1..Len(b[t]),
                      b[t][i] = b[t][j]
               PROVE  i = j
      OBVIOUS
  <2>1. CASE t # u BY <2>1, <1>2 DEF OwBoxOK
  <2>2. CASE t = u BY <2>2, <1>3, <1>4, <1>6
  <2> QED BY <2>1, <2>2
<1>9. h \in OwFlight(box) BY <1>1, <1>3, <1>5 DEF OwFlight
<1>10. OwFlight(b) = OwFlight(box) \ {h}
  <2>1. \A x \in OwCommand : x.to \in OwObject /\ OwThread[x.to] \in OwThreads
    BY OwTree DEF OwCommand
  <2>2. \A x \in OwCommand : OwThread[x.to] # u =>
            (x \in OwFlight(b) <=> x \in OwFlight(box) \ {h})
    BY <2>1, <1>2, <1>5 DEF OwFlight
  <2>3. \A x \in OwCommand : OwThread[x.to] = u =>
            (x \in OwFlight(b) <=> x \in OwFlight(box) \ {h})
    <3> SUFFICES ASSUME NEW x \in OwCommand, OwThread[x.to] = u
                 PROVE  x \in OwFlight(b) <=> x \in OwFlight(box) \ {h}
        OBVIOUS
    <3>1. x \in OwFlight(b) <=> \E i \in 1..Len(b[u]) : b[u][i] = x BY DEF OwFlight
    <3>2. x \in OwFlight(box) <=> \E i \in 1..n : box[u][i] = x BY DEF OwFlight
    <3>3. ASSUME NEW i \in 1..Len(b[u]), b[u][i] = x PROVE x \in OwFlight(box) \ {h}
      BY <3>3, <3>2, <1>1, <1>3, <1>4, <1>6
    <3>4. ASSUME NEW i \in 1..n, box[u][i] = x, x # h
          PROVE  \E j \in 1..Len(b[u]) : b[u][j] = x
      <4>1. i # 1 BY <3>4, <1>3
      <4>2. i - 1 \in 1..Len(b[u]) /\ i - 1 \in 1..(n - 1) /\ (i - 1) + 1 = i BY <4>1, <1>1, <1>3
      <4> QED BY <4>2, <3>4, <1>3
    <3> QED BY <3>1, <3>2, <3>3, <3>4
  <2> QED BY <2>2, <2>3 DEF OwFlight
<1>11. OwOrdered(objs, b)
  <2> SUFFICES ASSUME NEW t \in OwThreads, NEW i \in 1..Len(b[t]),
                      b[t][i].type = "term_req", objs[b[t][i].obj].st # "live"
               PROVE  \E j \in 1..Len(b[t]) : j > i /\ b[t][j] = OwAck(b[t][i].obj)
      BY DEF OwOrdered
  <2>1. CASE t # u BY <2>1, <1>2 DEF OwOrdered
  <2>2. CASE t = u
    <3>1. i + 1 \in 1..n /\ b[u][i] = box[u][i + 1] BY <2>2, <1>3, <1>6
    <3>2. PICK j \in 1..n : j > i + 1 /\ box[u][j] = OwAck(box[u][i + 1].obj)
      BY <3>1, <2>2 DEF OwOrdered
    <3>3. j - 1 \in 1..Len(b[u]) /\ j - 1 > i /\ (j - 1) + 1 = j /\ j - 1 \in 1..(n - 1)
      BY <3>2, <1>1, <1>3
    <3>4. b[u][j - 1] = OwAck(b[u][i].obj) BY <3>1, <3>2, <3>3, <1>3
    <3> QED BY <3>3, <3>4, <2>2
  <2> QED BY <2>1, <2>2
<1> QED BY <1>2, <1>7, <1>8, <1>9, <1>10, <1>11 DEF OwBoxOK

\* An object that is deleted has its acknowledgement behind its requests.
LEMMA OwDeleteOrder ==
    ASSUME NEW objs \in [OwObject -> OwFields], NEW box, OwBoxOK(box),
           NEW o \in OwObject, o # OwRoot, OwOrdered(objs, box), OwGShape(OwFlight(box))
    PROVE  OwOrdered([objs EXCEPT ![o].st = "deleted"], OwSend(box, OwAck(o)))
<1> DEFINE c == OwAck(o)
           u == OwThread[c.to]
           b == OwSend(box, c)
           objs1 == [objs EXCEPT ![o].st = "deleted"]
<1>0. c \in OwCommand /\ c.to = OwParent[o] /\ c.type = "term_ack"
  BY OwTree DEF OwCommand, OwAck, OwCmd
<1>1. c.to \in OwObject /\ u \in OwThreads BY <1>0, OwTree DEF OwCommand
<1>2. /\ b[u] = Append(box[u], c)
      /\ \A t \in OwThreads : t # u => b[t] = box[t]
  BY <1>1 DEF OwSend, OwBoxOK
<1>3. box[u] \in Seq(OwCommand) BY <1>1 DEF OwBoxOK
<1>4. /\ Len(b[u]) = Len(box[u]) + 1
      /\ b[u][Len(box[u]) + 1] = c /\ Len(box[u]) + 1 \in 1..Len(b[u])
      /\ \A i \in 1..Len(box[u]) : b[u][i] = box[u][i] /\ i \in 1..Len(b[u])
      /\ Len(box[u]) \in Nat
  BY <1>2, <1>3
<1>6. \A i \in 1..Len(b[u]) : i \in 1..Len(box[u]) \/ i = Len(box[u]) + 1 BY <1>4
<1> SUFFICES ASSUME NEW t \in OwThreads, NEW i \in 1..Len(b[t]),
                    b[t][i].type = "term_req", objs1[b[t][i].obj].st # "live"
             PROVE  \E j \in 1..Len(b[t]) : j > i /\ b[t][j] = OwAck(b[t][i].obj)
    BY DEF OwOrdered
<1>7. i \in 1..Len(box[t]) /\ b[t][i] = box[t][i]
  BY <1>0, <1>2, <1>4, <1>6
<1>8. box[t] \in Seq(OwCommand) /\ OwThread[box[t][i].to] = t BY <1>7 DEF OwBoxOK
<1>9. box[t][i] \in OwCommand BY <1>7, <1>8
<1>10. box[t][i] \in OwFlight(box) BY <1>7, <1>8, <1>9 DEF OwFlight
<1>11. box[t][i].obj \in OwObject /\ OwParent[box[t][i].obj] = box[t][i].to
  BY <1>7, <1>10 DEF OwGShape
<1>12. CASE box[t][i].obj = o
  <2>1. t = u BY <1>0, <1>8, <1>11, <1>12
  <2>2. i < Len(box[u]) + 1 BY <2>1, <1>7, <1>4
  <2> QED BY <2>1, <2>2, <1>4, <1>7, <1>12
<1>13. CASE box[t][i].obj # o
  <2>1. objs[box[t][i].obj].st # "live" BY <1>7, <1>11, <1>13
  <2>2. PICK j \in 1..Len(box[t]) : j > i /\ box[t][j] = OwAck(box[t][i].obj)
    BY <2>1, <1>7 DEF OwOrdered
  <2>3. j \in 1..Len(b[t]) /\ b[t][j] = box[t][j] BY <2>2, <1>2, <1>4
  <2> QED BY <2>2, <2>3, <1>7
<1> QED BY <1>12, <1>13

\* A finite set is listed once each.
LEMMA OwSeqOfSet ==
    ASSUME NEW S, IsFiniteSet(S)
    PROVE  /\ OwSeqOf(S) \in Seq(S) /\ Len(OwSeqOf(S)) = Cardinality(S)
           /\ \A x \in S : \E i \in 1..Cardinality(S) : OwSeqOf(S)[i] = x
           /\ \A i, j \in 1..Cardinality(S) : OwSeqOf(S)[i] = OwSeqOf(S)[j] => i = j
           /\ \A i \in 1..Cardinality(S) : OwSeqOf(S)[i] \in S
<1> DEFINE n == Cardinality(S)
           s == OwSeqOf(S)
<1>1. n \in Nat /\ ExistsBijection(1..n, S) BY FS_CardinalityType
<1>2. PICK f \in [1..n -> S] : \A x \in S : \E i \in 1..n : f[i] = x
  BY <1>1 DEF ExistsBijection, Bijection, Surjection
<1>3. s \in [1..n -> S] /\ \A x \in S : \E i \in DOMAIN s : s[i] = x
  BY <1>2 DEF OwSeqOf
<1>4. s \in Surjection(1..n, S) BY <1>3 DEF Surjection
<1>5. IsFiniteSet(1..n) /\ Cardinality(1..n) = n BY <1>1, FS_Interval
<1>6. s \in Injection(1..n, S) BY <1>4, <1>5, FS_SurjSameCardinalityImpliesInj
<1>7. \A i, j \in 1..n : s[i] = s[j] => i = j BY <1>6 DEF Injection, IsInjective
<1>8. s \in Seq(S) /\ Len(s) = n BY <1>1, <1>3
<1> QED BY <1>3, <1>7, <1>8

\* What a concatenation consists of.
LEMMA OwConcat ==
    ASSUME NEW C, NEW s \in Seq(C), NEW q \in Seq(C)
    PROVE  /\ s \o q \in Seq(C) /\ Len(s \o q) = Len(s) + Len(q)
           /\ \A i \in 1..Len(s) : (s \o q)[i] = s[i]
           /\ \A i \in 1..Len(q) : (s \o q)[Len(s) + i] = q[i]
OBVIOUS

OwContinuable(C, s, T) ==
    /\ s \in Seq(C) /\ T \subseteq C /\ IsFiniteSet(T)
    /\ \A i, j \in 1..Len(s) : s[i] = s[j] => i = j
    /\ \A i \in 1..Len(s) : s[i] \notin T

OwContinues(C, s, T, r) ==
    /\ r \in Seq(C) /\ \A i, j \in 1..Len(r) : r[i] = r[j] => i = j
    /\ \A x : (\E i \in 1..Len(r) : r[i] = x) <=> (\E i \in 1..Len(s) : s[i] = x) \/ x \in T
    /\ \A i \in 1..Len(s) : i \in 1..Len(r) /\ r[i] = s[i]
    /\ \A i \in 1..Len(r) : r[i] \in T \/ i \in 1..Len(s)

\* A sequence without repetitions, continued by the members of a set.
LEMMA OwContinued ==
    ASSUME NEW C, NEW s, NEW T, OwContinuable(C, s, T)
    PROVE  OwContinues(C, s, T, s \o OwSeqOf(T))
<1> USE DEF OwContinuable
<1> DEFINE r == s \o OwSeqOf(T)
<1> DEFINE q == OwSeqOf(T)
           n == Len(s)
           m == Cardinality(T)
<1>1. /\ q \in Seq(T) /\ Len(q) = m
      /\ \A x \in T : \E i \in 1..m : q[i] = x
      /\ \A i, j \in 1..m : q[i] = q[j] => i = j
      /\ \A i \in 1..m : q[i] \in T
  BY OwSeqOfSet
<1>2. m \in Nat /\ n \in Nat BY FS_CardinalityType
<1>0. r = s \o q BY DEF q
<1> HIDE DEF q, m, r
<1>3. q \in Seq(C) BY <1>1
<1>b. /\ s \o q \in Seq(C) /\ Len(s \o q) = Len(s) + Len(q)
      /\ \A i \in 1..Len(s) : (s \o q)[i] = s[i]
      /\ \A i \in 1..Len(q) : (s \o q)[Len(s) + i] = q[i]
  BY <1>3, OwConcat
<1>a. /\ s \o q \in Seq(C) /\ Len(s \o q) = n + m
      /\ \A i \in 1..n : (s \o q)[i] = s[i]
      /\ \A i \in 1..m : (s \o q)[n + i] = q[i]
  BY <1>1, <1>b
<1>4. /\ r \in Seq(C) /\ Len(r) = n + m
      /\ \A i \in 1..n : r[i] = s[i]
      /\ \A i \in 1..m : r[n + i] = q[i]
  BY <1>0, <1>a
<1> HIDE DEF n
<1>5. ASSUME NEW i \in 1..Len(r), i \notin 1..n
      PROVE  i - n \in 1..m /\ r[i] = q[i - n]
  <2>1. i - n \in 1..m /\ n + (i - n) = i BY <1>5, <1>2, <1>4
  <2> QED BY <2>1, <1>4
<1>6. \A i \in 1..n : i \in 1..Len(r) BY <1>2, <1>4
<1>7. \A i \in 1..m : n + i \in 1..Len(r) BY <1>2, <1>4
<1>8. ASSUME NEW i \in 1..Len(r), NEW j \in 1..Len(r), r[i] = r[j] PROVE i = j
  <2>1. CASE i \in 1..n /\ j \in 1..n BY <2>1, <1>4, <1>8 DEF n
  <2>2. CASE i \notin 1..n /\ j \notin 1..n
    <3>1. i - n = j - n BY <2>2, <1>1, <1>5, <1>8
    <3> QED BY <3>1, <1>2
  <2>3. CASE i \in 1..n /\ j \notin 1..n BY <2>3, <1>1, <1>4, <1>5, <1>8 DEF n
  <2>4. CASE i \notin 1..n /\ j \in 1..n BY <2>4, <1>1, <1>4, <1>5, <1>8 DEF n
  <2> QED BY <2>1, <2>2, <2>3, <2>4
<1>9. ASSUME NEW x
      PROVE  (\E i \in 1..Len(r) : r[i] = x) <=> (\E i \in 1..n : s[i] = x) \/ x \in T
  <2>1. ASSUME NEW i \in 1..Len(r), r[i] = x PROVE (\E k \in 1..n : s[k] = x) \/ x \in T
    BY <2>1, <1>1, <1>4, <1>5
  <2>2. ASSUME NEW i \in 1..n, s[i] = x PROVE \E k \in 1..Len(r) : r[k] = x
    BY <2>2, <1>4, <1>6
  <2>3. ASSUME x \in T PROVE \E k \in 1..Len(r) : r[k] = x
    <3>1. PICK i \in 1..m : q[i] = x BY <2>3, <1>1
    <3>2. n + i \in 1..Len(r) /\ r[n + i] = x BY <3>1, <1>4, <1>7
    <3> QED BY <3>2
  <2> QED BY <2>1, <2>2, <2>3
<1>10. \A i \in 1..Len(r) : r[i] \in T \/ i \in 1..n BY <1>1, <1>5
<1>11. \A x : (\E i \in 1..Len(r) : r[i] = x) <=> (\E i \in 1..n : s[i] = x) \/ x \in T BY <1>9
<1>12. \A i, j \in 1..Len(r) : r[i] = r[j] => i = j BY <1>8
<1> QED BY <1>4, <1>6, <1>10, <1>11, <1>12 DEF n, r, OwContinues

\* The commands that ask the members of S to terminate are sent once each.
LEMMA OwSendTermsBox ==
    ASSUME NEW objs, NEW box, OwBoxOK(box), OwOrdered(objs, box), NEW S \in SUBSET OwObject,
           \A c \in S : OwTerm(c) \notin OwFlight(box)
    PROVE  /\ OwBoxOK(OwSendTerms(box, S))
           /\ OwOrdered(objs, OwSendTerms(box, S))
           /\ OwFlight(OwSendTerms(box, S)) = OwFlight(box) \cup {OwTerm(c) : c \in S}
<1> DEFINE b == OwSendTerms(box, S)
           T(t) == {OwCmd(c, "term", OwNone) : c \in {d \in S : OwThread[d] = t}}
<1>1. \A c \in S : OwTerm(c) \in OwCommand /\ OwTerm(c).to = c /\ OwTerm(c).type = "term"
  BY DEF OwTerm, OwCmd, OwCommand
<1>2. ASSUME NEW t \in OwThreads
      PROVE  /\ IsFiniteSet(T(t)) /\ T(t) \subseteq OwCommand
             /\ \A x : x \in T(t) <=> \E c \in S : OwThread[c] = t /\ x = OwTerm(c)
  <2> DEFINE D == {d \in S : OwThread[d] = t}
             f == [d \in D |-> OwTerm(d)]
  <2>1. IsFiniteSet(D) BY OwAssumption, FS_Subset
  <2>2. \A x : x \in T(t) <=> \E c \in S : OwThread[c] = t /\ x = OwTerm(c) BY DEF OwTerm
  <2>3. f \in Surjection(D, T(t)) BY <2>2 DEF Surjection
  <2>4. IsFiniteSet(T(t)) BY <2>1, <2>3, FS_Surjection
  <2> QED BY <2>2, <2>4, <1>1
<1>3. \A t \in OwThreads : b[t] = box[t] \o OwSeqOf(T(t)) BY DEF OwSendTerms
<1>4. b = [t \in OwThreads |-> b[t]] BY DEF OwSendTerms
<1> HIDE DEF T, b
<1>5. ASSUME NEW t \in OwThreads
      PROVE  /\ b[t] \in Seq(OwCommand)
             /\ \A i, j \in 1..Len(b[t]) : b[t][i] = b[t][j] => i = j
             /\ \A x : (\E i \in 1..Len(b[t]) : b[t][i] = x) <=>
                        (\E i \in 1..Len(box[t]) : box[t][i] = x) \/ x \in T(t)
             /\ \A i \in 1..Len(box[t]) : i \in 1..Len(b[t]) /\ b[t][i] = box[t][i]
             /\ \A i \in 1..Len(b[t]) : b[t][i] \in T(t) \/ i \in 1..Len(box[t])
  <2>1. box[t] \in Seq(OwCommand) BY DEF OwBoxOK
  <2>2. \A i, j \in 1..Len(box[t]) : box[t][i] = box[t][j] => i = j BY DEF OwBoxOK
  <2>3. \A i \in 1..Len(box[t]) : box[t][i] \notin T(t)
    <3> SUFFICES ASSUME NEW i \in 1..Len(box[t]), box[t][i] \in T(t) PROVE FALSE
        OBVIOUS
    <3>1. PICK c \in S : OwThread[c] = t /\ box[t][i] = OwTerm(c) BY <1>2
    <3> QED BY <1>1, <3>1 DEF OwFlight
  <2>4. T(t) \in SUBSET OwCommand /\ IsFiniteSet(T(t)) BY <1>2
  <2>5. b[t] = box[t] \o OwSeqOf(T(t)) BY <1>3
  <2>6. OwContinuable(OwCommand, box[t], T(t)) BY <2>1, <2>2, <2>3, <2>4 DEF OwContinuable
  <2>7. OwContinues(OwCommand, box[t], T(t), b[t]) BY <2>5, <2>6, OwContinued
  <2> QED BY <2>7 DEF OwContinues
<1>6. b \in [OwThreads -> Seq(OwCommand)] BY <1>4, <1>5
<1>7. ASSUME NEW t \in OwThreads, NEW i \in 1..Len(b[t]) PROVE OwThread[b[t][i].to] = t
  BY <1>1, <1>2, <1>5 DEF OwBoxOK
<1>8. OwBoxOK(b) BY <1>5, <1>6, <1>7 DEF OwBoxOK
<1>9. OwFlight(b) = OwFlight(box) \cup {OwTerm(c) : c \in S}
  <2>1. ASSUME NEW x \in OwCommand
        PROVE  x \in OwFlight(b) <=> x \in OwFlight(box) \/ \E c \in S : x = OwTerm(c)
    <3>1. OwThread[x.to] \in OwThreads BY OwTree DEF OwCommand
    <3>2. x \in T(OwThread[x.to]) <=> \E c \in S : x = OwTerm(c) BY <1>1, <1>2, <3>1
    <3> QED BY <3>1, <3>2, <1>5 DEF OwFlight
  <2>2. OwFlight(b) \subseteq OwCommand /\ OwFlight(box) \subseteq OwCommand BY DEF OwFlight
  <2> QED BY <2>1, <2>2, <1>1
<1>10. OwOrdered(objs, b)
  <2> SUFFICES ASSUME NEW t \in OwThreads, NEW i \in 1..Len(b[t]),
                      b[t][i].type = "term_req", objs[b[t][i].obj].st # "live"
               PROVE  \E j \in 1..Len(b[t]) : j > i /\ b[t][j] = OwAck(b[t][i].obj)
      BY DEF OwOrdered
  <2>1. i \in 1..Len(box[t]) /\ b[t][i] = box[t][i] BY <1>1, <1>2, <1>5
  <2>2. PICK j \in 1..Len(box[t]) : j > i /\ box[t][j] = OwAck(box[t][i].obj)
    BY <2>1 DEF OwOrdered
  <2>3. j \in 1..Len(b[t]) /\ b[t][j] = box[t][j] BY <2>2, <1>5
  <2> QED BY <2>1, <2>2, <2>3
<1> QED BY <1>8, <1>9, <1>10 DEF b
-----------------------------------------------------------------------------
(* Commands and counters. *)

\* The fields of a command tell its kind, whom it is for and whom it is about.
LEMMA OwKinds ==
    /\ \A c \in OwObject :
        /\ OwPlug(c).to = c /\ OwPlug(c).type = "plug" /\ OwPlug(c).obj = OwNone
        /\ OwAttach(c).to = c /\ OwAttach(c).type = "attach" /\ OwAttach(c).obj = OwNone
        /\ OwTerm(c).to = c /\ OwTerm(c).type = "term" /\ OwTerm(c).obj = OwNone
        /\ OwBind(c).to = OwRoot /\ OwBind(c).type = "bind" /\ OwBind(c).obj = c
        /\ OwOwn(c).to = OwParent[c] /\ OwOwn(c).type = "own" /\ OwOwn(c).obj = c
        /\ OwReq(c).to = OwParent[c] /\ OwReq(c).type = "term_req" /\ OwReq(c).obj = c
        /\ OwAck(c).to = OwParent[c] /\ OwAck(c).type = "term_ack" /\ OwAck(c).obj = c
        /\ OwPlug(c) \in OwCommand /\ OwAttach(c) \in OwCommand
        /\ OwTerm(c) \in OwCommand /\ OwBind(c) \in OwCommand
        /\ c # OwRoot => /\ OwOwn(c) \in OwCommand /\ OwReq(c) \in OwCommand
                         /\ OwAck(c) \in OwCommand
        /\ c = OwRoot => /\ OwOwn(c) \notin OwCommand /\ OwReq(c) \notin OwCommand
                         /\ OwAck(c) \notin OwCommand
<1> USE DEF OwPlug, OwAttach, OwTerm, OwBind, OwOwn, OwReq, OwAck, OwCmd
<1>1. \A c \in OwObject :
        /\ OwPlug(c).to = c /\ OwPlug(c).type = "plug" /\ OwPlug(c).obj = OwNone
        /\ OwAttach(c).to = c /\ OwAttach(c).type = "attach" /\ OwAttach(c).obj = OwNone
        /\ OwTerm(c).to = c /\ OwTerm(c).type = "term" /\ OwTerm(c).obj = OwNone
        /\ OwBind(c).to = OwRoot /\ OwBind(c).type = "bind" /\ OwBind(c).obj = c
        /\ OwOwn(c).to = OwParent[c] /\ OwOwn(c).type = "own" /\ OwOwn(c).obj = c
        /\ OwReq(c).to = OwParent[c] /\ OwReq(c).type = "term_req" /\ OwReq(c).obj = c
        /\ OwAck(c).to = OwParent[c] /\ OwAck(c).type = "term_ack" /\ OwAck(c).obj = c
  OBVIOUS
<1>2. \A c \in OwObject :
        /\ OwPlug(c) \in OwCommand /\ OwAttach(c) \in OwCommand
        /\ OwTerm(c) \in OwCommand /\ OwBind(c) \in OwCommand
        /\ c # OwRoot => /\ OwOwn(c) \in OwCommand /\ OwReq(c) \in OwCommand
                         /\ OwAck(c) \in OwCommand
  BY OwTree DEF OwCommand
<1>3. \A c \in OwObject :
        c = OwRoot => /\ OwOwn(c) \notin OwCommand /\ OwReq(c) \notin OwCommand
                      /\ OwAck(c) \notin OwCommand
  BY OwTree DEF OwCommand
<1> QED BY <1>1, <1>2, <1>3

\* A command on its way is one of these.
LEMMA OwShapes ==
    ASSUME NEW F, F \subseteq OwCommand, OwGShape(F), NEW x \in F
    PROVE  /\ x.type = "plug" => x = OwPlug(x.to)
           /\ x.type = "attach" => x = OwAttach(x.to)
           /\ x.type = "term" => x = OwTerm(x.to)
           /\ x.type = "bind" => x = OwBind(x.obj)
           /\ x.type = "own" => x = OwOwn(x.obj)
           /\ x.type = "term_req" => x = OwReq(x.obj)
           /\ x.type = "term_ack" => x = OwAck(x.obj)
<1>1. x \in OwCommand OBVIOUS
<1>2. x = [to |-> x.to, type |-> x.type, obj |-> x.obj] BY <1>1 DEF OwCommand
<1> QED BY <1>2 DEF OwGShape, OwPlug, OwAttach, OwTerm, OwBind, OwOwn, OwReq, OwAck, OwCmd

\* The counter of numbered commands when one more is on its way.
LEMMA OwCountAdd ==
    ASSUME NEW F, IsFiniteSet(F), NEW c, c \notin F, NEW o
    PROVE  /\ IsFiniteSet(F \cup {c}) /\ Cardinality(OwNumbered(F, o)) \in Nat
           /\ Cardinality(OwNumbered(F \cup {c}, o)) =
                IF c.to = o /\ c.type \in {"plug", "own", "attach", "bind"}
                THEN Cardinality(OwNumbered(F, o)) + 1 ELSE Cardinality(OwNumbered(F, o))
<1> DEFINE N == OwNumbered(F, o)
<1>1. IsFiniteSet(N) /\ Cardinality(N) \in Nat BY FS_Subset, FS_CardinalityType DEF OwNumbered
<1>2. IsFiniteSet(F \cup {c}) BY FS_AddElement
<1>3. CASE c.to = o /\ c.type \in {"plug", "own", "attach", "bind"}
  <2>1. OwNumbered(F \cup {c}, o) = N \cup {c} /\ c \notin N BY <1>3 DEF OwNumbered
  <2> QED BY <1>1, <1>2, <1>3, <2>1, FS_AddElement
<1>4. CASE ~(c.to = o /\ c.type \in {"plug", "own", "attach", "bind"})
  <2>1. OwNumbered(F \cup {c}, o) = N BY <1>4 DEF OwNumbered
  <2> QED BY <1>1, <1>2, <1>4, <2>1
<1> QED BY <1>3, <1>4

\* The counter of numbered commands when one that is on its way arrives.
LEMMA OwCountRemove ==
    ASSUME NEW F, IsFiniteSet(F), NEW c \in F, NEW o
    PROVE  /\ IsFiniteSet(F \ {c}) /\ Cardinality(OwNumbered(F, o)) \in Nat
           /\ Cardinality(OwNumbered(F, o)) =
                IF c.to = o /\ c.type \in {"plug", "own", "attach", "bind"}
                THEN Cardinality(OwNumbered(F \ {c}, o)) + 1
                ELSE Cardinality(OwNumbered(F \ {c}, o))
<1> DEFINE E == F \ {c}
<1>1. IsFiniteSet(E) /\ c \notin E BY FS_RemoveElement
<1>2. E \cup {c} = F OBVIOUS
<1> HIDE DEF E
<1>3. IsFiniteSet(OwNumbered(F, o)) BY FS_Subset DEF OwNumbered
<1>4. Cardinality(OwNumbered(F, o)) \in Nat BY <1>3, FS_CardinalityType
<1>5. Cardinality(OwNumbered(F, o)) =
                IF c.to = o /\ c.type \in {"plug", "own", "attach", "bind"}
                THEN Cardinality(OwNumbered(E, o)) + 1
                ELSE Cardinality(OwNumbered(E, o))
  BY <1>1, <1>2, OwCountAdd
<1> QED BY <1>1, <1>4, <1>5 DEF E

\* The fields of an object, and what assigning one of them leaves.
LEMMA OwRecords ==
    ASSUME NEW r \in OwFields
    PROVE  /\ r.done \in Nat /\ r.sent \in Nat /\ r.acks \in Nat
           /\ r.owned \subseteq OwObject
           /\ \A v \in Nat : /\ [r EXCEPT !.done = v] \in OwFields
                             /\ [r EXCEPT !.sent = v] \in OwFields
                             /\ [r EXCEPT !.acks = v] \in OwFields
           /\ \A v \in BOOLEAN : /\ [r EXCEPT !.term = v] \in OwFields
                                 /\ [r EXCEPT !.engine = v] \in OwFields
                                 /\ [r EXCEPT !.pending = v] \in OwFields
                                 /\ [r EXCEPT !.fd = v] \in OwFields
           /\ \A v \in SUBSET OwObject : [r EXCEPT !.owned = v] \in OwFields
           /\ \A v \in {"none", "sent", "bound"} : [r EXCEPT !.pipe = v] \in OwFields
           /\ \A v \in {"unborn", "live", "deleted"} : [r EXCEPT !.st = v] \in OwFields
BY DEF OwFields

\* There are finitely many commands.
LEMMA OwCommandFinite == \A F \in SUBSET OwCommand : IsFiniteSet(F)
<1> DEFINE T == {"plug", "own", "attach", "bind", "term_req", "term", "term_ack"}
           D == OwObject \X (OwObject \cup {OwNone})
           f == [z \in D \X T |-> [to |-> z[1][1], obj |-> z[1][2], type |-> z[2]]]
<1>1. IsFiniteSet(OwObject) /\ IsFiniteSet(OwObject \cup {OwNone})
  BY OwAssumption, FS_AddElement
<1>2. IsFiniteSet(D) BY <1>1, FS_Product
<1>3. IsFiniteSet(T)
  <2>1. IsFiniteSet({"plug"}) BY FS_Singleton
  <2>2. IsFiniteSet({"plug"} \cup {"own"}) BY <2>1, FS_AddElement
  <2>3. IsFiniteSet({"plug", "own"} \cup {"attach"}) BY <2>2, FS_AddElement
  <2>4. IsFiniteSet({"plug", "own", "attach"} \cup {"bind"}) BY <2>3, FS_AddElement
  <2>5. IsFiniteSet({"plug", "own", "attach", "bind"} \cup {"term_req"}) BY <2>4, FS_AddElement
  <2>6. IsFiniteSet({"plug", "own", "attach", "bind", "term_req"} \cup {"term"})
    BY <2>5, FS_AddElement
  <2>7. IsFiniteSet({"plug", "own", "attach", "bind", "term_req", "term"} \cup {"term_ack"})
    BY <2>6, FS_AddElement
  <2>8. T = {"plug", "own", "attach", "bind", "term_req", "term"} \cup {"term_ack"} OBVIOUS
  <2> QED BY <2>7, <2>8
<1>4. IsFiniteSet(D \X T) BY <1>2, <1>3, FS_Product
<1>5. f \in Surjection(D \X T, OwCommand)
  <2>1. f \in [D \X T -> OwCommand] BY DEF OwCommand
  <2>2. ASSUME NEW x \in OwCommand PROVE \E z \in D \X T : f[z] = x
    <3>1. x = [to |-> x.to, obj |-> x.obj, type |-> x.type] BY DEF OwCommand
    <3>2. <<<<x.to, x.obj>>, x.type>> \in D \X T BY DEF OwCommand
    <3>3. f[<<<<x.to, x.obj>>, x.type>>] = x BY <3>1, <3>2
    <3> QED BY <3>2, <3>3
  <2> QED BY <2>1, <2>2 DEF Surjection
<1>6. IsFiniteSet(OwCommand) BY <1>4, <1>5, FS_Surjection
<1> QED BY <1>6, FS_Subset

\* Sets of children are finite.
LEMMA OwAwaitedFinite ==
    ASSUME NEW objs, NEW F, NEW o
    PROVE  /\ IsFiniteSet(OwAwaited(objs, F, o))
           /\ Cardinality(OwAwaited(objs, F, o)) \in Nat
           /\ Cardinality(OwAwaited(objs, F, o)) = 0 <=> OwAwaited(objs, F, o) = {}
<1>1. OwAwaited(objs, F, o) \in SUBSET OwObject BY DEF OwAwaited, OwChildren
<1>2. IsFiniteSet(OwAwaited(objs, F, o)) BY <1>1, OwAssumption, FS_Subset
<1> QED BY <1>2, FS_CardinalityType, FS_EmptySet

\* The socket has finitely many pipes.
LEMMA OwPipesFinite ==
    ASSUME NEW P \in SUBSET OwSessions
    PROVE  IsFiniteSet(P) /\ Cardinality(P) \in Nat /\ (Cardinality(P) = 0 <=> P = {})
<1>1. P \in SUBSET OwObject BY DEF OwSessions
<1>2. IsFiniteSet(P) BY <1>1, OwAssumption, FS_Subset
<1> QED BY <1>2, FS_CardinalityType, FS_EmptySet

\* What a deleted object has left: nothing on its way to it, no child.
LEMMA OwDeadQuiet ==
    ASSUME NEW objs, NEW F, NEW P, OwGood(objs, F, P), NEW o \in OwObject,
           objs[o].term, objs[o].done = objs[o].sent, objs[o].acks = 0
    PROVE  /\ \A x \in F : x.to = o => x.type \in {"term", "term_req"}
           /\ \A c \in OwChildren(o) : objs[c].st # "live" /\ OwAck(c) \notin F
           /\ o = OwRoot => P = {}
<1> USE DEF OwGood
<1>1. objs \in [OwObject -> OwFields] /\ F \subseteq OwCommand /\ IsFiniteSet(F)
      /\ P \subseteq OwSessions
  BY OwCommandFinite DEF OwGType
<1>2. objs[o].done \in Nat /\ objs[o].sent \in Nat BY <1>1 DEF OwFields
<1>3. IsFiniteSet(OwNumbered(F, o)) BY <1>1, FS_Subset DEF OwNumbered
<1>4. Cardinality(OwNumbered(F, o)) = 0
  <2>1. Cardinality(OwNumbered(F, o)) \in Nat BY <1>3, FS_CardinalityType
  <2>2. objs[o].sent = objs[o].done + Cardinality(OwNumbered(F, o)) BY DEF OwGCount
  <2> QED BY <2>1, <2>2, <1>2
<1>5. OwNumbered(F, o) = {} BY <1>3, <1>4, FS_EmptySet
<1>6. OwAwaited(objs, F, o) = {} /\ (o = OwRoot => P = {})
  <2>1. objs[o].acks = Cardinality(OwAwaited(objs, F, o))
                        + (IF o = OwRoot /\ objs[o].term THEN Cardinality(P) ELSE 0)
    BY DEF OwGAcks
  <2> QED BY <2>1, <1>1, OwAwaitedFinite, OwPipesFinite
<1>7. objs[o].owned = {} BY DEF OwGTerm
<1>8. ASSUME NEW x \in F, x.to = o PROVE x.type \in {"term", "term_req"}
  <2>1. x \in OwCommand BY <1>1
  <2>2. x.type \notin {"plug", "own", "attach", "bind"} BY <1>5, <1>8 DEF OwNumbered
  <2>3. x.type # "term_ack"
    <3> SUFFICES ASSUME x.type = "term_ack" PROVE FALSE OBVIOUS
    <3>1. x = OwAck(x.obj) /\ x.obj \in OwObject /\ OwParent[x.obj] = o
      BY <1>1, <1>8, OwShapes DEF OwGShape
    <3> QED BY <3>1, <1>6 DEF OwAwaited, OwChildren
  <2> QED BY <2>1, <2>2, <2>3 DEF OwCommand
<1>9. ASSUME NEW c \in OwChildren(o) PROVE objs[c].st # "live" /\ OwAck(c) \notin F
  <2>1. c \in OwObject /\ OwParent[c] = o /\ c # OwRoot BY OwTree DEF OwChildren
  <2>2. OwOwn(c) \notin F BY <2>1, <1>5, OwKinds DEF OwNumbered
  <2>3. ~(objs[c].st = "live" /\ OwAsked(objs, F, c)) /\ OwAck(c) \notin F
    BY <1>6 DEF OwAwaited
  <2>4. objs[c].st = "live" =>
            OwOwn(c) \in F \/ c \in objs[OwParent[c]].owned \/ OwAsked(objs, F, c)
    BY <2>1 DEF OwGOwned
  <2> QED BY <2>1, <2>2, <2>3, <2>4, <1>7
<1> QED BY <1>6, <1>8, <1>9

\* The parent of a live object is live.
LEMMA OwParentLive ==
    ASSUME NEW objs, NEW F, NEW P, OwGood(objs, F, P), NEW c \in OwObject,
           objs[c].st = "live", c # OwRoot
    PROVE  objs[OwParent[c]].st = "live"
<1> DEFINE p == OwParent[c]
<1>1. p \in OwObject /\ c \in OwChildren(p) BY OwTree DEF OwChildren
<1>2. objs[p].st \in {"unborn", "live", "deleted"} BY <1>1 DEF OwGood, OwGType, OwFields
<1>3. objs[p].st # "unborn" BY <1>1 DEF OwGood, OwGUnborn
<1>4. objs[p].st # "deleted"
  <2> SUFFICES ASSUME objs[p].st = "deleted" PROVE FALSE OBVIOUS
  <2>1. objs[p].term /\ objs[p].done = objs[p].sent /\ objs[p].acks = 0
    BY <1>1 DEF OwGood, OwGDead
  <2> QED BY <1>1, <2>1, OwDeadQuiet
<1> QED BY <1>2, <1>3, <1>4

\* The socket is live as long as one of its sessions is.
LEMMA OwRootLive ==
    ASSUME NEW objs, NEW F, NEW P, OwGood(objs, F, P), NEW s \in OwSessions,
           objs[s].st = "live"
    PROVE  objs[OwRoot].st = "live"
<1>1. s \in OwObject /\ s # OwRoot /\ OwParent[s] \in OwObject BY OwTree DEF OwSessions
<1>2. objs[OwParent[s]].st = "live" BY <1>1, OwParentLive
<1>3. CASE OwRole[s] = "session" BY <1>1, <1>2, <1>3, OwTree
<1>4. CASE OwRole[s] = "accepted"
  <2>1. OwRole[OwParent[s]] = "listener" BY <1>1, <1>4, OwAssumption
  <2>2. OwParent[s] # OwRoot /\ OwParent[OwParent[s]] = OwRoot BY <1>1, <2>1, OwTree
  <2> QED BY <1>1, <1>2, <2>2, OwParentLive
<1> QED BY <1>3, <1>4 DEF OwSessions
-----------------------------------------------------------------------------
(* What leaves a part of the invariant alone. *)

OwSameOwned(objs, F, objs1, F1) ==
    \A c \in OwObject :
        /\ objs1[c].st = objs[c].st /\ objs1[c].owned = objs[c].owned
        /\ OwOwn(c) \in F1 <=> OwOwn(c) \in F
        /\ OwAsked(objs1, F1, c) <=> OwAsked(objs, F, c)

\* Who owns whom depends on these only.
LEMMA OwOwnedKept ==
    ASSUME NEW objs, NEW F, NEW objs1, NEW F1, objs \in [OwObject -> OwFields],
           OwGOwned(objs, F), OwSameOwned(objs, F, objs1, F1)
    PROVE  OwGOwned(objs1, F1)
<1>1. ASSUME NEW p \in OwObject, NEW c \in objs1[p].owned
      PROVE  /\ OwParent[c] = p /\ objs1[c].st = "live"
             /\ OwOwn(c) \notin F1 /\ ~OwAsked(objs1, F1, c)
  <2>1. c \in objs[p].owned /\ c \in OwObject BY DEF OwSameOwned, OwFields
  <2>2. /\ OwParent[c] = p /\ objs[c].st = "live"
        /\ OwOwn(c) \notin F /\ ~OwAsked(objs, F, c)
    BY <2>1 DEF OwGOwned
  <2> QED BY <2>1, <2>2 DEF OwSameOwned
<1>2. ASSUME NEW c \in OwObject, OwOwn(c) \in F1
      PROVE  objs1[c].st = "live" /\ ~OwAsked(objs1, F1, c)
  <2>1. OwOwn(c) \in F BY <1>2 DEF OwSameOwned
  <2>2. objs[c].st = "live" /\ ~OwAsked(objs, F, c) BY <2>1 DEF OwGOwned
  <2> QED BY <2>2 DEF OwSameOwned
<1>3. ASSUME NEW c \in OwObject, c # OwRoot, objs1[c].st = "live"
      PROVE  OwOwn(c) \in F1 \/ c \in objs1[OwParent[c]].owned \/ OwAsked(objs1, F1, c)
  <2>1. objs[c].st = "live" /\ OwParent[c] \in OwObject BY <1>3, OwTree DEF OwSameOwned
  <2>2. OwOwn(c) \in F \/ c \in objs[OwParent[c]].owned \/ OwAsked(objs, F, c)
    BY <1>3, <2>1 DEF OwGOwned
  <2> QED BY <2>1, <2>2 DEF OwSameOwned
<1> QED BY <1>1, <1>2, <1>3 DEF OwGOwned

OwLessEngine(objs, F, objs1, F1) ==
    \A c \in OwObject :
        /\ OwPlug(c) \in F1 => OwPlug(c) \in F
        /\ OwAttach(c) \in F1 => OwAttach(c) \in F
        /\ objs1[c].engine => objs[c].engine
        /\ objs1[c].fd => OwPlug(c) \notin F1
        /\ OwActive(objs1, F1, c) => OwActive(objs, F, c)

\* A session has no more engines on their way to it than before.
LEMMA OwEngineKept ==
    ASSUME NEW objs, NEW F, NEW objs1, NEW F1,
           OwGEngine(objs, F), OwLessEngine(objs, F, objs1, F1)
    PROVE  OwGEngine(objs1, F1)
<1>1. \A c \in OwObject : OwActive(objs1, F1, c) => OwActive(objs, F, c)
  BY DEF OwLessEngine
<1>2. ASSUME NEW s \in OwObject
      PROVE  /\ objs1[s].fd => OwPlug(s) \notin F1
             /\ objs1[s].engine => OwAttach(s) \notin F1
             /\ OwRole[s] = "session" /\ OwPlug(s) \in F1 =>
                    OwAttach(s) \notin F1 /\ ~objs1[s].engine
  BY DEF OwGEngine, OwLessEngine
<1>3. ASSUME NEW s \in OwObject, NEW c \in OwChildren(s), OwActive(objs1, F1, c)
      PROVE  /\ OwAttach(s) \notin F1 /\ ~objs1[s].engine /\ OwPlug(s) \notin F1
             /\ \A d \in OwChildren(s) : OwActive(objs1, F1, d) => c = d
  <2>1. c \in OwObject /\ OwActive(objs, F, c) BY <1>1, <1>3 DEF OwChildren
  <2>2. /\ OwAttach(s) \notin F /\ ~objs[s].engine /\ OwPlug(s) \notin F
        /\ \A d \in OwChildren(s) : OwActive(objs, F, d) => c = d
    BY <2>1 DEF OwGEngine
  <2> QED BY <2>2, <1>1 DEF OwChildren, OwLessEngine
<1> QED BY <1>2, <1>3 DEF OwGEngine

OwSameAwaited(objs, F, objs1, F1) ==
    \A c \in OwObject : c # OwRoot =>
        ((OwAck(c) \in F1 \/ (objs1[c].st = "live" /\ OwAsked(objs1, F1, c)))
            <=> (OwAck(c) \in F \/ (objs[c].st = "live" /\ OwAsked(objs, F, c))))

\* The same children are awaited.
LEMMA OwAwaitedKept ==
    ASSUME NEW objs, NEW F, NEW objs1, NEW F1, OwSameAwaited(objs, F, objs1, F1)
    PROVE  \A p \in OwObject : OwAwaited(objs1, F1, p) = OwAwaited(objs, F, p)
<1>1. \A p \in OwObject : \A c \in OwChildren(p) : c \in OwObject /\ c # OwRoot
  BY OwTree DEF OwChildren
<1> QED BY <1>1 DEF OwAwaited, OwSameAwaited

OwSameUnborn(objs, F, P, objs1, F1, P1) ==
    /\ \A c \in OwObject :
        /\ objs1[c].st = "unborn" <=> objs[c].st = "unborn"
        /\ objs[c].st = "unborn" => objs1[c] = objs[c] /\ (c \in P1 => c \in P)
    /\ \A x \in F1 : \A c \in OwObject :
            x \in F \/ objs[c].st # "unborn" \/ (x.to # c /\ x.obj # c)

\* Nothing happens to the objects that do not exist yet.
LEMMA OwUnbornKept ==
    ASSUME NEW objs, NEW F, NEW P, NEW objs1, NEW F1, NEW P1,
           OwGUnborn(objs, F, P), OwSameUnborn(objs, F, P, objs1, F1, P1)
    PROVE  OwGUnborn(objs1, F1, P1)
<1> SUFFICES ASSUME NEW c \in OwObject, objs1[c].st = "unborn"
             PROVE  /\ c # OwRoot /\ c \notin P1
                    /\ ~objs1[c].term /\ ~objs1[c].pending /\ ~objs1[c].engine /\ ~objs1[c].fd
                    /\ objs1[c].pipe = "none" /\ objs1[c].owned = {}
                    /\ \A x \in F1 : x.to # c /\ x.obj # c
                    /\ \A d \in OwChildren(c) : objs1[d].st = "unborn"
    BY DEF OwGUnborn
<1>1. objs[c].st = "unborn" /\ objs1[c] = objs[c] BY DEF OwSameUnborn
<1>2. \A x \in F1 : x.to # c /\ x.obj # c BY <1>1 DEF OwGUnborn, OwSameUnborn
<1>3. \A d \in OwChildren(c) : d \in OwObject /\ objs1[d].st = "unborn"
  BY <1>1 DEF OwGUnborn, OwSameUnborn, OwChildren
<1> QED BY <1>1, <1>2, <1>3 DEF OwGUnborn, OwSameUnborn

-----------------------------------------------------------------------------
(* The changes that the handlers are made of. *)

\* check_term_acks deletes an object that has finished and tells its owner.
LEMMA OwDeleteGood ==
    ASSUME NEW objs, NEW F, NEW P, OwGood(objs, F, P), NEW o \in OwObject,
           objs[o].st = "live", OwFinished(objs[o]),
           NEW F1, F1 = IF o = OwRoot THEN F ELSE F \cup {OwAck(o)}
    PROVE  OwGood([objs EXCEPT ![o].st = "deleted"], F1, P)
<1> DEFINE objs1 == [objs EXCEPT ![o].st = "deleted"]
<1> USE DEF OwGood
<1>1. objs \in [OwObject -> OwFields] /\ F \subseteq OwCommand /\ IsFiniteSet(F)
      /\ P \subseteq OwSessions
  BY OwCommandFinite DEF OwGType
<1>2. /\ objs1 \in [OwObject -> OwFields] /\ objs1[o].st = "deleted"
      /\ \A x \in OwObject :
            /\ x # o => objs1[x].st = objs[x].st
            /\ objs1[x].term = objs[x].term /\ objs1[x].sent = objs[x].sent
            /\ objs1[x].done = objs[x].done /\ objs1[x].acks = objs[x].acks
            /\ objs1[x].owned = objs[x].owned /\ objs1[x].engine = objs[x].engine
            /\ objs1[x].pending = objs[x].pending /\ objs1[x].pipe = objs[x].pipe
            /\ objs1[x].fd = objs[x].fd
  BY <1>1 DEF OwFields
<1>3. objs[o].term /\ objs[o].done = objs[o].sent /\ objs[o].acks = 0 BY DEF OwFinished
<1>4. /\ \A x \in F : x.to = o => x.type \in {"term", "term_req"}
      /\ \A c \in OwChildren(o) : objs[c].st # "live" /\ OwAck(c) \notin F
  BY <1>3, OwDeadQuiet
<1>5. o # OwRoot => OwAck(o) \notin F BY DEF OwGTerm
<1>7. \A x \in OwObject : Cardinality(OwNumbered(F1, x)) = Cardinality(OwNumbered(F, x))
  <2>1. CASE o = OwRoot BY <2>1
  <2>2. CASE o # OwRoot
    <3>1. OwAck(o) \notin F /\ OwAck(o).type = "term_ack" BY <2>2, <1>5, OwKinds
    <3> QED BY <2>2, <3>1, <1>1, OwCountAdd
  <2> QED BY <2>1, <2>2
<1>8. /\ F \subseteq F1 /\ \A x \in F1 : x \in F \/ (x = OwAck(o) /\ o # OwRoot)
      /\ \A c \in OwObject :
            /\ OwPlug(c) \in F1 <=> OwPlug(c) \in F
            /\ OwAttach(c) \in F1 <=> OwAttach(c) \in F
            /\ OwTerm(c) \in F1 <=> OwTerm(c) \in F
            /\ OwBind(c) \in F1 <=> OwBind(c) \in F
            /\ OwOwn(c) \in F1 <=> OwOwn(c) \in F
            /\ OwReq(c) \in F1 <=> OwReq(c) \in F
            /\ OwAck(c) \in F1 <=> OwAck(c) \in F \/ (c = o /\ o # OwRoot)
  BY OwKinds
<1>9. \A c \in OwObject : OwAsked(objs1, F1, c) <=> OwAsked(objs, F, c)
  BY <1>2, <1>8 DEF OwAsked
<1> HIDE DEF objs1
<1>10. OwGType(objs1, F1, P) BY <1>1, <1>2, <1>8, OwKinds DEF OwGType
<1>11. OwGShape(F1) BY <1>8, OwKinds, OwTree DEF OwGShape
<1>12. OwGCount(objs1, F1) BY <1>2, <1>7 DEF OwGCount
<1>13. \A p \in OwObject : OwAwaited(objs1, F1, p) = OwAwaited(objs, F, p)
  <2>1. OwAsked(objs, F, o) BY <1>3 DEF OwAsked
  <2>2. OwSameAwaited(objs, F, objs1, F1) BY <2>1, <1>2, <1>8, <1>9 DEF OwSameAwaited
  <2> QED BY <2>2, OwAwaitedKept
<1>14. OwGAcks(objs1, F1, P) BY <1>2, <1>13 DEF OwGAcks
<1>15. OwGUnborn(objs1, F1, P)
  <2> SUFFICES ASSUME NEW c \in OwObject, objs1[c].st = "unborn"
               PROVE  /\ c # OwRoot /\ c \notin P
                      /\ ~objs1[c].term /\ ~objs1[c].pending /\ ~objs1[c].engine /\ ~objs1[c].fd
                      /\ objs1[c].pipe = "none" /\ objs1[c].owned = {}
                      /\ \A x \in F1 : x.to # c /\ x.obj # c
                      /\ \A d \in OwChildren(c) : objs1[d].st = "unborn"
      BY DEF OwGUnborn
  <2>1. c # o /\ objs[c].st = "unborn" BY <1>2
  <2>2. \A d \in OwChildren(c) : d \in OwObject /\ objs[d].st = "unborn" /\ d # o
    BY <2>1 DEF OwGUnborn, OwChildren
  <2>3. o # OwRoot => OwParent[o] # c BY <2>2 DEF OwChildren
  <2> QED BY <2>1, <2>2, <2>3, <1>2, <1>8, OwKinds DEF OwGUnborn
<1>16. OwGDead(objs1) BY <1>2, <1>3 DEF OwGDead
<1>17. OwGOwned(objs1, F1)
  <2>1. \A p \in OwObject : o \notin objs[p].owned BY <1>3 DEF OwGOwned, OwAsked
  <2>2. OwOwn(o) \notin F BY <1>3 DEF OwGOwned, OwAsked
  <2>3. \A p \in OwObject : objs[p].owned \subseteq OwObject BY <1>1 DEF OwFields
  <2>4. ASSUME NEW p \in OwObject, NEW c \in objs1[p].owned
        PROVE  /\ OwParent[c] = p /\ objs1[c].st = "live"
               /\ OwOwn(c) \notin F1 /\ ~OwAsked(objs1, F1, c)
    <3>1. c \in objs[p].owned /\ c \in OwObject /\ c # o BY <2>1, <2>3, <1>2
    <3>2. /\ OwParent[c] = p /\ objs[c].st = "live"
          /\ OwOwn(c) \notin F /\ ~OwAsked(objs, F, c)
      BY <3>1 DEF OwGOwned
    <3> QED BY <3>1, <3>2, <1>2, <1>8, <1>9
  <2>5. ASSUME NEW c \in OwObject, OwOwn(c) \in F1
        PROVE  objs1[c].st = "live" /\ ~OwAsked(objs1, F1, c)
    <3>1. OwOwn(c) \in F /\ c # o BY <2>2, <2>5, <1>8
    <3>2. objs[c].st = "live" /\ ~OwAsked(objs, F, c) BY <3>1 DEF OwGOwned
    <3> QED BY <3>1, <3>2, <1>2, <1>9
  <2>6. ASSUME NEW c \in OwObject, c # OwRoot, objs1[c].st = "live"
        PROVE  OwOwn(c) \in F1 \/ c \in objs1[OwParent[c]].owned \/ OwAsked(objs1, F1, c)
    <3>1. objs[c].st = "live" /\ OwParent[c] \in OwObject BY <2>6, <1>2, OwTree
    <3> QED BY <2>6, <3>1, <1>2, <1>8, <1>9 DEF OwGOwned
  <2> QED BY <2>4, <2>5, <2>6 DEF OwGOwned
<1>18. OwGTerm(objs1, F1) BY <1>2, <1>3, <1>8, OwTree DEF OwGTerm
<1>19. OwGPipe(objs1, F1, P) BY <1>1, <1>2, <1>8, OwTree DEF OwGPipe, OwSessions
<1>20. OwGEngine(objs1, F1)
  <2>1. \A c \in OwObject : OwActive(objs1, F1, c) => OwActive(objs, F, c)
    BY <1>2, <1>8 DEF OwActive
  <2>2. \A c \in OwObject : objs[c].fd => OwPlug(c) \notin F BY DEF OwGEngine
  <2>3. OwLessEngine(objs, F, objs1, F1) BY <2>1, <2>2, <1>2, <1>8 DEF OwLessEngine
  <2> QED BY <2>3, OwEngineKept
<1>21. OwGReq(objs1, F1) BY <1>2, <1>8 DEF OwGReq
<1> QED BY <1>10, <1>11, <1>12, <1>14, <1>15, <1>16, <1>17, <1>18, <1>19, <1>20, <1>21 DEF objs1
\* process_plug: a listener or a connecter registers its descriptor.
LEMMA OwPlugGood ==
    ASSUME NEW objs, NEW F, NEW P, OwGood(objs, F, P),
           NEW o \in OwObject, OwPlug(o) \in F, objs[o].st = "live"
    PROVE  OwGood([objs EXCEPT ![o].done = @ + 1,
                               ![o].fd = OwRole[o] \in {"listener", "connecter"}],
                  F \ {OwPlug(o)}, P)
<1> DEFINE objs1 == [objs EXCEPT ![o].done = @ + 1,
                                 ![o].fd = OwRole[o] \in {"listener", "connecter"}]
           F1 == F \ {OwPlug(o)}
<1> USE DEF OwGood
<1>1. objs \in [OwObject -> OwFields] /\ F \subseteq OwCommand /\ IsFiniteSet(F)
      /\ P \subseteq OwSessions
  BY OwCommandFinite DEF OwGType
<1>0. OwPlug(o) \in F /\ objs[o].st = "live" /\ ~objs[o].fd BY DEF OwGEngine
<1>2. /\ objs1 \in [OwObject -> OwFields]
      /\ \A x \in OwObject : x # o => objs1[x] = objs[x]
      /\ objs1[o].done = objs[o].done + 1
      /\ objs1[o].fd = (OwRole[o] \in {"listener", "connecter"})
      /\ \A x \in OwObject :
            /\ objs1[x].st = objs[x].st /\ objs1[x].term = objs[x].term
            /\ objs1[x].sent = objs[x].sent /\ objs1[x].acks = objs[x].acks
            /\ objs1[x].owned = objs[x].owned /\ objs1[x].engine = objs[x].engine
            /\ objs1[x].pending = objs[x].pending /\ objs1[x].pipe = objs[x].pipe
  <2>1. objs1 \in [OwObject -> OwFields]
    <3> DEFINE b == OwRole[o] \in {"listener", "connecter"}
               r1 == [objs[o] EXCEPT !.done = @ + 1]
               r2 == [r1 EXCEPT !.fd = b]
    <3>1. objs[o] \in OwFields BY <1>0, <1>1
    <3>2. objs[o].done + 1 \in Nat BY <3>1 DEF OwFields
    <3>3. r1 \in OwFields BY <3>1, <3>2, OwRecords
    <3>4. b \in BOOLEAN OBVIOUS
    <3>5. r2 \in OwFields BY <3>3, <3>4, OwRecords
    <3>6. objs1 = [objs EXCEPT ![o] = r2] OBVIOUS
    <3> HIDE DEF b, r1, r2
    <3> QED BY <1>1, <3>5, <3>6
  <2>2. \A x \in OwObject : x # o => objs1[x] = objs[x] BY <1>1
  <2>3. /\ objs1[o].done = objs[o].done + 1
        /\ objs1[o].fd = (OwRole[o] \in {"listener", "connecter"})
    BY <1>0, <1>1, OwTree DEF OwFields
  <2>4. \A x \in OwObject :
            /\ objs1[x].st = objs[x].st /\ objs1[x].term = objs[x].term
            /\ objs1[x].sent = objs[x].sent /\ objs1[x].acks = objs[x].acks
            /\ objs1[x].owned = objs[x].owned /\ objs1[x].engine = objs[x].engine
            /\ objs1[x].pending = objs[x].pending /\ objs1[x].pipe = objs[x].pipe
    BY <1>0, <1>1, OwTree DEF OwFields
  <2> QED BY <2>1, <2>2, <2>3, <2>4
<1>3. /\ F1 \subseteq F /\ \A x \in F : x \in F1 \/ x = OwPlug(o)
      /\ \A c \in OwObject :
            /\ OwPlug(c) \in F1 <=> OwPlug(c) \in F /\ c # o
            /\ OwAttach(c) \in F1 <=> OwAttach(c) \in F
            /\ OwTerm(c) \in F1 <=> OwTerm(c) \in F
            /\ OwBind(c) \in F1 <=> OwBind(c) \in F
            /\ OwOwn(c) \in F1 <=> OwOwn(c) \in F
            /\ OwReq(c) \in F1 <=> OwReq(c) \in F
            /\ OwAck(c) \in F1 <=> OwAck(c) \in F
  BY <1>0, <1>1, OwKinds, OwTree
<1>4. \A x \in OwObject :
            /\ Cardinality(OwNumbered(F1, x)) \in Nat
            /\ Cardinality(OwNumbered(F, x)) =
                IF x = o THEN Cardinality(OwNumbered(F1, x)) + 1
                ELSE Cardinality(OwNumbered(F1, x))
  <2>1. OwPlug(o) \in F /\ OwPlug(o).type \in {"plug", "own", "attach", "bind"} /\ OwPlug(o).to = o
    BY <1>0, OwKinds
  <2>2. IsFiniteSet(F1) BY <1>1, FS_RemoveElement
  <2>3. \A x \in OwObject : Cardinality(OwNumbered(F1, x)) \in Nat
    BY <2>2, FS_Subset, FS_CardinalityType DEF OwNumbered
  <2> QED BY <2>1, <2>3, <1>1, OwCountRemove
<1>5. \A c \in OwObject : OwAsked(objs1, F1, c) <=> OwAsked(objs, F, c)
  BY <1>0, <1>2, <1>3 DEF OwAsked, OwGTerm
<1> HIDE DEF objs1, F1
<1>10. OwGType(objs1, F1, P) BY <1>0, <1>1, <1>2, <1>3, OwKinds, OwTree DEF OwGType
<1>11. OwGShape(F1) BY <1>0, <1>3, OwKinds, OwTree DEF OwGShape
<1>12. OwGCount(objs1, F1)
  <2> SUFFICES ASSUME NEW x \in OwObject
               PROVE  objs1[x].sent = objs1[x].done + Cardinality(OwNumbered(F1, x))
      BY DEF OwGCount
  <2>1. objs[x].sent \in Nat /\ objs[x].done \in Nat /\ Cardinality(OwNumbered(F, x)) \in Nat
    BY <1>1, FS_Subset, FS_CardinalityType DEF OwFields, OwNumbered
  <2>2. objs[x].sent = objs[x].done + Cardinality(OwNumbered(F, x)) BY DEF OwGCount
  <2> QED BY <2>1, <2>2, <1>0, <1>2, <1>4
<1>13. \A p \in OwObject : OwAwaited(objs1, F1, p) = OwAwaited(objs, F, p)
  <2>1. OwSameAwaited(objs, F, objs1, F1) BY <1>0, <1>2, <1>3, <1>5 DEF OwSameAwaited
  <2> QED BY <2>1, OwAwaitedKept
<1>14. OwGAcks(objs1, F1, P) BY <1>0, <1>2, <1>13 DEF OwGAcks
<1>15. OwGUnborn(objs1, F1, P)
  <2>1. OwSameUnborn(objs, F, P, objs1, F1, P)
    BY <1>0, <1>1, <1>2, <1>3, OwKinds, OwTree DEF OwSameUnborn
  <2> QED BY <2>1, OwUnbornKept
<1>16. OwGDead(objs1) BY <1>0, <1>2, OwTree DEF OwGDead
<1>17. OwGOwned(objs1, F1)
  <2>1. OwSameOwned(objs, F, objs1, F1) BY <1>0, <1>2, <1>3, <1>5 DEF OwSameOwned
  <2> QED BY <2>1, <1>1, OwOwnedKept
<1>18. OwGTerm(objs1, F1) BY <1>0, <1>2, <1>3, OwTree DEF OwGTerm
<1>19. OwGPipe(objs1, F1, P) BY <1>0, <1>1, <1>2, <1>3, OwTree DEF OwGPipe, OwSessions
<1>20. OwGEngine(objs1, F1)
  <2>1. \A c \in OwObject : OwActive(objs1, F1, c) => OwActive(objs, F, c)
    BY <1>0, <1>2, <1>3 DEF OwActive
  <2>2. \A c \in OwObject : objs[c].fd => OwPlug(c) \notin F BY DEF OwGEngine
  <2>3. OwLessEngine(objs, F, objs1, F1) BY <2>1, <2>2, <1>0, <1>2, <1>3 DEF OwLessEngine
  <2> QED BY <2>3, OwEngineKept
<1>21. OwGReq(objs1, F1) BY <1>0, <1>2, <1>3 DEF OwGReq
<1> QED BY <1>10, <1>11, <1>12, <1>14, <1>15, <1>16, <1>17, <1>18, <1>19, <1>20, <1>21 DEF objs1, F1

\* process_attach: the session has no engine yet.
LEMMA OwAttachGood ==
    ASSUME NEW objs, NEW F, NEW P, OwGood(objs, F, P),
           NEW s \in OwObject, OwAttach(s) \in F, objs[s].st = "live"
    PROVE  OwGood([objs EXCEPT ![s].done = @ + 1, ![s].engine = TRUE], F \ {OwAttach(s)}, P)
<1> DEFINE objs1 == [objs EXCEPT ![s].done = @ + 1, ![s].engine = TRUE]
           F1 == F \ {OwAttach(s)}
<1> USE DEF OwGood
<1>1. objs \in [OwObject -> OwFields] /\ F \subseteq OwCommand /\ IsFiniteSet(F)
      /\ P \subseteq OwSessions
  BY OwCommandFinite DEF OwGType
<1>0. OwAttach(s) \in F /\ objs[s].st = "live" /\ ~objs[s].engine BY DEF OwGEngine
<1>2. /\ objs1 \in [OwObject -> OwFields]
      /\ \A x \in OwObject : x # s => objs1[x] = objs[x]
      /\ objs1[s].done = objs[s].done + 1
      /\ objs1[s].engine
      /\ \A x \in OwObject :
            /\ objs1[x].st = objs[x].st /\ objs1[x].term = objs[x].term
            /\ objs1[x].sent = objs[x].sent /\ objs1[x].acks = objs[x].acks
            /\ objs1[x].owned = objs[x].owned /\ objs1[x].pending = objs[x].pending
            /\ objs1[x].pipe = objs[x].pipe /\ objs1[x].fd = objs[x].fd
  <2>1. objs1 \in [OwObject -> OwFields]
    <3> DEFINE r1 == [objs[s] EXCEPT !.done = @ + 1]
               r2 == [r1 EXCEPT !.engine = TRUE]
    <3>1. objs[s] \in OwFields BY <1>0, <1>1
    <3>2. objs[s].done + 1 \in Nat BY <3>1 DEF OwFields
    <3>3. r1 \in OwFields BY <3>1, <3>2, OwRecords
    <3>4. r2 \in OwFields BY <3>3, OwRecords
    <3>5. objs1 = [objs EXCEPT ![s] = r2] OBVIOUS
    <3> HIDE DEF r1, r2
    <3> QED BY <1>1, <3>4, <3>5
  <2>2. \A x \in OwObject : x # s => objs1[x] = objs[x] BY <1>1
  <2>3. /\ objs1[s].done = objs[s].done + 1
        /\ objs1[s].engine
    BY <1>0, <1>1, OwTree DEF OwFields
  <2>4. \A x \in OwObject :
            /\ objs1[x].st = objs[x].st /\ objs1[x].term = objs[x].term
            /\ objs1[x].sent = objs[x].sent /\ objs1[x].acks = objs[x].acks
            /\ objs1[x].owned = objs[x].owned /\ objs1[x].pending = objs[x].pending
            /\ objs1[x].pipe = objs[x].pipe /\ objs1[x].fd = objs[x].fd
    BY <1>0, <1>1, OwTree DEF OwFields
  <2> QED BY <2>1, <2>2, <2>3, <2>4
<1>3. /\ F1 \subseteq F /\ \A x \in F : x \in F1 \/ x = OwAttach(s)
      /\ \A c \in OwObject :
            /\ OwPlug(c) \in F1 <=> OwPlug(c) \in F
            /\ OwAttach(c) \in F1 <=> OwAttach(c) \in F /\ c # s
            /\ OwTerm(c) \in F1 <=> OwTerm(c) \in F
            /\ OwBind(c) \in F1 <=> OwBind(c) \in F
            /\ OwOwn(c) \in F1 <=> OwOwn(c) \in F
            /\ OwReq(c) \in F1 <=> OwReq(c) \in F
            /\ OwAck(c) \in F1 <=> OwAck(c) \in F
  BY <1>0, <1>1, OwKinds, OwTree
<1>4. \A x \in OwObject :
            /\ Cardinality(OwNumbered(F1, x)) \in Nat
            /\ Cardinality(OwNumbered(F, x)) =
                IF x = s THEN Cardinality(OwNumbered(F1, x)) + 1
                ELSE Cardinality(OwNumbered(F1, x))
  <2>1. OwAttach(s) \in F /\ OwAttach(s).type \in {"plug", "own", "attach", "bind"}
        /\ OwAttach(s).to = s
    BY <1>0, OwKinds
  <2>2. IsFiniteSet(F1) BY <1>1, FS_RemoveElement
  <2>3. \A x \in OwObject : Cardinality(OwNumbered(F1, x)) \in Nat
    BY <2>2, FS_Subset, FS_CardinalityType DEF OwNumbered
  <2> QED BY <2>1, <2>3, <1>1, OwCountRemove
<1>5. \A c \in OwObject : OwAsked(objs1, F1, c) <=> OwAsked(objs, F, c)
  BY <1>0, <1>2, <1>3 DEF OwAsked, OwGTerm
<1> HIDE DEF objs1, F1
<1>10. OwGType(objs1, F1, P) BY <1>0, <1>1, <1>2, <1>3, OwKinds, OwTree DEF OwGType
<1>11. OwGShape(F1) BY <1>0, <1>3, OwKinds, OwTree DEF OwGShape
<1>12. OwGCount(objs1, F1)
  <2> SUFFICES ASSUME NEW x \in OwObject
               PROVE  objs1[x].sent = objs1[x].done + Cardinality(OwNumbered(F1, x))
      BY DEF OwGCount
  <2>1. objs[x].sent \in Nat /\ objs[x].done \in Nat /\ Cardinality(OwNumbered(F, x)) \in Nat
    BY <1>1, FS_Subset, FS_CardinalityType DEF OwFields, OwNumbered
  <2>2. objs[x].sent = objs[x].done + Cardinality(OwNumbered(F, x)) BY DEF OwGCount
  <2> QED BY <2>1, <2>2, <1>0, <1>2, <1>4
<1>13. \A p \in OwObject : OwAwaited(objs1, F1, p) = OwAwaited(objs, F, p)
  <2>1. OwSameAwaited(objs, F, objs1, F1) BY <1>0, <1>2, <1>3, <1>5 DEF OwSameAwaited
  <2> QED BY <2>1, OwAwaitedKept
<1>14. OwGAcks(objs1, F1, P) BY <1>0, <1>2, <1>13 DEF OwGAcks
<1>15. OwGUnborn(objs1, F1, P)
  <2>1. OwSameUnborn(objs, F, P, objs1, F1, P)
    BY <1>0, <1>1, <1>2, <1>3, OwKinds, OwTree DEF OwSameUnborn
  <2> QED BY <2>1, OwUnbornKept
<1>16. OwGDead(objs1) BY <1>0, <1>2, OwTree DEF OwGDead
<1>17. OwGOwned(objs1, F1)
  <2>1. OwSameOwned(objs, F, objs1, F1) BY <1>0, <1>2, <1>3, <1>5 DEF OwSameOwned
  <2> QED BY <2>1, <1>1, OwOwnedKept
<1>18. OwGTerm(objs1, F1) BY <1>0, <1>2, <1>3, OwTree DEF OwGTerm
<1>19. OwGPipe(objs1, F1, P) BY <1>0, <1>1, <1>2, <1>3, OwTree DEF OwGPipe, OwSessions
<1>20. OwGEngine(objs1, F1)
  <2>1. \A c \in OwObject : OwActive(objs1, F1, c) <=> OwActive(objs, F, c)
    BY <1>2, <1>3 DEF OwActive
  <2>2. ASSUME NEW z \in OwObject
        PROVE  /\ objs1[z].fd => OwPlug(z) \notin F1
               /\ objs1[z].engine => OwAttach(z) \notin F1
               /\ OwRole[z] = "session" /\ OwPlug(z) \in F1 =>
                    OwAttach(z) \notin F1 /\ ~objs1[z].engine
    BY <1>0, <1>2, <1>3 DEF OwGEngine
  <2>3. ASSUME NEW z \in OwObject, NEW c \in OwChildren(z), OwActive(objs1, F1, c)
        PROVE  /\ OwAttach(z) \notin F1 /\ ~objs1[z].engine /\ OwPlug(z) \notin F1
               /\ \A d \in OwChildren(z) : OwActive(objs1, F1, d) => c = d
    <3>1. c \in OwObject /\ OwActive(objs, F, c) BY <2>1, <2>3 DEF OwChildren
    <3>2. /\ OwAttach(z) \notin F /\ ~objs[z].engine /\ OwPlug(z) \notin F
          /\ \A d \in OwChildren(z) : OwActive(objs, F, d) => c = d
      BY <3>1 DEF OwGEngine
    <3> QED BY <3>2, <2>1, <1>0, <1>2, <1>3 DEF OwChildren
  <2> QED BY <2>2, <2>3 DEF OwGEngine
<1>21. OwGReq(objs1, F1) BY <1>0, <1>2, <1>3 DEF OwGReq
<1> QED BY <1>10, <1>11, <1>12, <1>14, <1>15, <1>16, <1>17, <1>18, <1>19, <1>20, <1>21 DEF objs1, F1

\* process_term of a session that has a pipe: it waits for the pipe.
LEMMA OwPendingGood ==
    ASSUME NEW objs, NEW F, NEW P, OwGood(objs, F, P),
           NEW o \in OwObject, OwTerm(o) \in F
    PROVE  OwGood([objs EXCEPT ![o].pending = TRUE], F \ {OwTerm(o)}, P)
<1> DEFINE objs1 == [objs EXCEPT ![o].pending = TRUE]
           F1 == F \ {OwTerm(o)}
<1> USE DEF OwGood
<1>1. objs \in [OwObject -> OwFields] /\ F \subseteq OwCommand /\ IsFiniteSet(F)
      /\ P \subseteq OwSessions
  BY OwCommandFinite DEF OwGType
<1>0. /\ OwTerm(o) \in F /\ objs[o].st = "live" /\ ~objs[o].term /\ ~objs[o].pending
      /\ o # OwRoot
  BY OwKinds DEF OwGTerm, OwGShape
<1>2. /\ objs1 \in [OwObject -> OwFields]
      /\ \A x \in OwObject : x # o => objs1[x] = objs[x]
      /\ objs1[o].pending
      /\ \A x \in OwObject :
            /\ objs1[x].st = objs[x].st /\ objs1[x].term = objs[x].term
            /\ objs1[x].sent = objs[x].sent /\ objs1[x].done = objs[x].done
            /\ objs1[x].acks = objs[x].acks /\ objs1[x].owned = objs[x].owned
            /\ objs1[x].engine = objs[x].engine /\ objs1[x].pipe = objs[x].pipe
            /\ objs1[x].fd = objs[x].fd
  <2>1. objs1 \in [OwObject -> OwFields] BY <1>0, <1>1 DEF OwFields
  <2>2. \A x \in OwObject : x # o => objs1[x] = objs[x] BY <1>1
  <2>3. /\ objs1[o].pending
    BY <1>0, <1>1, OwTree DEF OwFields
  <2>4. \A x \in OwObject :
            /\ objs1[x].st = objs[x].st /\ objs1[x].term = objs[x].term
            /\ objs1[x].sent = objs[x].sent /\ objs1[x].done = objs[x].done
            /\ objs1[x].acks = objs[x].acks /\ objs1[x].owned = objs[x].owned
            /\ objs1[x].engine = objs[x].engine /\ objs1[x].pipe = objs[x].pipe
            /\ objs1[x].fd = objs[x].fd
    BY <1>0, <1>1, OwTree DEF OwFields
  <2> QED BY <2>1, <2>2, <2>3, <2>4
<1>3. /\ F1 \subseteq F /\ \A x \in F : x \in F1 \/ x = OwTerm(o)
      /\ \A c \in OwObject :
            /\ OwPlug(c) \in F1 <=> OwPlug(c) \in F
            /\ OwAttach(c) \in F1 <=> OwAttach(c) \in F
            /\ OwTerm(c) \in F1 <=> OwTerm(c) \in F /\ c # o
            /\ OwBind(c) \in F1 <=> OwBind(c) \in F
            /\ OwOwn(c) \in F1 <=> OwOwn(c) \in F
            /\ OwReq(c) \in F1 <=> OwReq(c) \in F
            /\ OwAck(c) \in F1 <=> OwAck(c) \in F
  BY <1>0, <1>1, OwKinds, OwTree
<1>4. \A x \in OwObject : OwNumbered(F1, x) = OwNumbered(F, x)
  BY <1>0, <1>3, OwKinds DEF OwNumbered
<1>5. \A c \in OwObject : OwAsked(objs1, F1, c) <=> OwAsked(objs, F, c)
  BY <1>0, <1>2, <1>3 DEF OwAsked, OwGTerm
<1> HIDE DEF objs1, F1
<1>10. OwGType(objs1, F1, P) BY <1>0, <1>1, <1>2, <1>3, OwKinds, OwTree DEF OwGType
<1>11. OwGShape(F1) BY <1>0, <1>3, OwKinds, OwTree DEF OwGShape
<1>12. OwGCount(objs1, F1)
  <2> SUFFICES ASSUME NEW x \in OwObject
               PROVE  objs1[x].sent = objs1[x].done + Cardinality(OwNumbered(F1, x))
      BY DEF OwGCount
  <2>1. objs[x].sent \in Nat /\ objs[x].done \in Nat /\ Cardinality(OwNumbered(F, x)) \in Nat
    BY <1>1, FS_Subset, FS_CardinalityType DEF OwFields, OwNumbered
  <2>2. objs[x].sent = objs[x].done + Cardinality(OwNumbered(F, x)) BY DEF OwGCount
  <2> QED BY <2>1, <2>2, <1>0, <1>2, <1>4
<1>13. \A p \in OwObject : OwAwaited(objs1, F1, p) = OwAwaited(objs, F, p)
  <2>1. OwSameAwaited(objs, F, objs1, F1) BY <1>0, <1>2, <1>3, <1>5 DEF OwSameAwaited
  <2> QED BY <2>1, OwAwaitedKept
<1>14. OwGAcks(objs1, F1, P) BY <1>0, <1>2, <1>13 DEF OwGAcks
<1>15. OwGUnborn(objs1, F1, P)
  <2>1. OwSameUnborn(objs, F, P, objs1, F1, P)
    BY <1>0, <1>1, <1>2, <1>3, OwKinds, OwTree DEF OwSameUnborn
  <2> QED BY <2>1, OwUnbornKept
<1>16. OwGDead(objs1) BY <1>0, <1>2, OwTree DEF OwGDead
<1>17. OwGOwned(objs1, F1)
  <2>1. OwSameOwned(objs, F, objs1, F1) BY <1>0, <1>2, <1>3, <1>5 DEF OwSameOwned
  <2> QED BY <2>1, <1>1, OwOwnedKept
<1>18. OwGTerm(objs1, F1) BY <1>0, <1>2, <1>3, OwTree DEF OwGTerm
<1>19. OwGPipe(objs1, F1, P) BY <1>0, <1>1, <1>2, <1>3, OwTree DEF OwGPipe, OwSessions
<1>20. OwGEngine(objs1, F1)
  <2>1. \A c \in OwObject : OwActive(objs1, F1, c) => OwActive(objs, F, c)
    BY <1>0, <1>2, <1>3 DEF OwActive
  <2>2. \A c \in OwObject : objs[c].fd => OwPlug(c) \notin F BY DEF OwGEngine
  <2>3. OwLessEngine(objs, F, objs1, F1) BY <2>1, <2>2, <1>0, <1>2, <1>3 DEF OwLessEngine
  <2> QED BY <2>3, OwEngineKept
<1>21. OwGReq(objs1, F1) BY <1>0, <1>2, <1>3 DEF OwGReq
<1> QED BY <1>10, <1>11, <1>12, <1>14, <1>15, <1>16, <1>17, <1>18, <1>19, <1>20, <1>21 DEF objs1, F1

\* A command that is not numbered and that nobody waits for: term_req.
LEMMA OwReqGood ==
    ASSUME NEW objs, NEW F, NEW P, OwGood(objs, F, P),
           NEW c0 \in OwObject, OwReq(c0) \in F
    PROVE  OwGood(objs, F \ {OwReq(c0)}, P)
<1> DEFINE F1 == F \ {OwReq(c0)}
<1> USE DEF OwGood
<1>1. objs \in [OwObject -> OwFields] /\ F \subseteq OwCommand /\ IsFiniteSet(F)
      /\ P \subseteq OwSessions
  BY OwCommandFinite DEF OwGType
<1>0. OwReq(c0) \in F OBVIOUS
<1>3. /\ F1 \subseteq F /\ \A x \in F : x \in F1 \/ x = OwReq(c0)
      /\ \A c \in OwObject :
            /\ OwPlug(c) \in F1 <=> OwPlug(c) \in F
            /\ OwAttach(c) \in F1 <=> OwAttach(c) \in F
            /\ OwTerm(c) \in F1 <=> OwTerm(c) \in F
            /\ OwBind(c) \in F1 <=> OwBind(c) \in F
            /\ OwOwn(c) \in F1 <=> OwOwn(c) \in F
            /\ OwReq(c) \in F1 <=> OwReq(c) \in F /\ c # c0
            /\ OwAck(c) \in F1 <=> OwAck(c) \in F
  BY <1>0, <1>1, OwKinds, OwTree
<1>4. \A x \in OwObject : OwNumbered(F1, x) = OwNumbered(F, x)
  BY <1>0, <1>3, OwKinds DEF OwNumbered
<1>5. \A c \in OwObject : OwAsked(objs, F1, c) <=> OwAsked(objs, F, c)
  BY <1>0, <1>3 DEF OwAsked, OwGTerm
<1> HIDE DEF F1
<1>10. OwGType(objs, F1, P) BY <1>0, <1>1, <1>3, OwKinds, OwTree DEF OwGType
<1>11. OwGShape(F1) BY <1>0, <1>3, OwKinds, OwTree DEF OwGShape
<1>12. OwGCount(objs, F1)
  <2> SUFFICES ASSUME NEW x \in OwObject
               PROVE  objs[x].sent = objs[x].done + Cardinality(OwNumbered(F1, x))
      BY DEF OwGCount
  <2>1. objs[x].sent \in Nat /\ objs[x].done \in Nat /\ Cardinality(OwNumbered(F, x)) \in Nat
    BY <1>1, FS_Subset, FS_CardinalityType DEF OwFields, OwNumbered
  <2>2. objs[x].sent = objs[x].done + Cardinality(OwNumbered(F, x)) BY DEF OwGCount
  <2> QED BY <2>1, <2>2, <1>0, <1>4
<1>13. \A p \in OwObject : OwAwaited(objs, F1, p) = OwAwaited(objs, F, p)
  <2>1. OwSameAwaited(objs, F, objs, F1) BY <1>0, <1>3, <1>5 DEF OwSameAwaited
  <2> QED BY <2>1, OwAwaitedKept
<1>14. OwGAcks(objs, F1, P) BY <1>0, <1>13 DEF OwGAcks
<1>15. OwGUnborn(objs, F1, P)
  <2>1. OwSameUnborn(objs, F, P, objs, F1, P)
    BY <1>0, <1>1, <1>3, OwKinds, OwTree DEF OwSameUnborn
  <2> QED BY <2>1, OwUnbornKept
<1>16. OwGDead(objs) BY <1>0, OwTree DEF OwGDead
<1>17. OwGOwned(objs, F1)
  <2>1. OwSameOwned(objs, F, objs, F1) BY <1>0, <1>3, <1>5 DEF OwSameOwned
  <2> QED BY <2>1, <1>1, OwOwnedKept
<1>18. OwGTerm(objs, F1) BY <1>0, <1>3, OwTree DEF OwGTerm
<1>19. OwGPipe(objs, F1, P) BY <1>0, <1>1, <1>3, OwTree DEF OwGPipe, OwSessions
<1>20. OwGEngine(objs, F1)
  <2>1. \A c \in OwObject : OwActive(objs, F1, c) => OwActive(objs, F, c)
    BY <1>0, <1>3 DEF OwActive
  <2>2. \A c \in OwObject : objs[c].fd => OwPlug(c) \notin F BY DEF OwGEngine
  <2>3. OwLessEngine(objs, F, objs, F1) BY <2>1, <2>2, <1>0, <1>3 DEF OwLessEngine
  <2> QED BY <2>3, OwEngineKept
<1>21. OwGReq(objs, F1) BY <1>0, <1>3 DEF OwGReq
<1> QED BY <1>10, <1>11, <1>12, <1>14, <1>15, <1>16, <1>17, <1>18, <1>19, <1>20, <1>21 DEF F1

\* A connecter or an accepted session that has done its work asks to be terminated.
LEMMA OwSendReqGood ==
    ASSUME NEW objs, NEW F, NEW P, OwGood(objs, F, P),
           NEW o \in OwObject, objs[o].st = "live", OwRole[o] \in {"connecter", "accepted"},
           OwRole[o] = "connecter" => ~objs[o].fd /\ OwPlug(o) \notin F,
           OwRole[o] = "accepted" => ~objs[o].engine /\ OwAttach(o) \notin F
    PROVE  OwGood(objs, F \cup {OwReq(o)}, P)
<1> DEFINE F1 == F \cup {OwReq(o)}
<1> USE DEF OwGood
<1>1. objs \in [OwObject -> OwFields] /\ F \subseteq OwCommand /\ IsFiniteSet(F)
      /\ P \subseteq OwSessions
  BY OwCommandFinite DEF OwGType
<1>0. /\ objs[o].st = "live" /\ o # OwRoot /\ objs[OwParent[o]].st = "live"
      /\ OwParent[o] \in OwObject /\ OwRole[o] \in {"connecter", "accepted"}
  BY OwTree, OwParentLive
<1>3. /\ F \subseteq F1 /\ \A x \in F1 : x \in F \/ x = OwReq(o)
      /\ \A c \in OwObject :
            /\ OwPlug(c) \in F1 <=> OwPlug(c) \in F
            /\ OwAttach(c) \in F1 <=> OwAttach(c) \in F
            /\ OwTerm(c) \in F1 <=> OwTerm(c) \in F
            /\ OwBind(c) \in F1 <=> OwBind(c) \in F
            /\ OwOwn(c) \in F1 <=> OwOwn(c) \in F
            /\ OwReq(c) \in F1 <=> OwReq(c) \in F \/ c = o
            /\ OwAck(c) \in F1 <=> OwAck(c) \in F
  BY <1>0, <1>1, OwKinds, OwTree
<1>4. \A x \in OwObject : OwNumbered(F1, x) = OwNumbered(F, x)
  BY <1>0, <1>3, OwKinds DEF OwNumbered
<1>5. \A c \in OwObject : OwAsked(objs, F1, c) <=> OwAsked(objs, F, c)
  BY <1>0, <1>3 DEF OwAsked, OwGTerm
<1> HIDE DEF F1
<1>10. OwGType(objs, F1, P) BY <1>0, <1>1, <1>3, OwKinds, OwTree DEF OwGType
<1>11. OwGShape(F1) BY <1>0, <1>3, OwKinds, OwTree DEF OwGShape
<1>12. OwGCount(objs, F1)
  <2> SUFFICES ASSUME NEW x \in OwObject
               PROVE  objs[x].sent = objs[x].done + Cardinality(OwNumbered(F1, x))
      BY DEF OwGCount
  <2>1. objs[x].sent \in Nat /\ objs[x].done \in Nat /\ Cardinality(OwNumbered(F, x)) \in Nat
    BY <1>1, FS_Subset, FS_CardinalityType DEF OwFields, OwNumbered
  <2>2. objs[x].sent = objs[x].done + Cardinality(OwNumbered(F, x)) BY DEF OwGCount
  <2> QED BY <2>1, <2>2, <1>0, <1>4
<1>13. \A p \in OwObject : OwAwaited(objs, F1, p) = OwAwaited(objs, F, p)
  <2>1. OwSameAwaited(objs, F, objs, F1) BY <1>0, <1>3, <1>5 DEF OwSameAwaited
  <2> QED BY <2>1, OwAwaitedKept
<1>14. OwGAcks(objs, F1, P) BY <1>0, <1>13 DEF OwGAcks
<1>15. OwGUnborn(objs, F1, P)
  <2>1. OwSameUnborn(objs, F, P, objs, F1, P)
    BY <1>0, <1>1, <1>3, OwKinds, OwTree DEF OwSameUnborn
  <2> QED BY <2>1, OwUnbornKept
<1>16. OwGDead(objs) BY <1>0, OwTree DEF OwGDead
<1>17. OwGOwned(objs, F1)
  <2>1. OwSameOwned(objs, F, objs, F1) BY <1>0, <1>3, <1>5 DEF OwSameOwned
  <2> QED BY <2>1, <1>1, OwOwnedKept
<1>18. OwGTerm(objs, F1) BY <1>0, <1>3, OwTree DEF OwGTerm
<1>19. OwGPipe(objs, F1, P) BY <1>0, <1>1, <1>3, OwTree DEF OwGPipe, OwSessions
<1>20. OwGEngine(objs, F1)
  <2>1. \A c \in OwObject : OwActive(objs, F1, c) => OwActive(objs, F, c)
    BY <1>0, <1>3 DEF OwActive
  <2>2. \A c \in OwObject : objs[c].fd => OwPlug(c) \notin F BY DEF OwGEngine
  <2>3. OwLessEngine(objs, F, objs, F1) BY <2>1, <2>2, <1>0, <1>3 DEF OwLessEngine
  <2> QED BY <2>3, OwEngineKept
<1>21. OwGReq(objs, F1) BY <1>0, <1>3 DEF OwGReq
<1> QED BY <1>10, <1>11, <1>12, <1>14, <1>15, <1>16, <1>17, <1>18, <1>19, <1>20, <1>21 DEF F1

\* An engine is sent to a session that has none and expects no other.
LEMMA OwSendAttachGood ==
    ASSUME NEW objs, NEW F, NEW P, OwGood(objs, F, P),
           NEW s \in OwSessions, objs[s].st = "live", OwAttach(s) \notin F, ~objs[s].engine,
           OwRole[s] = "session" => OwPlug(s) \notin F,
           OwRole[s] = "accepted" => OwReq(s) \notin F,
           \A c \in OwChildren(s) : ~OwActive(objs, F, c)
    PROVE  OwGood([objs EXCEPT ![s].sent = @ + 1], F \cup {OwAttach(s)}, P)
<1> DEFINE objs1 == [objs EXCEPT ![s].sent = @ + 1]
           F1 == F \cup {OwAttach(s)}
<1> USE DEF OwGood
<1>1. objs \in [OwObject -> OwFields] /\ F \subseteq OwCommand /\ IsFiniteSet(F)
      /\ P \subseteq OwSessions
  BY OwCommandFinite DEF OwGType
<1>0. s \in OwObject /\ s # OwRoot /\ objs[s].st = "live" /\ OwAttach(s) \notin F
  BY OwTree DEF OwSessions
<1>2. /\ objs1 \in [OwObject -> OwFields]
      /\ \A x \in OwObject : x # s => objs1[x] = objs[x]
      /\ objs1[s].sent = objs[s].sent + 1
      /\ \A x \in OwObject :
            /\ objs1[x].st = objs[x].st /\ objs1[x].term = objs[x].term
            /\ objs1[x].done = objs[x].done /\ objs1[x].acks = objs[x].acks
            /\ objs1[x].owned = objs[x].owned /\ objs1[x].engine = objs[x].engine
            /\ objs1[x].pending = objs[x].pending /\ objs1[x].pipe = objs[x].pipe
            /\ objs1[x].fd = objs[x].fd
  <2>1. objs1 \in [OwObject -> OwFields]
    <3> DEFINE r1 == [objs[s] EXCEPT !.sent = @ + 1]
    <3>1. objs[s] \in OwFields BY <1>0, <1>1
    <3>2. objs[s].sent + 1 \in Nat BY <3>1 DEF OwFields
    <3>3. r1 \in OwFields BY <3>1, <3>2, OwRecords
    <3>4. objs1 = [objs EXCEPT ![s] = r1] OBVIOUS
    <3> HIDE DEF r1
    <3> QED BY <1>1, <3>3, <3>4
  <2>2. \A x \in OwObject : x # s => objs1[x] = objs[x] BY <1>1
  <2>3. /\ objs1[s].sent = objs[s].sent + 1
    BY <1>0, <1>1, OwTree DEF OwFields
  <2>4. \A x \in OwObject :
            /\ objs1[x].st = objs[x].st /\ objs1[x].term = objs[x].term
            /\ objs1[x].done = objs[x].done /\ objs1[x].acks = objs[x].acks
            /\ objs1[x].owned = objs[x].owned /\ objs1[x].engine = objs[x].engine
            /\ objs1[x].pending = objs[x].pending /\ objs1[x].pipe = objs[x].pipe
            /\ objs1[x].fd = objs[x].fd
    BY <1>0, <1>1, OwTree DEF OwFields
  <2> QED BY <2>1, <2>2, <2>3, <2>4
<1>3. /\ F \subseteq F1 /\ \A x \in F1 : x \in F \/ x = OwAttach(s)
      /\ \A c \in OwObject :
            /\ OwPlug(c) \in F1 <=> OwPlug(c) \in F
            /\ OwAttach(c) \in F1 <=> OwAttach(c) \in F \/ c = s
            /\ OwTerm(c) \in F1 <=> OwTerm(c) \in F
            /\ OwBind(c) \in F1 <=> OwBind(c) \in F
            /\ OwOwn(c) \in F1 <=> OwOwn(c) \in F
            /\ OwReq(c) \in F1 <=> OwReq(c) \in F
            /\ OwAck(c) \in F1 <=> OwAck(c) \in F
  BY <1>0, <1>1, OwKinds, OwTree
<1>4. \A x \in OwObject : Cardinality(OwNumbered(F1, x)) =
            IF x = s THEN Cardinality(OwNumbered(F, x)) + 1 ELSE Cardinality(OwNumbered(F, x))
  <2>1. OwAttach(s) \notin F /\ OwAttach(s).type \in {"plug", "own", "attach", "bind"}
        /\ OwAttach(s).to = s
    BY <1>0, OwKinds
  <2> QED BY <2>1, <1>1, OwCountAdd
<1>5. \A c \in OwObject : OwAsked(objs1, F1, c) <=> OwAsked(objs, F, c)
  BY <1>0, <1>2, <1>3 DEF OwAsked, OwGTerm
<1> HIDE DEF objs1, F1
<1>10. OwGType(objs1, F1, P) BY <1>0, <1>1, <1>2, <1>3, OwKinds, OwTree DEF OwGType
<1>11. OwGShape(F1) BY <1>0, <1>3, OwKinds, OwTree DEF OwGShape
<1>12. OwGCount(objs1, F1)
  <2> SUFFICES ASSUME NEW x \in OwObject
               PROVE  objs1[x].sent = objs1[x].done + Cardinality(OwNumbered(F1, x))
      BY DEF OwGCount
  <2>1. objs[x].sent \in Nat /\ objs[x].done \in Nat /\ Cardinality(OwNumbered(F, x)) \in Nat
    BY <1>1, FS_Subset, FS_CardinalityType DEF OwFields, OwNumbered
  <2>2. objs[x].sent = objs[x].done + Cardinality(OwNumbered(F, x)) BY DEF OwGCount
  <2> QED BY <2>1, <2>2, <1>0, <1>2, <1>4
<1>13. \A p \in OwObject : OwAwaited(objs1, F1, p) = OwAwaited(objs, F, p)
  <2>1. OwSameAwaited(objs, F, objs1, F1) BY <1>0, <1>2, <1>3, <1>5 DEF OwSameAwaited
  <2> QED BY <2>1, OwAwaitedKept
<1>14. OwGAcks(objs1, F1, P) BY <1>0, <1>2, <1>13 DEF OwGAcks
<1>15. OwGUnborn(objs1, F1, P)
  <2>1. OwSameUnborn(objs, F, P, objs1, F1, P)
    BY <1>0, <1>1, <1>2, <1>3, OwKinds, OwTree DEF OwSameUnborn
  <2> QED BY <2>1, OwUnbornKept
<1>16. OwGDead(objs1) BY <1>0, <1>2, OwTree DEF OwGDead
<1>17. OwGOwned(objs1, F1)
  <2>1. OwSameOwned(objs, F, objs1, F1) BY <1>0, <1>2, <1>3, <1>5 DEF OwSameOwned
  <2> QED BY <2>1, <1>1, OwOwnedKept
<1>18. OwGTerm(objs1, F1) BY <1>0, <1>2, <1>3, OwTree DEF OwGTerm
<1>19. OwGPipe(objs1, F1, P) BY <1>0, <1>1, <1>2, <1>3, OwTree DEF OwGPipe, OwSessions
<1>20. OwGEngine(objs1, F1)
  <2>1. \A c \in OwObject : OwActive(objs1, F1, c) <=> OwActive(objs, F, c)
    BY <1>2, <1>3 DEF OwActive
  <2>2. ASSUME NEW z \in OwObject
        PROVE  /\ objs1[z].fd => OwPlug(z) \notin F1
               /\ objs1[z].engine => OwAttach(z) \notin F1
               /\ OwRole[z] = "session" /\ OwPlug(z) \in F1 =>
                    OwAttach(z) \notin F1 /\ ~objs1[z].engine
    BY <1>0, <1>2, <1>3 DEF OwGEngine
  <2>3. ASSUME NEW z \in OwObject, NEW c \in OwChildren(z), OwActive(objs1, F1, c)
        PROVE  /\ OwAttach(z) \notin F1 /\ ~objs1[z].engine /\ OwPlug(z) \notin F1
               /\ \A d \in OwChildren(z) : OwActive(objs1, F1, d) => c = d
    <3>1. c \in OwObject /\ OwActive(objs, F, c) /\ z # s BY <2>1, <2>3 DEF OwChildren
    <3>2. /\ OwAttach(z) \notin F /\ ~objs[z].engine /\ OwPlug(z) \notin F
          /\ \A d \in OwChildren(z) : OwActive(objs, F, d) => c = d
      BY <3>1 DEF OwGEngine
    <3> QED BY <3>1, <3>2, <2>1, <1>0, <1>2, <1>3 DEF OwChildren
  <2> QED BY <2>2, <2>3 DEF OwGEngine
<1>21. OwGReq(objs1, F1) BY <1>0, <1>2, <1>3 DEF OwGReq
<1> QED BY <1>10, <1>11, <1>12, <1>14, <1>15, <1>16, <1>17, <1>18, <1>19, <1>20, <1>21 DEF objs1, F1

\* A session without a pipe creates one and sends its other end to the socket.
LEMMA OwSendBindGood ==
    ASSUME NEW objs, NEW F, NEW P, OwGood(objs, F, P),
           NEW s \in OwSessions, objs[s].st = "live", objs[s].pipe = "none", ~objs[s].term
    PROVE  OwGood([objs EXCEPT ![s].pipe = "sent", ![OwRoot].sent = @ + 1], F \cup {OwBind(s)}, P)
<1> DEFINE objs1 == [objs EXCEPT ![s].pipe = "sent", ![OwRoot].sent = @ + 1]
           F1 == F \cup {OwBind(s)}
<1> USE DEF OwGood
<1>1. objs \in [OwObject -> OwFields] /\ F \subseteq OwCommand /\ IsFiniteSet(F)
      /\ P \subseteq OwSessions
  BY OwCommandFinite DEF OwGType
<1>0. /\ s \in OwObject /\ s # OwRoot /\ objs[s].st = "live" /\ OwBind(s) \notin F
      /\ OwRoot \in OwObject /\ objs[OwRoot].st = "live" /\ s \notin P /\ s \in OwSessions
      /\ ~objs[s].term
  BY OwTree, OwRootLive DEF OwSessions, OwGPipe
<1>2. /\ objs1 \in [OwObject -> OwFields]
      /\ \A x \in OwObject : x # s /\ x # OwRoot => objs1[x] = objs[x]
      /\ objs1[OwRoot].sent = objs[OwRoot].sent + 1
      /\ \A x \in OwObject : x # OwRoot => objs1[x].sent = objs[x].sent
      /\ objs1[s].pipe = "sent"
      /\ \A x \in OwObject : x # s => objs1[x].pipe = objs[x].pipe
      /\ \A x \in OwObject :
            /\ objs1[x].st = objs[x].st /\ objs1[x].term = objs[x].term
            /\ objs1[x].done = objs[x].done /\ objs1[x].acks = objs[x].acks
            /\ objs1[x].owned = objs[x].owned /\ objs1[x].engine = objs[x].engine
            /\ objs1[x].pending = objs[x].pending /\ objs1[x].fd = objs[x].fd
  <2>1. objs1 \in [OwObject -> OwFields]
    <3> DEFINE q == [objs[s] EXCEPT !.pipe = "sent"]
               r == [objs[OwRoot] EXCEPT !.sent = @ + 1]
    <3>1. objs[s] \in OwFields /\ objs[OwRoot] \in OwFields BY <1>0, <1>1
    <3>2. q \in OwFields BY <3>1, OwRecords
    <3>3. objs[OwRoot].sent + 1 \in Nat BY <3>1 DEF OwFields
    <3>4. r \in OwFields BY <3>1, <3>3, OwRecords
    <3>5. objs1 = [objs EXCEPT ![s] = q, ![OwRoot] = r] BY <1>0
    <3> HIDE DEF q, r
    <3> QED BY <1>1, <3>2, <3>4, <3>5
  <2>2. \A x \in OwObject : x # s /\ x # OwRoot => objs1[x] = objs[x] BY <1>1
  <2>3. /\ objs1[OwRoot].sent = objs[OwRoot].sent + 1
        /\ \A x \in OwObject : x # OwRoot => objs1[x].sent = objs[x].sent
        /\ objs1[s].pipe = "sent"
        /\ \A x \in OwObject : x # s => objs1[x].pipe = objs[x].pipe
    BY <1>0, <1>1, OwTree DEF OwFields
  <2>4. \A x \in OwObject :
            /\ objs1[x].st = objs[x].st /\ objs1[x].term = objs[x].term
            /\ objs1[x].done = objs[x].done /\ objs1[x].acks = objs[x].acks
            /\ objs1[x].owned = objs[x].owned /\ objs1[x].engine = objs[x].engine
            /\ objs1[x].pending = objs[x].pending /\ objs1[x].fd = objs[x].fd
    BY <1>0, <1>1, OwTree DEF OwFields
  <2> QED BY <2>1, <2>2, <2>3, <2>4
<1>3. /\ F \subseteq F1 /\ \A x \in F1 : x \in F \/ x = OwBind(s)
      /\ \A c \in OwObject :
            /\ OwPlug(c) \in F1 <=> OwPlug(c) \in F
            /\ OwAttach(c) \in F1 <=> OwAttach(c) \in F
            /\ OwTerm(c) \in F1 <=> OwTerm(c) \in F
            /\ OwBind(c) \in F1 <=> OwBind(c) \in F \/ c = s
            /\ OwOwn(c) \in F1 <=> OwOwn(c) \in F
            /\ OwReq(c) \in F1 <=> OwReq(c) \in F
            /\ OwAck(c) \in F1 <=> OwAck(c) \in F
  BY <1>0, <1>1, OwKinds, OwTree
<1>4. \A x \in OwObject : Cardinality(OwNumbered(F1, x)) =
            IF x = OwRoot THEN Cardinality(OwNumbered(F, x)) + 1 ELSE Cardinality(OwNumbered(F, x))
  <2>1. OwBind(s) \notin F /\ OwBind(s).type \in {"plug", "own", "attach", "bind"}
        /\ OwBind(s).to = OwRoot
    BY <1>0, OwKinds
  <2> QED BY <2>1, <1>1, OwCountAdd
<1>5. \A c \in OwObject : OwAsked(objs1, F1, c) <=> OwAsked(objs, F, c)
  BY <1>0, <1>2, <1>3 DEF OwAsked, OwGTerm
<1> HIDE DEF objs1, F1
<1>10. OwGType(objs1, F1, P) BY <1>0, <1>1, <1>2, <1>3, OwKinds, OwTree DEF OwGType
<1>11. OwGShape(F1) BY <1>0, <1>3, OwKinds, OwTree DEF OwGShape
<1>12. OwGCount(objs1, F1)
  <2> SUFFICES ASSUME NEW x \in OwObject
               PROVE  objs1[x].sent = objs1[x].done + Cardinality(OwNumbered(F1, x))
      BY DEF OwGCount
  <2>1. objs[x].sent \in Nat /\ objs[x].done \in Nat /\ Cardinality(OwNumbered(F, x)) \in Nat
    BY <1>1, FS_Subset, FS_CardinalityType DEF OwFields, OwNumbered
  <2>2. objs[x].sent = objs[x].done + Cardinality(OwNumbered(F, x)) BY DEF OwGCount
  <2> QED BY <2>1, <2>2, <1>0, <1>2, <1>4
<1>13. \A p \in OwObject : OwAwaited(objs1, F1, p) = OwAwaited(objs, F, p)
  <2>1. OwSameAwaited(objs, F, objs1, F1) BY <1>0, <1>2, <1>3, <1>5 DEF OwSameAwaited
  <2> QED BY <2>1, OwAwaitedKept
<1>14. OwGAcks(objs1, F1, P) BY <1>0, <1>2, <1>13 DEF OwGAcks
<1>15. OwGUnborn(objs1, F1, P)
  <2>1. OwSameUnborn(objs, F, P, objs1, F1, P)
    BY <1>0, <1>1, <1>2, <1>3, OwKinds, OwTree DEF OwSameUnborn
  <2> QED BY <2>1, OwUnbornKept
<1>16. OwGDead(objs1) BY <1>0, <1>2, OwTree DEF OwGDead
<1>17. OwGOwned(objs1, F1)
  <2>1. OwSameOwned(objs, F, objs1, F1) BY <1>0, <1>2, <1>3, <1>5 DEF OwSameOwned
  <2> QED BY <2>1, <1>1, OwOwnedKept
<1>18. OwGTerm(objs1, F1) BY <1>0, <1>2, <1>3, OwTree DEF OwGTerm
<1>19. OwGPipe(objs1, F1, P) BY <1>0, <1>1, <1>2, <1>3, OwTree DEF OwGPipe, OwSessions
<1>20. OwGEngine(objs1, F1)
  <2>1. \A c \in OwObject : OwActive(objs1, F1, c) => OwActive(objs, F, c)
    BY <1>0, <1>2, <1>3 DEF OwActive
  <2>2. \A c \in OwObject : objs[c].fd => OwPlug(c) \notin F BY DEF OwGEngine
  <2>3. OwLessEngine(objs, F, objs1, F1) BY <2>1, <2>2, <1>0, <1>2, <1>3 DEF OwLessEngine
  <2> QED BY <2>3, OwEngineKept
<1>21. OwGReq(objs1, F1) BY <1>0, <1>2, <1>3 DEF OwGReq
<1> QED BY <1>10, <1>11, <1>12, <1>14, <1>15, <1>16, <1>17, <1>18, <1>19, <1>20, <1>21 DEF objs1, F1

\* The socket attaches the pipe of a session, and terminates it when it is closing.
LEMMA OwBindGood ==
    ASSUME NEW objs, NEW F, NEW P, OwGood(objs, F, P),
           NEW s \in OwObject, OwBind(s) \in F, objs[OwRoot].st = "live"
    PROVE  OwGood([objs EXCEPT ![OwRoot].done = @ + 1, ![s].pipe = "bound",
                                ![OwRoot].acks = IF objs[OwRoot].term THEN @ + 1 ELSE @],
                  F \ {OwBind(s)}, P \cup {s})
<1> DEFINE objs1 == [objs EXCEPT ![OwRoot].done = @ + 1, ![s].pipe = "bound",
                                ![OwRoot].acks = IF objs[OwRoot].term THEN @ + 1 ELSE @]
           F1 == F \ {OwBind(s)}
           P1 == P \cup {s}
<1> USE DEF OwGood
<1>1. objs \in [OwObject -> OwFields] /\ F \subseteq OwCommand /\ IsFiniteSet(F)
      /\ P \subseteq OwSessions
  BY OwCommandFinite DEF OwGType
<1>0. /\ OwBind(s) \in F /\ objs[s].pipe = "sent" /\ ~objs[s].term /\ s \in OwSessions
      /\ s \notin P /\ s # OwRoot /\ OwRoot \in OwObject /\ objs[s].st # "unborn"
      /\ objs[OwRoot].st = "live"
  <2>1. objs[s].pipe = "sent" /\ ~objs[s].term /\ s \in OwSessions BY DEF OwGPipe
  <2> QED BY <2>1, OwTree DEF OwGPipe, OwGUnborn
<1>2. /\ objs1 \in [OwObject -> OwFields]
      /\ \A x \in OwObject : x # s /\ x # OwRoot => objs1[x] = objs[x]
      /\ objs1[OwRoot].done = objs[OwRoot].done + 1
      /\ \A x \in OwObject : x # OwRoot => objs1[x].done = objs[x].done
      /\ objs[OwRoot].term => objs1[OwRoot].acks = objs[OwRoot].acks + 1
      /\ ~objs[OwRoot].term => objs1[OwRoot].acks = objs[OwRoot].acks
      /\ \A x \in OwObject : x # OwRoot => objs1[x].acks = objs[x].acks
      /\ objs1[s].pipe = "bound"
      /\ \A x \in OwObject : x # s => objs1[x].pipe = objs[x].pipe
      /\ \A x \in OwObject :
            /\ objs1[x].st = objs[x].st /\ objs1[x].term = objs[x].term
            /\ objs1[x].sent = objs[x].sent /\ objs1[x].owned = objs[x].owned
            /\ objs1[x].engine = objs[x].engine /\ objs1[x].pending = objs[x].pending
            /\ objs1[x].fd = objs[x].fd
  <2>1. objs1 \in [OwObject -> OwFields]
    <3> DEFINE a == IF objs[OwRoot].term THEN objs[OwRoot].acks + 1 ELSE objs[OwRoot].acks
               q == [objs[s] EXCEPT !.pipe = "bound"]
               d == [objs[OwRoot] EXCEPT !.done = @ + 1]
               r == [d EXCEPT !.acks = a]
    <3>1. objs[s] \in OwFields /\ objs[OwRoot] \in OwFields BY <1>0, <1>1
    <3>2. q \in OwFields BY <3>1, OwRecords
    <3>3. objs[OwRoot].done + 1 \in Nat /\ a \in Nat BY <3>1 DEF OwFields
    <3>4. d \in OwFields BY <3>1, <3>3, OwRecords
    <3>5. r \in OwFields BY <3>3, <3>4, OwRecords
    <3>6. objs1 = [objs EXCEPT ![s] = q, ![OwRoot] = r] BY <1>0, <3>1 DEF OwFields
    <3> HIDE DEF q, r
    <3> QED BY <1>1, <3>2, <3>5, <3>6
  <2>2. \A x \in OwObject : x # s /\ x # OwRoot => objs1[x] = objs[x] BY <1>1
  <2>3. /\ objs1[OwRoot].done = objs[OwRoot].done + 1
        /\ \A x \in OwObject : x # OwRoot => objs1[x].done = objs[x].done
        /\ objs[OwRoot].term => objs1[OwRoot].acks = objs[OwRoot].acks + 1
        /\ ~objs[OwRoot].term => objs1[OwRoot].acks = objs[OwRoot].acks
        /\ \A x \in OwObject : x # OwRoot => objs1[x].acks = objs[x].acks
        /\ objs1[s].pipe = "bound"
        /\ \A x \in OwObject : x # s => objs1[x].pipe = objs[x].pipe
    BY <1>0, <1>1, OwTree DEF OwFields
  <2>4. \A x \in OwObject :
            /\ objs1[x].st = objs[x].st /\ objs1[x].term = objs[x].term
            /\ objs1[x].sent = objs[x].sent /\ objs1[x].owned = objs[x].owned
            /\ objs1[x].engine = objs[x].engine /\ objs1[x].pending = objs[x].pending
            /\ objs1[x].fd = objs[x].fd
    BY <1>0, <1>1, OwTree DEF OwFields
  <2> QED BY <2>1, <2>2, <2>3, <2>4
<1>3. /\ F1 \subseteq F /\ \A x \in F : x \in F1 \/ x = OwBind(s)
      /\ \A c \in OwObject :
            /\ OwPlug(c) \in F1 <=> OwPlug(c) \in F
            /\ OwAttach(c) \in F1 <=> OwAttach(c) \in F
            /\ OwTerm(c) \in F1 <=> OwTerm(c) \in F
            /\ OwBind(c) \in F1 <=> OwBind(c) \in F /\ c # s
            /\ OwOwn(c) \in F1 <=> OwOwn(c) \in F
            /\ OwReq(c) \in F1 <=> OwReq(c) \in F
            /\ OwAck(c) \in F1 <=> OwAck(c) \in F
  BY <1>0, <1>1, OwKinds, OwTree
<1>4. \A x \in OwObject :
            /\ Cardinality(OwNumbered(F1, x)) \in Nat
            /\ Cardinality(OwNumbered(F, x)) =
                IF x = OwRoot THEN Cardinality(OwNumbered(F1, x)) + 1
                ELSE Cardinality(OwNumbered(F1, x))
  <2>1. OwBind(s) \in F /\ OwBind(s).type \in {"plug", "own", "attach", "bind"}
        /\ OwBind(s).to = OwRoot
    BY <1>0, OwKinds
  <2>2. IsFiniteSet(F1) BY <1>1, FS_RemoveElement
  <2>3. \A x \in OwObject : Cardinality(OwNumbered(F1, x)) \in Nat
    BY <2>2, FS_Subset, FS_CardinalityType DEF OwNumbered
  <2> QED BY <2>1, <2>3, <1>1, OwCountRemove
<1>5. \A c \in OwObject : OwAsked(objs1, F1, c) <=> OwAsked(objs, F, c)
  BY <1>0, <1>2, <1>3 DEF OwAsked, OwGTerm
<1> HIDE DEF objs1, F1
<1>10. OwGType(objs1, F1, P1) BY <1>0, <1>1, <1>2, <1>3, OwKinds, OwTree DEF OwGType
<1>11. OwGShape(F1) BY <1>0, <1>3, OwKinds, OwTree DEF OwGShape
<1>12. OwGCount(objs1, F1)
  <2> SUFFICES ASSUME NEW x \in OwObject
               PROVE  objs1[x].sent = objs1[x].done + Cardinality(OwNumbered(F1, x))
      BY DEF OwGCount
  <2>1. objs[x].sent \in Nat /\ objs[x].done \in Nat /\ Cardinality(OwNumbered(F, x)) \in Nat
    BY <1>1, FS_Subset, FS_CardinalityType DEF OwFields, OwNumbered
  <2>2. objs[x].sent = objs[x].done + Cardinality(OwNumbered(F, x)) BY DEF OwGCount
  <2> QED BY <2>1, <2>2, <1>0, <1>2, <1>4
<1>13. \A p \in OwObject : OwAwaited(objs1, F1, p) = OwAwaited(objs, F, p)
  <2>1. OwSameAwaited(objs, F, objs1, F1) BY <1>0, <1>2, <1>3, <1>5 DEF OwSameAwaited
  <2> QED BY <2>1, OwAwaitedKept
<1>14. OwGAcks(objs1, F1, P1)
  <2>1. IsFiniteSet(P) /\ Cardinality(P) \in Nat BY <1>1, OwPipesFinite
  <2>2. Cardinality(P1) = Cardinality(P) + 1 BY <2>1, <1>0, FS_AddElement
  <2>3. Cardinality(OwAwaited(objs, F, OwRoot)) \in Nat BY OwAwaitedFinite
  <2>4. objs[OwRoot].acks = Cardinality(OwAwaited(objs, F, OwRoot))
                        + (IF objs[OwRoot].term THEN Cardinality(P) ELSE 0)
    BY <1>0 DEF OwGAcks
  <2>5. objs1[OwRoot].acks = Cardinality(OwAwaited(objs1, F1, OwRoot))
                        + (IF objs1[OwRoot].term THEN Cardinality(P1) ELSE 0)
    BY <2>1, <2>2, <2>3, <2>4, <1>0, <1>2, <1>13
  <2> QED BY <2>5, <1>2, <1>13 DEF OwGAcks
<1>15. OwGUnborn(objs1, F1, P1)
  <2>1. OwSameUnborn(objs, F, P, objs1, F1, P1)
    BY <1>0, <1>1, <1>2, <1>3, OwKinds, OwTree DEF OwSameUnborn
  <2> QED BY <2>1, OwUnbornKept
<1>16. OwGDead(objs1) BY <1>0, <1>2, OwTree DEF OwGDead
<1>17. OwGOwned(objs1, F1)
  <2>1. OwSameOwned(objs, F, objs1, F1) BY <1>0, <1>2, <1>3, <1>5 DEF OwSameOwned
  <2> QED BY <2>1, <1>1, OwOwnedKept
<1>18. OwGTerm(objs1, F1) BY <1>0, <1>2, <1>3, OwTree DEF OwGTerm
<1>19. OwGPipe(objs1, F1, P1) BY <1>0, <1>1, <1>2, <1>3, OwTree DEF OwGPipe, OwSessions
<1>20. OwGEngine(objs1, F1)
  <2>1. \A c \in OwObject : OwActive(objs1, F1, c) => OwActive(objs, F, c)
    BY <1>0, <1>2, <1>3 DEF OwActive
  <2>2. \A c \in OwObject : objs[c].fd => OwPlug(c) \notin F BY DEF OwGEngine
  <2>3. OwLessEngine(objs, F, objs1, F1) BY <2>1, <2>2, <1>0, <1>2, <1>3 DEF OwLessEngine
  <2> QED BY <2>3, OwEngineKept
<1>21. OwGReq(objs1, F1) BY <1>0, <1>2, <1>3 DEF OwGReq
<1> QED BY <1>10, <1>11, <1>12, <1>14, <1>15, <1>16, <1>17, <1>18, <1>19, <1>20, <1>21 DEF objs1, F1

\* The socket hears that a pipe is gone.
LEMMA OwPipeGoneGood ==
    ASSUME NEW objs, NEW F, NEW P, OwGood(objs, F, P),
           NEW s \in P
    PROVE  OwGood([objs EXCEPT ![OwRoot].acks = IF objs[OwRoot].term THEN @ - 1 ELSE @], F, P \ {s})
<1> DEFINE objs1 == [objs EXCEPT ![OwRoot].acks = IF objs[OwRoot].term THEN @ - 1 ELSE @]
           P1 == P \ {s}
<1> USE DEF OwGood
<1>1. objs \in [OwObject -> OwFields] /\ F \subseteq OwCommand /\ IsFiniteSet(F)
      /\ P \subseteq OwSessions
  BY OwCommandFinite DEF OwGType
<1>0. /\ OwRoot \in OwObject /\ objs[OwRoot].st # "deleted" /\ objs[OwRoot].st # "unborn"
      /\ objs[OwRoot].term => objs[OwRoot].acks >= 1
      /\ IsFiniteSet(P) /\ Cardinality(P) \in Nat /\ Cardinality(P1) = Cardinality(P) - 1
      /\ Cardinality(P) >= 1
  <2>1. IsFiniteSet(P) /\ Cardinality(P) \in Nat /\ Cardinality(P) # 0 BY <1>1, OwPipesFinite
  <2>2. Cardinality(P1) = Cardinality(P) - 1 BY <2>1, FS_RemoveElement
  <2>3. Cardinality(OwAwaited(objs, F, OwRoot)) \in Nat BY OwAwaitedFinite
  <2>4. objs[OwRoot].term => objs[OwRoot].acks >= 1
    <3>1. objs[OwRoot].term =>
            objs[OwRoot].acks = Cardinality(OwAwaited(objs, F, OwRoot)) + Cardinality(P)
      BY OwTree DEF OwGAcks
    <3> QED BY <3>1, <2>1, <2>3
  <2>5. objs[OwRoot].st # "deleted" BY <2>4, OwTree DEF OwGDead
  <2> QED BY <2>1, <2>2, <2>4, <2>5, OwTree DEF OwGUnborn
<1>2. /\ objs1 \in [OwObject -> OwFields]
      /\ \A x \in OwObject : x # OwRoot => objs1[x] = objs[x]
      /\ objs[OwRoot].term => objs1[OwRoot].acks = objs[OwRoot].acks - 1
      /\ ~objs[OwRoot].term => objs1[OwRoot].acks = objs[OwRoot].acks
      /\ \A x \in OwObject : x # OwRoot => objs1[x].acks = objs[x].acks
      /\ \A x \in OwObject :
            /\ objs1[x].st = objs[x].st /\ objs1[x].term = objs[x].term
            /\ objs1[x].sent = objs[x].sent /\ objs1[x].done = objs[x].done
            /\ objs1[x].owned = objs[x].owned /\ objs1[x].engine = objs[x].engine
            /\ objs1[x].pending = objs[x].pending /\ objs1[x].pipe = objs[x].pipe
            /\ objs1[x].fd = objs[x].fd
  <2>1. objs1 \in [OwObject -> OwFields]
    <3> DEFINE a == IF objs[OwRoot].term THEN objs[OwRoot].acks - 1 ELSE objs[OwRoot].acks
               r == [objs[OwRoot] EXCEPT !.acks = a]
    <3>1. objs[OwRoot] \in OwFields BY <1>0, <1>1
    <3>2. a \in Nat BY <3>1, <1>0 DEF OwFields
    <3>3. r \in OwFields BY <3>1, <3>2, OwRecords
    <3>4. objs1 = [objs EXCEPT ![OwRoot] = r] OBVIOUS
    <3> HIDE DEF r
    <3> QED BY <1>1, <3>3, <3>4
  <2>2. \A x \in OwObject : x # OwRoot => objs1[x] = objs[x] BY <1>1
  <2>3. /\ objs[OwRoot].term => objs1[OwRoot].acks = objs[OwRoot].acks - 1
        /\ ~objs[OwRoot].term => objs1[OwRoot].acks = objs[OwRoot].acks
        /\ \A x \in OwObject : x # OwRoot => objs1[x].acks = objs[x].acks
    BY <1>0, <1>1, OwTree DEF OwFields
  <2>4. \A x \in OwObject :
            /\ objs1[x].st = objs[x].st /\ objs1[x].term = objs[x].term
            /\ objs1[x].sent = objs[x].sent /\ objs1[x].done = objs[x].done
            /\ objs1[x].owned = objs[x].owned /\ objs1[x].engine = objs[x].engine
            /\ objs1[x].pending = objs[x].pending /\ objs1[x].pipe = objs[x].pipe
            /\ objs1[x].fd = objs[x].fd
    BY <1>0, <1>1, OwTree DEF OwFields
  <2> QED BY <2>1, <2>2, <2>3, <2>4
<1>5. \A c \in OwObject : OwAsked(objs1, F, c) <=> OwAsked(objs, F, c)
  BY <1>0, <1>2 DEF OwAsked, OwGTerm
<1> HIDE DEF objs1
<1>10. OwGType(objs1, F, P1) BY <1>0, <1>1, <1>2, OwKinds, OwTree DEF OwGType
<1>11. OwGShape(F) OBVIOUS
<1>12. OwGCount(objs1, F)
  <2> SUFFICES ASSUME NEW x \in OwObject
               PROVE  objs1[x].sent = objs1[x].done + Cardinality(OwNumbered(F, x))
      BY DEF OwGCount
  <2>1. objs[x].sent \in Nat /\ objs[x].done \in Nat /\ Cardinality(OwNumbered(F, x)) \in Nat
    BY <1>1, FS_Subset, FS_CardinalityType DEF OwFields, OwNumbered
  <2>2. objs[x].sent = objs[x].done + Cardinality(OwNumbered(F, x)) BY DEF OwGCount
  <2> QED BY <2>1, <2>2, <1>0, <1>2
<1>13. \A p \in OwObject : OwAwaited(objs1, F, p) = OwAwaited(objs, F, p)
  <2>1. OwSameAwaited(objs, F, objs1, F) BY <1>2, <1>5 DEF OwSameAwaited
  <2> QED BY <2>1, OwAwaitedKept
<1>14. OwGAcks(objs1, F, P1)
  <2>1. Cardinality(OwAwaited(objs, F, OwRoot)) \in Nat BY OwAwaitedFinite
  <2>2. objs[OwRoot].acks = Cardinality(OwAwaited(objs, F, OwRoot))
                        + (IF objs[OwRoot].term THEN Cardinality(P) ELSE 0)
    BY <1>0 DEF OwGAcks
  <2>3. objs1[OwRoot].acks = Cardinality(OwAwaited(objs1, F, OwRoot))
                        + (IF objs1[OwRoot].term THEN Cardinality(P1) ELSE 0)
    BY <2>1, <2>2, <1>0, <1>2, <1>13
  <2> QED BY <2>3, <1>2, <1>13 DEF OwGAcks
<1>15. OwGUnborn(objs1, F, P1)
  <2>1. OwSameUnborn(objs, F, P, objs1, F, P1)
    BY <1>0, <1>1, <1>2, OwKinds, OwTree DEF OwSameUnborn
  <2> QED BY <2>1, OwUnbornKept
<1>16. OwGDead(objs1) BY <1>0, <1>2, OwTree DEF OwGDead
<1>17. OwGOwned(objs1, F)
  <2>1. OwSameOwned(objs, F, objs1, F) BY <1>0, <1>2, <1>5 DEF OwSameOwned
  <2> QED BY <2>1, <1>1, OwOwnedKept
<1>18. OwGTerm(objs1, F) BY <1>0, <1>2, OwTree DEF OwGTerm
<1>19. OwGPipe(objs1, F, P1) BY <1>0, <1>1, <1>2, OwTree DEF OwGPipe, OwSessions
<1>20. OwGEngine(objs1, F)
  <2>1. \A c \in OwObject : OwActive(objs1, F, c) => OwActive(objs, F, c)
    BY <1>0, <1>2 DEF OwActive
  <2>2. \A c \in OwObject : objs[c].fd => OwPlug(c) \notin F BY DEF OwGEngine
  <2>3. OwLessEngine(objs, F, objs1, F) BY <2>1, <2>2, <1>0, <1>2 DEF OwLessEngine
  <2> QED BY <2>3, OwEngineKept
<1>21. OwGReq(objs1, F) BY <1>0, <1>2 DEF OwGReq
<1> QED BY <1>10, <1>11, <1>12, <1>14, <1>15, <1>16, <1>17, <1>18, <1>19, <1>20, <1>21 DEF objs1

\* An acknowledgement that was waited for.
LEMMA OwAckGood ==
    ASSUME NEW objs, NEW F, NEW P, OwGood(objs, F, P),
           NEW c0 \in OwObject, OwAck(c0) \in F
    PROVE  OwGood([objs EXCEPT ![OwParent[c0]].acks = @ - 1], F \ {OwAck(c0)}, P)
<1> DEFINE objs1 == [objs EXCEPT ![OwParent[c0]].acks = @ - 1]
           F1 == F \ {OwAck(c0)}
<1> USE DEF OwGood
<1>1. objs \in [OwObject -> OwFields] /\ F \subseteq OwCommand /\ IsFiniteSet(F)
      /\ P \subseteq OwSessions
  BY OwCommandFinite DEF OwGType
<1> DEFINE p0 == OwParent[c0]
<1>0. /\ OwAck(c0) \in F /\ c0 # OwRoot /\ p0 \in OwObject /\ objs[c0].st = "deleted"
      /\ c0 \in OwAwaited(objs, F, p0) /\ objs[p0].acks >= 1
      /\ objs[p0].st # "deleted" /\ objs[p0].st # "unborn"
  <2>1. OwAck(c0) \in F /\ c0 # OwRoot /\ p0 \in OwObject /\ c0 \in OwChildren(p0)
    BY <1>1, OwKinds, OwTree DEF OwChildren
  <2>2. objs[c0].st = "deleted" BY <2>1 DEF OwGTerm
  <2>3. c0 \in OwAwaited(objs, F, p0) BY <2>1 DEF OwAwaited
  <2>4. objs[p0].acks = Cardinality(OwAwaited(objs, F, p0))
                        + (IF p0 = OwRoot /\ objs[p0].term THEN Cardinality(P) ELSE 0)
    BY <2>1 DEF OwGAcks
  <2>5. objs[p0].acks >= 1
    <3>1. Cardinality(OwAwaited(objs, F, p0)) \in Nat /\ Cardinality(OwAwaited(objs, F, p0)) # 0
      BY <2>3, OwAwaitedFinite
    <3> QED BY <2>4, <3>1, <1>1, OwPipesFinite
  <2>6. objs[p0].st # "deleted" BY <2>1, <2>5 DEF OwGDead
  <2>7. objs[p0].st # "unborn" BY <2>1, <2>2 DEF OwGUnborn
  <2> QED BY <2>1, <2>2, <2>3, <2>5, <2>6, <2>7
<1> HIDE DEF p0
<1>2. /\ objs1 \in [OwObject -> OwFields]
      /\ \A x \in OwObject : x # p0 => objs1[x] = objs[x]
      /\ objs1[p0].acks = objs[p0].acks - 1
      /\ \A x \in OwObject : x # p0 => objs1[x].acks = objs[x].acks
      /\ \A x \in OwObject :
            /\ objs1[x].st = objs[x].st /\ objs1[x].term = objs[x].term
            /\ objs1[x].sent = objs[x].sent /\ objs1[x].done = objs[x].done
            /\ objs1[x].owned = objs[x].owned /\ objs1[x].engine = objs[x].engine
            /\ objs1[x].pending = objs[x].pending /\ objs1[x].pipe = objs[x].pipe
            /\ objs1[x].fd = objs[x].fd
  <2>1. objs1 \in [OwObject -> OwFields]
    <3> DEFINE r == [objs[p0] EXCEPT !.acks = @ - 1]
    <3>1. objs[p0] \in OwFields BY <1>0, <1>1
    <3>2. objs[p0].acks - 1 \in Nat BY <3>1, <1>0 DEF OwFields
    <3>3. r \in OwFields BY <3>1, <3>2, OwRecords
    <3>4. objs1 = [objs EXCEPT ![p0] = r] BY DEF p0
    <3> HIDE DEF r
    <3> QED BY <1>1, <3>3, <3>4
  <2>2. \A x \in OwObject : x # p0 => objs1[x] = objs[x] BY <1>1 DEF p0
  <2>3. /\ objs1[p0].acks = objs[p0].acks - 1
        /\ \A x \in OwObject : x # p0 => objs1[x].acks = objs[x].acks
    BY <1>0, <1>1, OwTree DEF OwFields, p0
  <2>4. \A x \in OwObject :
            /\ objs1[x].st = objs[x].st /\ objs1[x].term = objs[x].term
            /\ objs1[x].sent = objs[x].sent /\ objs1[x].done = objs[x].done
            /\ objs1[x].owned = objs[x].owned /\ objs1[x].engine = objs[x].engine
            /\ objs1[x].pending = objs[x].pending /\ objs1[x].pipe = objs[x].pipe
            /\ objs1[x].fd = objs[x].fd
    BY <1>0, <1>1, OwTree DEF OwFields, p0
  <2> QED BY <2>1, <2>2, <2>3, <2>4
<1>3. /\ F1 \subseteq F /\ \A x \in F : x \in F1 \/ x = OwAck(c0)
      /\ \A c \in OwObject :
            /\ OwPlug(c) \in F1 <=> OwPlug(c) \in F
            /\ OwAttach(c) \in F1 <=> OwAttach(c) \in F
            /\ OwTerm(c) \in F1 <=> OwTerm(c) \in F
            /\ OwBind(c) \in F1 <=> OwBind(c) \in F
            /\ OwOwn(c) \in F1 <=> OwOwn(c) \in F
            /\ OwReq(c) \in F1 <=> OwReq(c) \in F
            /\ OwAck(c) \in F1 <=> OwAck(c) \in F /\ c # c0
  BY <1>0, <1>1, OwKinds, OwTree
<1>4. \A x \in OwObject : OwNumbered(F1, x) = OwNumbered(F, x)
  BY <1>0, <1>3, OwKinds DEF OwNumbered
<1>5. \A c \in OwObject : OwAsked(objs1, F1, c) <=> OwAsked(objs, F, c)
  BY <1>0, <1>2, <1>3 DEF OwAsked, OwGTerm
<1> HIDE DEF objs1, F1
<1>10. OwGType(objs1, F1, P) BY <1>0, <1>1, <1>2, <1>3, OwKinds, OwTree DEF OwGType
<1>11. OwGShape(F1) BY <1>0, <1>3, OwKinds, OwTree DEF OwGShape
<1>12. OwGCount(objs1, F1)
  <2> SUFFICES ASSUME NEW x \in OwObject
               PROVE  objs1[x].sent = objs1[x].done + Cardinality(OwNumbered(F1, x))
      BY DEF OwGCount
  <2>1. objs[x].sent \in Nat /\ objs[x].done \in Nat /\ Cardinality(OwNumbered(F, x)) \in Nat
    BY <1>1, FS_Subset, FS_CardinalityType DEF OwFields, OwNumbered
  <2>2. objs[x].sent = objs[x].done + Cardinality(OwNumbered(F, x)) BY DEF OwGCount
  <2> QED BY <2>1, <2>2, <1>0, <1>2, <1>4
<1>13. ASSUME NEW p \in OwObject, p # p0 PROVE OwAwaited(objs1, F1, p) = OwAwaited(objs, F, p)
  <2>1. \A c \in OwChildren(p) : c \in OwObject /\ c # c0 BY <1>13 DEF OwChildren, p0
  <2> QED BY <2>1, <1>2, <1>3, <1>5 DEF OwAwaited
<1>14. OwGAcks(objs1, F1, P)
  <2>1. OwAwaited(objs1, F1, p0) = OwAwaited(objs, F, p0) \ {c0}
    BY <1>0, <1>2, <1>3, <1>5 DEF OwAwaited, OwChildren
  <2>2. /\ IsFiniteSet(OwAwaited(objs, F, p0))
        /\ Cardinality(OwAwaited(objs, F, p0)) \in Nat
    BY OwAwaitedFinite
  <2>3. Cardinality(OwAwaited(objs1, F1, p0)) = Cardinality(OwAwaited(objs, F, p0)) - 1
    BY <2>1, <2>2, <1>0, FS_RemoveElement
  <2>4. objs[p0].acks = Cardinality(OwAwaited(objs, F, p0))
                        + (IF p0 = OwRoot /\ objs[p0].term THEN Cardinality(P) ELSE 0)
    BY <1>0 DEF OwGAcks
  <2>5. objs1[p0].acks = Cardinality(OwAwaited(objs1, F1, p0))
                        + (IF p0 = OwRoot /\ objs1[p0].term THEN Cardinality(P) ELSE 0)
    BY <2>2, <2>3, <2>4, <1>0, <1>1, <1>2, OwPipesFinite
  <2> QED BY <2>5, <1>2, <1>13 DEF OwGAcks
<1>15. OwGUnborn(objs1, F1, P)
  <2>1. OwSameUnborn(objs, F, P, objs1, F1, P)
    BY <1>0, <1>1, <1>2, <1>3, OwKinds, OwTree DEF OwSameUnborn
  <2> QED BY <2>1, OwUnbornKept
<1>16. OwGDead(objs1) BY <1>0, <1>2, OwTree DEF OwGDead
<1>17. OwGOwned(objs1, F1)
  <2>1. OwSameOwned(objs, F, objs1, F1) BY <1>0, <1>2, <1>3, <1>5 DEF OwSameOwned
  <2> QED BY <2>1, <1>1, OwOwnedKept
<1>18. OwGTerm(objs1, F1) BY <1>0, <1>2, <1>3, OwTree DEF OwGTerm
<1>19. OwGPipe(objs1, F1, P) BY <1>0, <1>1, <1>2, <1>3, OwTree DEF OwGPipe, OwSessions
<1>20. OwGEngine(objs1, F1)
  <2>1. \A c \in OwObject : OwActive(objs1, F1, c) => OwActive(objs, F, c)
    BY <1>0, <1>2, <1>3 DEF OwActive
  <2>2. \A c \in OwObject : objs[c].fd => OwPlug(c) \notin F BY DEF OwGEngine
  <2>3. OwLessEngine(objs, F, objs1, F1) BY <2>1, <2>2, <1>0, <1>2, <1>3 DEF OwLessEngine
  <2> QED BY <2>3, OwEngineKept
<1>21. OwGReq(objs1, F1) BY <1>0, <1>2, <1>3 DEF OwGReq
<1> QED BY <1>10, <1>11, <1>12, <1>14, <1>15, <1>16, <1>17, <1>18, <1>19, <1>20, <1>21 DEF objs1, F1

\* process_term_req: an owned object is asked to terminate.
LEMMA OwAskGood ==
    ASSUME NEW objs, NEW F, NEW P, OwGood(objs, F, P),
           NEW p \in OwObject, NEW c0 \in objs[p].owned
    PROVE  OwGood([objs EXCEPT ![p].owned = @ \ {c0}, ![p].acks = @ + 1], F \cup {OwTerm(c0)}, P)
<1> DEFINE objs1 == [objs EXCEPT ![p].owned = @ \ {c0}, ![p].acks = @ + 1]
           F1 == F \cup {OwTerm(c0)}
<1> USE DEF OwGood
<1>1. objs \in [OwObject -> OwFields] /\ F \subseteq OwCommand /\ IsFiniteSet(F)
      /\ P \subseteq OwSessions
  BY OwCommandFinite DEF OwGType
<1>0. /\ p \in OwObject /\ c0 \in OwObject /\ OwParent[c0] = p /\ objs[c0].st = "live"
      /\ OwOwn(c0) \notin F /\ ~OwAsked(objs, F, c0) /\ OwTerm(c0) \notin F
      /\ ~objs[c0].term /\ ~objs[c0].pending /\ OwAck(c0) \notin F
      /\ ~objs[p].term /\ c0 # OwRoot /\ p # c0
      /\ objs[p].st # "deleted" /\ objs[p].st # "unborn"
  <2>1. c0 \in OwObject BY <1>1 DEF OwFields
  <2>2. /\ OwParent[c0] = p /\ objs[c0].st = "live" /\ OwOwn(c0) \notin F
        /\ ~OwAsked(objs, F, c0)
    BY <2>1 DEF OwGOwned
  <2>3. OwTerm(c0) \notin F /\ ~objs[c0].term /\ ~objs[c0].pending BY <2>2 DEF OwAsked
  <2>4. OwAck(c0) \notin F BY <2>1, <2>2 DEF OwGTerm
  <2>5. ~objs[p].term BY DEF OwGTerm
  <2>6. objs[p].st # "deleted" /\ objs[p].st # "unborn" BY <2>5 DEF OwGDead, OwGUnborn
  <2> QED BY <2>1, <2>2, <2>3, <2>4, <2>5, <2>6, OwTree
<1>2. /\ objs1 \in [OwObject -> OwFields]
      /\ \A x \in OwObject : x # p => objs1[x] = objs[x]
      /\ objs1[p].acks = objs[p].acks + 1
      /\ \A x \in OwObject : x # p => objs1[x].acks = objs[x].acks
      /\ objs1[p].owned = objs[p].owned \ {c0}
      /\ \A x \in OwObject : x # p => objs1[x].owned = objs[x].owned
      /\ \A x \in OwObject :
            /\ objs1[x].st = objs[x].st /\ objs1[x].term = objs[x].term
            /\ objs1[x].sent = objs[x].sent /\ objs1[x].done = objs[x].done
            /\ objs1[x].engine = objs[x].engine /\ objs1[x].pending = objs[x].pending
            /\ objs1[x].pipe = objs[x].pipe /\ objs1[x].fd = objs[x].fd
  <2>1. objs1 \in [OwObject -> OwFields]
    <3> DEFINE q == [objs[p] EXCEPT !.owned = @ \ {c0}]
               r == [q EXCEPT !.acks = @ + 1]
    <3>1. objs[p] \in OwFields BY <1>0, <1>1
    <3>2. q \in OwFields
      <4>1. objs[p].owned \ {c0} \in SUBSET OwObject BY <3>1 DEF OwFields
      <4> QED BY <3>1, <4>1, OwRecords
    <3>3. q.acks + 1 \in Nat BY <3>2 DEF OwFields
    <3>4. r \in OwFields BY <3>2, <3>3, OwRecords
    <3>5. objs1 = [objs EXCEPT ![p] = r] OBVIOUS
    <3> HIDE DEF r
    <3> QED BY <1>1, <3>4, <3>5
  <2>2. \A x \in OwObject : x # p => objs1[x] = objs[x] BY <1>1
  <2>3. /\ objs1[p].acks = objs[p].acks + 1
        /\ \A x \in OwObject : x # p => objs1[x].acks = objs[x].acks
        /\ objs1[p].owned = objs[p].owned \ {c0}
        /\ \A x \in OwObject : x # p => objs1[x].owned = objs[x].owned
    BY <1>0, <1>1, OwTree DEF OwFields
  <2>4. \A x \in OwObject :
            /\ objs1[x].st = objs[x].st /\ objs1[x].term = objs[x].term
            /\ objs1[x].sent = objs[x].sent /\ objs1[x].done = objs[x].done
            /\ objs1[x].engine = objs[x].engine /\ objs1[x].pending = objs[x].pending
            /\ objs1[x].pipe = objs[x].pipe /\ objs1[x].fd = objs[x].fd
    BY <1>0, <1>1, OwTree DEF OwFields
  <2> QED BY <2>1, <2>2, <2>3, <2>4
<1>3. /\ F \subseteq F1 /\ \A x \in F1 : x \in F \/ x = OwTerm(c0)
      /\ \A c \in OwObject :
            /\ OwPlug(c) \in F1 <=> OwPlug(c) \in F
            /\ OwAttach(c) \in F1 <=> OwAttach(c) \in F
            /\ OwTerm(c) \in F1 <=> OwTerm(c) \in F \/ c = c0
            /\ OwBind(c) \in F1 <=> OwBind(c) \in F
            /\ OwOwn(c) \in F1 <=> OwOwn(c) \in F
            /\ OwReq(c) \in F1 <=> OwReq(c) \in F
            /\ OwAck(c) \in F1 <=> OwAck(c) \in F
  BY <1>0, <1>1, OwKinds, OwTree
<1>4. \A x \in OwObject : OwNumbered(F1, x) = OwNumbered(F, x)
  BY <1>0, <1>3, OwKinds DEF OwNumbered
<1>5. /\ OwAsked(objs1, F1, c0)
      /\ \A c \in OwObject : c # c0 => (OwAsked(objs1, F1, c) <=> OwAsked(objs, F, c))
  BY <1>0, <1>2, <1>3 DEF OwAsked
<1> HIDE DEF objs1, F1
<1>10. OwGType(objs1, F1, P) BY <1>0, <1>1, <1>2, <1>3, OwKinds, OwTree DEF OwGType
<1>11. OwGShape(F1) BY <1>0, <1>3, OwKinds, OwTree DEF OwGShape
<1>12. OwGCount(objs1, F1)
  <2> SUFFICES ASSUME NEW x \in OwObject
               PROVE  objs1[x].sent = objs1[x].done + Cardinality(OwNumbered(F1, x))
      BY DEF OwGCount
  <2>1. objs[x].sent \in Nat /\ objs[x].done \in Nat /\ Cardinality(OwNumbered(F, x)) \in Nat
    BY <1>1, FS_Subset, FS_CardinalityType DEF OwFields, OwNumbered
  <2>2. objs[x].sent = objs[x].done + Cardinality(OwNumbered(F, x)) BY DEF OwGCount
  <2> QED BY <2>1, <2>2, <1>0, <1>2, <1>4
<1>13. ASSUME NEW q \in OwObject, q # p PROVE OwAwaited(objs1, F1, q) = OwAwaited(objs, F, q)
  <2>1. \A c \in OwChildren(q) : c \in OwObject /\ c # c0 BY <1>0, <1>13 DEF OwChildren
  <2> QED BY <2>1, <1>2, <1>3, <1>5 DEF OwAwaited
<1>14. OwGAcks(objs1, F1, P)
  <2>1. /\ OwAwaited(objs1, F1, p) = OwAwaited(objs, F, p) \cup {c0}
        /\ c0 \notin OwAwaited(objs, F, p)
    <3>1. c0 \in OwChildren(p) BY <1>0 DEF OwChildren
    <3>2. c0 \notin OwAwaited(objs, F, p) BY <1>0 DEF OwAwaited
    <3>3. \A c \in OwChildren(p) : c \in OwObject BY DEF OwChildren
    <3> QED BY <3>1, <3>2, <3>3, <1>0, <1>2, <1>3, <1>5 DEF OwAwaited
  <2>2. /\ IsFiniteSet(OwAwaited(objs, F, p))
        /\ Cardinality(OwAwaited(objs, F, p)) \in Nat
    BY OwAwaitedFinite
  <2>3. Cardinality(OwAwaited(objs1, F1, p)) = Cardinality(OwAwaited(objs, F, p)) + 1
    BY <2>1, <2>2, FS_AddElement
  <2>4. objs[p].acks = Cardinality(OwAwaited(objs, F, p))
                        + (IF p = OwRoot /\ objs[p].term THEN Cardinality(P) ELSE 0)
    BY <1>0 DEF OwGAcks
  <2>5. objs1[p].acks = Cardinality(OwAwaited(objs1, F1, p))
                        + (IF p = OwRoot /\ objs1[p].term THEN Cardinality(P) ELSE 0)
    BY <2>2, <2>3, <2>4, <1>0, <1>1, <1>2, OwPipesFinite
  <2> QED BY <2>5, <1>2, <1>13 DEF OwGAcks
<1>15. OwGUnborn(objs1, F1, P)
  <2>1. OwSameUnborn(objs, F, P, objs1, F1, P)
    BY <1>0, <1>1, <1>2, <1>3, OwKinds, OwTree DEF OwSameUnborn
  <2> QED BY <2>1, OwUnbornKept
<1>16. OwGDead(objs1) BY <1>0, <1>2, OwTree DEF OwGDead
<1>17. OwGOwned(objs1, F1)
  <2>1. ASSUME NEW q \in OwObject, NEW d \in objs1[q].owned
        PROVE  /\ OwParent[d] = q /\ objs1[d].st = "live"
               /\ OwOwn(d) \notin F1 /\ ~OwAsked(objs1, F1, d)
    <3>1. d \in objs[q].owned /\ d \in OwObject BY <1>1, <1>2, <2>1 DEF OwFields
    <3>2. /\ OwParent[d] = q /\ objs[d].st = "live"
          /\ OwOwn(d) \notin F /\ ~OwAsked(objs, F, d)
      BY <3>1 DEF OwGOwned
    <3>3. d # c0 BY <3>2, <2>1, <1>0, <1>2
    <3> QED BY <3>1, <3>2, <3>3, <1>2, <1>3, <1>5
  <2>2. ASSUME NEW d \in OwObject, OwOwn(d) \in F1
        PROVE  objs1[d].st = "live" /\ ~OwAsked(objs1, F1, d)
    <3>1. OwOwn(d) \in F /\ d # c0 BY <2>2, <1>0, <1>3
    <3>2. objs[d].st = "live" /\ ~OwAsked(objs, F, d) BY <3>1 DEF OwGOwned
    <3> QED BY <3>1, <3>2, <1>2, <1>5
  <2>3. ASSUME NEW d \in OwObject, d # OwRoot, objs1[d].st = "live"
        PROVE  OwOwn(d) \in F1 \/ d \in objs1[OwParent[d]].owned \/ OwAsked(objs1, F1, d)
    <3>1. objs[d].st = "live" /\ OwParent[d] \in OwObject BY <2>3, <1>2, OwTree
    <3>2. OwOwn(d) \in F \/ d \in objs[OwParent[d]].owned \/ OwAsked(objs, F, d)
      BY <2>3, <3>1 DEF OwGOwned
    <3>3. CASE d = c0 BY <3>3, <1>5
    <3>4. CASE d # c0 BY <3>1, <3>2, <3>4, <1>2, <1>3, <1>5
    <3> QED BY <3>3, <3>4
  <2> QED BY <2>1, <2>2, <2>3 DEF OwGOwned
<1>18. OwGTerm(objs1, F1) BY <1>0, <1>2, <1>3, OwTree DEF OwGTerm
<1>19. OwGPipe(objs1, F1, P) BY <1>0, <1>1, <1>2, <1>3, OwTree DEF OwGPipe, OwSessions
<1>20. OwGEngine(objs1, F1)
  <2>1. \A c \in OwObject : OwActive(objs1, F1, c) => OwActive(objs, F, c)
    BY <1>0, <1>2, <1>3 DEF OwActive
  <2>2. \A c \in OwObject : objs[c].fd => OwPlug(c) \notin F BY DEF OwGEngine
  <2>3. OwLessEngine(objs, F, objs1, F1) BY <2>1, <2>2, <1>0, <1>2, <1>3 DEF OwLessEngine
  <2> QED BY <2>3, OwEngineKept
<1>21. OwGReq(objs1, F1) BY <1>0, <1>2, <1>3 DEF OwGReq
<1> QED BY <1>10, <1>11, <1>12, <1>14, <1>15, <1>16, <1>17, <1>18, <1>19, <1>20, <1>21 DEF objs1, F1

\* process_own of an object that terminates: the new child is asked at once.
LEMMA OwOwnLateGood ==
    ASSUME NEW objs, NEW F, NEW P, OwGood(objs, F, P),
           NEW c0 \in OwObject, NEW p \in OwObject, p = OwParent[c0], OwOwn(c0) \in F,
           objs[p].st = "live"
    PROVE  OwGood([objs EXCEPT ![p].done = @ + 1, ![p].acks = @ + 1],
                  (F \ {OwOwn(c0)}) \cup {OwTerm(c0)}, P)
<1> DEFINE objs1 == [objs EXCEPT ![p].done = @ + 1, ![p].acks = @ + 1]
           F1 == (F \ {OwOwn(c0)}) \cup {OwTerm(c0)}
<1> USE DEF OwGood
<1>1. objs \in [OwObject -> OwFields] /\ F \subseteq OwCommand /\ IsFiniteSet(F)
      /\ P \subseteq OwSessions
  BY OwCommandFinite DEF OwGType
<1>0. /\ p \in OwObject /\ c0 \in OwObject /\ OwParent[c0] = p /\ objs[c0].st = "live"
      /\ OwOwn(c0) \in F /\ ~OwAsked(objs, F, c0) /\ OwTerm(c0) \notin F
      /\ ~objs[c0].term /\ ~objs[c0].pending /\ OwAck(c0) \notin F
      /\ c0 # OwRoot /\ p # c0 /\ c0 \notin objs[p].owned /\ objs[p].st = "live"
  <2>1. objs[c0].st = "live" /\ ~OwAsked(objs, F, c0) /\ c0 \notin objs[p].owned BY DEF OwGOwned
  <2>2. OwTerm(c0) \notin F /\ ~objs[c0].term /\ ~objs[c0].pending BY <2>1 DEF OwAsked
  <2>3. OwAck(c0) \notin F BY <2>1 DEF OwGTerm
  <2>4. c0 # OwRoot BY <1>1, OwKinds
  <2> QED BY <2>1, <2>2, <2>3, <2>4, OwTree
<1>2. /\ objs1 \in [OwObject -> OwFields]
      /\ \A x \in OwObject : x # p => objs1[x] = objs[x]
      /\ objs1[p].done = objs[p].done + 1
      /\ \A x \in OwObject : x # p => objs1[x].done = objs[x].done
      /\ objs1[p].acks = objs[p].acks + 1
      /\ \A x \in OwObject : x # p => objs1[x].acks = objs[x].acks
      /\ \A x \in OwObject :
            /\ objs1[x].st = objs[x].st /\ objs1[x].term = objs[x].term
            /\ objs1[x].sent = objs[x].sent /\ objs1[x].owned = objs[x].owned
            /\ objs1[x].engine = objs[x].engine /\ objs1[x].pending = objs[x].pending
            /\ objs1[x].pipe = objs[x].pipe /\ objs1[x].fd = objs[x].fd
  <2>1. objs1 \in [OwObject -> OwFields]
    <3> DEFINE r1 == [objs[p] EXCEPT !.done = @ + 1]
               r2 == [r1 EXCEPT !.acks = @ + 1]
    <3>1. objs[p] \in OwFields BY <1>0, <1>1
    <3>2. objs[p].done + 1 \in Nat BY <3>1 DEF OwFields
    <3>3. r1 \in OwFields BY <3>1, <3>2, OwRecords
    <3>4. r1.acks + 1 \in Nat BY <3>3 DEF OwFields
    <3>5. r2 \in OwFields BY <3>3, <3>4, OwRecords
    <3>6. objs1 = [objs EXCEPT ![p] = r2] OBVIOUS
    <3> HIDE DEF r1, r2
    <3> QED BY <1>1, <3>5, <3>6
  <2>2. \A x \in OwObject : x # p => objs1[x] = objs[x] BY <1>1
  <2>3. /\ objs1[p].done = objs[p].done + 1
        /\ \A x \in OwObject : x # p => objs1[x].done = objs[x].done
        /\ objs1[p].acks = objs[p].acks + 1
        /\ \A x \in OwObject : x # p => objs1[x].acks = objs[x].acks
    BY <1>0, <1>1, OwTree DEF OwFields
  <2>4. \A x \in OwObject :
            /\ objs1[x].st = objs[x].st /\ objs1[x].term = objs[x].term
            /\ objs1[x].sent = objs[x].sent /\ objs1[x].owned = objs[x].owned
            /\ objs1[x].engine = objs[x].engine /\ objs1[x].pending = objs[x].pending
            /\ objs1[x].pipe = objs[x].pipe /\ objs1[x].fd = objs[x].fd
    BY <1>0, <1>1, OwTree DEF OwFields
  <2> QED BY <2>1, <2>2, <2>3, <2>4
<1>3. /\ \A x \in F1 : x \in F \/ x = OwTerm(c0)
      /\ \A c \in OwObject :
            /\ OwPlug(c) \in F1 <=> OwPlug(c) \in F
            /\ OwAttach(c) \in F1 <=> OwAttach(c) \in F
            /\ OwTerm(c) \in F1 <=> OwTerm(c) \in F \/ c = c0
            /\ OwBind(c) \in F1 <=> OwBind(c) \in F
            /\ OwOwn(c) \in F1 <=> OwOwn(c) \in F /\ c # c0
            /\ OwReq(c) \in F1 <=> OwReq(c) \in F
            /\ OwAck(c) \in F1 <=> OwAck(c) \in F
  BY <1>0, <1>1, OwKinds, OwTree
<1>4. \A x \in OwObject :
            /\ Cardinality(OwNumbered(F1, x)) \in Nat
            /\ Cardinality(OwNumbered(F, x)) =
                IF x = p THEN Cardinality(OwNumbered(F1, x)) + 1
                ELSE Cardinality(OwNumbered(F1, x))
  <2> DEFINE G == F \ {OwOwn(c0)}
  <2>1. OwOwn(c0) \in F /\ OwOwn(c0).type \in {"plug", "own", "attach", "bind"} /\ OwOwn(c0).to = p
    BY <1>0, OwKinds
  <2>2. IsFiniteSet(G) BY <1>1, FS_RemoveElement
  <2>3. \A x \in OwObject : Cardinality(OwNumbered(G, x)) \in Nat
    BY <2>2, FS_Subset, FS_CardinalityType DEF OwNumbered
  <2>4. \A x \in OwObject : Cardinality(OwNumbered(F, x)) =
            IF x = p THEN Cardinality(OwNumbered(G, x)) + 1 ELSE Cardinality(OwNumbered(G, x))
    BY <2>1, <1>1, OwCountRemove
  <2>5. OwTerm(c0).type = "term" BY OwKinds
  <2>6. \A x \in OwObject : OwNumbered(F1, x) = OwNumbered(G, x) BY <2>5 DEF OwNumbered
  <2> QED BY <2>3, <2>4, <2>6
<1>5. /\ OwAsked(objs1, F1, c0)
      /\ \A c \in OwObject : c # c0 => (OwAsked(objs1, F1, c) <=> OwAsked(objs, F, c))
  BY <1>0, <1>2, <1>3 DEF OwAsked
<1> HIDE DEF objs1, F1
<1>10. OwGType(objs1, F1, P) BY <1>0, <1>1, <1>2, <1>3, OwKinds, OwTree DEF OwGType
<1>11. OwGShape(F1) BY <1>0, <1>3, OwKinds, OwTree DEF OwGShape
<1>12. OwGCount(objs1, F1)
  <2> SUFFICES ASSUME NEW x \in OwObject
               PROVE  objs1[x].sent = objs1[x].done + Cardinality(OwNumbered(F1, x))
      BY DEF OwGCount
  <2>1. objs[x].sent \in Nat /\ objs[x].done \in Nat /\ Cardinality(OwNumbered(F, x)) \in Nat
    BY <1>1, FS_Subset, FS_CardinalityType DEF OwFields, OwNumbered
  <2>2. objs[x].sent = objs[x].done + Cardinality(OwNumbered(F, x)) BY DEF OwGCount
  <2> QED BY <2>1, <2>2, <1>0, <1>2, <1>4
<1>13. ASSUME NEW q \in OwObject, q # p PROVE OwAwaited(objs1, F1, q) = OwAwaited(objs, F, q)
  <2>1. \A c \in OwChildren(q) : c \in OwObject /\ c # c0 BY <1>0, <1>13 DEF OwChildren
  <2> QED BY <2>1, <1>2, <1>3, <1>5 DEF OwAwaited
<1>14. OwGAcks(objs1, F1, P)
  <2>1. /\ OwAwaited(objs1, F1, p) = OwAwaited(objs, F, p) \cup {c0}
        /\ c0 \notin OwAwaited(objs, F, p)
    <3>1. c0 \in OwChildren(p) BY <1>0 DEF OwChildren
    <3>2. c0 \notin OwAwaited(objs, F, p) BY <1>0 DEF OwAwaited
    <3>3. \A c \in OwChildren(p) : c \in OwObject BY DEF OwChildren
    <3> QED BY <3>1, <3>2, <3>3, <1>0, <1>2, <1>3, <1>5 DEF OwAwaited
  <2>2. /\ IsFiniteSet(OwAwaited(objs, F, p))
        /\ Cardinality(OwAwaited(objs, F, p)) \in Nat
    BY OwAwaitedFinite
  <2>3. Cardinality(OwAwaited(objs1, F1, p)) = Cardinality(OwAwaited(objs, F, p)) + 1
    BY <2>1, <2>2, FS_AddElement
  <2>4. objs[p].acks = Cardinality(OwAwaited(objs, F, p))
                        + (IF p = OwRoot /\ objs[p].term THEN Cardinality(P) ELSE 0)
    BY <1>0 DEF OwGAcks
  <2>5. objs1[p].acks = Cardinality(OwAwaited(objs1, F1, p))
                        + (IF p = OwRoot /\ objs1[p].term THEN Cardinality(P) ELSE 0)
    BY <2>2, <2>3, <2>4, <1>0, <1>1, <1>2, OwPipesFinite
  <2> QED BY <2>5, <1>2, <1>13 DEF OwGAcks
<1>15. OwGUnborn(objs1, F1, P)
  <2>1. OwSameUnborn(objs, F, P, objs1, F1, P)
    BY <1>0, <1>1, <1>2, <1>3, OwKinds, OwTree DEF OwSameUnborn
  <2> QED BY <2>1, OwUnbornKept
<1>16. OwGDead(objs1) BY <1>0, <1>2, OwTree DEF OwGDead
<1>17. OwGOwned(objs1, F1)
  <2>1. ASSUME NEW q \in OwObject, NEW d \in objs1[q].owned
        PROVE  /\ OwParent[d] = q /\ objs1[d].st = "live"
               /\ OwOwn(d) \notin F1 /\ ~OwAsked(objs1, F1, d)
    <3>1. d \in objs[q].owned /\ d \in OwObject BY <1>1, <1>2, <2>1 DEF OwFields
    <3>2. /\ OwParent[d] = q /\ objs[d].st = "live"
          /\ OwOwn(d) \notin F /\ ~OwAsked(objs, F, d)
      BY <3>1 DEF OwGOwned
    <3>3. d # c0 BY <3>2, <2>1, <1>0, <1>2
    <3> QED BY <3>1, <3>2, <3>3, <1>2, <1>3, <1>5
  <2>2. ASSUME NEW d \in OwObject, OwOwn(d) \in F1
        PROVE  objs1[d].st = "live" /\ ~OwAsked(objs1, F1, d)
    <3>1. OwOwn(d) \in F /\ d # c0 BY <2>2, <1>0, <1>3
    <3>2. objs[d].st = "live" /\ ~OwAsked(objs, F, d) BY <3>1 DEF OwGOwned
    <3> QED BY <3>1, <3>2, <1>2, <1>5
  <2>3. ASSUME NEW d \in OwObject, d # OwRoot, objs1[d].st = "live"
        PROVE  OwOwn(d) \in F1 \/ d \in objs1[OwParent[d]].owned \/ OwAsked(objs1, F1, d)
    <3>1. objs[d].st = "live" /\ OwParent[d] \in OwObject BY <2>3, <1>2, OwTree
    <3>2. OwOwn(d) \in F \/ d \in objs[OwParent[d]].owned \/ OwAsked(objs, F, d)
      BY <2>3, <3>1 DEF OwGOwned
    <3>3. CASE d = c0 BY <3>3, <1>5
    <3>4. CASE d # c0 BY <3>1, <3>2, <3>4, <1>2, <1>3, <1>5
    <3> QED BY <3>3, <3>4
  <2> QED BY <2>1, <2>2, <2>3 DEF OwGOwned
<1>18. OwGTerm(objs1, F1) BY <1>0, <1>2, <1>3, OwTree DEF OwGTerm
<1>19. OwGPipe(objs1, F1, P) BY <1>0, <1>1, <1>2, <1>3, OwTree DEF OwGPipe, OwSessions
<1>20. OwGEngine(objs1, F1)
  <2>1. \A c \in OwObject : OwActive(objs1, F1, c) => OwActive(objs, F, c)
    BY <1>0, <1>2, <1>3 DEF OwActive
  <2>2. \A c \in OwObject : objs[c].fd => OwPlug(c) \notin F BY DEF OwGEngine
  <2>3. OwLessEngine(objs, F, objs1, F1) BY <2>1, <2>2, <1>0, <1>2, <1>3 DEF OwLessEngine
  <2> QED BY <2>3, OwEngineKept
<1>21. OwGReq(objs1, F1) BY <1>0, <1>2, <1>3 DEF OwGReq
<1> QED BY <1>10, <1>11, <1>12, <1>14, <1>15, <1>16, <1>17, <1>18, <1>19, <1>20, <1>21 DEF objs1, F1

\* process_own: the object takes the new child over.
LEMMA OwOwnGood ==
    ASSUME NEW objs, NEW F, NEW P, OwGood(objs, F, P),
           NEW c0 \in OwObject, NEW p \in OwObject, p = OwParent[c0], OwOwn(c0) \in F,
           objs[p].st = "live", ~objs[p].term
    PROVE  OwGood([objs EXCEPT ![p].done = @ + 1, ![p].owned = @ \cup {c0}], F \ {OwOwn(c0)}, P)
<1> DEFINE objs1 == [objs EXCEPT ![p].done = @ + 1, ![p].owned = @ \cup {c0}]
           F1 == F \ {OwOwn(c0)}
<1> USE DEF OwGood
<1>1. objs \in [OwObject -> OwFields] /\ F \subseteq OwCommand /\ IsFiniteSet(F)
      /\ P \subseteq OwSessions
  BY OwCommandFinite DEF OwGType
<1>0. /\ p \in OwObject /\ c0 \in OwObject /\ OwParent[c0] = p /\ objs[c0].st = "live"
      /\ OwOwn(c0) \in F /\ ~OwAsked(objs, F, c0)
      /\ c0 # OwRoot /\ p # c0 /\ c0 \notin objs[p].owned /\ objs[p].st = "live" /\ ~objs[p].term
  <2>1. objs[c0].st = "live" /\ ~OwAsked(objs, F, c0) /\ c0 \notin objs[p].owned BY DEF OwGOwned
  <2>2. c0 # OwRoot BY <1>1, OwKinds
  <2> QED BY <2>1, <2>2, OwTree
<1>2. /\ objs1 \in [OwObject -> OwFields]
      /\ \A x \in OwObject : x # p => objs1[x] = objs[x]
      /\ objs1[p].done = objs[p].done + 1
      /\ \A x \in OwObject : x # p => objs1[x].done = objs[x].done
      /\ objs1[p].owned = objs[p].owned \cup {c0}
      /\ \A x \in OwObject : x # p => objs1[x].owned = objs[x].owned
      /\ \A x \in OwObject :
            /\ objs1[x].st = objs[x].st /\ objs1[x].term = objs[x].term
            /\ objs1[x].sent = objs[x].sent /\ objs1[x].acks = objs[x].acks
            /\ objs1[x].engine = objs[x].engine /\ objs1[x].pending = objs[x].pending
            /\ objs1[x].pipe = objs[x].pipe /\ objs1[x].fd = objs[x].fd
  <2>1. objs1 \in [OwObject -> OwFields]
    <3> DEFINE r1 == [objs[p] EXCEPT !.done = @ + 1]
               r2 == [r1 EXCEPT !.owned = @ \cup {c0}]
    <3>1. objs[p] \in OwFields BY <1>0, <1>1
    <3>2. objs[p].done + 1 \in Nat BY <3>1 DEF OwFields
    <3>3. r1 \in OwFields BY <3>1, <3>2, OwRecords
    <3>4. r1.owned \cup {c0} \in SUBSET OwObject BY <3>3, <1>0 DEF OwFields
    <3>5. r2 \in OwFields BY <3>3, <3>4, OwRecords
    <3>6. objs1 = [objs EXCEPT ![p] = r2] OBVIOUS
    <3> HIDE DEF r1, r2
    <3> QED BY <1>1, <3>5, <3>6
  <2>2. \A x \in OwObject : x # p => objs1[x] = objs[x] BY <1>1
  <2>3. /\ objs1[p].done = objs[p].done + 1
        /\ \A x \in OwObject : x # p => objs1[x].done = objs[x].done
        /\ objs1[p].owned = objs[p].owned \cup {c0}
        /\ \A x \in OwObject : x # p => objs1[x].owned = objs[x].owned
    BY <1>0, <1>1, OwTree DEF OwFields
  <2>4. \A x \in OwObject :
            /\ objs1[x].st = objs[x].st /\ objs1[x].term = objs[x].term
            /\ objs1[x].sent = objs[x].sent /\ objs1[x].acks = objs[x].acks
            /\ objs1[x].engine = objs[x].engine /\ objs1[x].pending = objs[x].pending
            /\ objs1[x].pipe = objs[x].pipe /\ objs1[x].fd = objs[x].fd
    BY <1>0, <1>1, OwTree DEF OwFields
  <2> QED BY <2>1, <2>2, <2>3, <2>4
<1>3. /\ F1 \subseteq F /\ \A x \in F : x \in F1 \/ x = OwOwn(c0)
      /\ \A c \in OwObject :
            /\ OwPlug(c) \in F1 <=> OwPlug(c) \in F
            /\ OwAttach(c) \in F1 <=> OwAttach(c) \in F
            /\ OwTerm(c) \in F1 <=> OwTerm(c) \in F
            /\ OwBind(c) \in F1 <=> OwBind(c) \in F
            /\ OwOwn(c) \in F1 <=> OwOwn(c) \in F /\ c # c0
            /\ OwReq(c) \in F1 <=> OwReq(c) \in F
            /\ OwAck(c) \in F1 <=> OwAck(c) \in F
  BY <1>0, <1>1, OwKinds, OwTree
<1>4. \A x \in OwObject :
            /\ Cardinality(OwNumbered(F1, x)) \in Nat
            /\ Cardinality(OwNumbered(F, x)) =
                IF x = p THEN Cardinality(OwNumbered(F1, x)) + 1
                ELSE Cardinality(OwNumbered(F1, x))
  <2>1. OwOwn(c0) \in F /\ OwOwn(c0).type \in {"plug", "own", "attach", "bind"} /\ OwOwn(c0).to = p
    BY <1>0, OwKinds
  <2>2. IsFiniteSet(F1) BY <1>1, FS_RemoveElement
  <2>3. \A x \in OwObject : Cardinality(OwNumbered(F1, x)) \in Nat
    BY <2>2, FS_Subset, FS_CardinalityType DEF OwNumbered
  <2> QED BY <2>1, <2>3, <1>1, OwCountRemove
<1>5. \A c \in OwObject : OwAsked(objs1, F1, c) <=> OwAsked(objs, F, c)
  BY <1>0, <1>2, <1>3 DEF OwAsked
<1> HIDE DEF objs1, F1
<1>10. OwGType(objs1, F1, P) BY <1>0, <1>1, <1>2, <1>3, OwKinds, OwTree DEF OwGType
<1>11. OwGShape(F1) BY <1>0, <1>3, OwKinds, OwTree DEF OwGShape
<1>12. OwGCount(objs1, F1)
  <2> SUFFICES ASSUME NEW x \in OwObject
               PROVE  objs1[x].sent = objs1[x].done + Cardinality(OwNumbered(F1, x))
      BY DEF OwGCount
  <2>1. objs[x].sent \in Nat /\ objs[x].done \in Nat /\ Cardinality(OwNumbered(F, x)) \in Nat
    BY <1>1, FS_Subset, FS_CardinalityType DEF OwFields, OwNumbered
  <2>2. objs[x].sent = objs[x].done + Cardinality(OwNumbered(F, x)) BY DEF OwGCount
  <2> QED BY <2>1, <2>2, <1>0, <1>2, <1>4
<1>13. \A q \in OwObject : OwAwaited(objs1, F1, q) = OwAwaited(objs, F, q)
  <2>1. OwSameAwaited(objs, F, objs1, F1) BY <1>0, <1>2, <1>3, <1>5 DEF OwSameAwaited
  <2> QED BY <2>1, OwAwaitedKept
<1>14. OwGAcks(objs1, F1, P) BY <1>0, <1>2, <1>13 DEF OwGAcks
<1>15. OwGUnborn(objs1, F1, P)
  <2>1. OwSameUnborn(objs, F, P, objs1, F1, P)
    BY <1>0, <1>1, <1>2, <1>3, OwKinds, OwTree DEF OwSameUnborn
  <2> QED BY <2>1, OwUnbornKept
<1>16. OwGDead(objs1) BY <1>0, <1>2, OwTree DEF OwGDead
<1>17. OwGOwned(objs1, F1)
  <2>1. ASSUME NEW q \in OwObject, NEW d \in objs1[q].owned
        PROVE  /\ OwParent[d] = q /\ objs1[d].st = "live"
               /\ OwOwn(d) \notin F1 /\ ~OwAsked(objs1, F1, d)
    <3>1. d \in OwObject /\ (d \in objs[q].owned \/ (q = p /\ d = c0))
      <4>1. d \in objs[q].owned \/ (q = p /\ d = c0) BY <1>2, <2>1
      <4>2. objs[q].owned \subseteq OwObject BY <1>1 DEF OwFields
      <4> QED BY <4>1, <4>2, <1>0
    <3>2. CASE d \in objs[q].owned
      <4>1. /\ OwParent[d] = q /\ objs[d].st = "live"
            /\ OwOwn(d) \notin F /\ ~OwAsked(objs, F, d)
        BY <3>2 DEF OwGOwned
      <4> QED BY <3>1, <4>1, <1>2, <1>3, <1>5
    <3>3. CASE q = p /\ d = c0 BY <3>3, <1>0, <1>2, <1>3, <1>5
    <3> QED BY <3>1, <3>2, <3>3
  <2>2. ASSUME NEW d \in OwObject, OwOwn(d) \in F1
        PROVE  objs1[d].st = "live" /\ ~OwAsked(objs1, F1, d)
    <3>1. OwOwn(d) \in F /\ d # c0 BY <2>2, <1>0, <1>3
    <3>2. objs[d].st = "live" /\ ~OwAsked(objs, F, d) BY <3>1 DEF OwGOwned
    <3> QED BY <3>1, <3>2, <1>2, <1>5
  <2>3. ASSUME NEW d \in OwObject, d # OwRoot, objs1[d].st = "live"
        PROVE  OwOwn(d) \in F1 \/ d \in objs1[OwParent[d]].owned \/ OwAsked(objs1, F1, d)
    <3>1. objs[d].st = "live" /\ OwParent[d] \in OwObject BY <2>3, <1>2, OwTree
    <3>2. OwOwn(d) \in F \/ d \in objs[OwParent[d]].owned \/ OwAsked(objs, F, d)
      BY <2>3, <3>1 DEF OwGOwned
    <3>3. CASE d = c0 BY <3>3, <1>0, <1>2
    <3>4. CASE d # c0 BY <3>1, <3>2, <3>4, <1>2, <1>3, <1>5
    <3> QED BY <3>3, <3>4
  <2> QED BY <2>1, <2>2, <2>3 DEF OwGOwned
<1>18. OwGTerm(objs1, F1) BY <1>0, <1>2, <1>3, OwTree DEF OwGTerm
<1>19. OwGPipe(objs1, F1, P) BY <1>0, <1>1, <1>2, <1>3, OwTree DEF OwGPipe, OwSessions
<1>20. OwGEngine(objs1, F1)
  <2>1. \A c \in OwObject : OwActive(objs1, F1, c) => OwActive(objs, F, c)
    BY <1>0, <1>2, <1>3 DEF OwActive
  <2>2. \A c \in OwObject : objs[c].fd => OwPlug(c) \notin F BY DEF OwGEngine
  <2>3. OwLessEngine(objs, F, objs1, F1) BY <2>1, <2>2, <1>0, <1>2, <1>3 DEF OwLessEngine
  <2> QED BY <2>3, OwEngineKept
<1>21. OwGReq(objs1, F1) BY <1>0, <1>2, <1>3 DEF OwGReq
<1> QED BY <1>10, <1>11, <1>12, <1>14, <1>15, <1>16, <1>17, <1>18, <1>19, <1>20, <1>21 DEF objs1, F1

\* process_term: an object that was asked to terminate, or the socket, asks
\* its children, and the socket its pipes; a session has no pipe any more.
LEMMA OwTerminateGood ==
    ASSUME NEW objs, NEW F, NEW P, OwGood(objs, F, P),
           NEW o \in OwObject, objs[o].st = "live", ~objs[o].term, objs[o].pipe # "sent",
           o = OwRoot \/ OwAsked(objs, F, o),
           NEW k \in Nat, k = IF o = OwRoot THEN Cardinality(P) ELSE 0
    PROVE  OwGood([objs EXCEPT ![o] = OwTermFields([objs[o] EXCEPT !.pipe = "none"], k)],
                  (F \ {OwTerm(o)}) \cup {OwTerm(c) : c \in objs[o].owned}, P)
<1> DEFINE objs1 == [objs EXCEPT ![o] = OwTermFields([objs[o] EXCEPT !.pipe = "none"], k)]
           F1 == (F \ {OwTerm(o)}) \cup {OwTerm(c) : c \in objs[o].owned}
<1> USE DEF OwGood
<1>1. objs \in [OwObject -> OwFields] /\ F \subseteq OwCommand /\ IsFiniteSet(F)
      /\ P \subseteq OwSessions
  BY OwCommandFinite DEF OwGType
<1>0. /\ objs[o].st = "live" /\ ~objs[o].term /\ objs[o].pipe # "sent" /\ OwBind(o) \notin F
      /\ objs[o].owned \subseteq OwObject /\ IsFiniteSet(objs[o].owned)
      /\ Cardinality(objs[o].owned) \in Nat /\ (o # OwRoot => OwAsked(objs, F, o))
      /\ \A c \in objs[o].owned :
            /\ OwParent[c] = o /\ objs[c].st = "live" /\ OwOwn(c) \notin F
            /\ ~OwAsked(objs, F, c) /\ OwTerm(c) \notin F /\ OwAck(c) \notin F
            /\ ~objs[c].term /\ ~objs[c].pending /\ c # OwRoot /\ c # o
      /\ o = OwRoot => OwTerm(o) \notin F
  <2>1. objs[o].owned \subseteq OwObject BY <1>1 DEF OwFields
  <2>2. IsFiniteSet(objs[o].owned) /\ Cardinality(objs[o].owned) \in Nat
    BY <2>1, OwAssumption, FS_Subset, FS_CardinalityType
  <2>3. OwBind(o) \notin F BY DEF OwGPipe
  <2>4. ASSUME NEW c \in objs[o].owned
        PROVE  /\ OwParent[c] = o /\ objs[c].st = "live" /\ OwOwn(c) \notin F
               /\ ~OwAsked(objs, F, c) /\ OwTerm(c) \notin F /\ OwAck(c) \notin F
               /\ ~objs[c].term /\ ~objs[c].pending /\ c # OwRoot /\ c # o
    <3>1. /\ OwParent[c] = o /\ objs[c].st = "live" /\ OwOwn(c) \notin F
          /\ ~OwAsked(objs, F, c) /\ c \in OwObject
      BY <2>1 DEF OwGOwned
    <3>2. OwTerm(c) \notin F /\ ~objs[c].term /\ ~objs[c].pending BY <3>1 DEF OwAsked
    <3>3. OwAck(c) \notin F BY <3>1 DEF OwGTerm
    <3> QED BY <3>1, <3>2, <3>3, OwTree
  <2>5. o = OwRoot => OwTerm(o) \notin F BY OwKinds DEF OwGShape
  <2> QED BY <2>1, <2>2, <2>3, <2>4, <2>5
<1>2. /\ objs1 \in [OwObject -> OwFields]
      /\ \A x \in OwObject : x # o => objs1[x] = objs[x]
      /\ objs1[o].term
      /\ \A x \in OwObject : x # o => objs1[x].term = objs[x].term
      /\ objs1[o].acks = objs[o].acks + Cardinality(objs[o].owned) + k
      /\ objs1[o].owned = {}
      /\ ~objs1[o].pending
      /\ objs1[o].pipe = "none"
      /\ ~objs1[o].fd
      /\ \A x \in OwObject :
            /\ objs1[x].st = objs[x].st /\ objs1[x].sent = objs[x].sent
            /\ objs1[x].done = objs[x].done /\ objs1[x].engine = objs[x].engine
  <2>1. objs1 \in [OwObject -> OwFields]
    <3> DEFINE n == objs[o].acks + Cardinality(objs[o].owned) + k
               r1 == [objs[o] EXCEPT !.pipe = "none"]
               r2 == [r1 EXCEPT !.term = TRUE]
               r3 == [r2 EXCEPT !.pending = FALSE]
               r4 == [r3 EXCEPT !.owned = {}]
               r5 == [r4 EXCEPT !.fd = FALSE]
               r6 == [r5 EXCEPT !.acks = n]
    <3>1. objs[o] \in OwFields /\ n \in Nat BY <1>0, <1>1 DEF OwFields
    <3>2. r1 \in OwFields BY <3>1, OwRecords
    <3>3. r2 \in OwFields BY <3>2, OwRecords
    <3>4. r3 \in OwFields BY <3>3, OwRecords
    <3>5. r4 \in OwFields BY <3>4, OwRecords
    <3>6. r5 \in OwFields BY <3>5, OwRecords
    <3>7. r6 \in OwFields BY <3>1, <3>6, OwRecords
    <3>8. OwTermFields(r1, k) = r6 BY <3>1 DEF OwTermFields, OwFields
    <3>9. objs1 = [objs EXCEPT ![o] = r6] BY <3>8
    <3> HIDE DEF r6
    <3> QED BY <1>1, <3>7, <3>9
  <2>2. \A x \in OwObject : x # o => objs1[x] = objs[x] BY <1>1
  <2>3. /\ objs1[o].term
        /\ \A x \in OwObject : x # o => objs1[x].term = objs[x].term
        /\ objs1[o].acks = objs[o].acks + Cardinality(objs[o].owned) + k
        /\ objs1[o].owned = {}
        /\ ~objs1[o].pending
        /\ objs1[o].pipe = "none"
        /\ ~objs1[o].fd
    BY <1>0, <1>1 DEF OwFields, OwTermFields
  <2>4. \A x \in OwObject :
            /\ objs1[x].st = objs[x].st /\ objs1[x].sent = objs[x].sent
            /\ objs1[x].done = objs[x].done /\ objs1[x].engine = objs[x].engine
    BY <1>0, <1>1 DEF OwFields, OwTermFields
  <2> QED BY <2>1, <2>2, <2>3, <2>4
<1>3. /\ \A x \in F1 : x \in F \/ \E c \in objs[o].owned : x = OwTerm(c)
      /\ \A c \in OwObject :
            /\ OwPlug(c) \in F1 <=> OwPlug(c) \in F
            /\ OwAttach(c) \in F1 <=> OwAttach(c) \in F
            /\ OwTerm(c) \in F1 <=> (OwTerm(c) \in F /\ c # o) \/ c \in objs[o].owned
            /\ OwBind(c) \in F1 <=> OwBind(c) \in F
            /\ OwOwn(c) \in F1 <=> OwOwn(c) \in F
            /\ OwReq(c) \in F1 <=> OwReq(c) \in F
            /\ OwAck(c) \in F1 <=> OwAck(c) \in F
  BY <1>0, <1>1, OwKinds, OwTree
<1>4. \A x \in OwObject : OwNumbered(F1, x) = OwNumbered(F, x)
  <2>1. OwTerm(o).type = "term" /\ \A c \in objs[o].owned : OwTerm(c).type = "term"
    BY <1>0, OwKinds
  <2> QED BY <2>1 DEF OwNumbered
<1>5. /\ OwAsked(objs1, F1, o) /\ \A c \in objs[o].owned : OwAsked(objs1, F1, c)
      /\ \A c \in OwObject : c # o /\ c \notin objs[o].owned =>
                (OwAsked(objs1, F1, c) <=> OwAsked(objs, F, c))
  <2>1. OwAsked(objs1, F1, o) BY <1>2 DEF OwAsked
  <2>2. \A c \in objs[o].owned : OwAsked(objs1, F1, c) BY <1>0, <1>3 DEF OwAsked
  <2>3. \A c \in OwObject : c # o /\ c \notin objs[o].owned =>
                (OwAsked(objs1, F1, c) <=> OwAsked(objs, F, c))
    BY <1>2, <1>3 DEF OwAsked
  <2> QED BY <2>1, <2>2, <2>3
<1> HIDE DEF objs1, F1
<1>10. OwGType(objs1, F1, P) BY <1>0, <1>1, <1>2, <1>3, OwKinds DEF OwGType
<1>11. OwGShape(F1)
  <2>1. \A c \in objs[o].owned : /\ OwTerm(c).type = "term" /\ OwTerm(c).obj = OwNone
                                 /\ OwTerm(c).to # OwRoot
    BY <1>0, OwKinds
  <2> QED BY <2>1, <1>3 DEF OwGShape
<1>12. OwGCount(objs1, F1)
  <2> SUFFICES ASSUME NEW x \in OwObject
               PROVE  objs1[x].sent = objs1[x].done + Cardinality(OwNumbered(F1, x))
      BY DEF OwGCount
  <2>1. objs[x].sent \in Nat /\ objs[x].done \in Nat /\ Cardinality(OwNumbered(F, x)) \in Nat
    BY <1>1, FS_Subset, FS_CardinalityType DEF OwFields, OwNumbered
  <2>2. objs[x].sent = objs[x].done + Cardinality(OwNumbered(F, x)) BY DEF OwGCount
  <2> QED BY <2>1, <2>2, <1>0, <1>2, <1>4
<1>13. ASSUME NEW q \in OwObject, q # o PROVE OwAwaited(objs1, F1, q) = OwAwaited(objs, F, q)
  <2>1. \A c \in OwChildren(q) : c \in OwObject /\ c \notin objs[o].owned /\ c # OwRoot
    BY <1>0, <1>13, OwTree DEF OwChildren
  <2>2. ASSUME NEW c \in OwChildren(q)
        PROVE  (OwAck(c) \in F1 \/ (objs1[c].st = "live" /\ OwAsked(objs1, F1, c)))
               <=> (OwAck(c) \in F \/ (objs[c].st = "live" /\ OwAsked(objs, F, c)))
    BY <2>1, <1>0, <1>2, <1>3, <1>5
  <2> QED BY <2>2 DEF OwAwaited
<1>14. OwGAcks(objs1, F1, P)
  <2> DEFINE W == OwAwaited(objs, F, o)
             S == objs[o].owned
  <2>1. OwAwaited(objs1, F1, o) = W \cup S
    <3>1. S \subseteq OwChildren(o) /\ \A c \in OwChildren(o) : c \in OwObject /\ c # o
      BY <1>0, OwTree DEF OwChildren
    <3>2. ASSUME NEW c \in OwChildren(o)
          PROVE  (OwAck(c) \in F1 \/ (objs1[c].st = "live" /\ OwAsked(objs1, F1, c)))
                 <=> (OwAck(c) \in F \/ (objs[c].st = "live" /\ OwAsked(objs, F, c)) \/ c \in S)
      BY <3>1, <1>0, <1>2, <1>3, <1>5
    <3> QED BY <3>1, <3>2 DEF OwAwaited
  <2>2. W \cap S = {} BY <1>0 DEF OwAwaited
  <2>3. IsFiniteSet(W) /\ Cardinality(W) \in Nat BY OwAwaitedFinite
  <2>4. Cardinality(OwAwaited(objs1, F1, o)) = Cardinality(W) + Cardinality(S)
    <3>1. Cardinality(W \cup S) = Cardinality(W) + Cardinality(S) - Cardinality(W \cap S)
      BY <2>3, <1>0, FS_Union
    <3>2. Cardinality(W \cap S) = 0 BY <2>2, FS_EmptySet
    <3>3. Cardinality(S) \in Nat BY <1>0
    <3> HIDE DEF W, S
    <3> QED BY <2>1, <2>3, <3>1, <3>2, <3>3
  <2>5. objs[o].acks = Cardinality(W) BY <1>0, <2>3 DEF OwGAcks
  <2>6. objs1[o].acks = Cardinality(OwAwaited(objs1, F1, o))
                        + (IF o = OwRoot /\ objs1[o].term THEN Cardinality(P) ELSE 0)
    BY <2>3, <2>4, <2>5, <1>0, <1>2
  <2> QED BY <2>6, <1>2, <1>13 DEF OwGAcks
<1>15. OwGUnborn(objs1, F1, P)
  <2>1. OwSameUnborn(objs, F, P, objs1, F1, P)
    BY <1>0, <1>1, <1>2, <1>3, OwKinds, OwTree DEF OwSameUnborn
  <2> QED BY <2>1, OwUnbornKept
<1>16. OwGDead(objs1) BY <1>0, <1>2, OwTree DEF OwGDead
<1>17. OwGOwned(objs1, F1)
  <2>1. ASSUME NEW q \in OwObject, NEW d \in objs1[q].owned
        PROVE  /\ OwParent[d] = q /\ objs1[d].st = "live"
               /\ OwOwn(d) \notin F1 /\ ~OwAsked(objs1, F1, d)
    <3>1. q # o /\ d \in objs[q].owned /\ d \in OwObject BY <1>1, <1>2, <2>1 DEF OwFields
    <3>2. /\ OwParent[d] = q /\ objs[d].st = "live"
          /\ OwOwn(d) \notin F /\ ~OwAsked(objs, F, d)
      BY <3>1 DEF OwGOwned
    <3>3. d \notin objs[o].owned /\ d # o
      <4>1. d # OwRoot BY <3>2, <2>1, OwTree
      <4> QED BY <4>1, <3>1, <3>2, <1>0
    <3> QED BY <3>1, <3>2, <3>3, <1>2, <1>3, <1>5
  <2>2. ASSUME NEW d \in OwObject, OwOwn(d) \in F1
        PROVE  objs1[d].st = "live" /\ ~OwAsked(objs1, F1, d)
    <3>1. OwOwn(d) \in F /\ d \notin objs[o].owned BY <2>2, <1>0, <1>3
    <3>2. objs[d].st = "live" /\ ~OwAsked(objs, F, d) BY <3>1 DEF OwGOwned
    <3>3. d # OwRoot BY <3>1, <1>1, OwKinds
    <3> QED BY <3>1, <3>2, <3>3, <1>0, <1>2, <1>5
  <2>3. ASSUME NEW d \in OwObject, d # OwRoot, objs1[d].st = "live"
        PROVE  OwOwn(d) \in F1 \/ d \in objs1[OwParent[d]].owned \/ OwAsked(objs1, F1, d)
    <3>1. objs[d].st = "live" /\ OwParent[d] \in OwObject BY <2>3, <1>2, OwTree
    <3>2. OwOwn(d) \in F \/ d \in objs[OwParent[d]].owned \/ OwAsked(objs, F, d)
      BY <2>3, <3>1 DEF OwGOwned
    <3>3. CASE d = o \/ d \in objs[o].owned BY <3>3, <1>5
    <3>4. CASE d # o /\ d \notin objs[o].owned
      <4>1. d \in objs[OwParent[d]].owned => OwParent[d] # o BY <3>4
      <4> QED BY <3>1, <3>2, <3>4, <4>1, <1>2, <1>3, <1>5
    <3> QED BY <3>3, <3>4
  <2> QED BY <2>1, <2>2, <2>3 DEF OwGOwned
<1>18. OwGTerm(objs1, F1) BY <1>0, <1>2, <1>3, OwTree DEF OwGTerm
<1>19. OwGPipe(objs1, F1, P) BY <1>0, <1>1, <1>2, <1>3, OwTree DEF OwGPipe, OwSessions
<1>20. OwGEngine(objs1, F1)
  <2>1. \A c \in OwObject : OwActive(objs1, F1, c) => OwActive(objs, F, c)
    BY <1>0, <1>2, <1>3 DEF OwActive
  <2>2. \A c \in OwObject : objs[c].fd => OwPlug(c) \notin F BY DEF OwGEngine
  <2>3. OwLessEngine(objs, F, objs1, F1) BY <2>1, <2>2, <1>0, <1>2, <1>3 DEF OwLessEngine
  <2> QED BY <2>3, OwEngineKept
<1>21. OwGReq(objs1, F1) BY <1>0, <1>2, <1>3 DEF OwGReq
<1> QED BY <1>10, <1>11, <1>12, <1>14, <1>15, <1>16, <1>17, <1>18, <1>19, <1>20, <1>21 DEF objs1, F1

\* launch_child: a new object, which nothing is known of, and its two commands.
LEMMA OwBirthGood ==
    ASSUME NEW objs, NEW F, NEW P, OwGood(objs, F, P),
           NEW p \in OwObject, NEW c0 \in OwObject, OwParent[c0] = p,
           objs[p].st = "live", objs[c0].st = "unborn",
           OwRole[c0] = "connecter" =>
                /\ OwAttach(p) \notin F /\ ~objs[p].engine /\ OwPlug(p) \notin F
                /\ \A d \in OwChildren(p) : ~OwActive(objs, F, d)
    PROVE  OwGood(OwBorn(objs, p, c0), (F \cup {OwPlug(c0)}) \cup {OwOwn(c0)}, P)
<1> DEFINE objs1 == OwBorn(objs, p, c0)
           F1 == (F \cup {OwPlug(c0)}) \cup {OwOwn(c0)}
<1> USE DEF OwGood
<1>1. objs \in [OwObject -> OwFields] /\ F \subseteq OwCommand /\ IsFiniteSet(F)
      /\ P \subseteq OwSessions
  BY OwCommandFinite DEF OwGType
<1>0. /\ p \in OwObject /\ c0 \in OwObject /\ OwParent[c0] = p /\ p # c0 /\ c0 # OwRoot
      /\ objs[p].st = "live" /\ objs[c0].st = "unborn" /\ c0 \notin P
      /\ ~objs[c0].term /\ ~objs[c0].pending /\ ~objs[c0].engine /\ ~objs[c0].fd
      /\ objs[c0].pipe = "none" /\ objs[c0].owned = {}
      /\ \A x \in F : x.to # c0 /\ x.obj # c0
      /\ \A d \in OwChildren(c0) : objs[d].st = "unborn"
      /\ OwPlug(c0) \notin F /\ OwOwn(c0) \notin F /\ OwTerm(c0) \notin F
      /\ OwAttach(c0) \notin F /\ OwReq(c0) \notin F /\ OwAck(c0) \notin F
      /\ \A q \in OwObject : c0 \notin objs[q].owned
  <2>1. /\ c0 # OwRoot /\ c0 \notin P
        /\ ~objs[c0].term /\ ~objs[c0].pending /\ ~objs[c0].engine /\ ~objs[c0].fd
        /\ objs[c0].pipe = "none" /\ objs[c0].owned = {}
        /\ \A x \in F : x.to # c0 /\ x.obj # c0
        /\ \A d \in OwChildren(c0) : objs[d].st = "unborn"
    BY DEF OwGUnborn
  <2>2. \A q \in OwObject : c0 \notin objs[q].owned BY DEF OwGOwned
  <2> QED BY <2>1, <2>2, OwKinds
<1>2. /\ objs1 \in [OwObject -> OwFields]
      /\ \A x \in OwObject : x # p /\ x # c0 => objs1[x] = objs[x]
      /\ objs1[c0].st = "live"
      /\ \A x \in OwObject : x # c0 => objs1[x].st = objs[x].st
      /\ objs1[c0].sent = objs[c0].sent + 1
      /\ objs1[p].sent = objs[p].sent + 1
      /\ \A x \in OwObject :
            /\ objs1[x].term = objs[x].term /\ objs1[x].done = objs[x].done
            /\ objs1[x].acks = objs[x].acks /\ objs1[x].owned = objs[x].owned
            /\ objs1[x].engine = objs[x].engine /\ objs1[x].pending = objs[x].pending
            /\ objs1[x].pipe = objs[x].pipe /\ objs1[x].fd = objs[x].fd
  <2>1. objs1 \in [OwObject -> OwFields]
    <3> DEFINE a == [objs[c0] EXCEPT !.st = "live"]
               b == [a EXCEPT !.sent = @ + 1]
               d == [objs[p] EXCEPT !.sent = @ + 1]
    <3>1. objs[c0] \in OwFields /\ objs[p] \in OwFields BY <1>0, <1>1
    <3>2. a \in OwFields BY <3>1, OwRecords
    <3>3. a.sent + 1 \in Nat /\ objs[p].sent + 1 \in Nat BY <3>1, <3>2 DEF OwFields
    <3>4. b \in OwFields BY <3>2, <3>3, OwRecords
    <3>5. d \in OwFields BY <3>1, <3>3, OwRecords
    <3>6. objs1 = [objs EXCEPT ![c0] = b, ![p] = d] BY <1>0 DEF OwBorn
    <3> HIDE DEF b, d
    <3> QED BY <1>1, <3>4, <3>5, <3>6
  <2>2. \A x \in OwObject : x # p /\ x # c0 => objs1[x] = objs[x] BY <1>1 DEF OwBorn
  <2>3. /\ objs1[c0].st = "live"
        /\ \A x \in OwObject : x # c0 => objs1[x].st = objs[x].st
        /\ objs1[c0].sent = objs[c0].sent + 1
        /\ objs1[p].sent = objs[p].sent + 1
    BY <1>0, <1>1 DEF OwFields, OwBorn
  <2>4. \A x \in OwObject :
            /\ objs1[x].term = objs[x].term /\ objs1[x].done = objs[x].done
            /\ objs1[x].acks = objs[x].acks /\ objs1[x].owned = objs[x].owned
            /\ objs1[x].engine = objs[x].engine /\ objs1[x].pending = objs[x].pending
            /\ objs1[x].pipe = objs[x].pipe /\ objs1[x].fd = objs[x].fd
    BY <1>0, <1>1 DEF OwFields, OwBorn
  <2> QED BY <2>1, <2>2, <2>3, <2>4
<1>3. /\ F \subseteq F1 /\ \A x \in F1 : x \in F \/ x = OwPlug(c0) \/ x = OwOwn(c0)
      /\ \A c \in OwObject :
            /\ OwPlug(c) \in F1 <=> OwPlug(c) \in F \/ c = c0
            /\ OwAttach(c) \in F1 <=> OwAttach(c) \in F
            /\ OwTerm(c) \in F1 <=> OwTerm(c) \in F
            /\ OwBind(c) \in F1 <=> OwBind(c) \in F
            /\ OwOwn(c) \in F1 <=> OwOwn(c) \in F \/ c = c0
            /\ OwReq(c) \in F1 <=> OwReq(c) \in F
            /\ OwAck(c) \in F1 <=> OwAck(c) \in F
  BY <1>0, <1>1, OwKinds, OwTree
<1>4. \A x \in OwObject : Cardinality(OwNumbered(F1, x)) =
            IF x = p \/ x = c0 THEN Cardinality(OwNumbered(F, x)) + 1
            ELSE Cardinality(OwNumbered(F, x))
  <2> DEFINE G == F \cup {OwPlug(c0)}
  <2>1. OwPlug(c0) \notin F /\ OwPlug(c0).type \in {"plug", "own", "attach", "bind"}
        /\ OwPlug(c0).to = c0
    BY <1>0, OwKinds
  <2>2. OwOwn(c0) \notin G /\ OwOwn(c0).type \in {"plug", "own", "attach", "bind"}
        /\ OwOwn(c0).to = p
    BY <1>0, OwKinds
  <2>3. IsFiniteSet(G) BY <1>1, FS_AddElement
  <2>4. \A x \in OwObject : Cardinality(OwNumbered(G, x)) =
            IF x = c0 THEN Cardinality(OwNumbered(F, x)) + 1 ELSE Cardinality(OwNumbered(F, x))
    BY <2>1, <1>1, OwCountAdd
  <2>5. F1 = G \cup {OwOwn(c0)} OBVIOUS
  <2> HIDE DEF G, F1
  <2>6. \A x \in OwObject : Cardinality(OwNumbered(F1, x)) =
            IF x = p THEN Cardinality(OwNumbered(G, x)) + 1 ELSE Cardinality(OwNumbered(G, x))
    BY <2>2, <2>3, <2>5, OwCountAdd
  <2> QED BY <2>4, <2>6, <1>0
<1>5. \A c \in OwObject : OwAsked(objs1, F1, c) <=> OwAsked(objs, F, c)
  BY <1>0, <1>2, <1>3 DEF OwAsked
<1>6. ~OwAsked(objs, F, c0) BY <1>0 DEF OwAsked
<1> HIDE DEF objs1, F1
<1>10. OwGType(objs1, F1, P) BY <1>0, <1>1, <1>2, <1>3, OwKinds, OwTree DEF OwGType
<1>11. OwGShape(F1) BY <1>0, <1>3, OwKinds, OwTree DEF OwGShape
<1>12. OwGCount(objs1, F1)
  <2> SUFFICES ASSUME NEW x \in OwObject
               PROVE  objs1[x].sent = objs1[x].done + Cardinality(OwNumbered(F1, x))
      BY DEF OwGCount
  <2>1. objs[x].sent \in Nat /\ objs[x].done \in Nat /\ Cardinality(OwNumbered(F, x)) \in Nat
    BY <1>1, FS_Subset, FS_CardinalityType DEF OwFields, OwNumbered
  <2>2. objs[x].sent = objs[x].done + Cardinality(OwNumbered(F, x)) BY DEF OwGCount
  <2> QED BY <2>1, <2>2, <1>0, <1>2, <1>4
<1>13. \A q \in OwObject : OwAwaited(objs1, F1, q) = OwAwaited(objs, F, q)
  <2>1. OwSameAwaited(objs, F, objs1, F1)
    BY <1>0, <1>2, <1>3, <1>5, <1>6 DEF OwSameAwaited
  <2> QED BY <2>1, OwAwaitedKept
<1>14. OwGAcks(objs1, F1, P) BY <1>2, <1>13 DEF OwGAcks
<1>15. OwGUnborn(objs1, F1, P)
  <2> SUFFICES ASSUME NEW c \in OwObject, objs1[c].st = "unborn"
               PROVE  /\ c # OwRoot /\ c \notin P
                      /\ ~objs1[c].term /\ ~objs1[c].pending /\ ~objs1[c].engine /\ ~objs1[c].fd
                      /\ objs1[c].pipe = "none" /\ objs1[c].owned = {}
                      /\ \A x \in F1 : x.to # c /\ x.obj # c
                      /\ \A d \in OwChildren(c) : objs1[d].st = "unborn"
      BY DEF OwGUnborn
  <2>1. c # c0 /\ c # p /\ objs[c].st = "unborn" /\ objs1[c] = objs[c] BY <1>0, <1>2
  <2>2. /\ OwPlug(c0).to # c /\ OwPlug(c0).obj # c /\ OwOwn(c0).to # c /\ OwOwn(c0).obj # c
    BY <2>1, <1>0, OwKinds, OwTree
  <2>3. \A x \in F1 : x.to # c /\ x.obj # c BY <2>1, <2>2, <1>3 DEF OwGUnborn
  <2>4. \A d \in OwChildren(c) : d \in OwObject /\ d # c0 /\ objs[d].st = "unborn"
    BY <2>1, <1>0 DEF OwGUnborn, OwChildren
  <2>5. \A d \in OwChildren(c) : objs1[d].st = "unborn" BY <2>4, <1>2
  <2> QED BY <2>1, <2>3, <2>5 DEF OwGUnborn
<1>16. OwGDead(objs1) BY <1>0, <1>2, OwTree DEF OwGDead
<1>17. OwGOwned(objs1, F1)
  <2>1. ASSUME NEW q \in OwObject, NEW d \in objs1[q].owned
        PROVE  /\ OwParent[d] = q /\ objs1[d].st = "live"
               /\ OwOwn(d) \notin F1 /\ ~OwAsked(objs1, F1, d)
    <3>1. d \in objs[q].owned /\ d \in OwObject /\ d # c0
      BY <1>0, <1>1, <1>2, <2>1 DEF OwFields
    <3>2. /\ OwParent[d] = q /\ objs[d].st = "live"
          /\ OwOwn(d) \notin F /\ ~OwAsked(objs, F, d)
      BY <3>1 DEF OwGOwned
    <3> QED BY <3>1, <3>2, <1>2, <1>3, <1>5
  <2>2. ASSUME NEW d \in OwObject, OwOwn(d) \in F1
        PROVE  objs1[d].st = "live" /\ ~OwAsked(objs1, F1, d)
    <3>1. CASE d = c0 BY <3>1, <1>0, <1>2, <1>5, <1>6
    <3>2. CASE d # c0
      <4>1. OwOwn(d) \in F BY <3>2, <2>2, <1>3
      <4>2. objs[d].st = "live" /\ ~OwAsked(objs, F, d) BY <4>1 DEF OwGOwned
      <4> QED BY <3>2, <4>2, <1>2, <1>5
    <3> QED BY <3>1, <3>2
  <2>3. ASSUME NEW d \in OwObject, d # OwRoot, objs1[d].st = "live"
        PROVE  OwOwn(d) \in F1 \/ d \in objs1[OwParent[d]].owned \/ OwAsked(objs1, F1, d)
    <3>1. CASE d = c0 BY <3>1, <1>0, <1>3
    <3>2. CASE d # c0
      <4>1. objs[d].st = "live" /\ OwParent[d] \in OwObject BY <2>3, <3>2, <1>2, OwTree
      <4>2. OwOwn(d) \in F \/ d \in objs[OwParent[d]].owned \/ OwAsked(objs, F, d)
        BY <2>3, <4>1 DEF OwGOwned
      <4> QED BY <3>2, <4>1, <4>2, <1>2, <1>3, <1>5
    <3> QED BY <3>1, <3>2
  <2> QED BY <2>1, <2>2, <2>3 DEF OwGOwned
<1>18. OwGTerm(objs1, F1)
  <2>1. ~objs1[OwRoot].pending BY <1>2, OwTree DEF OwGTerm
  <2>2. ASSUME NEW c \in OwObject
        PROVE  /\ objs1[c].term => objs1[c].owned = {} /\ ~objs1[c].pending
               /\ OwTerm(c) \in F1 =>
                    objs1[c].st = "live" /\ ~objs1[c].term /\ ~objs1[c].pending
               /\ OwAck(c) \in F1 => objs1[c].st = "deleted"
    <3>1. objs[c].term => objs[c].owned = {} /\ ~objs[c].pending BY DEF OwGTerm
    <3>2. OwTerm(c) \in F => objs[c].st = "live" /\ ~objs[c].term /\ ~objs[c].pending
      BY DEF OwGTerm
    <3>3. OwAck(c) \in F => objs[c].st = "deleted" BY DEF OwGTerm
    <3>4. OwTerm(c) \in F1 => OwTerm(c) \in F BY <1>3
    <3>5. OwAck(c) \in F1 => OwAck(c) \in F BY <1>3
    <3>6. c # c0 => objs1[c].st = objs[c].st BY <1>2
    <3>7. /\ objs1[c].term = objs[c].term /\ objs1[c].owned = objs[c].owned
          /\ objs1[c].pending = objs[c].pending
      BY <1>2
    <3> QED BY <3>1, <3>2, <3>3, <3>4, <3>5, <3>6, <3>7, <1>0
  <2> QED BY <2>1, <2>2 DEF OwGTerm
<1>19. OwGPipe(objs1, F1, P) BY <1>0, <1>1, <1>2, <1>3, OwTree DEF OwGPipe, OwSessions
<1>20. OwGEngine(objs1, F1)
  <2>1. /\ \A c \in OwObject : c # c0 => (OwActive(objs1, F1, c) <=> OwActive(objs, F, c))
        /\ OwActive(objs1, F1, c0) => OwRole[c0] = "connecter"
    BY <1>2, <1>3 DEF OwActive
  <2>2. ASSUME NEW z \in OwObject
        PROVE  /\ objs1[z].fd => OwPlug(z) \notin F1
               /\ objs1[z].engine => OwAttach(z) \notin F1
               /\ OwRole[z] = "session" /\ OwPlug(z) \in F1 =>
                    OwAttach(z) \notin F1 /\ ~objs1[z].engine
    BY <1>0, <1>2, <1>3 DEF OwGEngine
  <2>3. ASSUME NEW z \in OwObject, NEW c \in OwChildren(z), OwActive(objs1, F1, c)
        PROVE  /\ OwAttach(z) \notin F1 /\ ~objs1[z].engine /\ OwPlug(z) \notin F1
               /\ \A d \in OwChildren(z) : OwActive(objs1, F1, d) => c = d
    <3>1. /\ c \in OwObject /\ OwParent[c] = z
          /\ \A d \in OwChildren(z) : d \in OwObject
      BY DEF OwChildren
    <3>2. CASE c = c0
      <4>1. z = p /\ OwRole[c0] = "connecter" BY <3>1, <3>2, <2>1, <2>3, <1>0
      <4>2. /\ OwAttach(p) \notin F /\ ~objs[p].engine /\ OwPlug(p) \notin F
            /\ \A d \in OwChildren(p) : ~OwActive(objs, F, d)
        BY <4>1
      <4> QED BY <3>1, <3>2, <4>1, <4>2, <2>1, <1>0, <1>2, <1>3
    <3>3. CASE c # c0
      <4>1. OwActive(objs, F, c) BY <3>1, <3>3, <2>1, <2>3
      <4>2. /\ OwAttach(z) \notin F /\ ~objs[z].engine /\ OwPlug(z) \notin F
            /\ \A d \in OwChildren(z) : OwActive(objs, F, d) => c = d
        BY <4>1 DEF OwGEngine
      <4>3. z # c0
        <5> SUFFICES ASSUME z = c0 PROVE FALSE OBVIOUS
        <5>1. objs[c].st = "unborn" BY <1>0, <2>3
        <5> QED BY <4>1, <5>1 DEF OwActive
      <4>4. \A d \in OwChildren(z) : OwActive(objs1, F1, d) => c = d
        <5> SUFFICES ASSUME NEW d \in OwChildren(z), OwActive(objs1, F1, d) PROVE c = d
            OBVIOUS
        <5>1. CASE d # c0 BY <5>1, <4>2, <3>1, <2>1
        <5>2. CASE d = c0
          <6>1. z = p /\ OwRole[c0] = "connecter" BY <5>2, <2>1, <1>0 DEF OwChildren
          <6>2. ~OwActive(objs, F, c) BY <6>1, <2>3
          <6> QED BY <6>2, <4>1
        <5> QED BY <5>1, <5>2
      <4> QED BY <4>2, <4>3, <4>4, <1>2, <1>3
    <3> QED BY <3>2, <3>3
  <2> QED BY <2>2, <2>3 DEF OwGEngine
<1>21. OwGReq(objs1, F1) BY <1>0, <1>2, <1>3 DEF OwGReq
<1> QED BY <1>10, <1>11, <1>12, <1>14, <1>15, <1>16, <1>17, <1>18, <1>19, <1>20, <1>21 DEF objs1, F1

\* An object loses its descriptor or its engine, a session its pipe that the
\* socket does not have any more.
LEMMA OwDropGood ==
    ASSUME NEW objs, NEW F, NEW P, OwGood(objs, F, P),
           NEW objs1 \in [OwObject -> OwFields],
           \A x \in OwObject :
            /\ objs[x].st # "live" => objs1[x] = objs[x]
            /\ objs1[x].st = objs[x].st /\ objs1[x].term = objs[x].term
            /\ objs1[x].sent = objs[x].sent /\ objs1[x].done = objs[x].done
            /\ objs1[x].acks = objs[x].acks /\ objs1[x].owned = objs[x].owned
            /\ objs1[x].pending = objs[x].pending
            /\ objs1[x].fd => objs[x].fd
            /\ objs1[x].engine => objs[x].engine
            /\ \/ objs1[x].pipe = objs[x].pipe
               \/ objs[x].pipe = "bound" /\ objs1[x].pipe = "none" /\ x \notin P
    PROVE  OwGood(objs1, F, P)
<1> USE DEF OwGood
<1>1. objs \in [OwObject -> OwFields] /\ F \subseteq OwCommand /\ P \subseteq OwSessions
  BY DEF OwGType
<1>5. \A c \in OwObject : OwAsked(objs1, F, c) <=> OwAsked(objs, F, c) BY DEF OwAsked
<1>10. OwGType(objs1, F, P) BY <1>1 DEF OwGType
<1>12. OwGCount(objs1, F) BY DEF OwGCount
<1>13. \A p \in OwObject : OwAwaited(objs1, F, p) = OwAwaited(objs, F, p)
  <2>1. OwSameAwaited(objs, F, objs1, F) BY <1>5 DEF OwSameAwaited
  <2> QED BY <2>1, OwAwaitedKept
<1>14. OwGAcks(objs1, F, P) BY <1>13 DEF OwGAcks
<1>15. OwGUnborn(objs1, F, P)
  <2>1. OwSameUnborn(objs, F, P, objs1, F, P) BY DEF OwSameUnborn
  <2> QED BY <2>1, OwUnbornKept
<1>16. OwGDead(objs1) BY DEF OwGDead
<1>17. OwGOwned(objs1, F)
  <2>1. OwSameOwned(objs, F, objs1, F) BY <1>5 DEF OwSameOwned
  <2> QED BY <2>1, <1>1, OwOwnedKept
<1>18. OwGTerm(objs1, F) BY OwTree DEF OwGTerm
<1>19. OwGPipe(objs1, F, P) BY <1>1 DEF OwGPipe, OwSessions
<1>20. OwGEngine(objs1, F)
  <2>1. \A c \in OwObject : OwActive(objs1, F, c) => OwActive(objs, F, c) BY DEF OwActive
  <2>2. \A c \in OwObject : objs[c].fd => OwPlug(c) \notin F BY DEF OwGEngine
  <2>3. OwLessEngine(objs, F, objs1, F) BY <2>1, <2>2 DEF OwLessEngine
  <2> QED BY <2>3, OwEngineKept
<1>21. OwGReq(objs1, F) BY DEF OwGReq
<1> QED BY <1>10, <1>12, <1>14, <1>15, <1>16, <1>17, <1>18, <1>19, <1>20, <1>21

\* The socket attaches the pipe of a new session.
LEMMA OwPipeBornGood ==
    ASSUME NEW objs, NEW F, NEW P, OwGood(objs, F, P), NEW s \in OwSessions,
           objs[s].st = "live", objs[s].pipe = "none", ~objs[s].term, ~objs[OwRoot].term
    PROVE  OwGood([objs EXCEPT ![s].pipe = "bound"], F, P \cup {s})
<1> DEFINE objs1 == [objs EXCEPT ![s].pipe = "bound"]
           P1 == P \cup {s}
<1> USE DEF OwGood
<1>0. s \in OwObject /\ s # OwRoot BY OwTree DEF OwSessions
<1>1. objs \in [OwObject -> OwFields] /\ F \subseteq OwCommand /\ P \subseteq OwSessions
  BY DEF OwGType
<1>2. /\ objs1 \in [OwObject -> OwFields] /\ objs1[s].pipe = "bound"
      /\ \A x \in OwObject : x # s => objs1[x] = objs[x]
      /\ \A x \in OwObject :
            /\ objs1[x].st = objs[x].st /\ objs1[x].term = objs[x].term
            /\ objs1[x].sent = objs[x].sent /\ objs1[x].done = objs[x].done
            /\ objs1[x].acks = objs[x].acks /\ objs1[x].owned = objs[x].owned
            /\ objs1[x].engine = objs[x].engine /\ objs1[x].pending = objs[x].pending
            /\ objs1[x].fd = objs[x].fd
  BY <1>0, <1>1 DEF OwFields
<1> HIDE DEF objs1
<1>5. \A c \in OwObject : OwAsked(objs1, F, c) <=> OwAsked(objs, F, c) BY <1>2 DEF OwAsked
<1>10. OwGType(objs1, F, P1) BY <1>1, <1>2 DEF OwGType
<1>12. OwGCount(objs1, F) BY <1>2 DEF OwGCount
<1>13. \A p \in OwObject : OwAwaited(objs1, F, p) = OwAwaited(objs, F, p)
  <2>1. OwSameAwaited(objs, F, objs1, F) BY <1>2, <1>5 DEF OwSameAwaited
  <2> QED BY <2>1, OwAwaitedKept
<1>14. OwGAcks(objs1, F, P1) BY <1>2, <1>13 DEF OwGAcks
<1>15. OwGUnborn(objs1, F, P1)
  <2>1. OwSameUnborn(objs, F, P, objs1, F, P1) BY <1>0, <1>2 DEF OwSameUnborn
  <2> QED BY <2>1, OwUnbornKept
<1>16. OwGDead(objs1) BY <1>2 DEF OwGDead
<1>17. OwGOwned(objs1, F)
  <2>1. OwSameOwned(objs, F, objs1, F) BY <1>2, <1>5 DEF OwSameOwned
  <2> QED BY <2>1, <1>1, OwOwnedKept
<1>18. OwGTerm(objs1, F) BY <1>2, OwTree DEF OwGTerm
<1>19. OwGPipe(objs1, F, P1) BY <1>0, <1>1, <1>2 DEF OwGPipe, OwSessions
<1>20. OwGEngine(objs1, F)
  <2>1. \A c \in OwObject : OwActive(objs1, F, c) => OwActive(objs, F, c) BY <1>2 DEF OwActive
  <2>2. \A c \in OwObject : objs[c].fd => OwPlug(c) \notin F BY DEF OwGEngine
  <2>3. OwLessEngine(objs, F, objs1, F) BY <2>1, <2>2, <1>2 DEF OwLessEngine
  <2> QED BY <2>3, OwEngineKept
<1>21. OwGReq(objs1, F) BY <1>2 DEF OwGReq
<1> QED BY <1>10, <1>12, <1>14, <1>15, <1>16, <1>17, <1>18, <1>19, <1>20, <1>21 DEF objs1

-----------------------------------------------------------------------------
(* The mailboxes while a handler runs. *)

OwBoxes(objs, box, F) == OwBoxOK(box) /\ OwOrdered(objs, box) /\ OwFlight(box) = F

\* A handler sends a command that is not on its way.
LEMMA OwSent ==
    ASSUME NEW objs, NEW box, NEW F, OwBoxes(objs, box, F), NEW c \in OwCommand, c \notin F,
           c.type = "term_req" => objs[c.obj].st = "live"
    PROVE  OwBoxes(objs, OwSend(box, c), F \cup {c})
BY OwSendBox, OwSendOrder DEF OwBoxes

\* A thread takes the first command of its mailbox.
LEMMA OwTaken ==
    ASSUME NEW objs, NEW box, NEW F, OwBoxes(objs, box, F), NEW u \in OwThreads,
           box[u] # <<>>
    PROVE  /\ OwBoxes(objs, [box EXCEPT ![u] = Tail(@)], F \ {Head(box[u])})
           /\ Head(box[u]) \in F
BY OwRestBox DEF OwBoxes

\* process_term asks the owned objects to terminate.
LEMMA OwTermsSent ==
    ASSUME NEW objs, NEW box, NEW F, OwBoxes(objs, box, F), NEW S \in SUBSET OwObject,
           \A c \in S : OwTerm(c) \notin F
    PROVE  OwBoxes(objs, OwSendTerms(box, S), F \cup {OwTerm(c) : c \in S})
<1>1. OwBoxOK(box) /\ OwOrdered(objs, box) /\ OwFlight(box) = F BY DEF OwBoxes
<1>2. \A c \in S : OwTerm(c) \notin OwFlight(box) BY <1>1
<1> QED BY <1>1, <1>2, OwSendTermsBox DEF OwBoxes

\* launch_child sends its two commands.
LEMMA OwLaunched ==
    ASSUME NEW objs, NEW box, NEW F, OwBoxes(objs, box, F), NEW c \in OwObject,
           c # OwRoot, OwPlug(c) \notin F, OwOwn(c) \notin F
    PROVE  OwBoxes(objs, OwLaunch(box, OwParent[c], c), (F \cup {OwPlug(c)}) \cup {OwOwn(c)})
<1>1. /\ OwPlug(c) \in OwCommand /\ OwOwn(c) \in OwCommand
      /\ OwPlug(c).type = "plug" /\ OwOwn(c).type = "own"
  BY OwKinds
<1>2. OwBoxes(objs, OwSend(box, OwPlug(c)), F \cup {OwPlug(c)}) BY <1>1, OwSent
<1>3. OwOwn(c) \notin F \cup {OwPlug(c)} BY <1>1
<1>4. OwBoxes(objs, OwSend(OwSend(box, OwPlug(c)), OwOwn(c)),
              (F \cup {OwPlug(c)}) \cup {OwOwn(c)})
  BY <1>1, <1>2, <1>3, OwSent
<1> QED BY <1>4 DEF OwLaunch, OwPlug, OwOwn

OwNoneDies(objs, objs1) ==
    \A x \in OwObject : objs1[x].st # "live" => objs[x].st # "live"

\* The state that a handler leaves when it deletes nothing.
LEMMA OwArrive ==
    ASSUME NEW objs, NEW objs1, NEW box, NEW F, NEW P, OwBoxes(objs, box, F),
           OwGood(objs1, F, P), OwNoneDies(objs, objs1)
    PROVE  OwState(objs1, box, P)
<1>1. OwBoxOK(box) /\ OwOrdered(objs, box) /\ OwFlight(box) = F BY DEF OwBoxes
<1>2. OwOrdered(objs1, box)
  <2> SUFFICES ASSUME NEW t \in OwThreads, NEW i \in 1..Len(box[t]),
                      box[t][i].type = "term_req", objs1[box[t][i].obj].st # "live"
               PROVE  \E j \in 1..Len(box[t]) : j > i /\ box[t][j] = OwAck(box[t][i].obj)
      BY DEF OwOrdered
  <2>1. box[t] \in Seq(OwCommand) /\ OwThread[box[t][i].to] = t BY <1>1 DEF OwBoxOK
  <2>2. box[t][i] \in OwCommand BY <2>1
  <2>3. box[t][i] \in F BY <1>1, <2>1, <2>2 DEF OwFlight
  <2>4. box[t][i].obj \in OwObject BY <2>3 DEF OwGood, OwGShape
  <2>5. objs[box[t][i].obj].st # "live" BY <2>4 DEF OwNoneDies
  <2> QED BY <2>5, <1>1 DEF OwOrdered
<1> QED BY <1>1, <1>2 DEF OwState

\* check_term_acks, at the end of a handler.
LEMMA OwCheck ==
    ASSUME NEW objs, NEW box, NEW P, OwState(objs, box, P), NEW o \in OwObject,
           objs[o].st = "live", OwCheckTermAcks(objs, box, o)
    PROVE  OwState(owObj', owBox', P) /\ owObj'[OwRoot].term = objs[OwRoot].term
<1> DEFINE F == OwFlight(box)
<1>1. OwBoxOK(box) /\ OwOrdered(objs, box) /\ OwGood(objs, F, P) BY DEF OwState
<1>2. objs \in [OwObject -> OwFields] /\ OwGShape(F) BY <1>1 DEF OwGood, OwGType
<1>3. CASE ~OwFinished(objs[o]) BY <1>3 DEF OwCheckTermAcks
<1>4. CASE OwFinished(objs[o]) /\ o = OwRoot
  <2>1. owObj' = [objs EXCEPT ![o].st = "deleted"] /\ owBox' = box
    BY <1>4 DEF OwCheckTermAcks
  <2>2. OwGood(owObj', F, P) BY <2>1, <1>1, <1>4, OwDeleteGood
  <2>3. OwOrdered(owObj', box)
    <3> SUFFICES ASSUME NEW t \in OwThreads, NEW i \in 1..Len(box[t]),
                        box[t][i].type = "term_req", owObj'[box[t][i].obj].st # "live"
                 PROVE  \E j \in 1..Len(box[t]) : j > i /\ box[t][j] = OwAck(box[t][i].obj)
        BY DEF OwOrdered
    <3>1. box[t] \in Seq(OwCommand) /\ OwThread[box[t][i].to] = t BY <1>1 DEF OwBoxOK
    <3>2. box[t][i] \in OwCommand BY <3>1
    <3>3. box[t][i] \in F BY <3>1, <3>2 DEF OwFlight
    <3>4. /\ box[t][i].obj \in OwObject /\ OwRole[box[t][i].obj] # "socket"
      BY <3>3, <1>2 DEF OwGShape
    <3>5. box[t][i].obj # OwRoot BY <3>4, OwTree
    <3>6. objs[box[t][i].obj].st # "live" BY <3>4, <3>5, <2>1, <1>2, <1>4
    <3> QED BY <3>6, <1>1 DEF OwOrdered
  <2>4. owObj'[OwRoot].term = objs[OwRoot].term BY <2>1, <1>2, OwTree DEF OwFields
  <2> QED BY <2>1, <2>2, <2>3, <2>4, <1>1 DEF OwState
<1>5. CASE OwFinished(objs[o]) /\ o # OwRoot
  <2>1. owObj' = [objs EXCEPT ![o].st = "deleted"] /\ owBox' = OwSend(box, OwAck(o))
    BY <1>5 DEF OwCheckTermAcks, OwAck
  <2>2. OwAck(o) \in OwCommand /\ OwAck(o) \notin F BY <1>1, <1>5, OwKinds DEF OwGood, OwGTerm
  <2>3. OwBoxOK(owBox') /\ OwFlight(owBox') = F \cup {OwAck(o)}
    BY <2>1, <2>2, <1>1, OwSendBox
  <2>4. OwOrdered(owObj', owBox') BY <2>1, <1>1, <1>2, <1>5, OwDeleteOrder
  <2>5. OwGood(owObj', F \cup {OwAck(o)}, P) BY <2>1, <1>1, <1>5, OwDeleteGood
  <2>6. owObj'[OwRoot].term = objs[OwRoot].term BY <2>1, <1>2, OwTree DEF OwFields
  <2> QED BY <2>3, <2>4, <2>5, <2>6 DEF OwState
<1> QED BY <1>3, <1>4, <1>5

\* What the handlers start from.
LEMMA OwNow ==
    ASSUME OwIInv
    PROVE  /\ OwGood(owObj, OwFlight(owBox), owPipes)
           /\ OwBoxes(owObj, owBox, OwFlight(owBox))
           /\ owObj \in [OwObject -> OwFields] /\ OwFlight(owBox) \subseteq OwCommand
           /\ owPipes \subseteq OwSessions
           /\ owFailed = FALSE /\ owClosed \in BOOLEAN /\ owClosed = owObj[OwRoot].term
           /\ ~owClosed => owObj[OwRoot].st = "live"
<1>1. OwGood(owObj, OwFlight(owBox), owPipes) BY DEF OwIInv, OwState
<1>2. /\ owObj \in [OwObject -> OwFields] /\ OwFlight(owBox) \subseteq OwCommand
      /\ owPipes \subseteq OwSessions
  BY <1>1 DEF OwGood, OwGType
<1>3. owObj[OwRoot].st \in {"unborn", "live", "deleted"} BY <1>2, OwTree DEF OwFields
<1>4. ~owObj[OwRoot].term => owObj[OwRoot].st = "live"
  BY <1>1, <1>3, OwTree DEF OwGood, OwGUnborn, OwGDead
<1> QED BY <1>1, <1>2, <1>4 DEF OwIInv, OwState, OwBoxes

\* The command that a thread receives is one of the kinds, and live is whom
\* it is for.
LEMMA OwReceived ==
    ASSUME OwIInv, NEW t \in OwThreads, NEW type, OwReceive(t, type)
    PROVE  LET h == Head(owBox[t])
               F == OwFlight(owBox)
           IN  /\ OwBoxes(owObj, OwRest(t), F \ {h})
               /\ h \in F /\ h \in OwCommand /\ h.type = type
               /\ h.to \in OwObject /\ owObj[h.to].st = "live"
<1>1. OwBoxes(owObj, owBox, OwFlight(owBox)) /\ OwFlight(owBox) \subseteq OwCommand BY OwNow
<1>2. /\ owBox[t] # <<>> /\ Head(owBox[t]).type = type
      /\ owObj[Head(owBox[t]).to].st = "live"
  BY DEF OwReceive
<1>3. /\ OwBoxes(owObj, OwRest(t), OwFlight(owBox) \ {Head(owBox[t])})
      /\ Head(owBox[t]) \in OwFlight(owBox)
  BY <1>1, <1>2, OwTaken DEF OwRest
<1> QED BY <1>1, <1>2, <1>3 DEF OwCommand

\* What is left to show of a handler of the commands and events that close nothing.
LEMMA OwDone ==
    ASSUME OwIInv, OwState(owObj', owBox', owPipes'), owFailed' = FALSE,
           owClosed' = owClosed, owObj'[OwRoot].term = owObj[OwRoot].term
    PROVE  OwIInv'
BY DEF OwIInv, OwState

-----------------------------------------------------------------------------
(* The actions of the application and of the network. *)

\* Initially nothing was sent and only the socket lives.
LEMMA OwInitGood == OwInit => OwIInv
<1> SUFFICES ASSUME OwInit PROVE OwIInv OBVIOUS
<1> USE DEF OwInit
<1>1. OwFlight(owBox) = {} BY OwTree DEF OwFlight, OwCommand
<1>2. OwBoxOK(owBox) /\ OwOrdered(owObj, owBox) BY DEF OwBoxOK, OwOrdered
<1>3. owObj \in [OwObject -> OwFields] BY DEF OwFields
<1>4. /\ \A o \in OwObject : OwNumbered({}, o) = {} /\ OwAwaited(owObj, {}, o) = {}
      /\ Cardinality({}) = 0
  BY FS_EmptySet DEF OwNumbered, OwAwaited, OwAsked, OwChildren
<1>5. OwGType(owObj, {}, owPipes) BY <1>3 DEF OwGType
<1>6. OwGCount(owObj, {})
  <2> SUFFICES ASSUME NEW o \in OwObject
               PROVE  owObj[o].sent = owObj[o].done + Cardinality(OwNumbered({}, o))
      BY DEF OwGCount
  <2>1. Cardinality(OwNumbered({}, o)) = 0 BY <1>4
  <2> QED BY <2>1
<1>7. OwGAcks(owObj, {}, owPipes)
  <2> SUFFICES ASSUME NEW o \in OwObject
               PROVE  owObj[o].acks = Cardinality(OwAwaited(owObj, {}, o))
                        + (IF o = OwRoot /\ owObj[o].term THEN Cardinality(owPipes) ELSE 0)
      BY DEF OwGAcks
  <2>1. Cardinality(OwAwaited(owObj, {}, o)) = 0 BY <1>4
  <2>2. owObj[o].acks = 0 /\ owObj[o].term = FALSE OBVIOUS
  <2> QED BY <2>1, <2>2
<1>8. OwGUnborn(owObj, {}, owPipes)
  <2>1. \A c \in OwObject : \A d \in OwChildren(c) : d \in OwObject /\ d # OwRoot
    BY OwTree DEF OwChildren
  <2> QED BY <2>1 DEF OwGUnborn
<1>9. OwGDead(owObj) BY DEF OwGDead
<1>10. OwGOwned(owObj, {}) BY DEF OwGOwned
<1>11. OwGTerm(owObj, {}) BY OwTree DEF OwGTerm
<1>12. OwGPipe(owObj, {}, owPipes) BY DEF OwGPipe
<1>13. OwGEngine(owObj, {}) BY DEF OwGEngine, OwActive, OwChildren
<1>14. OwGReq(owObj, {}) /\ OwGShape({}) BY DEF OwGReq, OwGShape
<1>15. OwGood(owObj, {}, owPipes)
  BY <1>5, <1>6, <1>7, <1>8, <1>9, <1>10, <1>11, <1>12, <1>13, <1>14 DEF OwGood
<1> QED BY <1>1, <1>2, <1>15, OwTree DEF OwIInv, OwState

\* What is known of an object that does not exist yet.
LEMMA OwNothingYet ==
    ASSUME NEW objs, NEW F, NEW P, OwGood(objs, F, P), NEW c \in OwObject,
           objs[c].st = "unborn"
    PROVE  /\ c # OwRoot /\ OwPlug(c) \notin F /\ OwOwn(c) \notin F
           /\ OwAttach(c) \notin F /\ OwReq(c) \notin F
           /\ ~objs[c].term /\ ~objs[c].engine /\ objs[c].pipe = "none"
           /\ \A d \in OwChildren(c) : objs[d].st = "unborn"
BY OwKinds DEF OwGood, OwGUnborn

\* launch_child touches the new object and two counters.
LEMMA OwBornFields ==
    ASSUME NEW objs \in [OwObject -> OwFields], NEW p \in OwObject, NEW c \in OwObject, p # c
    PROVE  LET objs1 == OwBorn(objs, p, c) IN
           /\ objs1[c].st = "live" /\ \A x \in OwObject : x # c => objs1[x].st = objs[x].st
           /\ \A x \in OwObject :
                /\ objs1[x].term = objs[x].term /\ objs1[x].engine = objs[x].engine
                /\ objs1[x].pipe = objs[x].pipe /\ objs1[x].fd = objs[x].fd
           /\ OwNoneDies(objs, objs1)
BY DEF OwBorn, OwFields, OwNoneDies

\* The roles of the objects that an object launches.
LEMMA OwRoles ==
    ASSUME NEW p \in OwObject, NEW c \in OwObject, OwParent[c] = p
    PROVE  /\ c # OwRoot /\ p # c
           /\ p = OwRoot => OwRole[c] \in {"session", "listener"}
           /\ OwRole[p] = "listener" => OwRole[c] = "accepted"
           /\ OwRole[p] = "session" => OwRole[c] = "connecter"
<1>1. OwRole[c] \in {"socket", "listener", "session", "accepted", "connecter"} BY OwAssumption
<1>2. /\ OwRole[c] # "socket"
      /\ OwRole[c] \in {"listener", "session"} => OwRole[p] = "socket"
      /\ OwRole[c] = "accepted" => OwRole[p] = "listener"
      /\ OwRole[c] = "connecter" => OwRole[p] = "session"
  BY OwAssumption
<1> QED BY <1>1, <1>2, OwTree

\* zmq_connect and zmq_bind
LEMMA OwEndpointKeeps == ASSUME OwIInv, NEW c \in OwObject, OwEndpoint(c) PROVE OwIInv'
<1> DEFINE F == OwFlight(owBox)
           P == owPipes
           objs1 == OwBorn(owObj, OwRoot, c)
           F1 == (F \cup {OwPlug(c)}) \cup {OwOwn(c)}
<1>1. /\ OwGood(owObj, F, P) /\ OwBoxes(owObj, owBox, F) /\ owObj \in [OwObject -> OwFields]
      /\ ~owObj[OwRoot].term /\ owObj[OwRoot].st = "live" /\ owFailed = FALSE
  BY OwNow DEF OwEndpoint
<1>2. OwParent[c] = OwRoot /\ owObj[c].st = "unborn" BY DEF OwEndpoint, OwUnborn, OwChildren
<1>3. OwRoot \in OwObject /\ c # OwRoot /\ OwRole[c] \in {"session", "listener"}
  BY <1>2, OwRoles, OwTree
<1>4. OwGood(objs1, F1, P) BY <1>1, <1>2, <1>3, OwBirthGood
<1>5. OwPlug(c) \notin F /\ OwOwn(c) \notin F /\ owObj[c].pipe = "none" /\ ~owObj[c].term
  BY <1>1, <1>2, OwNothingYet
<1>6. OwBoxes(owObj, owBox', F1) BY <1>1, <1>2, <1>3, <1>5, OwLaunched DEF OwEndpoint
<1>7. /\ objs1[c].st = "live" /\ objs1[c].pipe = "none" /\ ~objs1[c].term
      /\ ~objs1[OwRoot].term /\ OwNoneDies(owObj, objs1)
  BY <1>1, <1>3, <1>5, OwBornFields
<1>8. objs1 \in [OwObject -> OwFields] BY <1>4 DEF OwGood, OwGType
<1>9. owFailed' = FALSE /\ owClosed' = owClosed BY <1>1 DEF OwEndpoint
<1> HIDE DEF objs1, F1
<1>10. CASE OwRole[c] = "session"
  <2>1. c \in OwSessions BY <1>10 DEF OwSessions
  <2>2. owObj' = [objs1 EXCEPT ![c].pipe = "bound"] /\ owPipes' = P \cup {c}
    BY <1>10, <2>1 DEF OwEndpoint, objs1
  <2>3. OwGood(owObj', F1, owPipes') BY <2>1, <2>2, <1>4, <1>7, OwPipeBornGood
  <2>4. OwNoneDies(objs1, owObj') /\ owObj'[OwRoot].term = objs1[OwRoot].term
    BY <2>2, <1>3, <1>8 DEF OwNoneDies, OwFields
  <2>5. OwNoneDies(owObj, owObj') BY <2>4, <1>7 DEF OwNoneDies
  <2>6. OwState(owObj', owBox', owPipes') BY <2>3, <2>5, <1>6, OwArrive
  <2>7. owObj'[OwRoot].term = owObj[OwRoot].term
    BY <2>4, <1>1, <1>3, OwBornFields DEF objs1
  <2> QED BY <2>6, <2>7, <1>9, OwDone
<1>11. CASE OwRole[c] # "session"
  <2>1. c \notin OwSessions BY <1>3, <1>11 DEF OwSessions
  <2>2. owObj' = [objs1 EXCEPT ![c].pipe = "none"] /\ owPipes' = P
    BY <1>11, <2>1 DEF OwEndpoint, objs1
  <2>3. owObj' = objs1 BY <2>2, <1>7, <1>8 DEF OwFields
  <2>4. OwState(owObj', owBox', owPipes') BY <2>2, <2>3, <1>4, <1>6, <1>7, OwArrive
  <2>5. owObj'[OwRoot].term = owObj[OwRoot].term
    BY <2>3, <1>1, <1>3, OwBornFields DEF objs1
  <2> QED BY <2>4, <2>5, <1>9, OwDone
<1> QED BY <1>10, <1>11

\* process_term_req, whoever calls it.
LEMMA OwTermReqKeeps ==
    ASSUME NEW F, NEW P, NEW box, OwGood(owObj, F, P), OwBoxes(owObj, box, F),
           NEW p \in OwObject, NEW c, OwTermReq(p, c, box)
    PROVE  OwState(owObj', owBox', P) /\ owObj'[OwRoot].term = owObj[OwRoot].term
<1>1. owObj \in [OwObject -> OwFields] BY DEF OwGood, OwGType
<1>2. CASE owObj[p].term \/ c \notin owObj[p].owned
  <2>1. owObj' = owObj /\ owBox' = box BY <1>2 DEF OwTermReq
  <2> QED BY <2>1 DEF OwState, OwBoxes
<1>3. CASE ~(owObj[p].term \/ c \notin owObj[p].owned)
  <2>1. c \in OwObject /\ c \in owObj[p].owned BY <1>1, <1>3 DEF OwFields
  <2>2. owObj' = [owObj EXCEPT ![p].owned = @ \ {c}, ![p].acks = @ + 1]
        /\ owBox' = OwSend(box, OwTerm(c))
    BY <1>3 DEF OwTermReq, OwTerm
  <2>3. OwTerm(c) \in OwCommand /\ OwTerm(c).type = "term" /\ OwTerm(c) \notin F
    BY <2>1, OwKinds DEF OwGood, OwGOwned, OwAsked
  <2>4. OwBoxes(owObj, owBox', F \cup {OwTerm(c)}) BY <2>2, <2>3, OwSent
  <2>5. OwGood(owObj', F \cup {OwTerm(c)}, P) BY <2>1, <2>2, OwAskGood
  <2>6. OwNoneDies(owObj, owObj') /\ owObj'[OwRoot].term = owObj[OwRoot].term
    BY <2>2, <1>1, OwTree DEF OwNoneDies, OwFields
  <2> QED BY <2>4, <2>5, <2>6, OwArrive
<1> QED BY <1>2, <1>3

\* term_endpoint
LEMMA OwTermEndpointKeeps == ASSUME OwIInv, NEW c, OwTermEndpoint(c) PROVE OwIInv'
<1>1. OwTermReq(OwRoot, c, owBox) /\ owPipes' = owPipes /\ owFailed' = owFailed
      /\ owClosed' = owClosed
  BY DEF OwTermEndpoint
<1>2. OwState(owObj', owBox', owPipes) /\ owObj'[OwRoot].term = owObj[OwRoot].term
  BY <1>1, OwNow, OwTree, OwTermReqKeeps
<1> QED BY <1>1, <1>2, OwNow, OwDone

\* What is on its way when an object starts to terminate.
LEMMA OwTermsAllowed ==
    ASSUME NEW objs, NEW F, NEW P, OwGood(objs, F, P), NEW o \in OwObject
    PROVE  /\ objs[o].owned \in SUBSET OwObject
           /\ \A c \in objs[o].owned : OwTerm(c) \notin F
<1>1. objs \in [OwObject -> OwFields] BY DEF OwGood, OwGType
<1> QED BY <1>1 DEF OwGood, OwGOwned, OwAsked, OwFields

\* Terminating changes no status.
LEMMA OwTermKept ==
    ASSUME NEW objs \in [OwObject -> OwFields], NEW o \in OwObject, NEW q,
           q.st = objs[o].st, q.term = TRUE, NEW objs1, objs1 = [objs EXCEPT ![o] = q]
    PROVE  /\ OwNoneDies(objs, objs1) /\ objs1[o].st = objs[o].st /\ objs1[o].term = TRUE
           /\ \A x \in OwObject : x # o => objs1[x] = objs[x]
BY DEF OwNoneDies

\* zmq_close
LEMMA OwCloseKeeps == ASSUME OwIInv, OwClose PROVE OwIInv'
<1> DEFINE F == OwFlight(owBox)
           k == Cardinality(owPipes)
           r == owObj[OwRoot]
           objs1 == [owObj EXCEPT ![OwRoot] = OwTermFields(r, k)]
           F1 == F \cup {OwTerm(c) : c \in r.owned}
           box1 == OwSendTerms(owBox, r.owned)
<1>1. /\ OwGood(owObj, F, owPipes) /\ OwBoxes(owObj, owBox, F)
      /\ owObj \in [OwObject -> OwFields] /\ owPipes \subseteq OwSessions
      /\ ~r.term /\ r.st = "live" /\ owFailed = FALSE
  BY OwNow DEF OwClose
<1>2. OwRoot \in OwObject /\ OwRoot \notin OwSessions BY OwTree DEF OwSessions
<1>3. r \in OwFields /\ r.pipe = "none" BY <1>1, <1>2 DEF OwGood, OwGPipe
<1>4. r = [r EXCEPT !.pipe = "none"] BY <1>3 DEF OwFields
<1>5. k \in Nat BY <1>1, OwPipesFinite
<1>6. OwTerm(OwRoot) \notin F BY <1>1, <1>2, OwKinds DEF OwGood, OwGShape
<1>7. F1 = (F \ {OwTerm(OwRoot)}) \cup {OwTerm(c) : c \in owObj[OwRoot].owned} BY <1>6
<1>8. objs1 = [owObj EXCEPT ![OwRoot] =
                    OwTermFields([owObj[OwRoot] EXCEPT !.pipe = "none"], k)]
  BY <1>4
<1>9. OwCheckTermAcks(objs1, box1, OwRoot) /\ owClosed' = TRUE
      /\ owPipes' = owPipes /\ owFailed' = FALSE
  BY <1>1 DEF OwClose
<1>10. OwBoxes(owObj, box1, F1) BY <1>1, <1>2, OwTermsAllowed, OwTermsSent
<1>11. OwNoneDies(owObj, objs1) /\ objs1[OwRoot].st = "live" /\ objs1[OwRoot].term = TRUE
  <2> DEFINE q == OwTermFields(r, k)
  <2>1. q.st = owObj[OwRoot].st /\ q.term = TRUE BY <1>3 DEF OwTermFields, OwFields
  <2>2. objs1 = [owObj EXCEPT ![OwRoot] = q] OBVIOUS
  <2> HIDE DEF objs1, q
  <2> QED BY <1>1, <1>2, <2>1, <2>2, OwTermKept
<1> HIDE DEF objs1, F1, box1, k
<1>12. owObj[OwRoot].pipe # "sent" BY <1>3
<1>13. OwGood(objs1, F1, owPipes)
  BY <1>1, <1>2, <1>5, <1>7, <1>8, <1>12, OwTerminateGood DEF k
<1>14. OwState(objs1, box1, owPipes) BY <1>10, <1>11, <1>13, OwArrive
<1>15. OwState(owObj', owBox', owPipes) /\ owObj'[OwRoot].term = objs1[OwRoot].term
  BY <1>2, <1>9, <1>11, <1>14, OwCheck
<1> QED BY <1>9, <1>11, <1>15 DEF OwIInv, OwState

\* tcp_listener_t::in_event
LEMMA OwAcceptKeeps ==
    ASSUME OwIInv, NEW l \in OwObject, NEW c \in OwObject, OwAccept(l, c) PROVE OwIInv'
<1> DEFINE F == OwFlight(owBox)
           P == owPipes
           objs1 == OwBorn(owObj, l, c)
           F1 == (F \cup {OwPlug(c)}) \cup {OwOwn(c)}
           box1 == OwLaunch(owBox, l, c)
<1>1. /\ OwGood(owObj, F, P) /\ OwBoxes(owObj, owBox, F) /\ owObj \in [OwObject -> OwFields]
      /\ owFailed = FALSE
  BY OwNow
<1>2. /\ OwParent[c] = l /\ owObj[c].st = "unborn" /\ owObj[l].st = "live"
      /\ OwRole[l] = "listener"
  BY DEF OwAccept, OwUnborn, OwChildren
<1>3. c # OwRoot /\ l # c /\ OwRole[c] = "accepted" /\ c \in OwSessions
  BY <1>2, OwRoles DEF OwSessions
<1>4. OwGood(objs1, F1, P) BY <1>1, <1>2, <1>3, OwBirthGood
<1>5. /\ OwPlug(c) \notin F /\ OwOwn(c) \notin F /\ OwAttach(c) \notin F /\ OwReq(c) \notin F
      /\ ~owObj[c].engine /\ \A d \in OwChildren(c) : owObj[d].st = "unborn"
  BY <1>1, <1>2, OwNothingYet
<1>6. OwBoxes(owObj, box1, F1) BY <1>1, <1>2, <1>3, <1>5, OwLaunched
<1>7. /\ objs1[c].st = "live" /\ ~objs1[c].engine /\ OwNoneDies(owObj, objs1)
      /\ \A x \in OwObject : x # c => objs1[x].st = owObj[x].st
      /\ \A x \in OwObject : objs1[x].term = owObj[x].term
  BY <1>1, <1>3, <1>5, OwBornFields
<1>8. objs1 \in [OwObject -> OwFields] BY <1>4 DEF OwGood, OwGType
<1>9. /\ OwAttach(c) \notin F1 /\ OwReq(c) \notin F1 /\ OwAttach(c) \in OwCommand
      /\ OwAttach(c).type = "attach"
  BY <1>5, OwKinds
<1>10. /\ owObj' = [objs1 EXCEPT ![c].sent = @ + 1] /\ owBox' = OwSend(box1, OwAttach(c))
       /\ owPipes' = P /\ owFailed' = FALSE /\ owClosed' = owClosed
  BY <1>1 DEF OwAccept, OwAttach
<1> HIDE DEF objs1, F1, box1
<1>11. \A d \in OwChildren(c) : ~OwActive(objs1, F1, d)
  <2> SUFFICES ASSUME NEW d \in OwChildren(c) PROVE objs1[d].st # "live" BY DEF OwActive
  <2>1. d \in OwObject /\ d # c BY OwTree DEF OwChildren
  <2> QED BY <2>1, <1>5, <1>7
<1>12. OwGood(owObj', F1 \cup {OwAttach(c)}, P)
  BY <1>3, <1>4, <1>7, <1>9, <1>10, <1>11, OwSendAttachGood
<1>13. OwBoxes(owObj, owBox', F1 \cup {OwAttach(c)}) BY <1>6, <1>9, <1>10, OwSent
<1>14. OwNoneDies(owObj, owObj') /\ owObj'[OwRoot].term = owObj[OwRoot].term
  BY <1>7, <1>8, <1>10, OwTree DEF OwNoneDies, OwFields
<1>15. OwState(owObj', owBox', P) BY <1>12, <1>13, <1>14, OwArrive
<1> QED BY <1>10, <1>14, <1>15, OwDone

\* tcp_connecter_t::out_event
LEMMA OwConnectedKeeps == ASSUME OwIInv, NEW c \in OwObject, OwConnected(c) PROVE OwIInv'
<1> DEFINE F == OwFlight(owBox)
           P == owPipes
           p == OwParent[c]
           objs1 == [owObj EXCEPT ![c].fd = FALSE]
           objs2 == [objs1 EXCEPT ![p].sent = @ + 1]
           F1 == F \cup {OwAttach(p)}
           box1 == OwSend(owBox, OwAttach(p))
<1>1. /\ OwGood(owObj, F, P) /\ OwBoxes(owObj, owBox, F) /\ owObj \in [OwObject -> OwFields]
      /\ owFailed = FALSE
  BY OwNow
<1>2. owObj[c].st = "live" /\ owObj[c].fd /\ OwRole[c] = "connecter" BY DEF OwConnected
<1>3. p \in OwObject /\ c # OwRoot /\ p # c /\ OwRole[p] = "session" /\ p \in OwSessions
      /\ c \in OwChildren(p)
  BY <1>2, OwTree, OwAssumption DEF OwSessions, OwChildren
<1>4. owObj[p].st = "live" BY <1>1, <1>2, <1>3, OwParentLive
<1>5. OwActive(owObj, F, c) /\ OwPlug(c) \notin F /\ OwReq(c) \notin F
  BY <1>1, <1>2 DEF OwActive, OwGood, OwGEngine, OwGReq
<1>6. /\ OwAttach(p) \notin F /\ ~owObj[p].engine /\ OwPlug(p) \notin F
      /\ \A d \in OwChildren(p) : OwActive(owObj, F, d) => c = d
  BY <1>1, <1>3, <1>5 DEF OwGood, OwGEngine
<1>7. /\ objs1 \in [OwObject -> OwFields] /\ objs1[c].fd = FALSE
      /\ \A x \in OwObject : x # c => objs1[x] = owObj[x]
      /\ \A x \in OwObject :
            /\ objs1[x].st = owObj[x].st /\ objs1[x].term = owObj[x].term
            /\ objs1[x].sent = owObj[x].sent /\ objs1[x].done = owObj[x].done
            /\ objs1[x].acks = owObj[x].acks /\ objs1[x].owned = owObj[x].owned
            /\ objs1[x].pending = owObj[x].pending /\ objs1[x].pipe = owObj[x].pipe
            /\ objs1[x].engine = owObj[x].engine /\ (objs1[x].fd => owObj[x].fd)
  BY <1>1, <1>2 DEF OwFields
<1>8. owObj' = objs2 BY <1>1, <1>3 DEF OwConnected
<1> HIDE DEF objs1
<1>9. OwGood(objs1, F, P)
  <2>1. \A x \in OwObject : owObj[x].st # "live" => objs1[x] = owObj[x] BY <1>2, <1>7
  <2> QED BY <2>1, <1>1, <1>7, OwDropGood
<1>10. ASSUME NEW d \in OwChildren(p) PROVE ~OwActive(objs1, F, d)
  <2>1. d \in OwObject BY DEF OwChildren
  <2>2. CASE d = c BY <2>2, <1>5, <1>7 DEF OwActive
  <2>3. CASE d # c BY <2>1, <2>3, <1>6, <1>7 DEF OwActive
  <2> QED BY <2>2, <2>3
<1>11. OwGood(objs2, F1, P) BY <1>3, <1>4, <1>6, <1>7, <1>9, <1>10, OwSendAttachGood
<1>12. OwAttach(p) \in OwCommand /\ OwAttach(p).type = "attach" BY <1>3, OwKinds
<1>13. OwBoxes(owObj, box1, F1) BY <1>1, <1>6, <1>12, OwSent
<1>14. /\ objs2[c].st = "live" /\ ~objs2[c].fd /\ OwNoneDies(owObj, objs2)
       /\ objs2[OwRoot].term = owObj[OwRoot].term
  BY <1>2, <1>3, <1>7, OwTree DEF OwNoneDies, OwFields
<1>15. owPipes' = P /\ owFailed' = FALSE /\ owClosed' = owClosed BY <1>1 DEF OwConnected
<1> HIDE DEF objs2
<1>16. CASE owObj[c].term
  <2>1. owBox' = box1 BY <1>16 DEF OwConnected, OwAttach
  <2>2. OwState(owObj', owBox', P) BY <2>1, <1>8, <1>11, <1>13, <1>14, OwArrive
  <2> QED BY <2>2, <1>8, <1>14, <1>15, OwDone
<1>17. CASE ~owObj[c].term
  <2>1. owBox' = OwSend(box1, OwReq(c)) BY <1>17 DEF OwConnected, OwAttach, OwReq
  <2>2. /\ OwReq(c) \in OwCommand /\ OwReq(c).obj = c /\ OwReq(c) \notin F1
        /\ OwPlug(c) \notin F1
    BY <1>3, <1>5, OwKinds
  <2> HIDE DEF F1, box1
  <2>3. OwBoxes(owObj, owBox', F1 \cup {OwReq(c)}) BY <2>1, <2>2, <1>2, <1>13, OwSent
  <2>4. OwGood(objs2, F1 \cup {OwReq(c)}, P)
    BY <2>2, <1>2, <1>11, <1>14, OwSendReqGood
  <2>5. OwState(owObj', owBox', P) BY <2>3, <2>4, <1>8, <1>14, OwArrive
  <2> QED BY <2>5, <1>8, <1>14, <1>15, OwDone
<1> QED BY <1>16, <1>17

\* session_base_t::detach
LEMMA OwDetachKeeps == ASSUME OwIInv, NEW s \in OwObject, OwDetach(s) PROVE OwIInv'
<1> DEFINE F == OwFlight(owBox)
           P == owPipes
           objs1 == [owObj EXCEPT ![s].engine = FALSE]
<1>1. /\ OwGood(owObj, F, P) /\ OwBoxes(owObj, owBox, F) /\ owObj \in [OwObject -> OwFields]
      /\ owFailed = FALSE
  BY OwNow
<1>2. owObj[s].st = "live" /\ owObj[s].engine BY DEF OwDetach
<1>3. /\ objs1 \in [OwObject -> OwFields] /\ objs1[s].engine = FALSE
      /\ \A x \in OwObject : x # s => objs1[x] = owObj[x]
      /\ \A x \in OwObject :
            /\ objs1[x].st = owObj[x].st /\ objs1[x].term = owObj[x].term
            /\ objs1[x].sent = owObj[x].sent /\ objs1[x].done = owObj[x].done
            /\ objs1[x].acks = owObj[x].acks /\ objs1[x].owned = owObj[x].owned
            /\ objs1[x].pending = owObj[x].pending /\ objs1[x].pipe = owObj[x].pipe
            /\ (objs1[x].engine => owObj[x].engine) /\ objs1[x].fd = owObj[x].fd
  BY <1>1, <1>2 DEF OwFields
<1>4. owPipes' = P /\ owFailed' = FALSE /\ owClosed' = owClosed BY <1>1 DEF OwDetach
<1>5. \/ /\ OwRole[s] = "session"
         /\ \E c \in OwUnborn(s) :
                owObj' = OwBorn(objs1, s, c) /\ owBox' = OwLaunch(owBox, s, c)
      \/ /\ OwRole[s] = "accepted" /\ owObj' = objs1
         /\ owBox' = IF owObj[s].term THEN owBox ELSE OwSend(owBox, OwReq(s))
  BY DEF OwDetach, OwReq
<1> HIDE DEF objs1
<1>6. OwGood(objs1, F, P)
  <2>1. \A x \in OwObject : owObj[x].st # "live" => objs1[x] = owObj[x] BY <1>2, <1>3
  <2> QED BY <2>1, <1>1, <1>3, OwDropGood
<1>7. OwNoneDies(owObj, objs1) BY <1>3 DEF OwNoneDies
<1>8. CASE OwRole[s] = "session"
  <2>1. PICK c \in OwUnborn(s) :
            owObj' = OwBorn(objs1, s, c) /\ owBox' = OwLaunch(owBox, s, c)
    BY <1>5, <1>8
  <2> DEFINE F1 == (F \cup {OwPlug(c)}) \cup {OwOwn(c)}
  <2>2. c \in OwObject /\ OwParent[c] = s /\ owObj[c].st = "unborn"
    BY DEF OwUnborn, OwChildren
  <2>3. c # OwRoot /\ s # c /\ OwRole[c] = "connecter" BY <1>8, <2>2, OwRoles
  <2>4. objs1[c].st = "unborn" /\ objs1[s].st = "live" /\ ~objs1[s].engine
    BY <2>2, <1>2, <1>3
  <2>5. /\ OwAttach(s) \notin F /\ OwPlug(s) \notin F
        /\ \A d \in OwChildren(s) : ~OwActive(owObj, F, d)
    BY <1>1, <1>2, <1>8 DEF OwGood, OwGEngine
  <2>6. ASSUME NEW d \in OwChildren(s) PROVE ~OwActive(objs1, F, d)
    BY <2>5, <1>3 DEF OwActive, OwChildren
  <2>7. OwGood(owObj', F1, P) BY <2>1, <2>2, <2>4, <2>5, <2>6, <1>6, OwBirthGood
  <2>8. OwPlug(c) \notin F /\ OwOwn(c) \notin F BY <2>2, <1>1, OwNothingYet
  <2>9. OwBoxes(owObj, owBox', F1) BY <2>1, <2>2, <2>3, <2>8, <1>1, OwLaunched
  <2>10. OwNoneDies(objs1, owObj') /\ owObj'[OwRoot].term = objs1[OwRoot].term
    BY <2>1, <2>2, <2>3, <1>3, OwBornFields, OwTree
  <2>11. OwNoneDies(owObj, owObj') BY <2>10, <1>7 DEF OwNoneDies
  <2>12. OwState(owObj', owBox', P) BY <2>7, <2>9, <2>11, OwArrive
  <2> QED BY <2>10, <2>12, <1>3, <1>4, OwTree, OwDone
<1>9. CASE OwRole[s] = "accepted"
  <2>1. owObj' = objs1 /\ owBox' = IF owObj[s].term THEN owBox ELSE OwSend(owBox, OwReq(s))
    BY <1>5, <1>9
  <2>2. owObj'[OwRoot].term = owObj[OwRoot].term BY <2>1, <1>3, OwTree
  <2>3. OwAttach(s) \notin F /\ OwReq(s) \notin F
    BY <1>1, <1>2, <1>9 DEF OwGood, OwGEngine, OwGReq
  <2>4. CASE owObj[s].term
    <3>1. OwState(owObj', owBox', P) BY <2>1, <2>4, <1>1, <1>6, <1>7, OwArrive
    <3> QED BY <3>1, <2>2, <1>4, OwDone
  <2>5. CASE ~owObj[s].term
    <3>1. s # OwRoot BY <1>9, OwTree
    <3>2. OwReq(s) \in OwCommand /\ OwReq(s).obj = s BY <3>1, OwKinds
    <3>3. OwBoxes(owObj, owBox', F \cup {OwReq(s)})
      BY <2>1, <2>3, <2>5, <3>2, <1>1, <1>2, OwSent
    <3>4. OwGood(owObj', F \cup {OwReq(s)}, P)
      BY <2>1, <2>3, <1>2, <1>3, <1>6, <1>9, OwSendReqGood
    <3>5. OwState(owObj', owBox', P) BY <3>3, <3>4, <2>1, <1>7, OwArrive
    <3> QED BY <3>5, <2>2, <1>4, OwDone
  <2> QED BY <2>4, <2>5
<1> QED BY <1>5, <1>8, <1>9

-----------------------------------------------------------------------------
(* The end of a pipe. *)

\* The socket waits for the pipes it has, and an object for the child whose
\* acknowledgement is on its way.
LEMMA OwAcksAwaited ==
    ASSUME NEW objs, NEW F, NEW P, OwGood(objs, F, P)
    PROVE  /\ P # {} => objs[OwRoot].st = "live"
           /\ P # {} /\ objs[OwRoot].term => objs[OwRoot].acks # 0
           /\ \A c \in OwObject : OwAck(c) \in F => objs[OwParent[c]].acks # 0
<1>1. /\ objs \in [OwObject -> OwFields] /\ F \subseteq OwCommand /\ P \subseteq OwSessions
      /\ OwRoot \in OwObject
  BY OwTree DEF OwGood, OwGType
<1>2. Cardinality(P) \in Nat /\ (Cardinality(P) = 0 <=> P = {}) BY <1>1, OwPipesFinite
<1>3. P # {} /\ objs[OwRoot].term => objs[OwRoot].acks # 0
  <2> SUFFICES ASSUME P # {}, objs[OwRoot].term PROVE objs[OwRoot].acks # 0 OBVIOUS
  <2>1. Cardinality(OwAwaited(objs, F, OwRoot)) \in Nat BY OwAwaitedFinite
  <2>2. objs[OwRoot].acks = Cardinality(OwAwaited(objs, F, OwRoot)) + Cardinality(P)
    BY <1>1 DEF OwGood, OwGAcks
  <2> QED BY <2>1, <2>2, <1>2
<1>4. P # {} => objs[OwRoot].st = "live"
  <2>1. objs[OwRoot].st \in {"unborn", "live", "deleted"} BY <1>1 DEF OwFields
  <2>2. objs[OwRoot].st # "unborn" BY <1>1 DEF OwGood, OwGUnborn
  <2>3. objs[OwRoot].st = "deleted" => objs[OwRoot].term /\ objs[OwRoot].acks = 0
    BY <1>1 DEF OwGood, OwGDead
  <2> QED BY <2>1, <2>2, <2>3, <1>3
<1>5. ASSUME NEW c \in OwObject, OwAck(c) \in F PROVE objs[OwParent[c]].acks # 0
  <2>1. c # OwRoot BY <1>1, <1>5, OwKinds
  <2>2. OwParent[c] \in OwObject /\ c \in OwChildren(OwParent[c]) BY <2>1, OwTree DEF OwChildren
  <2>3. c \in OwAwaited(objs, F, OwParent[c]) BY <1>5, <2>2 DEF OwAwaited
  <2>4. /\ Cardinality(OwAwaited(objs, F, OwParent[c])) \in Nat
        /\ Cardinality(OwAwaited(objs, F, OwParent[c])) # 0
    BY <2>3, OwAwaitedFinite
  <2>5. objs[OwParent[c]].acks = Cardinality(OwAwaited(objs, F, OwParent[c]))
            + (IF OwParent[c] = OwRoot /\ objs[OwParent[c]].term THEN Cardinality(P) ELSE 0)
    BY <2>2 DEF OwGood, OwGAcks
  <2> QED BY <2>4, <2>5, <1>2
<1> QED BY <1>3, <1>4, <1>5

\* socket_base_t::terminated
LEMMA OwSocketPipeGoneKeeps == ASSUME OwIInv, NEW s, OwSocketPipeGone(s) PROVE OwIInv'
<1> DEFINE F == OwFlight(owBox)
           objs1 == [owObj EXCEPT ![OwRoot].acks = IF owObj[OwRoot].term THEN @ - 1 ELSE @]
<1>1. /\ OwGood(owObj, F, owPipes) /\ OwBoxes(owObj, owBox, F)
      /\ owObj \in [OwObject -> OwFields] /\ owFailed = FALSE /\ OwRoot \in OwObject
  BY OwNow, OwTree
<1>2. s \in owPipes /\ owPipes' = owPipes \ {s} /\ owClosed' = owClosed
  BY DEF OwSocketPipeGone
<1>3. owObj[OwRoot].st = "live" /\ (owObj[OwRoot].term => owObj[OwRoot].acks # 0)
  BY <1>1, <1>2, OwAcksAwaited
<1>4. owFailed' = FALSE BY <1>1, <1>3 DEF OwSocketPipeGone
<1>5. OwCheckTermAcks(objs1, owBox, OwRoot) BY DEF OwSocketPipeGone
<1>6. OwGood(objs1, F, owPipes') BY <1>1, <1>2, OwPipeGoneGood
<1>7. /\ OwNoneDies(owObj, objs1) /\ objs1[OwRoot].st = "live"
      /\ objs1[OwRoot].term = owObj[OwRoot].term
  BY <1>1, <1>3 DEF OwNoneDies, OwFields
<1> HIDE DEF objs1
<1>8. OwState(objs1, owBox, owPipes') BY <1>1, <1>6, <1>7, OwArrive
<1>9. OwState(owObj', owBox', owPipes') /\ owObj'[OwRoot].term = objs1[OwRoot].term
  BY <1>1, <1>5, <1>7, <1>8, OwCheck
<1> QED BY <1>2, <1>4, <1>7, <1>9, OwDone

\* session_base_t::terminated
LEMMA OwSessionPipeGoneKeeps ==
    ASSUME OwIInv, NEW s \in OwSessions, OwSessionPipeGone(s) PROVE OwIInv'
<1> DEFINE F == OwFlight(owBox)
           P == owPipes
           r == [owObj[s] EXCEPT !.pipe = "none"]
<1>1. /\ OwGood(owObj, F, P) /\ OwBoxes(owObj, owBox, F) /\ owObj \in [OwObject -> OwFields]
      /\ owFailed = FALSE
  BY OwNow
<1>2. s \in OwObject /\ s # OwRoot BY OwTree DEF OwSessions
<1>3. owObj[s].st = "live" /\ owObj[s].pipe = "bound" /\ (owObj[s].pending \/ s \notin P)
  BY DEF OwSessionPipeGone
<1>4. owPipes' = P /\ owFailed' = FALSE /\ owClosed' = owClosed
  BY <1>1 DEF OwSessionPipeGone
<1>5. /\ r \in OwFields /\ r.pending = owObj[s].pending /\ r.owned = owObj[s].owned
      /\ r.st = owObj[s].st
  BY <1>1, <1>2 DEF OwFields
<1>6. CASE owObj[s].pending
  <2> DEFINE q == OwTermFields(r, 0)
             objs1 == [owObj EXCEPT ![s] = q]
             S == owObj[s].owned
             F1 == F \cup {OwTerm(c) : c \in S}
             box1 == OwSendTerms(owBox, S)
  <2>1. OwCheckTermAcks(objs1, box1, s)
    BY <1>5, <1>6 DEF OwSessionPipeGone
  <2>2. ~owObj[s].term /\ OwTerm(s) \notin F /\ OwAsked(owObj, F, s)
    BY <1>1, <1>2, <1>6 DEF OwGood, OwGTerm, OwAsked
  <2>3. F1 = (F \ {OwTerm(s)}) \cup {OwTerm(c) : c \in owObj[s].owned} BY <2>2
  <2>4. OwBoxes(owObj, box1, F1) BY <1>1, <1>2, OwTermsAllowed, OwTermsSent
  <2>5. q.st = owObj[s].st /\ q.term = TRUE BY <1>5 DEF OwTermFields, OwFields
  <2>6. objs1 = [owObj EXCEPT ![s] = OwTermFields([owObj[s] EXCEPT !.pipe = "none"], 0)]
    OBVIOUS
  <2>7. objs1 = [owObj EXCEPT ![s] = q] OBVIOUS
  <2> HIDE DEF objs1, F1, box1, q
  <2>8. OwGood(objs1, F1, P)
    <3>1. owObj[s].pipe # "sent" /\ 0 \in Nat /\ 0 = IF s = OwRoot THEN Cardinality(P) ELSE 0
      BY <1>2, <1>3
    <3> QED BY <3>1, <2>2, <2>3, <2>6, <1>1, <1>2, <1>3, OwTerminateGood
  <2>9. /\ OwNoneDies(owObj, objs1) /\ objs1[s].st = "live"
        /\ \A x \in OwObject : x # s => objs1[x] = owObj[x]
    BY <1>1, <1>2, <1>3, <2>5, <2>7, OwTermKept
  <2>10. OwState(objs1, box1, P) BY <2>4, <2>8, <2>9, OwArrive
  <2>11. OwState(owObj', owBox', P) /\ owObj'[OwRoot].term = objs1[OwRoot].term
    BY <1>2, <2>1, <2>9, <2>10, OwCheck
  <2>12. objs1[OwRoot] = owObj[OwRoot] BY <1>2, <2>9, OwTree
  <2> QED BY <1>4, <2>11, <2>12, OwDone
<1>7. CASE ~owObj[s].pending
  <2>1. owObj' = [owObj EXCEPT ![s] = r] /\ owBox' = owBox
    BY <1>5, <1>7 DEF OwSessionPipeGone
  <2>2. /\ r.term = owObj[s].term /\ r.sent = owObj[s].sent /\ r.done = owObj[s].done
        /\ r.acks = owObj[s].acks /\ r.fd = owObj[s].fd /\ r.engine = owObj[s].engine
        /\ r.pipe = "none"
    BY <1>1, <1>2 DEF OwFields
  <2> HIDE DEF r
  <2>3. owObj' \in [OwObject -> OwFields] BY <2>1, <1>1, <1>5
  <2>4. OwGood(owObj', F, P)
    <3> DEFINE objs1 == [owObj EXCEPT ![s] = r]
    <3>1. objs1 \in [OwObject -> OwFields] BY <1>1, <1>5
    <3>2. \A x \in OwObject :
            /\ owObj[x].st # "live" => objs1[x] = owObj[x]
            /\ objs1[x].st = owObj[x].st /\ objs1[x].term = owObj[x].term
            /\ objs1[x].sent = owObj[x].sent /\ objs1[x].done = owObj[x].done
            /\ objs1[x].acks = owObj[x].acks /\ objs1[x].owned = owObj[x].owned
            /\ objs1[x].pending = owObj[x].pending
            /\ objs1[x].fd => owObj[x].fd
            /\ objs1[x].engine => owObj[x].engine
            /\ \/ objs1[x].pipe = owObj[x].pipe
               \/ owObj[x].pipe = "bound" /\ objs1[x].pipe = "none" /\ x \notin P
      <4> SUFFICES ASSUME NEW x \in OwObject
                   PROVE  /\ owObj[x].st # "live" => objs1[x] = owObj[x]
                          /\ objs1[x].st = owObj[x].st /\ objs1[x].term = owObj[x].term
                          /\ objs1[x].sent = owObj[x].sent /\ objs1[x].done = owObj[x].done
                          /\ objs1[x].acks = owObj[x].acks
                          /\ objs1[x].owned = owObj[x].owned
                          /\ objs1[x].pending = owObj[x].pending
                          /\ objs1[x].fd => owObj[x].fd
                          /\ objs1[x].engine => owObj[x].engine
                          /\ \/ objs1[x].pipe = owObj[x].pipe
                             \/ owObj[x].pipe = "bound" /\ objs1[x].pipe = "none" /\ x \notin P
          OBVIOUS
      <4>1. CASE x # s
        <5>1. objs1[x] = owObj[x] BY <4>1, <1>1
        <5> QED BY <5>1
      <4>2. CASE x = s
        <5>1. objs1[x] = r BY <4>2, <1>1
        <5> QED BY <4>2, <5>1, <2>2, <1>3, <1>5, <1>7
      <4> QED BY <4>1, <4>2
    <3> HIDE DEF objs1
    <3>3. OwGood(objs1, F, P) BY <3>1, <3>2, <1>1, OwDropGood
    <3> QED BY <3>3, <2>1 DEF objs1
  <2>5. OwNoneDies(owObj, owObj') BY <2>1, <1>1, <1>3, <1>5 DEF OwNoneDies
  <2>6. owObj'[OwRoot].term = owObj[OwRoot].term BY <2>1, <1>1, <1>2, OwTree
  <2>7. OwState(owObj', owBox', P) BY <2>1, <2>4, <2>5, <1>1, OwArrive
  <2> QED BY <2>6, <2>7, <1>4, OwDone
<1> QED BY <1>6, <1>7

-----------------------------------------------------------------------------
(* The commands. *)

\* process_plug
LEMMA OwProcessPlugKeeps == ASSUME OwIInv, NEW t \in OwThreads, OwProcessPlug(t) PROVE OwIInv'
<1> DEFINE F == OwFlight(owBox)
           P == owPipes
           h == Head(owBox[t])
           o == h.to
           objs1 == [owObj EXCEPT ![o].done = @ + 1,
                                  ![o].fd = OwRole[o] \in {"listener", "connecter"}]
           F1 == F \ {h}
           box1 == OwRest(t)
<1>1. /\ OwGood(owObj, F, P) /\ owObj \in [OwObject -> OwFields] /\ owFailed = FALSE
      /\ F \subseteq OwCommand
  BY OwNow
<1>2. OwReceive(t, "plug") BY DEF OwProcessPlug
<1>3. /\ OwBoxes(owObj, box1, F1) /\ h \in F /\ h.type = "plug" /\ o \in OwObject
      /\ owObj[o].st = "live"
  BY <1>2, OwReceived
<1>4. h = OwPlug(o) BY <1>1, <1>3, OwShapes DEF OwGood
<1>5. owPipes' = P /\ owFailed' = FALSE /\ owClosed' = owClosed BY <1>1 DEF OwProcessPlug
<1>6. IF OwRole[o] = "session"
      THEN \E c \in OwUnborn(o) :
                OwCheckTermAcks(OwBorn(objs1, o, c), OwLaunch(box1, o, c), o)
      ELSE OwCheckTermAcks(objs1, box1, o)
  BY DEF OwProcessPlug
<1> HIDE DEF h
<1>7. /\ objs1[o].st = "live" /\ OwNoneDies(owObj, objs1)
      /\ \A x \in OwObject : x # o => objs1[x] = owObj[x]
      /\ objs1[o].engine = owObj[o].engine /\ objs1[OwRoot].term = owObj[OwRoot].term
  BY <1>1, <1>3, OwTree DEF OwNoneDies, OwFields
<1>8. OwGood(objs1, F1, P) BY <1>1, <1>3, <1>4, OwPlugGood
<1>9. objs1 \in [OwObject -> OwFields] BY <1>8 DEF OwGood, OwGType
<1> HIDE DEF objs1, F1, box1, o
<1>10. CASE OwRole[o] # "session"
  <2>1. OwCheckTermAcks(objs1, box1, o) BY <1>6, <1>10
  <2>2. OwState(objs1, box1, P) BY <1>3, <1>7, <1>8, OwArrive
  <2>3. OwState(owObj', owBox', P) /\ owObj'[OwRoot].term = objs1[OwRoot].term
    BY <2>1, <2>2, <1>3, <1>7, OwCheck
  <2> QED BY <2>3, <1>5, <1>7, OwDone
<1>11. CASE OwRole[o] = "session"
  <2>1. PICK c \in OwUnborn(o) : OwCheckTermAcks(OwBorn(objs1, o, c), OwLaunch(box1, o, c), o)
    BY <1>6, <1>11
  <2> DEFINE objs2 == OwBorn(objs1, o, c)
             F2 == (F1 \cup {OwPlug(c)}) \cup {OwOwn(c)}
             box2 == OwLaunch(box1, o, c)
  <2>2. c \in OwObject /\ OwParent[c] = o /\ owObj[c].st = "unborn"
    BY DEF OwUnborn, OwChildren
  <2>3. c # OwRoot /\ o # c /\ OwRole[c] = "connecter" BY <1>3, <1>11, <2>2, OwRoles
  <2>4. objs1[c].st = "unborn" BY <2>2, <2>3, <1>7
  <2>5. OwPlug(o) \in F BY <1>3, <1>4
  <2>6. /\ OwAttach(o) \notin F /\ ~owObj[o].engine
        /\ \A d \in OwChildren(o) : ~OwActive(owObj, F, d)
    BY <2>5, <1>1, <1>3, <1>11 DEF OwGood, OwGEngine
  <2>7. OwAttach(o) \notin F1 /\ ~objs1[o].engine /\ OwPlug(o) \notin F1
    BY <2>6, <1>4, <1>7 DEF F1
  <2>8. ASSUME NEW d \in OwChildren(o) PROVE ~OwActive(objs1, F1, d)
    <3>1. d \in OwObject /\ d # o BY <1>3, OwTree DEF OwChildren
    <3>2. objs1[d] = owObj[d] BY <3>1, <1>7
    <3> QED BY <3>2, <2>6 DEF OwActive, F1
  <2>9. OwGood(objs2, F2, P) BY <2>2, <2>4, <2>7, <2>8, <1>3, <1>7, <1>8, OwBirthGood
  <2>10. OwPlug(c) \notin F1 /\ OwOwn(c) \notin F1 BY <2>2, <2>4, <1>8, OwNothingYet
  <2>11. OwBoxes(owObj, box2, F2) BY <2>2, <2>3, <2>10, <1>3, OwLaunched
  <2>12. /\ OwNoneDies(objs1, objs2) /\ objs2[OwRoot].term = objs1[OwRoot].term
         /\ objs2[o].st = objs1[o].st
    BY <2>2, <2>3, <1>3, <1>9, OwBornFields, OwTree
  <2> HIDE DEF objs2, F2, box2
  <2>13. OwNoneDies(owObj, objs2) BY <2>12, <1>7 DEF OwNoneDies
  <2>14. OwState(objs2, box2, P) BY <2>9, <2>11, <2>13, OwArrive
  <2>15. OwCheckTermAcks(objs2, box2, o) BY <2>1 DEF objs2, box2
  <2>16. OwState(owObj', owBox', P) /\ owObj'[OwRoot].term = objs2[OwRoot].term
    BY <2>12, <2>14, <2>15, <1>3, <1>7, OwCheck
  <2> QED BY <2>12, <2>16, <1>5, <1>7, OwDone
<1> QED BY <1>10, <1>11

\* process_own
LEMMA OwProcessOwnKeeps == ASSUME OwIInv, NEW t \in OwThreads, OwProcessOwn(t) PROVE OwIInv'
<1> DEFINE F == OwFlight(owBox)
           P == owPipes
           h == Head(owBox[t])
           o == h.to
           c == h.obj
           box1 == OwRest(t)
           counted == [owObj EXCEPT ![o].done = @ + 1]
<1>1. /\ OwGood(owObj, F, P) /\ owObj \in [OwObject -> OwFields] /\ owFailed = FALSE
      /\ F \subseteq OwCommand
  BY OwNow
<1>2. OwReceive(t, "own") BY DEF OwProcessOwn
<1>3. /\ OwBoxes(owObj, box1, F \ {h}) /\ h \in F /\ h.type = "own" /\ o \in OwObject
      /\ owObj[o].st = "live"
  BY <1>2, OwReceived
<1>4. h = OwOwn(c) /\ c \in OwObject /\ OwParent[c] = o
  BY <1>1, <1>3, OwShapes DEF OwGood, OwGShape
<1>5. owPipes' = P /\ owFailed' = FALSE /\ owClosed' = owClosed BY <1>1 DEF OwProcessOwn
<1>6. IF owObj[o].term
      THEN OwCheckTermAcks([counted EXCEPT ![o].acks = @ + 1], OwSend(box1, OwTerm(c)), o)
      ELSE OwCheckTermAcks([counted EXCEPT ![o].owned = @ \cup {c}], box1, o)
  BY DEF OwProcessOwn, OwTerm
<1>7. OwOwn(c) \in F BY <1>3, <1>4
<1> HIDE DEF h, o, c, box1
<1>8. CASE owObj[o].term
  <2> DEFINE objs1 == [owObj EXCEPT ![o].done = @ + 1, ![o].acks = @ + 1]
             F1 == (F \ {OwOwn(c)}) \cup {OwTerm(c)}
             box2 == OwSend(box1, OwTerm(c))
  <2>1. [counted EXCEPT ![o].acks = @ + 1] = objs1 BY <1>1, <1>3
  <2>2. OwCheckTermAcks(objs1, box2, o) BY <2>1, <1>6, <1>8
  <2>3. OwGood(objs1, F1, P) BY <1>1, <1>3, <1>4, <1>7, OwOwnLateGood
  <2>4. OwTerm(c) \in OwCommand /\ OwTerm(c).type = "term" /\ OwTerm(c) \notin F
    BY <1>1, <1>4, <1>7, OwKinds DEF OwGood, OwGOwned, OwAsked
  <2>5. OwBoxes(owObj, box2, F1) BY <2>4, <1>3, <1>4, OwSent
  <2>6. /\ OwNoneDies(owObj, objs1) /\ objs1[o].st = "live"
        /\ objs1[OwRoot].term = owObj[OwRoot].term
    BY <1>1, <1>3, OwTree DEF OwNoneDies, OwFields
  <2> HIDE DEF objs1, F1, box2
  <2>7. OwState(objs1, box2, P) BY <2>3, <2>5, <2>6, OwArrive
  <2>8. OwState(owObj', owBox', P) /\ owObj'[OwRoot].term = objs1[OwRoot].term
    BY <2>2, <2>6, <2>7, <1>3, OwCheck
  <2> QED BY <2>6, <2>8, <1>5, OwDone
<1>9. CASE ~owObj[o].term
  <2> DEFINE objs1 == [owObj EXCEPT ![o].done = @ + 1, ![o].owned = @ \cup {c}]
             F1 == F \ {OwOwn(c)}
  <2>1. [counted EXCEPT ![o].owned = @ \cup {c}] = objs1 BY <1>1, <1>3
  <2>2. OwCheckTermAcks(objs1, box1, o) BY <2>1, <1>6, <1>9
  <2>3. OwGood(objs1, F1, P) BY <1>1, <1>3, <1>4, <1>7, <1>9, OwOwnGood
  <2>4. OwBoxes(owObj, box1, F1) BY <1>3, <1>4
  <2>5. /\ OwNoneDies(owObj, objs1) /\ objs1[o].st = "live"
        /\ objs1[OwRoot].term = owObj[OwRoot].term
    BY <1>1, <1>3, OwTree DEF OwNoneDies, OwFields
  <2> HIDE DEF objs1, F1
  <2>6. OwState(objs1, box1, P) BY <2>3, <2>4, <2>5, OwArrive
  <2>7. OwState(owObj', owBox', P) /\ owObj'[OwRoot].term = objs1[OwRoot].term
    BY <2>2, <2>5, <2>6, <1>3, OwCheck
  <2> QED BY <2>5, <2>7, <1>5, OwDone
<1> QED BY <1>8, <1>9

\* process_attach
LEMMA OwProcessAttachKeeps ==
    ASSUME OwIInv, NEW t \in OwThreads, OwProcessAttach(t) PROVE OwIInv'
<1> DEFINE F == OwFlight(owBox)
           P == owPipes
           h == Head(owBox[t])
           o == h.to
           box1 == OwRest(t)
           objs1 == [owObj EXCEPT ![o].done = @ + 1, ![o].engine = TRUE]
           F1 == F \ {h}
<1>1. /\ OwGood(owObj, F, P) /\ owObj \in [OwObject -> OwFields] /\ owFailed = FALSE
      /\ F \subseteq OwCommand
  BY OwNow
<1>2. OwReceive(t, "attach") BY DEF OwProcessAttach
<1>3. /\ OwBoxes(owObj, box1, F1) /\ h \in F /\ h.type = "attach" /\ o \in OwObject
      /\ owObj[o].st = "live"
  BY <1>2, OwReceived
<1>4. h = OwAttach(o) /\ o \in OwSessions BY <1>1, <1>3, OwShapes DEF OwGood, OwGShape
<1>5. o # OwRoot BY <1>3, <1>4, OwTree DEF OwSessions
<1>6. ~owObj[o].engine BY <1>1, <1>3, <1>4 DEF OwGood, OwGEngine
<1>7. owPipes' = P /\ owFailed' = FALSE /\ owClosed' = owClosed
  BY <1>1, <1>6 DEF OwProcessAttach
<1>8. IF owObj[o].pipe = "none" /\ ~owObj[o].term
      THEN OwCheckTermAcks([objs1 EXCEPT ![o].pipe = "sent", ![OwRoot].sent = @ + 1],
                           OwSend(box1, OwBind(o)), o)
      ELSE OwCheckTermAcks(objs1, box1, o)
  BY DEF OwProcessAttach, OwBind
<1> HIDE DEF h
<1>9. OwGood(objs1, F1, P) BY <1>1, <1>3, <1>4, OwAttachGood
<1>10. /\ OwNoneDies(owObj, objs1) /\ objs1[o].st = "live"
       /\ objs1[OwRoot].term = owObj[OwRoot].term
       /\ objs1[o].pipe = owObj[o].pipe /\ objs1[o].term = owObj[o].term
  BY <1>1, <1>3, OwTree DEF OwNoneDies, OwFields
<1>11. objs1 \in [OwObject -> OwFields] BY <1>9 DEF OwGood, OwGType
<1> HIDE DEF objs1, F1, box1, o
<1>12. CASE ~(owObj[o].pipe = "none" /\ ~owObj[o].term)
  <2>1. OwCheckTermAcks(objs1, box1, o) BY <1>8, <1>12
  <2>2. OwState(objs1, box1, P) BY <1>3, <1>9, <1>10, OwArrive
  <2>3. OwState(owObj', owBox', P) /\ owObj'[OwRoot].term = objs1[OwRoot].term
    BY <2>1, <2>2, <1>3, <1>10, OwCheck
  <2> QED BY <2>3, <1>7, <1>10, OwDone
<1>13. CASE owObj[o].pipe = "none" /\ ~owObj[o].term
  <2> DEFINE objs2 == [objs1 EXCEPT ![o].pipe = "sent", ![OwRoot].sent = @ + 1]
             F2 == F1 \cup {OwBind(o)}
             box2 == OwSend(box1, OwBind(o))
  <2>1. OwCheckTermAcks(objs2, box2, o) BY <1>8, <1>13
  <2>2. OwGood(objs2, F2, P) BY <1>4, <1>9, <1>10, <1>13, OwSendBindGood
  <2>3. OwBind(o) \in OwCommand /\ OwBind(o).type = "bind" /\ OwBind(o) \notin F1
    BY <1>1, <1>3, <1>13, OwKinds DEF OwGood, OwGPipe, F1
  <2>4. OwBoxes(owObj, box2, F2) BY <2>3, <1>3, OwSent
  <2>5. /\ OwNoneDies(owObj, objs2) /\ objs2[o].st = "live"
        /\ objs2[OwRoot].term = owObj[OwRoot].term
    BY <1>3, <1>5, <1>10, <1>11, OwTree DEF OwNoneDies, OwFields
  <2> HIDE DEF objs2, F2, box2
  <2>6. OwState(objs2, box2, P) BY <2>2, <2>4, <2>5, OwArrive
  <2>7. OwState(owObj', owBox', P) /\ owObj'[OwRoot].term = objs2[OwRoot].term
    BY <2>1, <2>5, <2>6, <1>3, OwCheck
  <2> QED BY <2>5, <2>7, <1>7, OwDone
<1> QED BY <1>12, <1>13

\* process_bind
LEMMA OwProcessBindKeeps == ASSUME OwIInv, NEW t \in OwThreads, OwProcessBind(t) PROVE OwIInv'
<1> DEFINE F == OwFlight(owBox)
           P == owPipes
           h == Head(owBox[t])
           s == h.obj
           box1 == OwRest(t)
           F1 == F \ {h}
           bound == [owObj EXCEPT ![OwRoot].done = @ + 1, ![s].pipe = "bound"]
           objs1 == [owObj EXCEPT ![OwRoot].done = @ + 1, ![s].pipe = "bound",
                                  ![OwRoot].acks = IF owObj[OwRoot].term THEN @ + 1 ELSE @]
<1>1. /\ OwGood(owObj, F, P) /\ owObj \in [OwObject -> OwFields] /\ owFailed = FALSE
      /\ F \subseteq OwCommand /\ OwRoot \in OwObject
  BY OwNow, OwTree
<1>2. OwReceive(t, "bind") BY DEF OwProcessBind
<1>3. /\ OwBoxes(owObj, box1, F1) /\ h \in F /\ h.type = "bind" /\ owObj[h.to].st = "live"
  BY <1>2, OwReceived
<1>4. h = OwBind(s) /\ s \in OwSessions /\ h.to = OwRoot
  BY <1>1, <1>3, OwShapes DEF OwGood, OwGShape
<1>5. s \in OwObject /\ s # OwRoot BY <1>4, OwTree DEF OwSessions
<1>6. owPipes' = P \cup {s} /\ owFailed' = FALSE /\ owClosed' = owClosed
  BY <1>1 DEF OwProcessBind
<1>7. IF owObj[OwRoot].term
      THEN OwCheckTermAcks([bound EXCEPT ![OwRoot].acks = @ + 1], box1, OwRoot)
      ELSE OwCheckTermAcks(bound, box1, OwRoot)
  BY DEF OwProcessBind
<1> HIDE DEF h, s, box1
<1>8. OwCheckTermAcks(objs1, box1, OwRoot)
  <2>1. CASE owObj[OwRoot].term
    <3>1. [bound EXCEPT ![OwRoot].acks = @ + 1] = objs1 BY <2>1, <1>1, <1>5
    <3> QED BY <2>1, <3>1, <1>7
  <2>2. CASE ~owObj[OwRoot].term
    <3>1. bound = objs1
      <4> DEFINE b == [bound EXCEPT ![OwRoot].acks = bound[OwRoot].acks]
      <4>1. bound \in [OwObject -> OwFields] BY <1>1, <1>5 DEF OwFields
      <4>2. objs1 = b BY <2>2, <1>1, <1>5
      <4> HIDE DEF bound
      <4>3. bound[OwRoot] = [bound[OwRoot] EXCEPT !.acks = bound[OwRoot].acks]
        BY <4>1, <1>1 DEF OwFields
      <4>4. b = bound BY <4>1, <4>3, <1>1
      <4> QED BY <4>2, <4>4
    <3> QED BY <2>2, <3>1, <1>7
  <2> QED BY <2>1, <2>2
<1>9. OwGood(objs1, F \ {OwBind(s)}, P \cup {s}) BY <1>1, <1>3, <1>4, <1>5, OwBindGood
<1>10. OwBoxes(owObj, box1, F \ {OwBind(s)}) BY <1>3, <1>4
<1>11. /\ OwNoneDies(owObj, objs1) /\ objs1[OwRoot].st = "live"
       /\ objs1[OwRoot].term = owObj[OwRoot].term
  BY <1>1, <1>3, <1>4, <1>5 DEF OwNoneDies, OwFields
<1> HIDE DEF objs1
<1>12. OwState(objs1, box1, owPipes') BY <1>6, <1>9, <1>10, <1>11, OwArrive
<1>13. OwState(owObj', owBox', owPipes') /\ owObj'[OwRoot].term = objs1[OwRoot].term
  BY <1>1, <1>8, <1>11, <1>12, OwCheck
<1> QED BY <1>6, <1>11, <1>13, OwDone

\* process_term_req
LEMMA OwProcessTermReqKeeps ==
    ASSUME OwIInv, NEW t \in OwThreads, OwProcessTermReq(t) PROVE OwIInv'
<1> DEFINE F == OwFlight(owBox)
           P == owPipes
           h == Head(owBox[t])
<1>1. OwGood(owObj, F, P) /\ F \subseteq OwCommand /\ owFailed = FALSE BY OwNow
<1>2. OwReceive(t, "term_req") BY DEF OwProcessTermReq
<1>3. OwBoxes(owObj, OwRest(t), F \ {h}) /\ h \in F /\ h.type = "term_req" /\ h.to \in OwObject
  BY <1>2, OwReceived
<1>4. h = OwReq(h.obj) /\ h.obj \in OwObject BY <1>1, <1>3, OwShapes DEF OwGood, OwGShape
<1>5. /\ OwTermReq(h.to, h.obj, OwRest(t))
      /\ owPipes' = P /\ owFailed' = FALSE /\ owClosed' = owClosed
  BY <1>1 DEF OwProcessTermReq
<1> HIDE DEF h
<1>6. OwGood(owObj, F \ {h}, P) BY <1>1, <1>3, <1>4, OwReqGood
<1>7. OwState(owObj', owBox', P) /\ owObj'[OwRoot].term = owObj[OwRoot].term
  BY <1>3, <1>5, <1>6, OwTermReqKeeps
<1> QED BY <1>5, <1>7, OwDone

\* process_term
LEMMA OwProcessTermKeeps == ASSUME OwIInv, NEW t \in OwThreads, OwProcessTerm(t) PROVE OwIInv'
<1> DEFINE F == OwFlight(owBox)
           P == owPipes
           h == Head(owBox[t])
           o == h.to
           r == owObj[o]
           box1 == OwRest(t)
<1>1. /\ OwGood(owObj, F, P) /\ owObj \in [OwObject -> OwFields] /\ owFailed = FALSE
      /\ F \subseteq OwCommand
  BY OwNow
<1>2. OwReceive(t, "term") BY DEF OwProcessTerm
<1>3. /\ OwBoxes(owObj, box1, F \ {h}) /\ h \in F /\ h.type = "term" /\ o \in OwObject
      /\ owObj[o].st = "live"
  BY <1>2, OwReceived
<1>4. h = OwTerm(o) BY <1>1, <1>3, OwShapes DEF OwGood
<1>5. o # OwRoot BY <1>1, <1>3 DEF OwGood, OwGShape
<1>6. OwTerm(o) \in F BY <1>3, <1>4
<1>7. ~r.term /\ ~r.pending BY <1>1, <1>3, <1>6 DEF OwGood, OwGTerm
<1>8. owPipes' = P /\ owFailed' = FALSE /\ owClosed' = owClosed
  BY <1>1, <1>7 DEF OwProcessTerm
<1>9. IF r.pipe # "none"
      THEN owObj' = [owObj EXCEPT ![o].pending = TRUE] /\ owBox' = box1
      ELSE OwCheckTermAcks([owObj EXCEPT ![o] = OwTermFields(r, 0)],
                           OwSendTerms(box1, r.owned), o)
  BY DEF OwProcessTerm
<1> HIDE DEF h, o, box1
<1>10. CASE r.pipe # "none"
  <2>1. owObj' = [owObj EXCEPT ![o].pending = TRUE] /\ owBox' = box1 BY <1>9, <1>10
  <2>2. OwGood(owObj', F \ {OwTerm(o)}, P) BY <2>1, <1>1, <1>3, <1>6, OwPendingGood
  <2>3. OwBoxes(owObj, owBox', F \ {OwTerm(o)}) BY <2>1, <1>3, <1>4
  <2>4. OwNoneDies(owObj, owObj') /\ owObj'[OwRoot].term = owObj[OwRoot].term
    BY <2>1, <1>1, OwTree DEF OwNoneDies, OwFields
  <2>5. OwState(owObj', owBox', P) BY <2>2, <2>3, <2>4, OwArrive
  <2> QED BY <2>4, <2>5, <1>8, OwDone
<1>11. CASE r.pipe = "none"
  <2> DEFINE q == OwTermFields(r, 0)
             objs1 == [owObj EXCEPT ![o] = q]
             F1 == (F \ {OwTerm(o)}) \cup {OwTerm(c) : c \in owObj[o].owned}
             box2 == OwSendTerms(box1, owObj[o].owned)
  <2>1. OwCheckTermAcks(objs1, box2, o) BY <1>9, <1>11
  <2>2. r \in OwFields BY <1>1, <1>3
  <2>3. r = [r EXCEPT !.pipe = "none"] BY <2>2, <1>11 DEF OwFields
  <2>4. q.st = owObj[o].st /\ q.term = TRUE BY <2>2 DEF OwTermFields, OwFields
  <2>5. objs1 = [owObj EXCEPT ![o] = OwTermFields([owObj[o] EXCEPT !.pipe = "none"], 0)]
    BY <2>3
  <2>6. /\ owObj[o].owned \in SUBSET OwObject
        /\ \A c \in owObj[o].owned : OwTerm(c) \notin F
    BY <1>1, <1>3, OwTermsAllowed
  <2>7. OwBoxes(owObj, box1, F \ {OwTerm(o)}) BY <1>3, <1>4
  <2>8. OwBoxes(owObj, box2, F1) BY <2>6, <2>7, OwTermsSent
  <2>9. objs1 = [owObj EXCEPT ![o] = q] OBVIOUS
  <2> HIDE DEF objs1, F1, box2, q
  <2>10. OwGood(objs1, F1, P)
    <3>1. owObj[o].pipe # "sent" /\ 0 \in Nat /\ 0 = IF o = OwRoot THEN Cardinality(P) ELSE 0
      BY <1>5, <1>11
    <3>2. OwAsked(owObj, F, o) BY <1>6 DEF OwAsked
    <3>3. F1 = (F \ {OwTerm(o)}) \cup {OwTerm(c) : c \in owObj[o].owned} BY DEF F1
    <3> QED BY <3>1, <3>2, <3>3, <2>5, <1>1, <1>3, <1>7, OwTerminateGood
  <2>11. /\ OwNoneDies(owObj, objs1) /\ objs1[o].st = "live"
         /\ \A x \in OwObject : x # o => objs1[x] = owObj[x]
    BY <1>1, <1>3, <2>4, <2>9, OwTermKept
  <2>12. OwState(objs1, box2, P) BY <2>8, <2>10, <2>11, OwArrive
  <2>13. OwState(owObj', owBox', P) /\ owObj'[OwRoot].term = objs1[OwRoot].term
    BY <1>3, <2>1, <2>11, <2>12, OwCheck
  <2>14. objs1[OwRoot] = owObj[OwRoot] BY <1>5, <2>11, OwTree
  <2> QED BY <1>8, <2>13, <2>14, OwDone
<1> QED BY <1>10, <1>11

\* process_term_ack
LEMMA OwProcessTermAckKeeps ==
    ASSUME OwIInv, NEW t \in OwThreads, OwProcessTermAck(t) PROVE OwIInv'
<1> DEFINE F == OwFlight(owBox)
           P == owPipes
           h == Head(owBox[t])
           o == h.to
           c == h.obj
           box1 == OwRest(t)
           objs1 == [owObj EXCEPT ![o].acks = @ - 1]
<1>1. /\ OwGood(owObj, F, P) /\ owObj \in [OwObject -> OwFields] /\ owFailed = FALSE
      /\ F \subseteq OwCommand
  BY OwNow
<1>2. OwReceive(t, "term_ack") BY DEF OwProcessTermAck
<1>3. /\ OwBoxes(owObj, box1, F \ {h}) /\ h \in F /\ h.type = "term_ack" /\ o \in OwObject
      /\ owObj[o].st = "live"
  BY <1>2, OwReceived
<1>4. h = OwAck(c) /\ c \in OwObject /\ OwParent[c] = o
  BY <1>1, <1>3, OwShapes DEF OwGood, OwGShape
<1>5. OwAck(c) \in F BY <1>3, <1>4
<1>6. owObj[o].acks # 0 BY <1>1, <1>4, <1>5, OwAcksAwaited
<1>7. owPipes' = P /\ owFailed' = FALSE /\ owClosed' = owClosed
  BY <1>1, <1>6 DEF OwProcessTermAck
<1>8. OwCheckTermAcks(objs1, box1, o) BY DEF OwProcessTermAck
<1> HIDE DEF h, o, c, box1
<1>9. OwGood(objs1, F \ {OwAck(c)}, P) BY <1>1, <1>4, <1>5, OwAckGood
<1>10. OwBoxes(owObj, box1, F \ {OwAck(c)}) BY <1>3, <1>4
<1>11. /\ OwNoneDies(owObj, objs1) /\ objs1[o].st = "live"
       /\ objs1[OwRoot].term = owObj[OwRoot].term
  BY <1>1, <1>3, OwTree DEF OwNoneDies, OwFields
<1> HIDE DEF objs1
<1>12. OwState(objs1, box1, P) BY <1>9, <1>10, <1>11, OwArrive
<1>13. OwState(owObj', owBox', P) /\ owObj'[OwRoot].term = objs1[OwRoot].term
  BY <1>3, <1>8, <1>11, <1>12, OwCheck
<1> QED BY <1>7, <1>11, <1>13, OwDone

-----------------------------------------------------------------------------
(* The theorem. *)

\* The invariant says what is meant: nothing that is on its way or lives needs
\* an object that was deleted.
LEMMA OwIInvSafe == OwIInv => OwTypeOK /\ OwSafe
<1> SUFFICES ASSUME OwIInv PROVE OwTypeOK /\ OwSafe OBVIOUS
<1> DEFINE F == OwFlight(owBox)
<1>1. /\ OwBoxOK(owBox) /\ OwOrdered(owObj, owBox) /\ OwGood(owObj, F, owPipes)
      /\ owFailed = FALSE /\ owClosed \in BOOLEAN
  BY DEF OwIInv, OwState
<1>2. OwTypeOK BY <1>1 DEF OwTypeOK, OwBoxOK, OwGood, OwGType
<1>3. ASSUME NEW o \in OwObject, owObj[o].st = "deleted"
      PROVE  /\ \A t \in OwThreads : \A i \in 1..Len(owBox[t]) : owBox[t][i].to # o
             /\ \A c \in OwChildren(o) : owObj[c].st # "live"
  <2>1. owObj[o].term /\ owObj[o].done = owObj[o].sent /\ owObj[o].acks = 0
    BY <1>1, <1>3 DEF OwGood, OwGDead
  <2>2. /\ \A x \in F : x.to = o => x.type \in {"term", "term_req"}
        /\ \A c \in OwChildren(o) : owObj[c].st # "live" /\ OwAck(c) \notin F
    BY <1>1, <2>1, OwDeadQuiet
  <2>3. ASSUME NEW t \in OwThreads, NEW i \in 1..Len(owBox[t]), owBox[t][i].to = o
        PROVE  FALSE
    <3> DEFINE x == owBox[t][i]
    <3>1. owBox[t] \in Seq(OwCommand) /\ OwThread[x.to] = t BY <1>1 DEF OwBoxOK
    <3>2. x \in OwCommand BY <3>1
    <3>3. x \in F BY <3>1, <3>2 DEF OwFlight
    <3>4. x.type # "term"
      <4> SUFFICES ASSUME x.type = "term" PROVE FALSE OBVIOUS
      <4>1. x = OwTerm(o) BY <2>3, <3>2, <3>3, <1>1, OwShapes DEF OwGood, OwGType
      <4> QED BY <4>1, <3>3, <1>1, <1>3 DEF OwGood, OwGTerm
    <3>5. x.type = "term_req" BY <2>2, <2>3, <3>3, <3>4
    <3>6. x.obj \in OwObject /\ OwParent[x.obj] = o /\ x.obj \in OwChildren(o)
      BY <2>3, <3>3, <3>5, <1>1 DEF OwGood, OwGShape, OwChildren
    <3>7. owObj[x.obj].st # "live" /\ OwAck(x.obj) \notin F BY <2>2, <3>6
    <3>8. PICK j \in 1..Len(owBox[t]) : owBox[t][j] = OwAck(x.obj)
      BY <3>5, <3>7, <1>1 DEF OwOrdered
    <3>9. owBox[t][j] \in OwCommand /\ OwThread[owBox[t][j].to] = t BY <3>1, <1>1 DEF OwBoxOK
    <3>10. owBox[t][j] \in F BY <3>9 DEF OwFlight
    <3> QED BY <3>7, <3>8, <3>10
  <2> QED BY <2>2, <2>3
<1>4. OwNothingDangles BY <1>3 DEF OwNothingDangles
<1> QED BY <1>1, <1>2, <1>4 DEF OwSafe, OwNoAssertionFails

\* Every step keeps the invariant.
LEMMA OwStep == OwIInv /\ [OwNext]_owVars => OwIInv'
<1> SUFFICES ASSUME OwIInv, [OwNext]_owVars PROVE OwIInv' OBVIOUS
<1>1. CASE UNCHANGED owVars BY <1>1 DEF owVars, OwIInv, OwState
<1>2. CASE OwClose BY <1>2, OwCloseKeeps
<1>3. ASSUME NEW c \in OwObject, OwEndpoint(c) \/ OwTermEndpoint(c) \/ OwConnected(c)
      PROVE  OwIInv'
  BY <1>3, OwEndpointKeeps, OwTermEndpointKeeps, OwConnectedKeeps
<1>4. ASSUME NEW l \in OwObject, NEW c \in OwObject, OwAccept(l, c) PROVE OwIInv'
  BY <1>4, OwAcceptKeeps
<1>5. ASSUME NEW s \in OwSessions,
             OwDetach(s) \/ OwSocketPipeGone(s) \/ OwSessionPipeGone(s)
      PROVE  OwIInv'
  <2>1. s \in OwObject BY DEF OwSessions
  <2> QED BY <2>1, <1>5, OwDetachKeeps, OwSocketPipeGoneKeeps, OwSessionPipeGoneKeeps
<1>6. ASSUME NEW t \in OwThreads, OwProcess(t) PROVE OwIInv'
  BY <1>6, OwProcessPlugKeeps, OwProcessOwnKeeps, OwProcessAttachKeeps, OwProcessBindKeeps,
     OwProcessTermReqKeeps, OwProcessTermKeeps, OwProcessTermAckKeeps DEF OwProcess
<1> QED BY <1>1, <1>2, <1>3, <1>4, <1>5, <1>6 DEF OwNext

\* No object of a socket is deleted while a command is on its way to it or a
\* child of it lives, and no assertion of own_t, session_base_t and socket_base_t
\* fails, however connections are made, lost and closed: for every tree and every
\* distribution of its objects over threads.
THEOREM OwShutdownIsSafe == OwSpec => [](OwTypeOK /\ OwSafe)
<1>1. OwInit => OwIInv BY OwInitGood
<1>2. OwIInv /\ [OwNext]_owVars => OwIInv' BY OwStep
<1>3. OwIInv => OwTypeOK /\ OwSafe BY OwIInvSafe
<1> QED BY <1>1, <1>2, <1>3, PTL DEF OwSpec
=============================================================================
