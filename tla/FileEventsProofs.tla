-------------------------- MODULE FileEventsProofs --------------------------
(***************************************************************************)
(* SvdFileEventsManager reports events for the right file, once, and keeps *)
(* no watch on a dead kqueue, for every number of files, flags, watchers,  *)
(* descriptors, restarts and messages, alone and driven by an account; an  *)
(* account has one binding per path; and with one path and clients that    *)
(* wait for their answers, the account's record of its watches and the     *)
(* manager's agree whenever both are at rest.                              *)
(***************************************************************************)
EXTENDS FileWatches, FiniteSetTheorems, SequenceTheorems, NaturalsInduction,
        WellFoundedInduction, TLAPS

-----------------------------------------------------------------------------
(* The inductive invariant *)

\* The part of the types that the argument needs.
Typed ==
    /\ DOMAIN idents = Fd
    /\ mailbox \in Seq(Message)
    /\ epoch \in Epoch
    /\ opened \in [Fd -> Path \cup {None}]
    /\ filter \in [Fd -> (Epoch \X Flags) \cup {None}]
    /\ pending \in [Fd -> SUBSET Note]

\* An entry of the table is about an open descriptor of the file it names, and
\* added to the kqueue of the instance that has the table.
EntryOK(fd) ==
    idents[fd] # None =>
        /\ DOMAIN idents[fd] = {"path", "list"}
        /\ opened[fd] \in Path
        /\ idents[fd].path = opened[fd]
        /\ filter[fd] # None
        /\ filter[fd][1] = epoch

\* Only open descriptors are added to a kqueue.
FilterOK(fd) == filter[fd] # None => opened[fd] \in Path

\* An event in the mailbox is about the file behind its descriptor.
EventOK(m, files) == m.type = "kqueue" => files[m.ident] = m.from

MailOK(box, files) == \A i \in 1..Len(box) : EventOK(box[i], files)

IInv ==
    /\ Typed
    /\ \A fd \in Fd : EntryOK(fd) /\ FilterOK(fd)
    /\ MailOK(mailbox, opened)
    /\ OneIdentPerPath

\* Nothing is open and nothing is on its way.
LEMMA InitIInv == FemInit => IInv
<1> SUFFICES ASSUME FemInit PROVE IInv
  OBVIOUS
<1>1. mailbox = <<>> /\ mailbox \in Seq(Message) /\ Len(mailbox) = 0
  BY EmptySeq DEF FemInit
<1>2. Typed
  BY <1>1, BoundAssumption DEF FemInit, Typed, NoIdents, Epoch
<1> QED
  BY <1>1, <1>2 DEF FemInit, IInv, EntryOK, FilterOK, MailOK, OneIdentPerPath, Watching, NoIdents

-----------------------------------------------------------------------------
(* The mailbox *)

\* A good message may be added, as long as no open descriptor is given up.
LEMMA PostFacts ==
    ASSUME IInv, NEW m \in Message, mailbox' = Append(mailbox, m), EventOK(m, opened),
           opened' = opened
    PROVE  /\ mailbox' \in Seq(Message)
           /\ MailOK(mailbox', opened')
<1>1. mailbox \in Seq(Message) /\ Len(mailbox) \in Nat
  BY LenProperties DEF IInv, Typed
<1>2. /\ mailbox' \in Seq(Message)
      /\ Len(mailbox') = Len(mailbox) + 1
      /\ mailbox'[Len(mailbox) + 1] = m
      /\ \A i \in 1..Len(mailbox) : mailbox'[i] = mailbox[i]
  BY <1>1, AppendProperties
<1>3. ASSUME NEW i \in 1..Len(mailbox') PROVE EventOK(mailbox'[i], opened')
  <2>1. CASE i = Len(mailbox) + 1
    BY <1>2, <2>1 DEF EventOK
  <2>2. CASE i # Len(mailbox) + 1
    <3>1. i \in 1..Len(mailbox)
      BY <1>1, <1>2, <2>2
    <3> QED
      BY <1>2, <3>1 DEF IInv, MailOK, EventOK
  <2> QED
    BY <2>1, <2>2
<1> QED
  BY <1>2, <1>3 DEF MailOK

\* A message is received; a descriptor may be opened.
LEMMA ReceiveFacts ==
    ASSUME IInv, mailbox # <<>>, mailbox' = Tail(mailbox),
           \A fd \in Fd : opened[fd] # None => opened'[fd] = opened[fd]
    PROVE  /\ Head(mailbox) \in Message
           /\ mailbox' \in Seq(Message)
           /\ MailOK(mailbox', opened')
<1>1. mailbox \in Seq(Message) /\ Len(mailbox) \in Nat
  BY LenProperties DEF IInv, Typed
<1>2. /\ Head(mailbox) \in Message
      /\ mailbox' \in Seq(Message)
      /\ Len(mailbox') = Len(mailbox) - 1
      /\ \A i \in 1..Len(mailbox') : mailbox'[i] = mailbox[i + 1]
  BY <1>1, HeadTailProperties
<1>3. ASSUME NEW i \in 1..Len(mailbox') PROVE EventOK(mailbox'[i], opened')
  <2>1. i + 1 \in 1..Len(mailbox)
    BY <1>1, <1>2
  <2>2. mailbox[i + 1] \in Message /\ EventOK(mailbox[i + 1], opened)
    BY <1>1, <2>1, ElementOfSeq DEF IInv, MailOK
  <2>3. ASSUME mailbox[i + 1].type = "kqueue"
        PROVE  mailbox[i + 1].ident \in Fd /\ opened[mailbox[i + 1].ident] # None
    BY <2>2, <2>3, NoneAssumption DEF Message, EventOK
  <2> QED
    BY <1>2, <2>2, <2>3 DEF EventOK
<1> QED
  BY <1>2, <1>3 DEF MailOK

-----------------------------------------------------------------------------
(* Steps *)

\* A new instance starts with an empty table.
LEMMA RestartFacts ==
    ASSUME Restart, Typed
    PROVE  /\ epoch' \in Epoch
           /\ DOMAIN idents' = Fd
           /\ \A fd \in Fd : idents'[fd] = None
  BY BoundAssumption DEF Restart, NoIdents, Typed, Epoch

\* A watcher joins a list, a file is opened, or the actor is restarted.
LEMMA RegisterIInv == ASSUME IInv, Register PROVE IInv'
<1> DEFINE m == Head(mailbox)
<1>0. /\ mailbox # <<>> /\ mailbox' = Tail(mailbox) /\ pending' = pending
      /\ m.type = "register" /\ Typed
  BY DEF Register, Received, IInv
<1>1. m \in Message
  BY <1>0, HeadTailProperties DEF Typed
<1>2. m.path \in Path /\ m.flags \in Flags
  BY <1>0, <1>1 DEF Message
<1> HIDE DEF m
<1>3. ASSUME Typed', \A fd \in Fd : (EntryOK(fd) /\ FilterOK(fd))',
             \A fd \in Fd : opened[fd] # None => opened'[fd] = opened[fd],
             OneIdentPerPath'
      PROVE  IInv'
  BY <1>0, <1>3, ReceiveFacts DEF IInv
<1>4. mailbox' \in Seq(Message)
  BY <1>0, HeadTailProperties DEF Typed
<1>5. ASSUME NEW fd \in Watching(m.path), Join(fd, m) PROVE IInv'
  <2>1. fd \in Fd /\ idents[fd] # None
    BY <1>5 DEF Watching
  <2>2. /\ DOMAIN idents' = Fd
        /\ \A x \in Fd \ {fd} : idents'[x] = idents[x]
        /\ DOMAIN idents'[fd] = DOMAIN idents[fd]
        /\ idents'[fd].path = idents[fd].path
    BY <1>0, <1>5, <2>1 DEF Join, Typed, IInv, EntryOK
  <2>3. opened' = opened /\ filter' = filter /\ epoch' = epoch
    BY <1>5 DEF Join
  <2>4. Typed'
    BY <1>0, <1>4, <2>2, <2>3 DEF Typed
  <2>5. \A x \in Fd : (EntryOK(x) /\ FilterOK(x))'
    BY <2>1, <2>2, <2>3 DEF IInv, EntryOK, FilterOK
  <2>6. OneIdentPerPath'
    BY <2>1, <2>2 DEF IInv, OneIdentPerPath, Watching
  <2> QED
    BY <1>3, <2>3, <2>4, <2>5, <2>6
<1>6. ASSUME NEW fd \in Fd, opened[fd] = None, Watching(m.path) = {},
             opened' = [opened EXCEPT ![fd] = m.path],
             filter' = [filter EXCEPT ![fd] = <<epoch, m.flags>>],
             idents' = [idents EXCEPT ![fd] =
                          [path |-> m.path, list |-> <<<<m.flags, m.ref>>>>]],
             epoch' = epoch
      PROVE  IInv'
  <2>1. /\ \A x \in Fd \ {fd} : /\ idents'[x] = idents[x] /\ opened'[x] = opened[x]
                                /\ filter'[x] = filter[x]
        /\ DOMAIN idents' = Fd
        /\ opened'[fd] = m.path /\ filter'[fd] = <<epoch, m.flags>>
        /\ idents'[fd] = [path |-> m.path, list |-> <<<<m.flags, m.ref>>>>]
    BY <1>0, <1>6 DEF Typed
  <2>2. DOMAIN idents'[fd] = {"path", "list"} /\ idents'[fd].path = m.path
    BY <2>1
  <2>3. Typed'
    BY <1>0, <1>2, <1>4, <1>6, <2>1 DEF Typed
  <2>4. filter'[fd] # None /\ filter'[fd][1] = epoch
    BY <1>0, <1>2, <2>1, NoneAssumption DEF Typed
  <2>5. \A x \in Fd : (EntryOK(x) /\ FilterOK(x))'
    BY <1>2, <1>6, <2>1, <2>2, <2>4 DEF IInv, EntryOK, FilterOK
  <2>6. OneIdentPerPath'
    BY <1>6, <2>1, <2>2 DEF IInv, OneIdentPerPath, Watching
  <2>7. \A x \in Fd : opened[x] # None => opened'[x] = opened[x]
    BY <1>6, <2>1
  <2> QED
    BY <1>3, <2>3, <2>5, <2>6, <2>7
<1>7. ASSUME Restart, filter' = filter,
             opened' = opened \/ \E fd \in Fd :
                opened[fd] = None /\ opened' = [opened EXCEPT ![fd] = m.path]
      PROVE  IInv'
  <2>1. epoch' \in Epoch /\ DOMAIN idents' = Fd /\ \A fd \in Fd : idents'[fd] = None
    BY <1>0, <1>7, RestartFacts
  <2>2. \A x \in Fd : opened[x] # None => opened'[x] = opened[x]
    BY <1>0, <1>7 DEF Typed
  <2>3. opened' \in [Fd -> Path \cup {None}]
    BY <1>0, <1>2, <1>7 DEF Typed
  <2>4. Typed'
    BY <1>0, <1>4, <1>7, <2>1, <2>3 DEF Typed
  <2>5. \A x \in Fd : (EntryOK(x) /\ FilterOK(x))'
    BY <1>7, <2>1, <2>2, NoneAssumption DEF IInv, EntryOK, FilterOK
  <2>6. OneIdentPerPath'
    BY <2>1 DEF OneIdentPerPath, Watching
  <2> QED
    BY <1>3, <2>2, <2>4, <2>5, <2>6
<1>8. CASE Watching(m.path) = {} /\ RegisterNew(m)
  BY <1>6, <1>7, <1>8 DEF RegisterNew
<1> QED
  BY <1>5, <1>8 DEF Register, m

\* Entries disappear; their descriptors stay open.
LEMMA UnregisterIInv == ASSUME IInv, Unregister PROVE IInv'
<1>0. /\ mailbox # <<>> /\ mailbox' = Tail(mailbox) /\ Typed
      /\ UNCHANGED <<epoch, opened, filter, pending>>
  BY DEF Unregister, Received, IInv
<1>1. mailbox' \in Seq(Message) /\ MailOK(mailbox', opened')
  BY <1>0, ReceiveFacts
<1>2. DOMAIN idents' = Fd
  BY DEF Unregister
<1>3. ASSUME NEW fd \in Fd, idents'[fd] # None
      PROVE  /\ idents[fd] # None
             /\ DOMAIN idents'[fd] = {"path", "list"}
             /\ idents'[fd].path = idents[fd].path
  <2>1. idents[fd] # None /\ idents'[fd] = Without(idents[fd], Head(mailbox).ref)
    BY <1>3 DEF Unregister
  <2>2. PICK kept : idents'[fd] = [idents[fd] EXCEPT !.list = kept]
    BY <1>3, <2>1 DEF Without
  <2>3. DOMAIN idents[fd] = {"path", "list"}
    BY <2>1 DEF IInv, EntryOK
  <2> QED
    BY <2>1, <2>2, <2>3
<1>4. Typed'
  BY <1>0, <1>1, <1>2 DEF Typed
<1>5. \A fd \in Fd : (EntryOK(fd) /\ FilterOK(fd))'
  BY <1>0, <1>3 DEF IInv, EntryOK, FilterOK
<1>6. OneIdentPerPath'
  BY <1>3 DEF IInv, OneIdentPerPath, Watching
<1> QED
  BY <1>1, <1>4, <1>5, <1>6 DEF IInv

\* A reader thread posts what its kqueue reports of an open descriptor.
LEMMA ReadIInv == ASSUME IInv, NEW e \in Epoch, NEW fd \in Fd, Read(e, fd) PROVE IInv'
<1> DEFINE m == [type |-> "kqueue", ident |-> fd, flags |-> pending[fd], from |-> opened[fd]]
<1>1. /\ filter[fd] # None /\ pending[fd] # {} /\ mailbox' = Append(mailbox, m)
      /\ pending' = [pending EXCEPT ![fd] = {}]
      /\ UNCHANGED <<idents, epoch, opened, filter>>
  BY DEF Read
<1>2. opened[fd] \in Path /\ pending[fd] \in Flags
  BY <1>1 DEF IInv, Typed, FilterOK, Flags
<1>3. m \in Message /\ EventOK(m, opened)
  BY <1>2 DEF Message, EventOK
<1> HIDE DEF m
<1>4. mailbox' \in Seq(Message) /\ MailOK(mailbox', opened')
  BY <1>1, <1>3, PostFacts
<1>5. Typed'
  BY <1>1, <1>4 DEF IInv, Typed
<1> QED
  BY <1>1, <1>4, <1>5 DEF IInv, EntryOK, FilterOK, OneIdentPerPath, Watching

\* Other actors post no events.
LEMMA ClientIInv == ASSUME IInv, Client PROVE IInv'
<1>1. PICK m \in Message : mailbox' = Append(mailbox, m) /\ EventOK(m, opened)
  <2>1. CASE \E p \in Path, f \in Flags, r \in Ref :
               Post([type |-> "register", path |-> p, flags |-> f, ref |-> r])
    BY <2>1 DEF Post, Message, EventOK
  <2>2. CASE \E r \in Ref : Post([type |-> "unregister", ref |-> r])
    BY <2>2 DEF Post, Message, EventOK
  <2> QED
    BY <2>1, <2>2 DEF Client
<1>2. UNCHANGED <<idents, epoch, opened, filter, pending>>
  BY DEF Client
<1>3. mailbox' \in Seq(Message) /\ MailOK(mailbox', opened')
  BY <1>1, <1>2, PostFacts
<1> QED
  BY <1>2, <1>3 DEF IInv, Typed, EntryOK, FilterOK, OneIdentPerPath, Watching

\* Every step keeps the invariant.
LEMMA NextIInv == IInv /\ [FemNext]_femVars => IInv'
<1> SUFFICES ASSUME IInv, [FemNext]_femVars PROVE IInv'
  OBVIOUS
<1> USE DEF IInv, Typed, EntryOK, FilterOK, OneIdentPerPath, Watching
<1>1. CASE \E p \in Path, n \in Note : Touch(p, n)
  <2>1. PICK p \in Path, n \in Note : Touch(p, n)
    BY <1>1
  <2>2. pending' \in [Fd -> SUBSET Note]
    BY <2>1 DEF Touch
  <2> QED
    BY <2>1, <2>2 DEF Touch
<1>2. CASE ReaderFails
  BY <1>2 DEF ReaderFails
<1>3. CASE KqueueEvent
  <2>1. mailbox' \in Seq(Message) /\ MailOK(mailbox', opened')
    BY <1>3, ReceiveFacts DEF KqueueEvent, Received
  <2> QED
    BY <1>3, <2>1 DEF KqueueEvent
<1>4. CASE UNCHANGED femVars
  BY <1>4 DEF femVars
<1> QED
  BY <1>1, <1>2, <1>3, <1>4, RegisterIInv, UnregisterIInv, ReadIInv, ClientIInv
  DEF FemNext, FemInternal

-----------------------------------------------------------------------------
(* The theorems *)

\* Every reachable state satisfies the inductive invariant.
THEOREM Invariance == FemSpec => []IInv
  BY InitIInv, NextIInv, PTL DEF FemSpec

\* An event in the mailbox and an entry of the table agree with the descriptor.
LEMMA RightPathFromIInv == IInv => RightPath
<1> SUFFICES ASSUME IInv, NEW i \in 1..Len(mailbox), mailbox[i].type = "kqueue",
                    idents[mailbox[i].ident] # None
             PROVE  idents[mailbox[i].ident].path = mailbox[i].from
  BY DEF RightPath
<1>1. mailbox[i] \in Message /\ opened[mailbox[i].ident] = mailbox[i].from
  BY ElementOfSeq DEF IInv, Typed, MailOK, EventOK
<1>2. mailbox[i].ident \in Fd
  BY <1>1 DEF Message
<1> QED
  BY <1>1, <1>2 DEF IInv, EntryOK

\* SvdKqueueFileEvent is forwarded for the file it is about, restarts and late
\* events of old reader threads included.
THEOREM EventsNameTheirFile == FemSpec => []RightPath
  BY RightPathFromIInv, Invariance, PTL

\* No path is ever registered twice, so no event is forwarded twice.
THEOREM WatchedOnce == FemSpec => []OneIdentPerPath
<1>1. IInv => OneIdentPerPath
  BY DEF IInv
<1> QED
  BY <1>1, Invariance, PTL

\* No entry of the table outlives its kqueue.
THEOREM WatchesAreLive == FemSpec => []LiveKqueue
<1>1. IInv => LiveKqueue
  BY DEF IInv, EntryOK, LiveKqueue
<1> QED
  BY <1>1, Invariance, PTL

-----------------------------------------------------------------------------
(* The types *)

\* Induction over the natural numbers, for a set.
LEMMA AllNumbers ==
    ASSUME NEW S, 0 \in S, \A n \in Nat : n \in S => n + 1 \in S
    PROVE  Nat \subseteq S
<1> SUFFICES ASSUME Nat \ S # {} PROVE FALSE OBVIOUS
<1>1. PICK m \in Nat \ S : \A k \in Nat \ S : ~(<<k, m>> \in OpToRel(<, Nat))
  <2> DEFINE R == OpToRel(<, Nat)
             T == Nat \ S
  <2>1. IsWellFoundedOn(R, Nat) BY NatLessThanWellFounded
  <2>2. T \subseteq Nat /\ T # {} OBVIOUS
  <2> HIDE DEF R, T
  <2>3. \E x \in T : \A y \in T : ~(<<y, x>> \in R) BY <2>1, <2>2, WFMin
  <2> QED BY <2>3 DEF R, T
<1>a. m \in Nat /\ m \notin S OBVIOUS
<1>2. m # 0 /\ m - 1 \in Nat /\ m - 1 < m BY <1>a
<1>3. m - 1 \in S
  <2>1. <<m - 1, m>> \in OpToRel(<, Nat) BY <1>2 DEF OpToRel
  <2> QED BY <1>1, <1>2, <2>1
<1>4. (m - 1) + 1 \in S BY <1>2, <1>3
<1>5. (m - 1) + 1 = m BY <1>a
<1> QED BY <1>a, <1>4, <1>5

\* What is kept of a sequence, prefix by prefix.
KeepBody(s, Good, g, i) ==
    IF i = 0 THEN <<>> ELSE IF s[i] \in Good THEN Append(g[i - 1], s[i]) ELSE g[i - 1]

\* The recursive function that Keep is made of exists: one more element of the
\* sequence extends it.
LEMMA KeptPrefixes ==
    ASSUME NEW s, NEW Good, NEW n \in Nat
    PROVE  \E g : g = [i \in 0..n |-> KeepBody(s, Good, g, i)]
<1> DEFINE S == {m \in Nat : \E g : g = [i \in 0..m |-> KeepBody(s, Good, g, i)]}
<1>1. 0 \in S
  <2> DEFINE g == [i \in 0..0 |-> <<>>]
  <2>1. \A i \in 0..0 : KeepBody(s, Good, g, i) = <<>> BY DEF KeepBody
  <2>2. g = [i \in 0..0 |-> KeepBody(s, Good, g, i)] BY <2>1
  <2> QED BY <2>2
<1>2. ASSUME NEW m \in Nat, m \in S PROVE m + 1 \in S
  <2>1. PICK g : g = [i \in 0..m |-> KeepBody(s, Good, g, i)] BY <1>2
  <2> DEFINE h == [i \in 0..(m + 1) |-> IF i <= m THEN g[i] ELSE KeepBody(s, Good, g, i)]
  <2>2. ASSUME NEW i \in 0..(m + 1) PROVE h[i] = KeepBody(s, Good, h, i)
    <3>1. h[i] = KeepBody(s, Good, g, i)
      <4>1. CASE i <= m
        <5>1. i \in 0..m BY <4>1
        <5>2. g[i] = KeepBody(s, Good, g, i) BY <2>1, <5>1
        <5> QED BY <4>1, <5>2
      <4> QED BY <4>1
    <3>2. i # 0 => h[i - 1] = g[i - 1] OBVIOUS
    <3> HIDE DEF h
    <3> QED BY <3>1, <3>2 DEF KeepBody
  <2>3. h = [i \in 0..(m + 1) |-> h[i]] OBVIOUS
  <2> HIDE DEF h
  <2>4. h = [i \in 0..(m + 1) |-> KeepBody(s, Good, h, i)] BY <2>2, <2>3
  <2> QED BY <2>4
<1>3. Nat \subseteq S
  <2> HIDE DEF S
  <2> QED BY <1>1, <1>2, AllNumbers
<1> QED BY <1>3

Members(s) == {s[i] : i \in 1..Len(s)}

\* The members of what is kept of a sequence.
LEMMA KeepFacts ==
    ASSUME NEW T, NEW s \in Seq(T), NEW Good
    PROVE  /\ Keep(s, Good) \in Seq(T)
           /\ Members(Keep(s, Good)) = Members(s) \cap Good
<1> DEFINE n == Len(s)
           K == CHOOSE g : g = [i \in 0..n |-> KeepBody(s, Good, g, i)]
<1>0. n \in Nat /\ \A i \in 1..n : s[i] \in T OBVIOUS
<1>1. K = [i \in 0..n |-> KeepBody(s, Good, K, i)]
  <2>1. \E g : g = [i \in 0..n |-> KeepBody(s, Good, g, i)] BY <1>0, KeptPrefixes
  <2> QED BY <2>1
<1>2. Keep(s, Good) = K[n] BY DEF Keep, KeepBody
<1> HIDE DEF K
<1>3. K[0] = <<>> BY <1>0, <1>1 DEF KeepBody
<1>4. ASSUME NEW i \in 1..n
      PROVE  K[i] = IF s[i] \in Good THEN Append(K[i - 1], s[i]) ELSE K[i - 1]
  <2>1. i \in 0..n /\ i # 0 BY <1>0
  <2>2. K[i] = KeepBody(s, Good, K, i) BY <1>1, <2>1
  <2> QED BY <2>1, <2>2 DEF KeepBody
<1> DEFINE Right(m) == /\ K[m] \in Seq(T)
                       /\ \A x : (\E j \in 1..Len(K[m]) : K[m][j] = x)
                                   <=> x \in Good /\ \E j \in 1..m : s[j] = x
           S == {m \in Nat : m <= n => Right(m)}
<1>5. 0 \in S
  <2>1. <<>> \in Seq(T) /\ Len(<<>>) = 0 OBVIOUS
  <2>2. \A x : ~\E j \in 1..Len(K[0]) : K[0][j] = x BY <1>3, <2>1
  <2>3. \A x : ~\E j \in 1..0 : s[j] = x OBVIOUS
  <2>4. Right(0) BY <1>3, <2>1, <2>2, <2>3
  <2> HIDE DEF Right
  <2> QED BY <2>4
<1>6. ASSUME NEW m \in Nat, m \in S PROVE m + 1 \in S
  <2> SUFFICES ASSUME m + 1 <= n PROVE Right(m + 1) OBVIOUS
  <2>1. m + 1 \in 1..n /\ m <= n /\ (m + 1) - 1 = m BY <1>0
  <2>2. Right(m) BY <1>6, <2>1
  <2> DEFINE a == K[m]
             b == K[m + 1]
             y == s[m + 1]
  <2>3. b = IF y \in Good THEN Append(a, y) ELSE a BY <1>4, <2>1
  <2>4. a \in Seq(T) /\ y \in T BY <1>0, <2>1, <2>2
  <2>5. \A x : (\E j \in 1..Len(a) : a[j] = x) <=> x \in Good /\ \E j \in 1..m : s[j] = x
    BY <2>2
  <2>6. \A x : (\E j \in 1..(m + 1) : s[j] = x) <=> x = y \/ \E j \in 1..m : s[j] = x
    <3>1. \A j : j \in 1..(m + 1) <=> j = m + 1 \/ j \in 1..m OBVIOUS
    <3> QED BY <3>1
  <2> HIDE DEF a, b, y
  <2>7. CASE y \in Good
    <3>1. /\ b \in Seq(T) /\ Len(b) = Len(a) + 1 /\ b[Len(a) + 1] = y /\ Len(a) \in Nat
          /\ \A j \in 1..Len(a) : b[j] = a[j]
      BY <2>3, <2>4, <2>7, AppendProperties
    <3>2. \A x : (\E j \in 1..Len(b) : b[j] = x) <=> x = y \/ \E j \in 1..Len(a) : a[j] = x
      <4>1. \A j : j \in 1..Len(b) <=> j = Len(a) + 1 \/ j \in 1..Len(a) BY <3>1
      <4> QED BY <3>1, <4>1
    <3> QED BY <2>5, <2>6, <2>7, <3>1, <3>2 DEF b
  <2>8. CASE y \notin Good BY <2>3, <2>4, <2>5, <2>6, <2>8 DEF b
  <2> QED BY <2>7, <2>8
<1>7. n \in S
  <2> HIDE DEF S
  <2> QED BY <1>0, <1>5, <1>6, AllNumbers
<1>8. Right(n) BY <1>0, <1>7
<1> QED BY <1>2, <1>8 DEF Members

\* The rest of the types: the table and the reader threads.
TableOK ==
    /\ idents \in [Fd -> Entry \cup {None}]
    /\ readers \subseteq Epoch

\* An entry is a path and a list.
LEMMA EntryParts ==
    ASSUME TableOK, NEW fd \in Fd, idents[fd] # None
    PROVE  /\ idents[fd] \in Entry /\ idents[fd].path \in Path
           /\ idents[fd].list \in Seq(Flags \X Ref)
           /\ \A l \in Seq(Flags \X Ref) : [idents[fd] EXCEPT !.list = l] \in Entry
  BY DEF TableOK, Entry

\* What is left of an entry.
LEMMA WithoutFacts ==
    ASSUME TableOK, NEW fd \in Fd, idents[fd] # None, NEW ref
    PROVE  /\ Without(idents[fd], ref) \in Entry \cup {None}
           /\ (\A x \in Members(idents[fd].list) : x[2] = ref)
                => Without(idents[fd], ref) = None
<1> DEFINE l == idents[fd].list
           T == Flags \X Ref
           G == Flags \X (Ref \ {ref})
           kept == Keep(l, G)
<1>1. l \in Seq(T) BY EntryParts
<1>2. Without(idents[fd], ref) = IF kept = <<>> THEN None ELSE [idents[fd] EXCEPT !.list = kept]
  BY DEF Without
<1> HIDE DEF l, T, G
<1>3. kept \in Seq(T) /\ Members(kept) = Members(l) \cap G BY <1>1, KeepFacts
<1> USE DEF T, G
<1> HIDE DEF kept
<1>4. [idents[fd] EXCEPT !.list = kept] \in Entry BY <1>3, EntryParts
<1>5. ASSUME \A x \in Members(l) : x[2] = ref PROVE kept = <<>>
  <2> SUFFICES ASSUME kept # <<>> PROVE FALSE OBVIOUS
  <2>1. 1 \in 1..Len(kept) BY <1>3
  <2>2. kept[1] \in Members(kept) BY <2>1 DEF Members
  <2>3. kept[1] \in Flags \X (Ref \ {ref}) /\ kept[1] \in Members(l) BY <1>3, <2>2
  <2>4. kept[1][2] # ref BY <2>3
  <2> QED BY <1>5, <2>3, <2>4
<1> QED BY <1>2, <1>4, <1>5 DEF l

\* The parts of a registration.
LEMMA RegisterParts ==
    ASSUME IInv, Received("register")
    PROVE  /\ Head(mailbox) \in Message
           /\ Head(mailbox).path \in Path /\ Head(mailbox).flags \in Flags
           /\ Head(mailbox).ref \in Ref
<1>1. mailbox \in Seq(Message) /\ mailbox # <<>> /\ Head(mailbox).type = "register"
  BY DEF IInv, Typed, Received
<1>2. Head(mailbox) \in Message BY <1>1, HeadTailProperties
<1> QED BY <1>1, <1>2 DEF Message

\* A watcher joins a list, a file is opened, or the actor is restarted.
LEMMA RegisterTable == ASSUME IInv, TableOK, Register PROVE TableOK'
<1> DEFINE m == Head(mailbox)
<1>1. Received("register") BY DEF Register
<1>2. m.path \in Path /\ m.flags \in Flags /\ m.ref \in Ref BY <1>1, RegisterParts
<1> HIDE DEF m
<1>3. <<m.flags, m.ref>> \in Flags \X Ref BY <1>2
<1>4. ASSUME Restart PROVE TableOK'
  <2>1. epoch + 1 \in Epoch BY <1>4, BoundAssumption DEF Restart, IInv, Typed, Epoch
  <2>2. readers' \subseteq Epoch BY <1>4, <2>1 DEF Restart, TableOK
  <2>3. idents' \in [Fd -> Entry \cup {None}] BY <1>4 DEF Restart, NoIdents
  <2> QED BY <2>2, <2>3 DEF TableOK
<1>5. ASSUME NEW fd \in Watching(m.path), Join(fd, m) PROVE TableOK'
  <2>1. fd \in Fd /\ idents[fd] # None BY DEF Watching
  <2> DEFINE l == Append(idents[fd].list, <<m.flags, m.ref>>)
  <2>2. l \in Seq(Flags \X Ref) BY <1>3, <2>1, EntryParts, AppendProperties
  <2>3. idents' = [idents EXCEPT ![fd] = [idents[fd] EXCEPT !.list = l]] /\ readers' = readers
    BY <1>5, <2>1 DEF Join, TableOK
  <2> HIDE DEF l
  <2>4. [idents[fd] EXCEPT !.list = l] \in Entry BY <2>1, <2>2, EntryParts
  <2> QED BY <2>3, <2>4 DEF TableOK
<1>6. ASSUME NEW fd \in Fd, readers' = readers,
             idents' = [idents EXCEPT ![fd] =
                          [path |-> m.path, list |-> <<<<m.flags, m.ref>>>>]]
      PROVE  TableOK'
  <2>1. [path |-> m.path, list |-> <<<<m.flags, m.ref>>>>] \in Entry BY <1>2, <1>3 DEF Entry
  <2> QED BY <1>6, <2>1 DEF TableOK
<1>7. CASE RegisterNew(m) BY <1>4, <1>6, <1>7 DEF RegisterNew
<1> QED BY <1>5, <1>7 DEF Register, m

\* Every step keeps the types of the table.
LEMMA TableStep == ASSUME IInv, TableOK, [FemNext]_femVars PROVE TableOK'
<1>1. CASE Register BY <1>1, RegisterTable
<1>2. CASE Unregister
  <2>1. \A fd \in Fd : idents[fd] # None =>
            Without(idents[fd], Head(mailbox).ref) \in Entry \cup {None}
    BY WithoutFacts
  <2> QED BY <1>2, <2>1 DEF Unregister, TableOK
<1>3. ASSUME NEW e \in Epoch, NEW fd \in Fd, Read(e, fd) PROVE TableOK'
  BY <1>3 DEF Read, TableOK
<1>4. CASE UNCHANGED idents /\ readers' \subseteq readers
  BY <1>4 DEF TableOK
<1>5. CASE UNCHANGED <<idents, readers>> BY <1>5 DEF TableOK
<1> QED BY <1>1, <1>2, <1>3, <1>4, <1>5
    DEF FemNext, FemInternal, femVars, Touch, ReaderFails, Client, KqueueEvent

\* The values of all variables stay in their types: messages of three kinds, lists of
\* watchers from which entries are filtered, descriptors, instances.
THEOREM FemTypesAreKept == FemSpec => []FemTypeOK
<1>1. FemInit => TableOK
  BY BoundAssumption DEF FemInit, TableOK, NoIdents, Epoch
<1>2. IInv /\ TableOK /\ [FemNext]_femVars => TableOK'
  BY TableStep
<1>3. IInv /\ TableOK => FemTypeOK
  BY DEF IInv, Typed, TableOK, FemTypeOK
<1> QED
  BY <1>1, <1>2, <1>3, InitIInv, NextIInv, PTL DEF FemSpec

-----------------------------------------------------------------------------
(* The account manager *)

\* Only CreateFileWatch adds a binding, and it looks for the path first.
LEMMA BoundStep == ASSUME OneBindingPerPath, [Next]_vars PROVE OneBindingPerPath'
<1>1. ASSUME CreateFileWatch PROVE OneBindingPerPath'
  <2> DEFINE m == Head(amBox)
             b == [uuid |-> created + 1, path |-> m.path, flags |-> m.flags]
  <2>1. CASE bindings' = bindings
    BY <2>1 DEF OneBindingPerPath
  <2>2. CASE Bound(m.path) = {} /\ bindings' = bindings \cup {b}
    <3>1. b.path = m.path OBVIOUS
    <3>2. \A c \in bindings : c.path # m.path BY <2>2 DEF Bound
    <3> HIDE DEF b, m
    <3> QED BY <2>2, <3>1, <3>2 DEF OneBindingPerPath
  <2> QED BY <1>1, <2>1, <2>2 DEF CreateFileWatch
<1>2. ASSUME NEW u \in Uuid, RemoveBinding(u) PROVE OneBindingPerPath'
  BY <1>2 DEF RemoveBinding, OneBindingPerPath
<1>3. CASE UNCHANGED bindings
  BY <1>3 DEF OneBindingPerPath
<1> QED
  BY <1>1, <1>2, <1>3
  DEF Next, vars, watchVars, Ask, DestroyFileWatch, ForwardRegister, FileEvent, AmRestart,
      Forward

\* However requests, callbacks, restarts and the file events manager interleave,
\* and whether clients are patient or not, no path of an account gets a second
\* binding: CreateFileWatch alone adds one, and looks for the path first.
THEOREM BoundOnce == Spec => []OneBindingPerPath
<1>1. Init => OneBindingPerPath
  BY DEF Init, OneBindingPerPath
<1>2. OneBindingPerPath /\ [Next]_vars => OneBindingPerPath'
  BY BoundStep
<1> QED
  BY <1>1, <1>2, PTL DEF Spec

-----------------------------------------------------------------------------
(* The account manager's records *)

\* Nothing but messages that ask for nothing, or at most one other.
Quiet(s, idle) == \A m \in Members(s) : m.type = idle
Lone(s, idle) ==
    \A i, j \in 1..Len(s) : s[i].type # idle /\ s[j].type # idle => i = j

Has(s, type) == \E m \in Members(s) : m.type = type

\* Bindings that are still to be created.
Creates(s) == {i \in 1..Len(s) : s[i].type = "create"}

WatchesTyped ==
    /\ amBox \in Seq(AmMessage)
    /\ bindings \subseteq Binding
    /\ created \in Nat /\ created + Cardinality(Creates(amBox)) <= MaxBindings
    /\ doomed \subseteq Uuid


\* Taking the first message of a box.
LEMMA TailBox ==
    ASSUME NEW T, NEW s \in Seq(T), s # <<>>, NEW idle
    PROVE  /\ Head(s) \in T /\ Tail(s) \in Seq(T)
           /\ Members(s) = {Head(s)} \cup Members(Tail(s)) /\ Members(s) \subseteq T
           /\ Lone(s, idle) => Lone(Tail(s), idle)
           /\ Lone(s, idle) /\ Head(s).type # idle => Quiet(Tail(s), idle)
<1> DEFINE t == Tail(s)
<1>1. /\ Len(s) \in Nat /\ Len(s) >= 1 /\ Head(s) = s[1] /\ Head(s) \in T
      /\ t \in Seq(T) /\ Len(t) = Len(s) - 1 /\ \A i \in 1..Len(t) : t[i] = s[i + 1]
  BY HeadTailProperties
<1> HIDE DEF t
<1>2. \A i : i \in 1..Len(s) <=> i = 1 \/ (i - 1 \in 1..Len(t) /\ i \in Nat)
  BY <1>1
<1>3. \A i \in 1..Len(t) : i + 1 \in 1..Len(s) /\ t[i] = s[i + 1] /\ i + 1 # 1 BY <1>1
<1>4. \A i \in 1..Len(s) : i # 1 => i - 1 \in 1..Len(t) /\ t[i - 1] = s[i]
  <2> SUFFICES ASSUME NEW i \in 1..Len(s), i # 1
               PROVE  i - 1 \in 1..Len(t) /\ t[i - 1] = s[i] OBVIOUS
  <2>1. i - 1 \in 1..Len(t) /\ (i - 1) + 1 = i BY <1>1
  <2>2. t[i - 1] = s[(i - 1) + 1] BY <1>1, <2>1
  <2> QED BY <2>1, <2>2
<1>5. Members(s) \subseteq {Head(s)} \cup Members(t) BY <1>1, <1>4 DEF Members
<1>6. {Head(s)} \cup Members(t) \subseteq Members(s)
  <2>1. Head(s) \in Members(s) BY <1>1 DEF Members
  <2>2. Members(t) \subseteq Members(s) BY <1>3 DEF Members
  <2> QED BY <2>1, <2>2
<1>7. Members(s) \subseteq T BY DEF Members
<1>8. ASSUME Lone(s, idle) PROVE Lone(t, idle)
  <2> SUFFICES ASSUME NEW i \in 1..Len(t), NEW j \in 1..Len(t), t[i].type # idle, t[j].type # idle
               PROVE  i = j
    BY DEF Lone
  <2>1. i + 1 = j + 1 BY <1>3, <1>8 DEF Lone
  <2> QED BY <2>1
<1>9. ASSUME Lone(s, idle), Head(s).type # idle PROVE Quiet(t, idle)
  <2> SUFFICES ASSUME NEW i \in 1..Len(t), t[i].type # idle PROVE FALSE
    BY DEF Quiet, Members
  <2>1. 1 \in 1..Len(s) /\ i + 1 \in 1..Len(s) BY <1>1, <1>3
  <2>2. i + 1 = 1 BY <1>1, <1>3, <1>9, <2>1 DEF Lone
  <2> QED BY <2>2
<1> QED BY <1>1, <1>5, <1>6, <1>7, <1>8, <1>9 DEF t

\* Adding a message to a box.
LEMMA AppendBox ==
    ASSUME NEW T, NEW s \in Seq(T), NEW m \in T, NEW idle
    PROVE  /\ Append(s, m) \in Seq(T)
           /\ Members(Append(s, m)) = Members(s) \cup {m}
           /\ Lone(s, idle) /\ m.type = idle => Lone(Append(s, m), idle)
           /\ Quiet(s, idle) => Lone(Append(s, m), idle)
<1> DEFINE t == Append(s, m)
<1>1. /\ t \in Seq(T) /\ Len(s) \in Nat /\ Len(t) = Len(s) + 1 /\ t[Len(s) + 1] = m
      /\ \A i \in 1..Len(s) : t[i] = s[i]
  BY AppendProperties
<1> HIDE DEF t
<1>2. \A i : i \in 1..Len(t) <=> i = Len(s) + 1 \/ i \in 1..Len(s) BY <1>1
<1>3. Members(t) = Members(s) \cup {m}
  <2>1. Members(t) \subseteq Members(s) \cup {m} BY <1>1, <1>2 DEF Members
  <2>2. Members(s) \subseteq Members(t) BY <1>1, <1>2 DEF Members
  <2>3. m \in Members(t) BY <1>1, <1>2 DEF Members
  <2> QED BY <2>1, <2>2, <2>3
<1>4. ASSUME Lone(s, idle), m.type = idle PROVE Lone(t, idle)
  <2>1. \A i \in 1..Len(t) : t[i].type # idle => i \in 1..Len(s) /\ t[i] = s[i]
    BY <1>1, <1>2, <1>4
  <2> QED BY <1>4, <2>1 DEF Lone
<1>5. ASSUME Quiet(s, idle) PROVE Lone(t, idle)
  <2>1. \A i \in 1..Len(s) : t[i].type = idle BY <1>1, <1>5 DEF Quiet, Members
  <2>2. \A i \in 1..Len(t) : t[i].type # idle => i = Len(s) + 1 BY <1>2, <2>1
  <2> QED BY <2>2 DEF Lone
<1> QED BY <1>1, <1>3, <1>4, <1>5 DEF t

\* Adding messages that ask for nothing.
LEMMA ConcatBox ==
    ASSUME NEW T, NEW s \in Seq(T), NEW u \in Seq(T), NEW idle, Quiet(u, idle)
    PROVE  /\ s \o u \in Seq(T)
           /\ Members(s \o u) = Members(s) \cup Members(u)
           /\ Lone(s, idle) => Lone(s \o u, idle)
<1> DEFINE t == s \o u
<1>1. /\ t \in Seq(T) /\ Len(s) \in Nat /\ Len(u) \in Nat /\ Len(t) = Len(s) + Len(u)
      /\ \A i \in 1..Len(t) : t[i] = IF i <= Len(s) THEN s[i] ELSE u[i - Len(s)]
  BY ConcatProperties
<1> HIDE DEF t
<1>2. \A i \in 1..Len(s) : i \in 1..Len(t) /\ t[i] = s[i] BY <1>1
<1>3. \A i \in 1..Len(u) : i + Len(s) \in 1..Len(t) /\ t[i + Len(s)] = u[i]
  <2> SUFFICES ASSUME NEW i \in 1..Len(u)
               PROVE  i + Len(s) \in 1..Len(t) /\ t[i + Len(s)] = u[i] OBVIOUS
  <2>1. i + Len(s) \in 1..Len(t) /\ ~(i + Len(s) <= Len(s)) /\ (i + Len(s)) - Len(s) = i BY <1>1
  <2>2. t[i + Len(s)] = u[(i + Len(s)) - Len(s)] BY <1>1, <2>1
  <2> QED BY <2>1, <2>2
<1>4. \A i \in 1..Len(t) : \/ i \in 1..Len(s) /\ t[i] = s[i]
                           \/ i - Len(s) \in 1..Len(u) /\ t[i] = u[i - Len(s)]
  BY <1>1
<1>5. Members(t) = Members(s) \cup Members(u)
  <2>1. Members(t) \subseteq Members(s) \cup Members(u) BY <1>4 DEF Members
  <2>2. Members(s) \subseteq Members(t) BY <1>2 DEF Members
  <2>3. Members(u) \subseteq Members(t) BY <1>3 DEF Members
  <2> QED BY <2>1, <2>2, <2>3
<1>6. ASSUME Lone(s, idle) PROVE Lone(t, idle)
  <2>1. \A i \in 1..Len(u) : u[i].type = idle BY DEF Quiet, Members
  <2>2. \A i \in 1..Len(t) : t[i].type # idle => i \in 1..Len(s) /\ t[i] = s[i] BY <1>4, <2>1
  <2> QED BY <1>6, <2>2 DEF Lone
<1> QED BY <1>1, <1>5, <1>6 DEF t

\* The places of the creations in a box are so many.
LEMMA CreatesFinite ==
    ASSUME NEW s \in Seq(AmMessage)
    PROVE  /\ IsFiniteSet(Creates(s)) /\ Cardinality(Creates(s)) \in Nat
           /\ Cardinality(Creates(s)) <= Len(s)
<1>1. Len(s) \in Nat OBVIOUS
<1>2. IsFiniteSet(1..Len(s)) /\ Cardinality(1..Len(s)) = Len(s)
  <2>1. 1 \in Int /\ Len(s) \in Int BY <1>1
  <2>2. Cardinality(1..Len(s)) = IF 1 > Len(s) THEN 0 ELSE Len(s) - 1 + 1 BY <2>1, FS_Interval
  <2> QED BY <1>1, <2>1, <2>2, FS_Interval
<1>3. Creates(s) \subseteq 1..Len(s) BY DEF Creates
<1>4. IsFiniteSet(Creates(s)) /\ Cardinality(Creates(s)) <= Cardinality(1..Len(s))
  BY <1>2, <1>3, FS_Subset
<1> QED BY <1>2, <1>4, FS_CardinalityType

\* Taking, adding and joining: how many creations are left.
LEMMA CreatesCount ==
    ASSUME NEW s \in Seq(AmMessage)
    PROVE  /\ s # <<>> => Cardinality(Creates(Tail(s))) <= Cardinality(Creates(s))
           /\ s # <<>> /\ Head(s).type = "create" =>
                Cardinality(Creates(Tail(s))) + 1 <= Cardinality(Creates(s))
           /\ \A m \in AmMessage : m.type # "create" => Creates(Append(s, m)) = Creates(s)
           /\ \A m \in AmMessage :
                Cardinality(Creates(Append(s, m))) <= Cardinality(Creates(s)) + 1
           /\ \A u \in Seq(AmMessage) : Quiet(u, "event") => Creates(s \o u) = Creates(s)
<1>1. ASSUME s # <<>>
      PROVE  /\ Cardinality(Creates(Tail(s))) <= Cardinality(Creates(s))
             /\ Head(s).type = "create" =>
                Cardinality(Creates(Tail(s))) + 1 <= Cardinality(Creates(s))
  <2> DEFINE t == Tail(s)
             A == Creates(t)
             B == Creates(s)
             f == [i \in A |-> i + 1]
  <2>1. /\ Len(s) \in Nat /\ Len(s) >= 1 /\ Head(s) = s[1]
        /\ t \in Seq(AmMessage) /\ Len(t) = Len(s) - 1 /\ \A i \in 1..Len(t) : t[i] = s[i + 1]
    BY <1>1, HeadTailProperties
  <2>2. IsFiniteSet(B) /\ IsFiniteSet(A) /\ Cardinality(B) \in Nat /\ Cardinality(A) \in Nat
    BY <2>1, CreatesFinite
  <2> HIDE DEF t
  <2>3. \A i \in A : i \in Nat /\ i + 1 \in B \ {1} BY <2>1 DEF Creates
  <2>4. f \in [A -> B \ {1}] BY <2>3
  <2>5. \A i, j \in A : f[i] = f[j] => i = j BY <2>3
  <2>6. 1 \in B <=> Head(s).type = "create" BY <2>1 DEF Creates
  <2> HIDE DEF A, B, f
  <2>7. f \in Injection(A, B \ {1}) BY <2>4, <2>5 DEF Injection, IsInjective
  <2>8. /\ IsFiniteSet(B \ {1})
        /\ Cardinality(B \ {1}) = IF 1 \in B THEN Cardinality(B) - 1 ELSE Cardinality(B)
    BY <2>2, FS_RemoveElement
  <2>9. Cardinality(A) <= Cardinality(B \ {1}) BY <2>7, <2>8, FS_Injection
  <2>10. Cardinality(A) <= Cardinality(B) /\ (1 \in B => Cardinality(A) + 1 <= Cardinality(B))
    BY <2>2, <2>8, <2>9
  <2> QED BY <2>6, <2>10 DEF A, B, t
<1>2. ASSUME NEW m \in AmMessage
      PROVE  /\ m.type # "create" => Creates(Append(s, m)) = Creates(s)
             /\ Cardinality(Creates(Append(s, m))) <= Cardinality(Creates(s)) + 1
  <2> DEFINE t == Append(s, m)
             A == Creates(t)
             B == Creates(s)
             k == Len(s) + 1
  <2>1. /\ Len(s) \in Nat /\ Len(t) = Len(s) + 1 /\ t[Len(s) + 1] = m
        /\ t \in Seq(AmMessage) /\ \A i \in 1..Len(s) : t[i] = s[i]
    BY AppendProperties
  <2>2. IsFiniteSet(B) /\ IsFiniteSet(A) /\ Cardinality(B) \in Nat /\ Cardinality(A) \in Nat
    BY <2>1, CreatesFinite
  <2> HIDE DEF t
  <2>3. \A i : i \in 1..Len(t) <=> i = k \/ i \in 1..Len(s) BY <2>1
  <2>4. m.type # "create" => A = B BY <2>1, <2>3 DEF Creates
  <2>5. A \subseteq B \cup {k} BY <2>1, <2>3 DEF Creates
  <2> HIDE DEF A, B, k
  <2>6. IsFiniteSet(B \cup {k}) /\ Cardinality(B \cup {k}) <= Cardinality(B) + 1
        /\ Cardinality(B \cup {k}) \in Nat
    <3>1. /\ IsFiniteSet(B \cup {k})
          /\ Cardinality(B \cup {k}) = IF k \in B THEN Cardinality(B) ELSE Cardinality(B) + 1
      BY <2>2, FS_AddElement
    <3> QED BY <2>2, <3>1
  <2>7. Cardinality(A) <= Cardinality(B \cup {k}) BY <2>5, <2>6, FS_Subset
  <2>8. Cardinality(A) <= Cardinality(B) + 1 BY <2>2, <2>6, <2>7
  <2> QED BY <2>4, <2>8 DEF A, B, t
<1>3. ASSUME NEW u \in Seq(AmMessage), Quiet(u, "event") PROVE Creates(s \o u) = Creates(s)
  <2> DEFINE t == s \o u
  <2>1. /\ t \in Seq(AmMessage) /\ Len(s) \in Nat /\ Len(u) \in Nat /\ Len(t) = Len(s) + Len(u)
        /\ \A i \in 1..Len(t) : t[i] = IF i <= Len(s) THEN s[i] ELSE u[i - Len(s)]
    BY ConcatProperties
  <2> HIDE DEF t
  <2>2. \A i \in 1..Len(u) : u[i].type = "event" BY <1>3 DEF Quiet, Members
  <2>3. \A i \in 1..Len(t) : \/ i \in 1..Len(s) /\ t[i] = s[i]
                             \/ i - Len(s) \in 1..Len(u) /\ t[i] = u[i - Len(s)] /\ i \notin 1..Len(s)
    BY <2>1
  <2>4. \A i \in 1..Len(s) : i \in 1..Len(t) /\ t[i] = s[i] BY <2>1
  <2>5. Creates(t) = Creates(s)
    <3>1. Creates(t) \subseteq Creates(s) BY <2>2, <2>3 DEF Creates
    <3>2. Creates(s) \subseteq Creates(t) BY <2>4 DEF Creates
    <3> QED BY <3>1, <3>2
  <2> QED BY <2>5 DEF t
<1> QED BY <1>1, <1>2, <1>3

-----------------------------------------------------------------------------
(* The file events manager under the account manager *)

\* What the file events manager sends to the account manager are events.
LEMMA ForwardedEvents ==
    ASSUME IInv, TableOK, Forward
    PROVE  \E u \in Seq(AmMessage) : Quiet(u, "event") /\ amBox' = amBox \o u
<1> DEFINE m == Head(mailbox)
           Told == [ref : Ref, path : Path, flags : Flags]
           out == Forwarded(m)
           G == [ref : {Self}, path : Path, flags : Flags]
           toSelf == Keep(out, G)
           u == [i \in 1..Len(toSelf) |->
                    [type |-> "event", path |-> toSelf[i].path, flags |-> toSelf[i].flags]]
<1>1. amBox' = amBox \o u BY DEF Forward
<1>2. mailbox \in Seq(Message) /\ mailbox # <<>> /\ m.type = "kqueue"
  BY DEF IInv, Typed, Forward, KqueueEvent, Received
<1>3. m \in Message BY <1>2, HeadTailProperties
<1>4. m.ident \in Fd /\ m.flags \in Flags BY <1>2, <1>3 DEF Message
<1> HIDE DEF m
<1>5. out \in Seq(Told)
  <2>1. CASE idents[m.ident] = None
    <3>1. out = <<>> BY <2>1 DEF Forwarded
    <3> QED BY <3>1
  <2>2. CASE idents[m.ident] # None
    <3> DEFINE l == idents[m.ident].list
               T == Flags \X Ref
               H == {x \in Flags \X Ref : x[1] \cap m.flags # {}}
               to == Keep(l, H)
    <3>1. l \in Seq(T) /\ idents[m.ident].path \in Path BY <1>4, <2>2, EntryParts
    <3>2. out = [i \in 1..Len(to) |-> [ref |-> to[i][2], path |-> idents[m.ident].path,
                                       flags |-> m.flags]]
      BY <2>2 DEF Forwarded, Interested
    <3> HIDE DEF l, H, T
    <3>3. to \in Seq(T) BY <3>1, KeepFacts
    <3> HIDE DEF to
    <3>4. Len(to) \in Nat /\ \A i \in 1..Len(to) : to[i] \in T BY <3>3
    <3>5. \A i \in 1..Len(to) : to[i][2] \in Ref BY <3>4 DEF T
    <3>6. out \in [1..Len(to) -> Told] BY <1>4, <3>1, <3>2, <3>5
    <3> HIDE DEF out, Told
    <3> QED BY <3>4, <3>6
  <2> QED BY <2>1, <2>2
<1> HIDE DEF out, G, Told
<1>6. toSelf \in Seq(Told) BY <1>5, KeepFacts
<1> HIDE DEF toSelf
<1>7. Len(toSelf) \in Nat /\ \A i \in 1..Len(toSelf) : toSelf[i] \in Told BY <1>6
<1>8. \A i \in 1..Len(toSelf) : toSelf[i].path \in Path /\ toSelf[i].flags \in Flags
  BY <1>7 DEF Told
<1>9. \A i \in 1..Len(toSelf) : u[i] \in AmMessage /\ u[i].type = "event"
  BY <1>8 DEF AmMessage
<1>10. DOMAIN u = 1..Len(toSelf) /\ u = [i \in 1..Len(toSelf) |-> u[i]] OBVIOUS
<1> HIDE DEF u
<1>11. u \in [1..Len(toSelf) -> AmMessage] BY <1>9, <1>10
<1>12. u \in Seq(AmMessage) /\ Len(u) = Len(toSelf) BY <1>7, <1>11
<1>13. Quiet(u, "event") BY <1>9, <1>12 DEF Quiet, Members
<1> QED BY <1>1, <1>12, <1>13

\* The account manager posts a message that is no event, and touches nothing else.
LEMMA PostIInv ==
    ASSUME IInv, TableOK, NEW m \in Message, m.type # "kqueue", mailbox' = Append(mailbox, m),
           UNCHANGED <<idents, epoch, readers, opened, filter, pending>>
    PROVE  IInv' /\ TableOK'
<1>1. EventOK(m, opened) BY DEF EventOK
<1>2. mailbox' \in Seq(Message) /\ MailOK(mailbox', opened') BY <1>1, PostFacts
<1> QED
  BY <1>2 DEF IInv, Typed, EntryOK, FilterOK, OneIdentPerPath, Watching, TableOK

\* The account manager is restarted, and has a new file events manager.
LEMMA AmRestartIInv == ASSUME IInv, TableOK, AmRestart PROVE IInv' /\ TableOK'
<1>1. mailbox' = <<>> /\ mailbox' \in Seq(Message) /\ Len(mailbox') = 0
  BY EmptySeq DEF AmRestart
<1>2. epoch' \in Epoch /\ readers' \subseteq Epoch
  BY BoundAssumption DEF AmRestart, IInv, Typed, Epoch
<1>3. idents' \in [Fd -> Entry \cup {None}] /\ \A fd \in Fd : idents'[fd] = None
  BY DEF AmRestart, NoIdents
<1>4. opened' = opened /\ filter' = filter /\ pending' = pending BY DEF AmRestart
<1>5. Typed' BY <1>1, <1>2, <1>3, <1>4 DEF IInv, Typed
<1>6. \A fd \in Fd : (EntryOK(fd) /\ FilterOK(fd))'
  BY <1>3, <1>4 DEF IInv, EntryOK, FilterOK
<1>7. MailOK(mailbox', opened') BY <1>1 DEF MailOK
<1>8. OneIdentPerPath' BY <1>3 DEF OneIdentPerPath, Watching
<1> QED BY <1>2, <1>3, <1>5, <1>6, <1>7, <1>8 DEF IInv, TableOK

\* The head of the account manager's box.
LEMMA AmHead ==
    ASSUME WatchesTyped, NEW type, AmReceived(type)
    PROVE  /\ amBox \in Seq(AmMessage) /\ amBox # <<>>
           /\ Head(amBox) \in AmMessage /\ Head(amBox).type = type
           /\ Tail(amBox) \in Seq(AmMessage)
  BY HeadTailProperties DEF WatchesTyped, AmReceived

\* Every step of the composition is one of the file events manager, or leaves it in order.
LEMMA ManagerStep ==
    ASSUME IInv, TableOK, WatchesTyped, [Next]_vars
    PROVE  IInv' /\ TableOK'
<1>1. ASSUME [FemNext]_femVars PROVE IInv' /\ TableOK' BY <1>1, NextIInv, TableStep
<1>2. CASE DestroyFileWatch
  <2> DEFINE m == [type |-> "unregister", ref |-> Self]
  <2>1. m \in Message /\ m.type # "kqueue" BY SelfAssumption DEF Message
  <2>2. mailbox' = Append(mailbox, m) /\ UNCHANGED <<idents, epoch, readers, opened, filter, pending>>
    BY <1>2 DEF DestroyFileWatch, Post
  <2> HIDE DEF m
  <2> QED BY <2>1, <2>2, PostIInv
<1>3. CASE ForwardRegister
  <2> DEFINE m == [type |-> "register", path |-> Head(amBox).path,
                   flags |-> Head(amBox).flags, ref |-> Self]
  <2>1. Head(amBox) \in AmMessage /\ Head(amBox).type = "register"
    BY <1>3, AmHead DEF ForwardRegister
  <2>2. Head(amBox).path \in Path /\ Head(amBox).flags \in Flags
    BY <2>1, WatchAssumption DEF AmMessage
  <2>3. m \in Message /\ m.type # "kqueue" BY <2>2, SelfAssumption DEF Message
  <2>4. mailbox' = Append(mailbox, m) /\ UNCHANGED <<idents, epoch, readers, opened, filter, pending>>
    BY <1>3 DEF ForwardRegister, Post
  <2> HIDE DEF m
  <2> QED BY <2>3, <2>4, PostIInv
<1>4. CASE UNCHANGED femVars BY <1>1, <1>4
<1>5. CASE FemInternal BY <1>1, <1>5 DEF FemNext
<1>6. CASE Forward BY <1>1, <1>6 DEF Forward, FemNext
<1>7. CASE AmRestart BY <1>7, AmRestartIInv
<1> QED BY <1>2, <1>3, <1>4, <1>5, <1>6, <1>7
    DEF Next, vars, Ask, CreateFileWatch, RemoveBinding, FileEvent

\* A message is taken from the account manager's box, and nothing else changes there.
LEMMA TakenTyped ==
    ASSUME WatchesTyped, amBox # <<>>, amBox' = Tail(amBox), bindings' \subseteq bindings,
           created' = created, doomed' \subseteq Uuid
    PROVE  WatchesTyped'
<1>1. amBox \in Seq(AmMessage) /\ Tail(amBox) \in Seq(AmMessage)
  BY HeadTailProperties DEF WatchesTyped
<1>2. Cardinality(Creates(Tail(amBox))) <= Cardinality(Creates(amBox)) BY <1>1, CreatesCount
<1>3. Cardinality(Creates(Tail(amBox))) \in Nat /\ Cardinality(Creates(amBox)) \in Nat
  BY <1>1, CreatesFinite
<1>4. created \in Nat /\ created + Cardinality(Creates(amBox)) <= MaxBindings /\ MaxBindings \in Nat
  BY MaxAssumption DEF WatchesTyped
<1>5. created + Cardinality(Creates(Tail(amBox))) <= MaxBindings BY <1>2, <1>3, <1>4
<1> QED BY <1>1, <1>5 DEF WatchesTyped

\* A client asks for something.
LEMMA AskTyped ==
    ASSUME WatchesTyped, NEW m \in AmMessage, Ask(m),
           m.type = "create" => RoomToCreate
    PROVE  WatchesTyped'
<1>1. amBox \in Seq(AmMessage) /\ amBox' = Append(amBox, m) /\ amBox' \in Seq(AmMessage)
  BY AppendProperties DEF WatchesTyped, Ask
<1>2. bindings' = bindings /\ created' = created /\ doomed' = doomed BY DEF Ask
<1>3. created \in Nat /\ created + Cardinality(Creates(amBox)) <= MaxBindings /\ MaxBindings \in Nat
  BY MaxAssumption DEF WatchesTyped
<1>4. created + Cardinality(Creates(amBox')) <= MaxBindings
  <2>1. CASE m.type = "create"
    <3>1. Cardinality(Creates(amBox')) <= Cardinality(Creates(amBox)) + 1 BY <1>1, CreatesCount
    <3>2. /\ Cardinality(Creates(amBox)) <= Len(amBox) /\ Cardinality(Creates(amBox)) \in Nat
          /\ Cardinality(Creates(amBox')) \in Nat /\ Len(amBox) \in Nat
      <4>1. Len(amBox) \in Nat BY <1>1
      <4>2. Cardinality(Creates(amBox)) <= Len(amBox) /\ Cardinality(Creates(amBox)) \in Nat
        BY <1>1, CreatesFinite
      <4>3. ASSUME NEW s \in Seq(AmMessage) PROVE Cardinality(Creates(s)) \in Nat
        BY CreatesFinite
      <4>4. Cardinality(Creates(amBox')) \in Nat BY <1>1, <4>3
      <4> QED BY <4>1, <4>2, <4>4
    <3>3. created + Len(amBox) < MaxBindings BY <2>1 DEF RoomToCreate
    <3> QED BY <1>3, <3>1, <3>2, <3>3
  <2>2. CASE m.type # "create"
    <3>1. Creates(amBox') = Creates(amBox) BY <1>1, <2>2, CreatesCount
    <3> QED BY <1>3, <3>1
  <2> QED BY <2>1, <2>2
<1> QED BY <1>1, <1>2, <1>4 DEF WatchesTyped

\* A binding is created.
LEMMA CreateTyped == ASSUME WatchesTyped, CreateFileWatch PROVE WatchesTyped'
<1> DEFINE m == Head(amBox)
           r == [m EXCEPT !.type = "register"]
           b == [uuid |-> created + 1, path |-> m.path, flags |-> m.flags]
           t == Tail(amBox)
<1>1. /\ amBox \in Seq(AmMessage) /\ amBox # <<>> /\ m \in AmMessage /\ m.type = "create"
      /\ t \in Seq(AmMessage)
  BY AmHead DEF CreateFileWatch
<1>2. CASE bindings' = bindings /\ created' = created /\ amBox' = t
  BY <1>1, <1>2, TakenTyped DEF CreateFileWatch, WatchesTyped
<1>3. CASE created' = created + 1 /\ amBox' = Append(t, r) /\ bindings' = bindings \cup {b}
  <2>1. m \in [type : {"create", "register"}, path : Path, flags : WatchFlags]
    BY <1>1 DEF AmMessage
  <2>2. r \in AmMessage /\ r.type = "register" /\ m.path \in Path /\ m.flags \in WatchFlags
    BY <2>1 DEF AmMessage
  <2>3. Cardinality(Creates(t)) + 1 <= Cardinality(Creates(amBox)) BY <1>1, CreatesCount
  <2>4. Cardinality(Creates(t)) \in Nat /\ Cardinality(Creates(amBox)) \in Nat
    BY <1>1, CreatesFinite
  <2>5. created \in Nat /\ created + Cardinality(Creates(amBox)) <= MaxBindings /\ MaxBindings \in Nat
    BY MaxAssumption DEF WatchesTyped
  <2> HIDE DEF r, t, m
  <2>6. amBox' \in Seq(AmMessage) BY <1>1, <1>3, <2>2, AppendProperties
  <2>7. Creates(amBox') = Creates(t) BY <1>1, <1>3, <2>2, CreatesCount
  <2>8. created' \in Nat /\ created' + Cardinality(Creates(amBox')) <= MaxBindings
    BY <1>3, <2>3, <2>4, <2>5, <2>7
  <2>9. created + 1 \in Uuid BY <2>3, <2>4, <2>5 DEF Uuid
  <2>10. b \in Binding BY <2>2, <2>9 DEF Binding
  <2>11. bindings' \subseteq Binding BY <1>3, <2>10 DEF WatchesTyped
  <2>12. doomed' \subseteq Uuid BY DEF CreateFileWatch, WatchesTyped
  <2> QED BY <2>6, <2>8, <2>11, <2>12 DEF WatchesTyped
<1> QED BY <1>2, <1>3 DEF CreateFileWatch

\* Every step keeps the types of the account manager's state.
LEMMA WatchesStep ==
    ASSUME IInv, TableOK, WatchesTyped, [Next]_vars PROVE WatchesTyped'
<1>0. bindings \subseteq Binding /\ doomed \subseteq Uuid BY DEF WatchesTyped
<1>1. ASSUME NEW p \in Path, NEW f \in WatchFlags, RoomToCreate,
             Ask([type |-> "create", path |-> p, flags |-> f])
      PROVE  WatchesTyped'
  <2>1. [type |-> "create", path |-> p, flags |-> f] \in AmMessage BY DEF AmMessage
  <2> QED BY <1>1, <2>1, AskTyped
<1>2. ASSUME NEW p \in Path, Ask([type |-> "destroy", path |-> p]) PROVE WatchesTyped'
  <2> DEFINE m == [type |-> "destroy", path |-> p]
  <2>1. m \in AmMessage /\ m.type # "create" BY DEF AmMessage
  <2>2. Ask(m) BY <1>2
  <2> HIDE DEF m
  <2> QED BY <2>1, <2>2, AskTyped
<1>3. CASE CreateFileWatch BY <1>3, CreateTyped
<1>4. CASE DestroyFileWatch
  <2>1. doomed' \subseteq Uuid
    <3>1. \A b \in bindings : b.uuid \in Uuid BY <1>0 DEF Binding
    <3>2. \A q, b : b \in Bound(q) => b \in bindings BY DEF Bound
    <3> QED BY <1>0, <1>4, <3>1, <3>2 DEF DestroyFileWatch
  <2> QED BY <1>4, <2>1, TakenTyped DEF DestroyFileWatch, AmReceived
<1>5. ASSUME NEW u \in Uuid, RemoveBinding(u) PROVE WatchesTyped'
  BY <1>5 DEF RemoveBinding, WatchesTyped
<1>6. CASE ForwardRegister
  BY <1>0, <1>6, TakenTyped DEF ForwardRegister, AmReceived
<1>7. CASE FileEvent BY <1>0, <1>7, TakenTyped DEF FileEvent, AmReceived
<1>8. CASE AmRestart BY <1>0, <1>8, TakenTyped DEF AmRestart
<1>9. CASE UNCHANGED watchVars BY <1>9 DEF watchVars, WatchesTyped
<1>10. CASE Forward
  <2>1. PICK u \in Seq(AmMessage) : Quiet(u, "event") /\ amBox' = amBox \o u
    BY <1>10, ForwardedEvents
  <2>2. amBox \in Seq(AmMessage) BY DEF WatchesTyped
  <2>3. amBox' \in Seq(AmMessage) BY <2>1, <2>2, ConcatProperties
  <2>4. Creates(amBox') = Creates(amBox) BY <2>1, <2>2, CreatesCount
  <2> QED BY <1>10, <2>3, <2>4 DEF Forward, WatchesTyped
<1> QED BY <1>1, <1>2, <1>3, <1>4, <1>5, <1>6, <1>7, <1>8, <1>9, <1>10 DEF Next, vars

WInv == IInv /\ TableOK /\ WatchesTyped

\* Every reachable state of the composition satisfies these invariants.
LEMMA WatchesInvariance == Spec => []WInv
<1>1. Init => WInv
  <2> SUFFICES ASSUME Init PROVE WInv OBVIOUS
  <2>1. IInv /\ TableOK
    BY InitIInv, BoundAssumption DEF Init, FemInit, TableOK, NoIdents, Epoch
  <2>2. amBox = <<>> /\ created = 0 /\ bindings = {} /\ doomed = {} BY DEF Init
  <2>3. amBox \in Seq(AmMessage) /\ Len(amBox) = 0 BY <2>2
  <2>4. Creates(amBox) = {} BY <2>3 DEF Creates
  <2>5. Cardinality(Creates(amBox)) = 0 BY <2>4, FS_EmptySet
  <2> QED BY <2>1, <2>2, <2>3, <2>5, MaxAssumption DEF WInv, WatchesTyped
<1>2. WInv /\ [Next]_vars => WInv' BY ManagerStep, WatchesStep DEF WInv
<1> QED BY <1>1, <1>2, PTL DEF Spec

\* The values of all variables stay in their types, in the composition of the account
\* manager and the file events manager; no more bindings are made than were asked for.
THEOREM WatchTypesAreKept == Spec => []TypeOK
<1>1. WInv => TypeOK
  <2> SUFFICES ASSUME WInv PROVE TypeOK OBVIOUS
  <2>1. FemTypeOK BY DEF WInv, IInv, Typed, TableOK, FemTypeOK
  <2>2. amBox \in Seq(AmMessage) BY DEF WInv, WatchesTyped
  <2>3. Cardinality(Creates(amBox)) \in Nat BY <2>2, CreatesFinite
  <2>4. created \in 0..MaxBindings BY <2>3, MaxAssumption DEF WInv, WatchesTyped
  <2> QED BY <2>1, <2>2, <2>4 DEF WInv, WatchesTyped, TypeOK
<1> QED BY <1>1, WatchesInvariance, PTL

\* What holds of the file events manager alone holds of it as the account manager's
\* child, which the account manager's restarts replace: events name their file, no
\* path is registered twice, and no entry outlives its kqueue.
THEOREM ManagerIsSafeInAccount == Spec => [](RightPath /\ OneIdentPerPath /\ LiveKqueue)
<1>1. WInv => RightPath /\ OneIdentPerPath /\ LiveKqueue
  BY RightPathFromIInv DEF WInv, IInv, EntryOK, LiveKqueue
<1> QED BY <1>1, WatchesInvariance, PTL

-----------------------------------------------------------------------------
(* One path and patient clients *)

\* A patient client's request is alone, and nothing of an earlier one is left.
OneRequest ==
    /\ Lone(amBox, "event") /\ Lone(mailbox, "kqueue")
    /\ ~Quiet(amBox, "event") => Quiet(mailbox, "kqueue") /\ doomed = {}
    /\ Has(mailbox, "register") => doomed = {}

RegisterOf(b) == [type |-> "register", path |-> b.path, flags |-> b.flags]
PostOf(b) == [type |-> "register", path |-> b.path, flags |-> b.flags, ref |-> Self]

\* The registration of a binding is on its way.
OnItsWay(b) == RegisterOf(b) \in Members(amBox) \/ PostOf(b) \in Members(mailbox)

\* Every binding is watched, about to be, or about to be removed.
BindingsWatched ==
    /\ \A b \in bindings : b.uuid \in doomed \/ OnItsWay(b) \/ Watched(b)
    /\ Has(mailbox, "unregister") => \A b \in bindings : b.uuid \in doomed

\* Every watch has a binding that stays, or is about to be unregistered.
WatchesBound ==
    \A q \in Path : Watching(q) # {} =>
        Has(mailbox, "unregister") \/ \E b \in Bound(q) : b.uuid \notin doomed

\* A registration on its way is that of a binding, and there is no watch yet.
RegistersNew ==
    /\ Has(amBox, "register") \/ Has(mailbox, "register") =>
        \A q \in Path : Watching(q) = {}
    /\ \A m \in Members(amBox) : m.type = "register" =>
        \E b \in bindings : m = RegisterOf(b)
    /\ \A m \in Members(mailbox) : m.type = "register" =>
        \E b \in bindings : m = PostOf(b)

\* Nobody watches but the account manager.
OnlySelf ==
    /\ \A fd \in Fd : idents[fd] # None =>
        \A x \in Members(idents[fd].list) : x[2] = Self
    /\ \A m \in Members(mailbox) : m.type # "kqueue" => m.ref = Self

Agreement ==
    /\ OneBindingPerPath /\ OneRequest /\ OnlySelf
    /\ BindingsWatched /\ WatchesBound /\ RegistersNew

\* Until the manager restarts, which forgets every watch.
AgreeInv == epoch = 1 => Agreement

\* The account has one path to watch.
OnePath == \A q, r \in Path : q = r

\* Nothing but a registration, an unregistration or a restart touches the table.
LEMMA SameWatches ==
    ASSUME idents' = idents, filter' = filter, epoch' = epoch
    PROVE  /\ \A q : Watching(q)' = Watching(q)
           /\ \A b : Watched(b)' <=> Watched(b)
<1>1. \A q : Watching(q)' = Watching(q) BY DEF Watching
<1>2. ASSUME NEW b PROVE Watched(b)' <=> Watched(b)
  <2>1. Watching(b.path)' = Watching(b.path) BY <1>1
  <2> QED BY <2>1 DEF Watched
<1> QED BY <1>1, <1>2

\* The boxes are sequences of messages.
LEMMA Boxes ==
    ASSUME WInv
    PROVE  amBox \in Seq(AmMessage) /\ mailbox \in Seq(Message)
  BY DEF WInv, WatchesTyped, IInv, Typed

\* A box with nothing in it.
LEMMA NoMembers ==
    ASSUME NEW s, s = <<>>, NEW idle
    PROVE  Members(s) = {} /\ Lone(s, idle) /\ Quiet(s, idle)
<1>1. Len(s) = 0 BY EmptySeq
<1>2. 1..Len(s) = {} BY <1>1
<1> QED BY <1>2 DEF Members, Lone, Quiet

\* A request arrives when nothing is left of the one before.
LEMMA AskAgrees ==
    ASSUME Patient, WInv, Agreement, OneBindingPerPath', NEW m \in AmMessage,
           m.type \in {"create", "destroy"}, Ask(m)
    PROVE  Agreement'
<1>1. amBox = <<>> /\ mailbox = <<>> /\ doomed = {} BY DEF Ask, Settled
<1>2. /\ amBox' = Append(amBox, m) /\ mailbox' = mailbox /\ bindings' = bindings
      /\ doomed' = doomed /\ idents' = idents /\ filter' = filter /\ epoch' = epoch
  BY DEF Ask, femVars
<1>3. Members(amBox) = {} /\ Quiet(amBox, "event") BY <1>1, NoMembers
<1>4. Members(mailbox) = {} /\ Lone(mailbox, "kqueue") /\ Quiet(mailbox, "kqueue")
  BY <1>1, NoMembers
<1>5. Members(amBox') = {m} /\ Lone(amBox', "event")
  BY <1>2, <1>3, Boxes, AppendBox
<1>6. \A q : Watching(q)' = Watching(q) BY <1>2, SameWatches
<1>7. \A b : Watched(b)' <=> Watched(b) BY <1>2, SameWatches
<1>8. OneRequest' BY <1>1, <1>2, <1>4, <1>5 DEF OneRequest, Has
<1>9. BindingsWatched'
  <2>1. \A b \in bindings : Watched(b)
    BY <1>1, <1>3, <1>4 DEF Agreement, BindingsWatched, OnItsWay
  <2> QED BY <1>2, <1>4, <1>7, <2>1 DEF BindingsWatched, Has
<1>10. WatchesBound'
  <2>1. \A q \in Path : Watching(q) # {} => \E b \in Bound(q) : b.uuid \notin doomed
    BY <1>4 DEF Agreement, WatchesBound, Has
  <2>2. \A q : Bound(q)' = Bound(q) BY <1>2 DEF Bound
  <2> QED BY <1>2, <1>6, <2>1, <2>2 DEF WatchesBound
<1>11. RegistersNew' BY <1>2, <1>4, <1>5 DEF RegistersNew, Has
<1>12. OnlySelf' BY <1>2 DEF Agreement, OnlySelf
<1> QED BY <1>8, <1>9, <1>10, <1>11, <1>12 DEF Agreement

\* Two boxes that differ in idle messages only.
SameBut(s, t, idle) == \A m : m.type # idle => (m \in Members(s) <=> m \in Members(t))

\* A box loses a message that asks for nothing, or gains some: all the rest is as it was.
LEMMA IdleAgrees ==
    ASSUME Agreement, idents' = idents, filter' = filter, epoch' = epoch,
           bindings' = bindings, doomed' = doomed, Lone(amBox', "event"), Lone(mailbox', "kqueue"),
           SameBut(amBox', amBox, "event"), SameBut(mailbox', mailbox, "kqueue")
    PROVE  Agreement'
<1>1. \A m : m.type # "event" => (m \in Members(amBox') <=> m \in Members(amBox)) BY DEF SameBut
<1>2. \A m : m.type # "kqueue" => (m \in Members(mailbox') <=> m \in Members(mailbox)) BY DEF SameBut
<1>3. Quiet(amBox', "event") <=> Quiet(amBox, "event") BY <1>1 DEF Quiet
<1>4. Quiet(mailbox', "kqueue") <=> Quiet(mailbox, "kqueue") BY <1>2 DEF Quiet
<1>5. \A t \in {"register", "unregister"} : Has(mailbox', t) <=> Has(mailbox, t)
  BY <1>2 DEF Has
<1>6. Has(amBox', "register") <=> Has(amBox, "register") BY <1>1 DEF Has
<1>7. \A q : Watching(q)' = Watching(q) BY SameWatches
<1>8. \A b : Watched(b)' <=> Watched(b) BY SameWatches
<1>9. OneBindingPerPath' BY DEF Agreement, OneBindingPerPath
<1>10. OneRequest' BY <1>3, <1>4, <1>5 DEF Agreement, OneRequest
<1>11. \A b : OnItsWay(b)' <=> OnItsWay(b)
  <2>1. \A b : RegisterOf(b).type # "event" /\ PostOf(b).type # "kqueue"
    BY DEF RegisterOf, PostOf
  <2>2. \A b : RegisterOf(b)' = RegisterOf(b) /\ PostOf(b)' = PostOf(b) BY DEF RegisterOf, PostOf
  <2> QED BY <1>1, <1>2, <2>1, <2>2 DEF OnItsWay
<1>12. BindingsWatched' BY <1>5, <1>8, <1>11 DEF Agreement, BindingsWatched
<1>13. WatchesBound'
  <2>1. \A q : Bound(q)' = Bound(q) BY DEF Bound
  <2> QED BY <1>5, <1>7, <2>1 DEF Agreement, WatchesBound
<1>14. RegistersNew'
  <2>1. Has(amBox', "register") \/ Has(mailbox', "register") => \A q \in Path : Watching(q)' = {}
    BY <1>5, <1>6, <1>7 DEF Agreement, RegistersNew
  <2>2. \A m \in Members(amBox') : m.type = "register" => \E b \in bindings : m = RegisterOf(b)
    BY <1>1 DEF Agreement, RegistersNew
  <2>3. \A m \in Members(mailbox') : m.type = "register" => \E b \in bindings : m = PostOf(b)
    BY <1>2 DEF Agreement, RegistersNew
  <2> QED BY <2>1, <2>2, <2>3 DEF RegistersNew, RegisterOf, PostOf
<1>15. OnlySelf' BY <1>2 DEF Agreement, OnlySelf
<1> QED BY <1>9, <1>10, <1>12, <1>13, <1>14, <1>15 DEF Agreement

\* A request is at the head of the account manager's box: the rest are events, and the
\* other box and the callbacks are done.
LEMMA RequestAlone ==
    ASSUME WInv, OneRequest, NEW type, AmReceived(type), type # "event"
    PROVE  /\ Members(amBox) = {Head(amBox)} \cup Members(Tail(amBox))
           /\ Quiet(Tail(amBox), "event") /\ Lone(Tail(amBox), "event")
           /\ Tail(amBox) \in Seq(AmMessage) /\ Head(amBox) \in AmMessage
           /\ Head(amBox).type = type
           /\ Quiet(mailbox, "kqueue") /\ doomed = {}
<1>1. /\ amBox \in Seq(AmMessage) /\ amBox # <<>>
      /\ Head(amBox) \in AmMessage /\ Head(amBox).type = type
      /\ Tail(amBox) \in Seq(AmMessage)
  BY AmHead DEF WInv
<1>2. /\ Members(amBox) = {Head(amBox)} \cup Members(Tail(amBox))
      /\ Lone(Tail(amBox), "event") /\ Quiet(Tail(amBox), "event")
  BY <1>1, TailBox DEF OneRequest
<1>3. ~Quiet(amBox, "event") BY <1>1, <1>2 DEF Quiet
<1> QED BY <1>1, <1>2, <1>3 DEF OneRequest

\* CreateFileWatch: the path is bound, or it is not watched either.
LEMMA CreateAgrees ==
    ASSUME OnePath, WInv, Agreement, OneBindingPerPath', CreateFileWatch
    PROVE  Agreement'
<1> DEFINE m == Head(amBox)
           t == Tail(amBox)
           r == [m EXCEPT !.type = "register"]
           b == [uuid |-> created + 1, path |-> m.path, flags |-> m.flags]
<1>1. /\ Members(amBox) = {m} \cup Members(t) /\ Quiet(t, "event") /\ Lone(t, "event")
      /\ t \in Seq(AmMessage) /\ m \in AmMessage /\ m.type = "create"
      /\ Quiet(mailbox, "kqueue") /\ doomed = {}
  BY RequestAlone DEF CreateFileWatch, Agreement
<1>2. /\ mailbox' = mailbox /\ doomed' = doomed /\ idents' = idents /\ filter' = filter
      /\ epoch' = epoch
  BY DEF CreateFileWatch, femVars
<1>3. m \in [type : {"create", "register"}, path : Path, flags : WatchFlags]
  BY <1>1 DEF AmMessage
<1>4. /\ r \in AmMessage /\ r.type = "register" /\ m.path \in Path
      /\ r = [type |-> "register", path |-> m.path, flags |-> m.flags]
  BY <1>3 DEF AmMessage
<1>5. \A q : Watching(q)' = Watching(q) BY <1>2, SameWatches
<1>6. \A c : Watched(c)' <=> Watched(c) BY <1>2, SameWatches
<1>7. ~Has(mailbox, "register") /\ ~Has(mailbox, "unregister") BY <1>1 DEF Quiet, Has
<1>8. \A c \in bindings : Watched(c)
  <2>1. \A c \in bindings : RegisterOf(c) \notin Members(amBox) /\ PostOf(c) \notin Members(mailbox)
    BY <1>1 DEF RegisterOf, PostOf, Quiet
  <2> QED BY <1>1, <2>1 DEF Agreement, BindingsWatched, OnItsWay
<1>9. Lone(mailbox, "kqueue") BY DEF Agreement, OneRequest
<1>10. OnlySelf' BY <1>2 DEF Agreement, OnlySelf
<1> HIDE DEF m, t
<1>11. CASE bindings' = bindings /\ amBox' = t
  <2>1. OneRequest' BY <1>1, <1>2, <1>9, <1>11 DEF OneRequest
  <2>2. BindingsWatched' BY <1>2, <1>6, <1>7, <1>8, <1>11 DEF BindingsWatched, Has
  <2>3. WatchesBound'
    <3>1. \A q : Bound(q)' = Bound(q) BY <1>11 DEF Bound
    <3> QED BY <1>2, <1>5, <1>7, <3>1 DEF Agreement, WatchesBound, Has
  <2>4. RegistersNew' BY <1>1, <1>2, <1>7, <1>11 DEF RegistersNew, Has, Quiet
  <2> QED BY <1>10, <2>1, <2>2, <2>3, <2>4 DEF Agreement
<1>12. CASE Bound(m.path) = {} /\ bindings' = bindings \cup {b} /\ amBox' = Append(t, r)
  <2> HIDE DEF r
  <2>1. Members(amBox') = Members(t) \cup {r} /\ Lone(amBox', "event")
    BY <1>1, <1>4, <1>12, AppendBox
  <2>2. OneRequest' BY <1>1, <1>2, <1>7, <1>9, <2>1 DEF OneRequest
  <2>3. \A q \in Path : Watching(q) = {}
    BY <1>4, <1>7, <1>12 DEF Agreement, WatchesBound, OnePath
  <2>4. RegisterOf(b) = r BY <1>4 DEF RegisterOf
  <2> HIDE DEF b
  <2>5. BindingsWatched'
    <3>1. \A c \in bindings' : c.uuid \in doomed' \/ OnItsWay(c)' \/ Watched(c)'
      <4>1. ASSUME NEW c, c = b PROVE OnItsWay(c)'
        <5>1. RegisterOf(c) \in Members(amBox') BY <2>1, <2>4, <4>1
        <5> QED BY <5>1 DEF OnItsWay, RegisterOf
      <4>2. ASSUME NEW c \in bindings PROVE Watched(c)' BY <1>6, <1>8
      <4> QED BY <1>12, <4>1, <4>2
    <3> QED BY <1>2, <1>7, <3>1 DEF BindingsWatched, Has
  <2>6. WatchesBound' BY <1>5, <2>3 DEF WatchesBound
  <2>7. RegistersNew'
    <3>1. \A q \in Path : Watching(q)' = {} BY <1>5, <2>3
    <3>2. \A n \in Members(amBox') : n.type = "register" => n = RegisterOf(b)
      BY <1>1, <2>1, <2>4 DEF Quiet
    <3>3. \A n \in Members(mailbox') : n.type # "register" BY <1>2, <1>7 DEF Has
    <3> QED BY <1>12, <3>1, <3>2, <3>3 DEF RegistersNew, RegisterOf
  <2> QED BY <1>10, <2>2, <2>5, <2>6, <2>7 DEF Agreement
<1> QED BY <1>11, <1>12 DEF CreateFileWatch, m, t

\* DestroyFileWatch: the only binding is doomed and the only watch unregistered.
LEMMA DestroyAgrees ==
    ASSUME OnePath, WInv, Agreement, OneBindingPerPath', DestroyFileWatch
    PROVE  Agreement'
<1> DEFINE m == Head(amBox)
           t == Tail(amBox)
           u == [type |-> "unregister", ref |-> Self]
<1>1. /\ Quiet(t, "event") /\ Lone(t, "event") /\ m \in AmMessage /\ m.type = "destroy"
      /\ Quiet(mailbox, "kqueue") /\ doomed = {}
  BY RequestAlone DEF DestroyFileWatch, Agreement
<1>2. /\ mailbox' = Append(mailbox, u) /\ amBox' = t /\ bindings' = bindings
      /\ idents' = idents /\ filter' = filter /\ epoch' = epoch
  BY DEF DestroyFileWatch, Post
<1>3. m.path \in Path BY <1>1 DEF AmMessage
<1>4. u \in Message /\ u.type = "unregister" /\ u.ref = Self BY SelfAssumption DEF Message
<1>5. \A b \in bindings : b.uuid \in doomed'
  <2>1. \A b \in bindings : b.path \in Path BY DEF WInv, WatchesTyped, Binding
  <2>2. \A b, c \in bindings : b = c BY <2>1 DEF OnePath, Agreement, OneBindingPerPath
  <2>3. \A b \in bindings : b \in Bound(m.path) BY <1>3, <2>1 DEF OnePath, Bound
  <2>4. \A b \in Bound(m.path) : b \in bindings BY DEF Bound
  <2>5. \/ \E b \in Bound(m.path) : doomed' = doomed \cup {b.uuid}
        \/ Bound(m.path) = {}
    BY DEF DestroyFileWatch
  <2> QED BY <2>2, <2>3, <2>4, <2>5
<1> HIDE DEF m, t, u
<1>6. Members(mailbox') = Members(mailbox) \cup {u} /\ Lone(mailbox', "kqueue")
  BY <1>1, <1>2, <1>4, Boxes, AppendBox
<1>7. Has(mailbox', "unregister") /\ ~Has(mailbox', "register")
  BY <1>1, <1>4, <1>6 DEF Has, Quiet
<1>8. OneRequest' BY <1>1, <1>2, <1>6, <1>7 DEF OneRequest
<1>9. BindingsWatched' BY <1>2, <1>5 DEF BindingsWatched
<1>10. WatchesBound' BY <1>7 DEF WatchesBound
<1>11. RegistersNew'
  <2>1. ~Has(amBox', "register") BY <1>1, <1>2 DEF Has, Quiet
  <2> QED BY <1>7, <2>1 DEF RegistersNew, Has
<1>12. OnlySelf' BY <1>2, <1>4, <1>6 DEF Agreement, OnlySelf
<1> QED BY <1>8, <1>9, <1>10, <1>11, <1>12 DEF Agreement

\* The callback removes a binding that was doomed.
LEMMA RemoveAgrees ==
    ASSUME Agreement, OneBindingPerPath', NEW u \in Uuid, RemoveBinding(u)
    PROVE  Agreement'
<1>1. /\ u \in doomed /\ doomed' = doomed \ {u} /\ bindings' = {b \in bindings : b.uuid # u}
      /\ mailbox' = mailbox /\ amBox' = amBox
      /\ idents' = idents /\ filter' = filter /\ epoch' = epoch
  BY DEF RemoveBinding, femVars
<1>2. \A q : Watching(q)' = Watching(q) BY <1>1, SameWatches
<1>3. \A b : Watched(b)' <=> Watched(b) BY <1>1, SameWatches
<1>4. Quiet(amBox, "event") /\ ~Has(mailbox, "register")
  BY <1>1 DEF Agreement, OneRequest
<1>5. ~Has(amBox, "register") BY <1>4 DEF Quiet, Has
<1>6. OneRequest' BY <1>1, <1>4 DEF Agreement, OneRequest
<1>7. \A b : OnItsWay(b)' <=> OnItsWay(b) BY <1>1 DEF OnItsWay, RegisterOf, PostOf
<1>8. BindingsWatched' BY <1>1, <1>3, <1>7 DEF Agreement, BindingsWatched
<1>9. WatchesBound'
  <2>1. \A q \in Path : Watching(q) # {} =>
            Has(mailbox, "unregister") \/ \E b \in Bound(q) : b.uuid \notin doomed
    BY DEF Agreement, WatchesBound
  <2>2. \A q : \A b \in Bound(q) : b.uuid \notin doomed => b \in Bound(q)'
    BY <1>1 DEF Bound
  <2> QED BY <1>1, <1>2, <2>1, <2>2 DEF WatchesBound
<1>10. RegistersNew' BY <1>1, <1>4, <1>5 DEF RegistersNew, Has
<1>11. OnlySelf' BY <1>1 DEF Agreement, OnlySelf
<1> QED BY <1>6, <1>8, <1>9, <1>10, <1>11 DEF Agreement

\* The registration goes from one box to the other.
LEMMA RegisterForwardedAgrees ==
    ASSUME WInv, Agreement, OneBindingPerPath', ForwardRegister
    PROVE  Agreement'
<1> DEFINE m == Head(amBox)
           t == Tail(amBox)
           r == [type |-> "register", path |-> m.path, flags |-> m.flags, ref |-> Self]
<1>1. /\ Members(amBox) = {m} \cup Members(t) /\ Quiet(t, "event") /\ Lone(t, "event")
      /\ m \in AmMessage /\ m.type = "register"
      /\ Quiet(mailbox, "kqueue") /\ doomed = {}
  BY RequestAlone DEF ForwardRegister, Agreement
<1>2. /\ mailbox' = Append(mailbox, r) /\ amBox' = t /\ bindings' = bindings /\ doomed' = doomed
      /\ idents' = idents /\ filter' = filter /\ epoch' = epoch
  BY DEF ForwardRegister, Post
<1>3. m.path \in Path /\ m.flags \in Flags BY <1>1, WatchAssumption DEF AmMessage
<1>4. r \in Message /\ r.type = "register" /\ r.ref = Self BY <1>3, SelfAssumption DEF Message
<1>5. \A b : m = RegisterOf(b) => r = PostOf(b) BY DEF RegisterOf, PostOf
<1> HIDE DEF m, t, r
<1>6. Members(mailbox') = Members(mailbox) \cup {r} /\ Lone(mailbox', "kqueue")
  BY <1>1, <1>2, <1>4, Boxes, AppendBox
<1>7. \A q : Watching(q)' = Watching(q) BY <1>2, SameWatches
<1>8. \A b : Watched(b)' <=> Watched(b) BY <1>2, SameWatches
<1>9. OneRequest' BY <1>1, <1>2, <1>6 DEF OneRequest
<1>10. ~Has(mailbox', "unregister") BY <1>1, <1>4, <1>6 DEF Has, Quiet
<1>11. Has(amBox, "register") BY <1>1 DEF Has
<1>12. \A b \in bindings : OnItsWay(b) => OnItsWay(b)'
  <2>1. \A b : RegisterOf(b).type = "register" BY DEF RegisterOf
  <2>2. \A b : RegisterOf(b) \in Members(amBox) => RegisterOf(b) = m
    BY <1>1, <2>1 DEF Quiet
  <2>3. \A b : PostOf(b) \in Members(mailbox) => PostOf(b) \in Members(mailbox') BY <1>6
  <2>4. \A b : RegisterOf(b) \in Members(amBox) => PostOf(b) \in Members(mailbox')
    BY <1>5, <1>6, <2>2
  <2> QED BY <2>3, <2>4 DEF OnItsWay, PostOf
<1>13. BindingsWatched'
  BY <1>2, <1>8, <1>10, <1>12 DEF Agreement, BindingsWatched
<1>14. \A q \in Path : Watching(q) = {} BY <1>11 DEF Agreement, RegistersNew
<1>15. WatchesBound' BY <1>7, <1>14 DEF WatchesBound
<1>16. RegistersNew'
  <2>1. \E b \in bindings : r = PostOf(b) BY <1>1, <1>5 DEF Agreement, RegistersNew
  <2>2. \A n \in Members(mailbox') : n.type = "register" => n = r BY <1>1, <1>6 DEF Quiet
  <2>3. \A n \in Members(amBox') : n.type # "register" BY <1>1, <1>2 DEF Quiet
  <2> QED BY <1>2, <1>7, <1>14, <2>1, <2>2, <2>3 DEF RegistersNew, PostOf
<1>17. OnlySelf' BY <1>2, <1>4, <1>6 DEF Agreement, OnlySelf
<1> QED BY <1>9, <1>13, <1>15, <1>16, <1>17 DEF Agreement

\* A request is at the head of the file events manager's box.
LEMMA ManagerAlone ==
    ASSUME WInv, OneRequest, NEW type, Received(type), type # "kqueue"
    PROVE  /\ Members(mailbox) = {Head(mailbox)} \cup Members(Tail(mailbox))
           /\ Quiet(Tail(mailbox), "kqueue") /\ Lone(Tail(mailbox), "kqueue")
           /\ Head(mailbox).type = type
           /\ Quiet(amBox, "event")
<1>1. mailbox \in Seq(Message) /\ mailbox # <<>> /\ Head(mailbox).type = type
  BY Boxes DEF Received
<1>2. /\ Members(mailbox) = {Head(mailbox)} \cup Members(Tail(mailbox))
      /\ Lone(Tail(mailbox), "kqueue") /\ Quiet(Tail(mailbox), "kqueue")
  BY <1>1, TailBox DEF OneRequest
<1>3. ~Quiet(mailbox, "kqueue") BY <1>1, <1>2 DEF Quiet
<1> QED BY <1>1, <1>2, <1>3 DEF OneRequest

\* The registration of the only binding makes the only watch.
LEMMA RegisterAgrees ==
    ASSUME OnePath, WInv, Agreement, Register, UNCHANGED watchVars, epoch' = epoch
    PROVE  Agreement'
<1> DEFINE m == Head(mailbox)
           t == Tail(mailbox)
<1>0. Received("register") /\ mailbox' = t BY DEF Register
<1>1. /\ Members(mailbox) = {m} \cup Members(t) /\ Quiet(t, "kqueue") /\ Lone(t, "kqueue")
      /\ m.type = "register" /\ Quiet(amBox, "event")
  BY <1>0, ManagerAlone DEF Agreement
<1>2. amBox' = amBox /\ bindings' = bindings /\ doomed' = doomed BY DEF watchVars
<1>3. m.path \in Path /\ m.flags \in Flags BY <1>0, RegisterParts DEF WInv
<1>4. Has(mailbox, "register") /\ doomed = {} BY <1>1 DEF Has, Agreement, OneRequest
<1>5. \A q \in Path : Watching(q) = {} BY <1>4 DEF Agreement, RegistersNew
<1>6. PICK b \in bindings : m = PostOf(b) BY <1>1 DEF Agreement, RegistersNew
<1>7. m.path = b.path /\ m.flags = b.flags /\ m.ref = Self BY <1>6 DEF PostOf
<1>8. \A c \in bindings : c = b
  <2>1. \A c \in bindings : c.path \in Path BY DEF WInv, WatchesTyped, Binding
  <2> QED BY <2>1 DEF OnePath, Agreement, OneBindingPerPath
<1>9. epoch \in Nat BY BoundAssumption DEF WInv, IInv, Typed, Epoch
<1>10. ~Restart BY <1>9 DEF Restart
<1>11. RegisterNew(m) BY <1>3, <1>5 DEF Register
<1>12. PICK fd \in Fd : /\ opened[fd] = None
                        /\ filter' = [filter EXCEPT ![fd] = <<epoch, m.flags>>]
                        /\ idents' = [idents EXCEPT ![fd] =
                                        [path |-> m.path, list |-> <<<<m.flags, m.ref>>>>]]
  BY <1>10, <1>11 DEF RegisterNew
<1> HIDE DEF m, t
<1>13. /\ DOMAIN idents = Fd /\ filter \in [Fd -> (Epoch \X Flags) \cup {None}]
       /\ epoch \in Epoch
  BY DEF WInv, IInv, Typed
<1>14. /\ idents'[fd] = [path |-> m.path, list |-> <<<<m.flags, m.ref>>>>]
       /\ \A x \in Fd \ {fd} : idents'[x] = idents[x]
       /\ filter'[fd] = <<epoch, m.flags>>
  BY <1>12, <1>13
<1>15. idents'[fd] # None /\ filter'[fd] # None
  <2>1. <<m.flags, m.ref>> \in Flags \X Ref BY <1>3, <1>7, SelfAssumption
  <2>2. [path |-> m.path, list |-> <<<<m.flags, m.ref>>>>] \in Entry BY <1>3, <2>1 DEF Entry
  <2>3. <<epoch, m.flags>> \in Epoch \X Flags BY <1>3, <1>13
  <2> QED BY <1>14, <2>2, <2>3, NoneAssumption
<1>16. Watched(b)'
  <2>1. fd \in Watching(b.path)' BY <1>7, <1>14, <1>15 DEF Watching
  <2>2. /\ filter'[fd][1] = epoch' /\ b.flags \subseteq filter'[fd][2]
        /\ Len(idents'[fd].list) = 1 /\ idents'[fd].list[1] = <<b.flags, Self>>
    BY <1>7, <1>14
  <2> QED BY <1>15, <2>1, <2>2 DEF Watched
<1>17. OneBindingPerPath' BY <1>2 DEF Agreement, OneBindingPerPath
<1>18. OneRequest'
  <2>1. ~Has(mailbox', "register") BY <1>0, <1>1 DEF Has, Quiet
  <2> QED BY <1>0, <1>1, <1>2, <2>1 DEF Agreement, OneRequest
<1>19. BindingsWatched'
  <2>1. ~Has(mailbox', "unregister") BY <1>0, <1>1 DEF Has, Quiet
  <2> QED BY <1>2, <1>8, <1>16, <2>1 DEF BindingsWatched
<1>20. WatchesBound'
  <2>1. \A q \in Path : b \in Bound(q)'
    <3>1. b.path \in Path BY <1>3, <1>7
    <3> QED BY <1>2, <3>1 DEF Bound, OnePath
  <2> QED BY <1>2, <1>4, <2>1 DEF WatchesBound
<1>21. RegistersNew'
  BY <1>0, <1>1, <1>2 DEF RegistersNew, Has, Quiet
<1>22. OnlySelf'
  <2>1. Members(idents'[fd].list) = {<<m.flags, Self>>} BY <1>7, <1>14 DEF Members
  <2>2. \A x \in Members(idents'[fd].list) : x[2] = Self BY <2>1
  <2>3. \A n \in Members(mailbox') : n.type = "kqueue" BY <1>0, <1>1 DEF Quiet
  <2> QED BY <1>14, <2>2, <2>3 DEF Agreement, OnlySelf
<1> QED BY <1>17, <1>18, <1>19, <1>20, <1>21, <1>22 DEF Agreement

\* The account manager is unregistered: no watch is left, and all bindings are doomed.
LEMMA UnregisterAgrees ==
    ASSUME WInv, Agreement, Unregister, UNCHANGED watchVars
    PROVE  Agreement'
<1> DEFINE m == Head(mailbox)
           t == Tail(mailbox)
<1>0. Received("unregister") /\ mailbox' = t /\ epoch' = epoch BY DEF Unregister
<1>1. /\ Members(mailbox) = {m} \cup Members(t) /\ Quiet(t, "kqueue") /\ Lone(t, "kqueue")
      /\ m.type = "unregister" /\ Quiet(amBox, "event")
  BY <1>0, ManagerAlone DEF Agreement
<1>2. amBox' = amBox /\ bindings' = bindings /\ doomed' = doomed BY DEF watchVars
<1>3. m.ref = Self BY <1>1 DEF Agreement, OnlySelf
<1>4. \A b \in bindings : b.uuid \in doomed
  <2>1. Has(mailbox, "unregister") BY <1>1 DEF Has
  <2> QED BY <2>1 DEF Agreement, BindingsWatched
<1>5. ASSUME NEW fd \in Fd PROVE idents'[fd] = None
  <2>1. idents'[fd] = IF idents[fd] = None THEN None ELSE Without(idents[fd], m.ref)
    BY DEF Unregister
  <2>2. CASE idents[fd] # None
    <3>1. \A x \in Members(idents[fd].list) : x[2] = m.ref
      BY <1>3, <2>2 DEF Agreement, OnlySelf
    <3>2. Without(idents[fd], m.ref) = None BY <2>2, <3>1, WithoutFacts DEF WInv
    <3> QED BY <2>1, <3>2
  <2> QED BY <2>1, <2>2
<1>6. \A q \in Path : Watching(q)' = {} BY <1>5 DEF Watching
<1> HIDE DEF m, t
<1>7. \A n \in Members(mailbox') : n.type = "kqueue" BY <1>0, <1>1 DEF Quiet
<1>8. \A n \in Members(amBox') : n.type = "event" BY <1>1, <1>2 DEF Quiet
<1>9. OneBindingPerPath' BY <1>2 DEF Agreement, OneBindingPerPath
<1>10. OneRequest' BY <1>0, <1>1, <1>2, <1>7 DEF Agreement, OneRequest, Has
<1>11. BindingsWatched' BY <1>2, <1>4 DEF BindingsWatched
<1>12. WatchesBound' BY <1>6 DEF WatchesBound
<1>13. RegistersNew' BY <1>7, <1>8 DEF RegistersNew, Has
<1>14. OnlySelf' BY <1>5, <1>7 DEF OnlySelf
<1> QED BY <1>9, <1>10, <1>11, <1>12, <1>13, <1>14 DEF Agreement

\* Every step of one instance keeps the agreement.
LEMMA AgreementStep ==
    ASSUME Patient, OnePath, WInv, Agreement, [Next]_vars, epoch' = epoch
    PROVE  Agreement'
<1>0. OneBindingPerPath' BY BoundStep DEF Agreement
<1>b. amBox \in Seq(AmMessage) /\ mailbox \in Seq(Message) BY Boxes
<1>l. Lone(amBox, "event") /\ Lone(mailbox, "kqueue") BY DEF Agreement, OneRequest
<1>1. ASSUME NEW p \in Path, NEW f \in WatchFlags,
             Ask([type |-> "create", path |-> p, flags |-> f])
      PROVE  Agreement'
  <2> DEFINE m == [type |-> "create", path |-> p, flags |-> f]
  <2>1. m \in AmMessage /\ m.type \in {"create", "destroy"} BY DEF AmMessage
  <2>2. Ask(m) BY <1>1
  <2> HIDE DEF m
  <2> QED BY <1>0, <2>1, <2>2, AskAgrees
<1>2. ASSUME NEW p \in Path, Ask([type |-> "destroy", path |-> p]) PROVE Agreement'
  <2> DEFINE m == [type |-> "destroy", path |-> p]
  <2>1. m \in AmMessage /\ m.type \in {"create", "destroy"} BY DEF AmMessage
  <2>2. Ask(m) BY <1>2
  <2> HIDE DEF m
  <2> QED BY <1>0, <2>1, <2>2, AskAgrees
<1>3. CASE CreateFileWatch BY <1>0, <1>3, CreateAgrees
<1>4. CASE DestroyFileWatch BY <1>0, <1>4, DestroyAgrees
<1>5. ASSUME NEW u \in Uuid, RemoveBinding(u) PROVE Agreement' BY <1>0, <1>5, RemoveAgrees
<1>6. CASE ForwardRegister BY <1>0, <1>6, RegisterForwardedAgrees
<1>7. CASE FileEvent
  <2>1. amBox # <<>> /\ Head(amBox).type = "event" /\ amBox' = Tail(amBox)
    BY <1>7 DEF FileEvent, AmReceived
  <2>2. /\ Members(amBox) = {Head(amBox)} \cup Members(Tail(amBox)) /\ Lone(Tail(amBox), "event")
    BY <1>b, <1>l, <2>1, TailBox
  <2>3. SameBut(amBox', amBox, "event") /\ Lone(amBox', "event") BY <2>1, <2>2 DEF SameBut
  <2>4. /\ mailbox' = mailbox /\ bindings' = bindings /\ doomed' = doomed
        /\ idents' = idents /\ filter' = filter
    BY <1>7 DEF FileEvent, femVars
  <2>5. SameBut(mailbox', mailbox, "kqueue") /\ Lone(mailbox', "kqueue") BY <1>l, <2>4 DEF SameBut
  <2> QED BY <2>3, <2>4, <2>5, IdleAgrees
<1>8. CASE AmRestart
  <2>1. epoch \in Nat BY BoundAssumption DEF WInv, IInv, Typed, Epoch
  <2> QED BY <1>8, <2>1 DEF AmRestart
<1>9. CASE FemInternal /\ UNCHANGED watchVars
  <2>1. amBox' = amBox /\ bindings' = bindings /\ doomed' = doomed BY <1>9 DEF watchVars
  <2>2. CASE Register BY <1>9, <2>2, RegisterAgrees
  <2>3. CASE Unregister BY <1>9, <2>3, UnregisterAgrees
  <2>4. ASSUME NEW e \in Epoch, NEW fd \in Fd, Read(e, fd) PROVE Agreement'
    <3> DEFINE m == [type |-> "kqueue", ident |-> fd, flags |-> pending[fd], from |-> opened[fd]]
    <3>1. /\ mailbox' = Append(mailbox, m) /\ idents' = idents /\ filter' = filter
          /\ pending[fd] # {} /\ filter[fd] # None
      BY <2>4 DEF Read
    <3>2. m \in Message /\ m.type = "kqueue"
      BY <3>1 DEF Message, WInv, IInv, Typed, FilterOK, Flags
    <3> HIDE DEF m
    <3>3. Members(mailbox') = Members(mailbox) \cup {m} /\ Lone(mailbox', "kqueue")
      BY <1>b, <1>l, <3>1, <3>2, AppendBox
    <3>4. SameBut(mailbox', mailbox, "kqueue") /\ SameBut(amBox', amBox, "event") /\ Lone(amBox', "event")
      BY <1>l, <2>1, <3>2, <3>3 DEF SameBut
    <3> QED BY <2>1, <3>1, <3>3, <3>4, IdleAgrees
  <2>5. CASE UNCHANGED <<idents, mailbox, filter>>
    <3>1. /\ SameBut(mailbox', mailbox, "kqueue") /\ Lone(mailbox', "kqueue")
          /\ SameBut(amBox', amBox, "event") /\ Lone(amBox', "event")
      BY <1>l, <2>1, <2>5 DEF SameBut
    <3> QED BY <2>1, <2>5, <3>1, IdleAgrees
  <2> QED BY <1>9, <2>2, <2>3, <2>4, <2>5 DEF FemInternal, Touch, ReaderFails
<1>10. CASE Forward
  <2>1. PICK u \in Seq(AmMessage) : Quiet(u, "event") /\ amBox' = amBox \o u
    BY <1>10, ForwardedEvents DEF WInv
  <2>2. /\ mailbox # <<>> /\ Head(mailbox).type = "kqueue" /\ mailbox' = Tail(mailbox)
        /\ idents' = idents /\ filter' = filter /\ bindings' = bindings /\ doomed' = doomed
    BY <1>10 DEF Forward, KqueueEvent, Received
  <2>3. Members(amBox') = Members(amBox) \cup Members(u) /\ Lone(amBox', "event")
    BY <1>b, <1>l, <2>1, ConcatBox
  <2>4. /\ Members(mailbox) = {Head(mailbox)} \cup Members(Tail(mailbox))
        /\ Lone(Tail(mailbox), "kqueue")
    BY <1>b, <1>l, <2>2, TailBox
  <2>5. /\ SameBut(amBox', amBox, "event") /\ SameBut(mailbox', mailbox, "kqueue")
        /\ Lone(mailbox', "kqueue")
    BY <2>1, <2>2, <2>3, <2>4 DEF Quiet, SameBut
  <2> QED BY <2>2, <2>3, <2>5, IdleAgrees
<1>11. CASE UNCHANGED vars
  <2>1. /\ mailbox' = mailbox /\ amBox' = amBox /\ bindings' = bindings /\ doomed' = doomed
        /\ idents' = idents /\ filter' = filter
    BY <1>11 DEF vars, femVars, watchVars
  <2>2. /\ SameBut(mailbox', mailbox, "kqueue") /\ Lone(mailbox', "kqueue")
        /\ SameBut(amBox', amBox, "event") /\ Lone(amBox', "event")
    BY <1>l, <2>1 DEF SameBut
  <2> QED BY <2>1, <2>2, IdleAgrees
<1> QED BY <1>1, <1>2, <1>3, <1>4, <1>5, <1>6, <1>7, <1>8, <1>9, <1>10, <1>11 DEF Next

\* Instances only follow each other.
LEMMA EpochGrows == ASSUME WInv, [Next]_vars PROVE epoch' = epoch \/ epoch' > 1
<1>1. epoch \in Nat /\ epoch >= 1 BY BoundAssumption DEF WInv, IInv, Typed, Epoch
<1>2. CASE epoch' = epoch + 1 BY <1>1, <1>2
<1>3. Restart => epoch' = epoch + 1 BY DEF Restart
<1>4. Register => epoch' = epoch \/ epoch' = epoch + 1
  BY <1>3 DEF Register, Join, RegisterNew
<1> QED BY <1>2, <1>4
    DEF Next, vars, femVars, Ask, CreateFileWatch, DestroyFileWatch, RemoveBinding, ForwardRegister,
        FileEvent, AmRestart, FemInternal, Touch, Read, ReaderFails, Unregister, Forward, KqueueEvent

\* RecordsAgree, for one path and clients that wait (SvdAccountManager's two records of
\* a watch, made by messages on two ways): once everything has settled, every binding
\* is watched and every watch has a binding.  With a second path it is false, as the
\* unregistration is of all paths.
THEOREM RecordsAgreeWhenPatient ==
    ASSUME Patient, OnePath PROVE Spec => []RecordsAgree
<1>1. Init => AgreeInv
  <2> SUFFICES ASSUME Init PROVE Agreement BY DEF AgreeInv
  <2>1. amBox = <<>> /\ mailbox = <<>> /\ bindings = {} /\ doomed = {} BY DEF Init, FemInit
  <2>2. Members(amBox) = {} /\ Lone(amBox, "event") /\ Quiet(amBox, "event") BY <2>1, NoMembers
  <2>3. Members(mailbox) = {} /\ Lone(mailbox, "kqueue") BY <2>1, NoMembers
  <2>4. \A fd \in Fd : idents[fd] = None BY DEF Init, FemInit, NoIdents
  <2>5. \A q \in Path : Watching(q) = {} BY <2>4 DEF Watching
  <2> QED BY <2>1, <2>2, <2>3, <2>4, <2>5
      DEF Agreement, OneBindingPerPath, OneRequest, OnlySelf, BindingsWatched, WatchesBound,
          RegistersNew, Has
<1>2. WInv /\ AgreeInv /\ [Next]_vars => AgreeInv'
  <2> SUFFICES ASSUME WInv, AgreeInv, [Next]_vars, epoch' = 1 PROVE Agreement'
    BY DEF AgreeInv
  <2>1. epoch' = epoch BY EpochGrows
  <2>2. Agreement BY <2>1 DEF AgreeInv
  <2> QED BY <2>1, <2>2, AgreementStep
<1>3. AgreeInv => RecordsAgree
  <2> SUFFICES ASSUME AgreeInv, Settled, epoch = 1
               PROVE  /\ \A b \in bindings : Watched(b)
                      /\ \A q \in Path : Watching(q) # {} => Bound(q) # {}
    BY DEF RecordsAgree
  <2>1. amBox = <<>> /\ mailbox = <<>> /\ doomed = {} BY DEF Settled
  <2>2. Members(amBox) = {} /\ Members(mailbox) = {} BY <2>1, NoMembers
  <2>3. BindingsWatched /\ WatchesBound BY DEF AgreeInv, Agreement
  <2> QED BY <2>1, <2>2, <2>3 DEF BindingsWatched, WatchesBound, OnItsWay, Has
<1> QED BY <1>1, <1>2, <1>3, WatchesInvariance, PTL DEF Spec
=============================================================================
