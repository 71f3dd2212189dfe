----------------------- MODULE AccountLifecycleProofs -----------------------
(***************************************************************************)
(* SvdAccountsManager's list follows the accounts that nothing has upset,  *)
(* whatever their number and however often processes, managers and the     *)
(* root process fail.                                                      *)
(***************************************************************************)
EXTENDS AccountLifecycle, SequenceTheorems, TLAPS

-----------------------------------------------------------------------------
(* Announcements under way *)

Msgs == {"Alive", "Dead"}

\* The last announcement under way is of a death, or the only one of a birth.
EndsDead(s)  == Len(s) > 0 /\ s[Len(s)] = "Dead"
OnlyAlive(s) == Len(s) = 1 /\ s[1] = "Alive"

\* A mailbox is empty when its length is 0.
LEMMA EmptyFacts == \A s \in Seq(Msgs) : Len(s) \in Nat /\ (s = <<>> <=> Len(s) = 0)
  BY EmptySeq, LenProperties

\* Sending one.
LEMMA AppendFacts ==
    ASSUME NEW s \in Seq(Msgs), NEW m \in Msgs
    PROVE  /\ Append(s, m) \in Seq(Msgs)
           /\ EndsDead(Append(s, "Dead"))
           /\ Len(s) = 0 => OnlyAlive(Append(s, "Alive"))
<1>1. \A x \in Msgs : /\ Append(s, x) \in Seq(Msgs)
                      /\ Len(Append(s, x)) = Len(s) + 1
                      /\ Append(s, x)[Len(s) + 1] = x
  BY AppendProperties
<1>2. Len(s) \in Nat /\ "Dead" \in Msgs /\ "Alive" \in Msgs
  BY LenProperties DEF Msgs
<1>3. Append(s, "Dead")[Len(s) + 1] = "Dead" /\ Append(s, "Alive")[Len(s) + 1] = "Alive"
  BY <1>1, <1>2
<1>4. Len(Append(s, "Dead")) = Len(s) + 1 /\ Len(Append(s, "Alive")) = Len(s) + 1
  BY <1>1, <1>2
<1> QED
  BY <1>1, <1>2, <1>3, <1>4 DEF EndsDead, OnlyAlive

\* Receiving one.
LEMMA TailFacts ==
    ASSUME NEW s \in Seq(Msgs), s # <<>>
    PROVE  /\ Tail(s) \in Seq(Msgs)
           /\ EndsDead(s) => EndsDead(Tail(s)) \/ (Len(Tail(s)) = 0 /\ Head(s) = "Dead")
           /\ OnlyAlive(s) => Len(Tail(s)) = 0 /\ Head(s) = "Alive"
<1>1. Tail(s) \in Seq(Msgs) /\ Len(Tail(s)) = Len(s) - 1
  BY HeadTailProperties
<1>2. \A i \in 1..Len(Tail(s)) : Tail(s)[i] = s[i + 1]
  BY HeadTailProperties
<1>3. Len(s) \in Nat /\ Len(s) > 0
  BY EmptyFacts
<1>4. Head(s) = s[1]
  BY <1>3
<1>5. Len(s) > 1 => Tail(s)[Len(s) - 1] = s[Len(s)]
  <2>1. SUFFICES ASSUME Len(s) > 1 PROVE Tail(s)[Len(s) - 1] = s[Len(s)]
    OBVIOUS
  <2>2. Len(s) - 1 \in 1..Len(Tail(s)) /\ (Len(s) - 1) + 1 = Len(s)
    BY <1>1, <1>3, <2>1
  <2> QED
    BY <1>2, <2>2
<1> QED
  BY <1>1, <1>3, <1>4, <1>5 DEF EndsDead, OnlyAlive

-----------------------------------------------------------------------------
(* The inductive invariant *)

\* Without an accounts manager there is nothing to be right or wrong about.
Unheard == root # "up" => \A a \in Account : Len(chan[a]) = 0 /\ alive[a] = 0

\* The entry of a manager that announced itself: made or under way.
Announced(a) ==
    \/ alive[a] = 0 /\ OnlyAlive(chan[a])
    \/ alive[a] = 1 /\ Len(chan[a]) = 0

\* An exiting process whose manager has yet to announce its death.
Owes(a) == proc[a] = "exiting" /\ mgr[a] = "started" /\ ~headless[a] /\ box[a] > 0

\* What there is of an account that nothing has upset.
Followed(a) ==
    IF Serving(a)
      THEN box[a] = 0 /\ Announced(a)
      ELSE \/ EndsDead(chan[a])
           \/ alive[a] = 0 /\ Len(chan[a]) = 0
           \/ Owes(a) /\ Announced(a)

Inv == root = "up" => \A a \in Account : upset[a] = {} => Followed(a)

IInv == TypeOK /\ Unheard /\ Inv

\* No process runs and the list is empty.
LEMMA InitIInv == Init => IInv
<1> SUFFICES ASSUME Init PROVE IInv
  OBVIOUS
<1>1. \A a \in Account : chan[a] = <<>> /\ Len(chan[a]) = 0
  BY EmptySeq DEF Init
<1>2. TypeOK
  BY EmptySeq DEF Init, TypeOK, Cause
<1> QED
  BY <1>1, <1>2 DEF Init, IInv, Unheard, Inv, Followed, Serving

\* It is enough to look at the account that a step is about.
Untouched(x) ==
    /\ alive'[x] = alive[x] /\ chan'[x] = chan[x] /\ proc'[x] = proc[x]
    /\ headless'[x] = headless[x] /\ mgr'[x] = mgr[x] /\ box'[x] = box[x]
    /\ upset'[x] = upset[x]

\* A step of one account keeps the invariant of the others.
LEMMA LocalStep ==
    ASSUME NEW a \in Account, IInv, TypeOK', root' = root,
           \A x \in Account \ {a} : Untouched(x),
           root # "up" => Len(chan'[a]) = 0 /\ alive'[a] = 0,
           root = "up" /\ upset'[a] = {} => Followed(a)'
    PROVE  IInv'
<1>1. Unheard'
  BY DEF IInv, Unheard, Untouched
<1>2. ASSUME root = "up", NEW x \in Account \ {a}, upset'[x] = {} PROVE Followed(x)'
  BY <1>2 DEF IInv, Inv, Untouched, Followed, Serving, Announced, Owes
<1> QED
  BY <1>1, <1>2 DEF IInv, Inv

\* What one account's message does to the messages under way.
LEMMA TellFacts ==
    ASSUME NEW a \in Account, NEW m \in Msgs, IInv, Tell(a, m)
    PROVE  /\ chan' \in [Account -> Seq(Msgs)]
           /\ \A x \in Account \ {a} : chan'[x] = chan[x]
           /\ root # "up" => Len(chan'[a]) = 0
           /\ root = "up" /\ m = "Dead" => EndsDead(chan'[a])
           /\ root = "up" /\ m = "Alive" /\ chan[a] = <<>> => OnlyAlive(chan'[a])
<1>1. chan \in [Account -> Seq(Msgs)]
  BY DEF IInv, TypeOK, Msgs
<1>2. chan[a] \in Seq(Msgs) /\ Append(chan[a], m) \in Seq(Msgs)
  BY <1>1, AppendFacts
<1>3. chan' = [chan EXCEPT ![a] = After(a, m)] /\ After(a, m) \in Seq(Msgs)
  BY <1>2 DEF Tell, After
<1>4. chan'[a] = After(a, m)
  BY <1>1, <1>3
<1>5. root # "up" => Len(chan'[a]) = 0
  BY <1>4 DEF After, IInv, Unheard
<1>6. root = "up" => chan'[a] = Append(chan[a], m)
  BY <1>4 DEF After
<1> QED
  BY <1>1, <1>2, <1>3, <1>5, <1>6, AppendFacts, EmptyFacts

\* The start of a manager, for a new process or after a failure.
LEMMA PreStartFacts ==
    ASSUME NEW a \in Account, NEW dumb \in BOOLEAN, NEW n \in Nat,
           NEW causes \in SUBSET Cause, IInv, PreStart(a, dumb, n, causes)
    PROVE  /\ mgr' \in [Account -> {"none", "started", "stopped"}]
           /\ box' \in [Account -> Nat]
           /\ chan' \in [Account -> Seq(Msgs)]
           /\ upset' \in [Account -> SUBSET Cause]
           /\ root # "up" => Len(chan'[a]) = 0
           /\ \A x \in Account \ {a} : /\ mgr'[x] = mgr[x] /\ box'[x] = box[x]
                                       /\ chan'[x] = chan[x] /\ upset'[x] = upset[x]
           /\ causes # {} => upset'[a] # {}
           /\ upset[a] \subseteq upset'[a]
           /\ root = "up" /\ upset'[a] = {} =>
                \/ mgr'[a] = "started" /\ ~dumb /\ box'[a] = n
                     /\ Len(chan[a]) = 0 /\ OnlyAlive(chan'[a])
                \/ (mgr'[a] # "started" \/ dumb) /\ chan'[a] = chan[a]
<1> USE DEF Cause
<1>1. chan \in [Account -> Seq(Msgs)] /\ (root # "up" => Len(chan[a]) = 0)
  BY DEF IInv, TypeOK, Msgs, Unheard
<1>2. TypeOK
  BY DEF IInv
<1>3. CASE /\ mgr' = [mgr EXCEPT ![a] = "started"]
           /\ box' = [box EXCEPT ![a] = n]
           /\ dumb /\ UNCHANGED chan /\ Upset(a, causes)
  BY <1>1, <1>2, <1>3 DEF Upset, TypeOK
<1>4. CASE /\ mgr' = [mgr EXCEPT ![a] = "started"]
           /\ box' = [box EXCEPT ![a] = n]
           /\ ~dumb /\ Tell(a, "Alive")
           /\ Upset(a, IF causes = {} /\ chan[a] # <<>> THEN {"missed"} ELSE causes)
  <2>1. /\ chan' \in [Account -> Seq(Msgs)]
        /\ \A x \in Account \ {a} : chan'[x] = chan[x]
        /\ root # "up" => Len(chan'[a]) = 0
        /\ root = "up" /\ chan[a] = <<>> => OnlyAlive(chan'[a])
    BY <1>4, TellFacts DEF Msgs
  <2>2. /\ upset' \in [Account -> SUBSET Cause]
        /\ \A x \in Account \ {a} : upset'[x] = upset[x]
        /\ upset[a] \subseteq upset'[a]
        /\ causes # {} => upset'[a] # {}
        /\ upset'[a] = {} => chan[a] = <<>>
    BY <1>2, <1>4 DEF Upset, TypeOK
  <2>3. upset'[a] = {} => Len(chan[a]) = 0
    BY <1>1, <2>2, EmptyFacts
  <2> QED
    BY <1>2, <1>4, <2>1, <2>2, <2>3 DEF TypeOK
<1>5. CASE /\ mgr' = [mgr EXCEPT ![a] = "stopped"]
           /\ box' = [box EXCEPT ![a] = 0]
           /\ UNCHANGED chan /\ Upset(a, causes)
  BY <1>1, <1>2, <1>5 DEF Upset, TypeOK
<1>6. CASE /\ mgr' = [mgr EXCEPT ![a] = "stopped"]
           /\ box' = [box EXCEPT ![a] = 0]
           /\ Tell(a, "Alive") /\ Upset(a, {"missed"})
  <2>1. /\ chan' \in [Account -> Seq(Msgs)]
        /\ \A x \in Account \ {a} : chan'[x] = chan[x]
        /\ root # "up" => Len(chan'[a]) = 0
    BY <1>6, TellFacts DEF Msgs
  <2> QED
    BY <1>2, <1>6, <2>1 DEF Upset, TypeOK
<1> QED
  BY <1>3, <1>4, <1>5, <1>6 DEF PreStart

-----------------------------------------------------------------------------
(* Every step keeps the inductive invariant *)

\* A manager is created.
LEMMA CreatedIInv ==
    ASSUME NEW a \in Account, NEW dumb \in BOOLEAN, IInv, Created(a, dumb)
    PROVE  IInv'
<1> USE DEF Created, rootVars
<1>1. PreStart(a, dumb, 0, {}) /\ TypeOK /\ 0 \in Nat /\ {} \in SUBSET Cause
  BY DEF IInv
<1>2. /\ mgr' \in [Account -> {"none", "started", "stopped"}]
      /\ box' \in [Account -> Nat]
      /\ chan' \in [Account -> Seq(Msgs)]
      /\ upset' \in [Account -> SUBSET Cause]
      /\ root # "up" => Len(chan'[a]) = 0
      /\ \A x \in Account \ {a} : /\ mgr'[x] = mgr[x] /\ box'[x] = box[x]
                                  /\ chan'[x] = chan[x] /\ upset'[x] = upset[x]
      /\ upset[a] \subseteq upset'[a]
      /\ root = "up" /\ upset'[a] = {} =>
            \/ mgr'[a] = "started" /\ ~dumb /\ box'[a] = 0
                 /\ Len(chan[a]) = 0 /\ OnlyAlive(chan'[a])
            \/ (mgr'[a] # "started" \/ dumb) /\ chan'[a] = chan[a]
  BY <1>1, PreStartFacts
<1>3. TypeOK'
  BY <1>1, <1>2 DEF TypeOK, Msgs
<1>4. proc[a] = "asking" /\ proc'[a] = "running" /\ headless'[a] = dumb
        /\ \A x \in Account \ {a} : proc'[x] = proc[x] /\ headless'[x] = headless[x]
  BY <1>1 DEF TypeOK
<1>5. ASSUME root = "up", upset'[a] = {} PROVE Followed(a)'
  <2>1. EndsDead(chan[a]) \/ (alive[a] = 0 /\ Len(chan[a]) = 0)
    BY <1>2, <1>4, <1>5 DEF IInv, Inv, Followed, Serving, Owes
  <2>2. ~EndsDead(chan[a]) \/ Len(chan[a]) # 0
    BY DEF EndsDead
  <2> QED
    BY <1>2, <1>4, <1>5, <2>1, <2>2 DEF Followed, Serving, Announced
<1> QED
  BY <1>2, <1>3, <1>4, <1>5, LocalStep DEF Untouched, IInv, Unheard

\* A manager is restarted.
LEMMA RestartIInv ==
    ASSUME NEW a \in Account, IInv, Restart(a)
    PROVE  IInv'
<1>1. TypeOK
  BY DEF IInv
<1>2. CASE proc[a] = "running" /\ PreStart(a, headless[a], box[a] + 1, {"restarted"})
  <2>1. headless[a] \in BOOLEAN /\ box[a] + 1 \in Nat /\ {"restarted"} \in SUBSET Cause
    BY <1>1 DEF TypeOK, Cause
  <2>2. {"restarted"} # {}
    OBVIOUS
  <2>3. /\ mgr' \in [Account -> {"none", "started", "stopped"}]
        /\ box' \in [Account -> Nat]
        /\ chan' \in [Account -> Seq(Msgs)]
        /\ upset' \in [Account -> SUBSET Cause]
        /\ root # "up" => Len(chan'[a]) = 0
        /\ \A x \in Account \ {a} : /\ mgr'[x] = mgr[x] /\ box'[x] = box[x]
                                    /\ chan'[x] = chan[x] /\ upset'[x] = upset[x]
        /\ upset'[a] # {}
    BY <1>2, <2>1, <2>2, PreStartFacts
  <2>4. TypeOK'
    BY <1>1, <2>3 DEF Restart, rootVars, TypeOK, Msgs
  <2> QED
    BY <2>3, <2>4, LocalStep DEF Restart, rootVars, Untouched, IInv, Unheard
<1>3. CASE /\ proc[a] = "exiting"
           /\ mgr' = [mgr EXCEPT ![a] = "stopped"]
           /\ box' = [box EXCEPT ![a] = 0]
           /\ Upset(a, {"missed"})
           /\ UNCHANGED chan
  <2>1. TypeOK' /\ upset'[a] # {}
    BY <1>1, <1>3 DEF Restart, rootVars, Upset, TypeOK, Cause
  <2> QED
    BY <1>1, <1>3, <2>1, LocalStep DEF Restart, rootVars, Upset, TypeOK, Untouched, IInv, Unheard
<1> QED
  BY <1>2, <1>3 DEF Restart

\* A message is taken out of those under way.
LEMMA TakeFacts ==
    ASSUME NEW a \in Account, IInv, chan[a] # <<>>, chan' = [chan EXCEPT ![a] = Tail(@)]
    PROVE  /\ chan' \in [Account -> Seq(Msgs)]
           /\ \A x \in Account \ {a} : chan'[x] = chan[x]
           /\ root = "up"
           /\ Len(chan[a]) > 0
           /\ EndsDead(chan[a]) =>
                EndsDead(chan'[a]) \/ (Len(chan'[a]) = 0 /\ Head(chan[a]) = "Dead")
           /\ OnlyAlive(chan[a]) => Len(chan'[a]) = 0 /\ Head(chan[a]) = "Alive"
           /\ chan'[a] = <<>> <=> Len(chan'[a]) = 0
<1>1. chan \in [Account -> Seq(Msgs)]
  BY DEF IInv, TypeOK, Msgs
<1>2. chan[a] \in Seq(Msgs) /\ Tail(chan[a]) \in Seq(Msgs)
  BY <1>1, TailFacts
<1>3. chan'[a] = Tail(chan[a])
  BY <1>1
<1>4. Len(chan[a]) \in Nat /\ Len(chan[a]) > 0
  BY <1>2, EmptyFacts
<1>5. root = "up"
  BY <1>4 DEF IInv, Unheard
<1> QED
  BY <1>1, <1>2, <1>3, <1>4, <1>5, TailFacts, EmptyFacts

\* Every step of one account does.
LEMMA AccountIInv ==
    ASSUME NEW a \in Account, IInv,
           \/ Boot(a) \/ BootConnected(a) \/ BootHeadless(a)
           \/ Exit(a) \/ RestartAccountManager(a) \/ ProcessEnds(a)
           \/ Shutdown(a) \/ Restart(a)
           \/ GetPort(a) \/ Alive(a) \/ Dead(a) \/ Lose(a)
    PROVE  IInv'
<1>0. TypeOK /\ chan \in [Account -> Seq(Msgs)]
  BY DEF IInv, TypeOK, Msgs
<1> USE DEF rootVars, userVars, Untouched
<1>1. CASE Boot(a)
  <2>1. TypeOK'
    BY <1>0, <1>1 DEF Boot, TypeOK
  <2>2. upset'[a] = {} /\ root = "up" => Followed(a)'
    BY <1>0, <1>1 DEF Boot, TypeOK, IInv, Inv, Followed, Serving, Owes, Announced
  <2> QED
    BY <1>0, <1>1, <2>1, <2>2, LocalStep DEF Boot, TypeOK, IInv, Unheard
<1>2. CASE BootConnected(a) \/ BootHeadless(a)
  BY <1>2, CreatedIInv DEF BootConnected, BootHeadless
<1>3. CASE Exit(a) \/ RestartAccountManager(a)
  <2>1. /\ Exiting(a) /\ proc[a] \in {"asking", "running"}
        /\ root' = root /\ alive' = alive /\ stopping' \in BOOLEAN
    BY <1>0, <1>3 DEF Exit, RestartAccountManager, TypeOK
  <2>2. TypeOK'
    BY <1>0, <2>1 DEF Exiting, TypeOK
  <2>3. upset'[a] = {} /\ root = "up" => Followed(a)'
    BY <1>0, <2>1 DEF Exiting, TypeOK, IInv, Inv, Followed, Serving, Owes, Announced
  <2> QED
    BY <1>0, <2>1, <2>2, <2>3, LocalStep DEF Exiting, TypeOK, IInv, Unheard
<1>4. CASE ProcessEnds(a)
  <2>1. TypeOK'
    BY <1>0, <1>4 DEF ProcessEnds, Upset, TypeOK, Cause
  <2>2. upset'[a] = {} => upset[a] = {} /\ ~Serving(a) /\ ~Owes(a)
    BY <1>0, <1>4 DEF ProcessEnds, Upset, TypeOK, Serving, Owes
  <2>3. upset'[a] = {} /\ root = "up" => Followed(a)'
    BY <1>0, <1>4, <2>2 DEF ProcessEnds, TypeOK, IInv, Inv, Followed, Serving
  <2> QED
    BY <1>0, <1>4, <2>1, <2>3, LocalStep DEF ProcessEnds, Upset, TypeOK, IInv, Unheard
<1>5. CASE Shutdown(a)
  <2>1. CASE headless[a]
    <3>1. chan' = chan /\ TypeOK'
      BY <1>0, <1>5, <2>1 DEF Shutdown, TypeOK
    <3>2. upset'[a] = {} /\ root = "up" => Followed(a)'
      BY <1>0, <1>5, <2>1, <3>1 DEF Shutdown, TypeOK, IInv, Inv, Followed, Serving, Owes
    <3> QED
      BY <1>0, <1>5, <3>1, <3>2, LocalStep DEF Shutdown, TypeOK, IInv, Unheard
  <2>2. CASE ~headless[a]
    <3>1. Tell(a, "Dead") /\ "Dead" \in Msgs
      BY <1>5, <2>2 DEF Shutdown, Msgs
    <3>2. /\ chan' \in [Account -> Seq(Msgs)]
          /\ \A x \in Account \ {a} : chan'[x] = chan[x]
          /\ root # "up" => Len(chan'[a]) = 0
          /\ root = "up" => EndsDead(chan'[a])
      BY <3>1, TellFacts
    <3>3. /\ mgr[a] = "started" /\ box[a] > 0
          /\ box' = [box EXCEPT ![a] = @ - 1]
          /\ UNCHANGED <<rootVars, proc, ask, headless, mgr, upset>>
      BY <1>5 DEF Shutdown
    <3>4. box' \in [Account -> Nat]
      BY <1>0, <3>3 DEF TypeOK
    <3>5. TypeOK'
      BY <1>0, <3>2, <3>3, <3>4 DEF TypeOK, Msgs
    <3>6. upset[a] = {} /\ root = "up" => ~Serving(a)
      BY <3>3 DEF IInv, Inv, Followed
    <3>7. Serving(a)' <=> Serving(a)
      BY <3>3 DEF Serving
    <3>8. upset'[a] = {} /\ root = "up" => Followed(a)'
      BY <3>2, <3>3, <3>6, <3>7 DEF Followed
    <3>9. root # "up" => alive'[a] = 0
      BY <3>3 DEF IInv, Unheard
    <3>10. \A x \in Account \ {a} : Untouched(x)
      BY <1>0, <3>2, <3>3 DEF TypeOK
    <3> QED
      BY <3>2, <3>3, <3>5, <3>8, <3>9, <3>10, LocalStep
  <2> QED
    BY <2>1, <2>2
<1>6. CASE Restart(a)
  BY <1>6, RestartIInv
<1>7. CASE GetPort(a)
  <2>1. TypeOK'
    BY <1>0, <1>7 DEF GetPort, TypeOK
  <2>2. upset'[a] = {} /\ root = "up" => Followed(a)'
    BY <1>0, <1>7 DEF GetPort, TypeOK, IInv, Inv, Followed, Serving, Owes, Announced
  <2> QED
    BY <1>0, <1>7, <2>1, <2>2, LocalStep DEF GetPort, TypeOK, IInv, Unheard
<1>8. ASSUME chan[a] # <<>>, chan' = [chan EXCEPT ![a] = Tail(@)]
      PROVE  /\ chan' \in [Account -> Seq(Msgs)]
             /\ \A x \in Account \ {a} : chan'[x] = chan[x]
             /\ root = "up"
             /\ Len(chan[a]) > 0
             /\ EndsDead(chan[a]) =>
                  EndsDead(chan'[a]) \/ (Len(chan'[a]) = 0 /\ Head(chan[a]) = "Dead")
             /\ OnlyAlive(chan[a]) => Len(chan'[a]) = 0 /\ Head(chan[a]) = "Alive"
             /\ chan'[a] = <<>> <=> Len(chan'[a]) = 0
  BY <1>8, TakeFacts
<1>9. CASE Alive(a)
  <2>1. chan[a] # <<>> /\ chan' = [chan EXCEPT ![a] = Tail(@)] /\ Head(chan[a]) = "Alive"
    BY <1>9 DEF Alive, Take
  <2>2. TypeOK'
    BY <1>0, <1>8, <1>9, <2>1 DEF Alive, TypeOK, Msgs
  <2>3. alive'[a] = alive[a] + 1 /\ alive[a] \in Nat
    BY <1>0, <1>9 DEF Alive, TypeOK
  <2>4. Announced(a) => alive'[a] = 1 /\ Len(chan'[a]) = 0
    BY <1>8, <2>1, <2>3 DEF Announced
  <2>5. EndsDead(chan[a]) => EndsDead(chan'[a])
    BY <1>8, <2>1
  <2>6. ~(alive[a] = 0 /\ Len(chan[a]) = 0)
    BY <1>8, <2>1
  <2>7. upset'[a] = {} => Followed(a)'
    BY <1>8, <1>9, <2>1, <2>4, <2>5, <2>6
    DEF Alive, IInv, Inv, Followed, Serving, Owes, Announced
  <2> QED
    BY <1>0, <1>8, <1>9, <2>1, <2>2, <2>7, LocalStep DEF Alive, TypeOK
<1>10. CASE Dead(a)
  <2>1. chan[a] # <<>> /\ chan' = [chan EXCEPT ![a] = Tail(@)] /\ Head(chan[a]) = "Dead"
    BY <1>10 DEF Dead, Take
  <2>2. TypeOK' /\ alive'[a] = 0
    BY <1>0, <1>8, <1>10, <2>1 DEF Dead, Settle, TypeOK, Msgs
  <2>3. Serving(a)' <=> Serving(a)
    BY <1>10 DEF Dead, Serving
  <2>4. CASE ~Serving(a) /\ chan'[a] = <<>>
    BY <1>0, <1>8, <1>10, <2>1, <2>2, <2>3, <2>4, LocalStep
    DEF Dead, Settle, TypeOK, Followed
  <2>5. CASE Serving(a) \/ chan'[a] # <<>>
    <3>1. upset'[a] = upset[a]
      BY <1>0, <1>10, <2>5 DEF Dead, Settle, TypeOK
    <3>2. ~Announced(a)
      BY <1>8, <2>1 DEF Announced
    <3>3. upset[a] = {} => ~Serving(a) /\ EndsDead(chan[a])
      BY <1>8, <2>1, <3>2 DEF IInv, Inv, Followed
    <3>4. ~Serving(a) /\ EndsDead(chan[a]) => EndsDead(chan'[a])
      BY <1>8, <2>1, <2>5
    <3>5. upset'[a] = {} => Followed(a)'
      BY <2>3, <3>1, <3>3, <3>4 DEF Followed
    <3> QED
      BY <1>0, <1>8, <1>10, <2>1, <2>2, <3>5, LocalStep DEF Dead, Settle, TypeOK
  <2> QED
    BY <2>4, <2>5
<1>11. CASE Lose(a)
  <2>1. chan[a] # <<>> /\ chan' = [chan EXCEPT ![a] = Tail(@)]
    BY <1>11 DEF Lose
  <2>2. TypeOK' /\ upset'[a] # {}
    BY <1>0, <1>8, <1>11, <2>1 DEF Lose, Upset, TypeOK, Msgs, Cause
  <2> QED
    BY <1>0, <1>8, <1>11, <2>1, <2>2, LocalStep DEF Lose, Upset, TypeOK
<1> QED
  BY <1>1, <1>2, <1>3, <1>4, <1>5, <1>6, <1>7, <1>9, <1>10, <1>11

\* So does every step of the root process.
LEMMA NextIInv == IInv /\ [Next]_vars => IInv'
<1> SUFFICES ASSUME IInv, [Next]_vars PROVE IInv'
  OBVIOUS
<1>0. TypeOK
  BY DEF IInv
<1> USE DEF rootVars, userVars
<1>1. ASSUME NEW next \in {"deaf", "down"}, Unmanned(next) PROVE IInv'
  <2>1. \A a \in Account : Len(chan'[a]) = 0 /\ alive'[a] = 0
    BY <1>1, EmptySeq DEF Unmanned
  <2>2. TypeOK'
    BY <1>0, <1>1, EmptySeq DEF Unmanned, TypeOK
  <2> QED
    BY <1>1, <2>1, <2>2 DEF Unmanned, IInv, Unheard, Inv
<1>2. CASE AccountsManagerStops \/ RootExit
  BY <1>1, <1>2 DEF AccountsManagerStops, RootExit
<1>3. CASE RootStart
  <2>1. TypeOK'
    BY <1>0, <1>3 DEF RootStart, TypeOK, Cause
  <2>2. \A a \in Account : Len(chan'[a]) = 0 /\ alive'[a] = 0
    BY <1>3 DEF RootStart, IInv, Unheard
  <2>3. \A a \in Account : upset'[a] = {} => ~Serving(a)'
    BY <1>3 DEF RootStart, Serving
  <2> QED
    BY <1>3, <2>1, <2>2, <2>3 DEF RootStart, IInv, Unheard, Inv, Followed
<1>4. CASE UNCHANGED vars
  BY <1>4 DEF vars, IInv, TypeOK, Unheard, Inv, Followed, Serving, Owes, Announced
<1> QED
  BY <1>2, <1>3, <1>4, AccountIInv DEF Next

-----------------------------------------------------------------------------
(* The theorems *)

\* Every reachable state satisfies the inductive invariant.
THEOREM Invariance == Spec => []IInv
<1> QED
  BY InitIInv, NextIInv, PTL DEF Spec

\* The processes, their managers, questions and announcements keep their types: no
\* count of entries or of messages becomes negative.
THEOREM TypesAreKept == Spec => []TypeOK
<1>1. IInv => TypeOK
  BY DEF IInv
<1> QED
  BY <1>1, Invariance, PTL

\* SvdAccountsManager's list is exact about every account that nothing has
\* upset and whose announcements have arrived.
THEOREM RegistryIsExact == Spec => []RegistryExact
<1>1. IInv => RegistryExact
  <2> SUFFICES ASSUME IInv, root = "up", NEW a \in Account, upset[a] = {}, Settled(a)
               PROVE  Exact(a)
    BY DEF RegistryExact
  <2>1. Len(chan[a]) = 0
    BY EmptySeq DEF Settled
  <2> QED
    BY <2>1 DEF IInv, Inv, Settled, Exact, Followed, Announced, Owes, EndsDead, OnlyAlive
<1> QED
  BY <1>1, Invariance, PTL
=============================================================================
