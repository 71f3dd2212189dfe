------------------------- MODULE ObjectStoreProofs -------------------------
(***************************************************************************)
(* Threads that share one DBClient and keep to objects of their own never  *)
(* lose a version, whatever the number of threads and objects and wherever *)
(* the process crashes or the client is closed.                            *)
(***************************************************************************)
EXTENDS ObjectStore, TLAPS

\* No object is saved or removed by two threads.
DisjointOwners ==
    \A w1, w2 \in Writer : Owned[w1] \cap Owned[w2] # {} => w1 = w2

-----------------------------------------------------------------------------
(* The inductive invariant *)

\* The session of a closed base is what is committed.
ClosedIsClean ==
    /\ "current" \notin open => cur = dcur
    /\ "history" \notin open => hist = dhist

\* An uncommitted record belongs to a thread that is about to commit it.
PendingHistory ==
    \A r \in hist \ dhist : \E w \in Writer :
        r.uuid \in Owned[w] /\ pc[w] \in {"archiveCommit", "logCommit"}

PendingCurrent ==
    \A r \in cur \ dcur : \E w \in Writer :
        r.uuid \in Owned[w] /\ pc[w] \in {"delete", "commit", "insertCommit"}

\* A deletion that is not yet committed is of an archived version.
PendingDelete == \A r \in dcur \ cur : Holds(dhist, r)

\* The locals of a thread inside an operation.
OldArg(w) == old[w] \in Record /\ old[w].uuid \in Owned[w]
NewArg(w) == new[w] \in Record /\ new[w].uuid \in Owned[w]

Locals(w) ==
    /\ pc[w] \in {"check", "archive", "archiveCommit", "replace", "delete", "commit"}
         => OldArg(w)
    /\ pc[w] \in {"replace", "insert", "insertCommit", "log", "logCommit"} => NewArg(w)
    /\ pc[w] \in {"archive", "archiveCommit", "replace", "delete", "commit"}
         /\ new[w] # None => NewArg(w) /\ new[w].uuid = old[w].uuid
                                       /\ new[w].val # old[w].val
    /\ pc[w] = "check" => new[w] = None
    /\ pc[w] \in {"insert", "insertCommit", "log", "logCommit"} => old[w] = None

\* What a thread has achieved so far.
Progress(w) ==
    /\ pc[w] = "archiveCommit" /\ "history" \in open => old[w] \in hist
    /\ pc[w] = "logCommit" /\ "history" \in open => new[w] \in hist
    /\ pc[w] \in {"replace", "delete", "commit"} => Holds(dhist, old[w])
    /\ pc[w] \in {"delete", "commit"} /\ new[w] # None /\ "current" \in open
         => new[w] \in cur
    /\ pc[w] = "insertCommit" /\ "current" \in open => new[w] \in cur
    /\ pc[w] \in {"log", "logCommit"} => Holds(dcur, new[w]) /\ Holds(cur, new[w])

\* What it has achieved when it returns.
Acked(w) ==
    pc[w] = "done" =>
        /\ new[w] # None => NewArg(w) /\ Holds(dcur, new[w]) /\ Holds(cur, new[w])
        /\ new[w] # None /\ old[w] = None => Holds(dhist, new[w])
        /\ old[w] # None => OldArg(w)
        /\ old[w] # None /\ ~(new[w] # None /\ Same(new[w], old[w]))
             => Holds(dhist, old[w])

\* ... and the session of the history base only adds to what is committed.
IInv ==
    /\ TypeOK
    /\ ClosedIsClean
    /\ dhist \subseteq hist
    /\ PendingHistory /\ PendingCurrent /\ PendingDelete
    /\ \A w \in Writer : Locals(w) /\ Progress(w) /\ Acked(w)

-----------------------------------------------------------------------------
(* Proofs *)

\* Empty bases and idle threads satisfy the invariant.
LEMMA InitIInv == Init => IInv
BY DEF Init, IInv, TypeOK, ClosedIsClean, PendingHistory, PendingCurrent, PendingDelete,
       Locals, Progress, Acked, Base, Returned, CallsCurrent, CallsHistory, Holds

\* One call of one thread preserves the invariant.
LEMMA CallIInv ==
  ASSUME DisjointOwners, IInv, NEW w \in Writer, Call(w)
  PROVE  IInv'
<1> USE StampAssumption, OwnedAssumption, NoneAssumption
        DEF IInv, TypeOK, Returned, CallsCurrent, CallsHistory, Base, Locals, OldArg, NewArg,
            ClosedIsClean, FindByUUID
<1>1. CASE \E o \in Record : Put(w, o)
  <2>1. /\ TypeOK' /\ ClosedIsClean' /\ (dhist \subseteq hist)'
        /\ \A x \in Writer : Locals(x)'
    BY <1>1 DEF Put, PutOver, PutFirst
  <2>2. PendingHistory' /\ PendingCurrent' /\ PendingDelete'
    BY <1>1 DEF Put, PutOver, PutFirst, PendingHistory, PendingCurrent, PendingDelete, Progress, Holds
  <2>3. \A x \in Writer : Progress(x)' /\ Acked(x)'
    BY <1>1 DEF Put, PutOver, PutFirst, Progress, Acked, Holds, Same, PendingHistory,
          PendingCurrent, DisjointOwners
  <2> QED
    BY <2>1, <2>2, <2>3
<1>2. CASE \E u \in Uuid : Remove(w, u)
  <2>1. /\ TypeOK' /\ ClosedIsClean' /\ (dhist \subseteq hist)'
        /\ \A x \in Writer : Locals(x)'
    BY <1>2 DEF Remove
  <2>2. PendingHistory' /\ PendingCurrent' /\ PendingDelete'
    BY <1>2 DEF Remove, PendingHistory, PendingCurrent, PendingDelete, Progress, Holds
  <2>3. \A x \in Writer : Progress(x)' /\ Acked(x)'
    BY <1>2 DEF Remove, Progress, Acked, Holds, Same, PendingHistory,
          PendingCurrent, DisjointOwners
  <2> QED
    BY <2>1, <2>2, <2>3
<1>3. CASE CheckNewest(w)
  <2>1. /\ TypeOK' /\ ClosedIsClean' /\ (dhist \subseteq hist)'
        /\ \A x \in Writer : Locals(x)'
    BY <1>3 DEF CheckNewest, Goto, Newest
  <2>2. PendingHistory' /\ PendingCurrent' /\ PendingDelete'
    BY <1>3 DEF CheckNewest, Goto, Newest, PendingHistory, PendingCurrent, PendingDelete, Progress, Holds
  <2>3. \A x \in Writer : Progress(x)' /\ Acked(x)'
    BY <1>3 DEF CheckNewest, Goto, Newest, Progress, Acked, Holds, Same, PendingHistory,
          PendingCurrent, DisjointOwners
  <2> QED
    BY <2>1, <2>2, <2>3
<1>4. CASE Archive(w)
  <2>1. /\ TypeOK' /\ ClosedIsClean' /\ (dhist \subseteq hist)'
        /\ \A x \in Writer : Locals(x)'
    BY <1>4 DEF Archive, Goto
  <2>2. PendingHistory' /\ PendingCurrent' /\ PendingDelete'
    BY <1>4 DEF Archive, Goto, PendingHistory, PendingCurrent, PendingDelete, Progress, Holds
  <2>3. \A x \in Writer : Progress(x)' /\ Acked(x)'
    BY <1>4 DEF Archive, Goto, Progress, Acked, Holds, Same, PendingHistory,
          PendingCurrent, DisjointOwners
  <2> QED
    BY <2>1, <2>2, <2>3
<1>5. CASE CommitArchive(w)
  <2>1. /\ TypeOK' /\ ClosedIsClean' /\ (dhist \subseteq hist)'
        /\ \A x \in Writer : Locals(x)'
    BY <1>5 DEF CommitArchive, Goto
  <2>2. PendingHistory' /\ PendingCurrent' /\ PendingDelete'
    BY <1>5 DEF CommitArchive, Goto, PendingHistory, PendingCurrent, PendingDelete, Progress, Holds
  <2>3. \A x \in Writer : Progress(x)' /\ Acked(x)'
    BY <1>5 DEF CommitArchive, Goto, Progress, Acked, Holds, Same, PendingHistory,
          PendingCurrent, DisjointOwners
  <2> QED
    BY <2>1, <2>2, <2>3
<1>6. CASE StoreNew(w)
  <2>1. /\ TypeOK' /\ ClosedIsClean' /\ (dhist \subseteq hist)'
        /\ \A x \in Writer : Locals(x)'
    BY <1>6 DEF StoreNew, Goto
  <2>2. PendingHistory' /\ PendingCurrent' /\ PendingDelete'
    BY <1>6 DEF StoreNew, Goto, PendingHistory, PendingCurrent, PendingDelete, Progress, Holds
  <2>3. \A x \in Writer : Progress(x)' /\ Acked(x)'
    BY <1>6 DEF StoreNew, Goto, Progress, Acked, Holds, Same, PendingHistory,
          PendingCurrent, DisjointOwners
  <2> QED
    BY <2>1, <2>2, <2>3
<1>7. CASE DeleteOld(w)
  <2>1. /\ TypeOK' /\ ClosedIsClean' /\ (dhist \subseteq hist)'
        /\ \A x \in Writer : Locals(x)'
    BY <1>7 DEF DeleteOld, Goto
  <2>2. PendingHistory' /\ PendingCurrent' /\ PendingDelete'
    BY <1>7 DEF DeleteOld, Goto, PendingHistory, PendingCurrent, PendingDelete, Progress, Holds
  <2>3. \A x \in Writer : Progress(x)' /\ Acked(x)'
    BY <1>7 DEF DeleteOld, Goto, Progress, Acked, Holds, Same, PendingHistory,
          PendingCurrent, DisjointOwners
  <2> QED
    BY <2>1, <2>2, <2>3
<1>8. CASE CommitCurrent(w)
  <2>1. /\ TypeOK' /\ ClosedIsClean' /\ (dhist \subseteq hist)'
        /\ \A x \in Writer : Locals(x)'
    BY <1>8 DEF CommitCurrent, Goto
  <2>2. PendingHistory' /\ PendingCurrent' /\ PendingDelete'
    BY <1>8 DEF CommitCurrent, Goto, PendingHistory, PendingCurrent, PendingDelete, Progress, Holds
  <2>3. \A x \in Writer : Progress(x)' /\ Acked(x)'
    BY <1>8 DEF CommitCurrent, Goto, Progress, Acked, Holds, Same, PendingHistory,
          PendingCurrent, DisjointOwners
  <2> QED
    BY <2>1, <2>2, <2>3
<1>9. CASE StoreFirst(w)
  <2>1. /\ TypeOK' /\ ClosedIsClean' /\ (dhist \subseteq hist)'
        /\ \A x \in Writer : Locals(x)'
    BY <1>9 DEF StoreFirst, Goto
  <2>2. PendingHistory' /\ PendingCurrent' /\ PendingDelete'
    BY <1>9 DEF StoreFirst, Goto, PendingHistory, PendingCurrent, PendingDelete, Progress, Holds
  <2>3. \A x \in Writer : Progress(x)' /\ Acked(x)'
    BY <1>9 DEF StoreFirst, Goto, Progress, Acked, Holds, Same, PendingHistory,
          PendingCurrent, DisjointOwners
  <2> QED
    BY <2>1, <2>2, <2>3
<1>10. CASE CommitFirst(w)
  <2>1. /\ TypeOK' /\ ClosedIsClean' /\ (dhist \subseteq hist)'
        /\ \A x \in Writer : Locals(x)'
    BY <1>10 DEF CommitFirst, Goto
  <2>2. PendingHistory' /\ PendingCurrent' /\ PendingDelete'
    BY <1>10 DEF CommitFirst, Goto, PendingHistory, PendingCurrent, PendingDelete, Progress, Holds
  <2>3. \A x \in Writer : Progress(x)' /\ Acked(x)'
    BY <1>10 DEF CommitFirst, Goto, Progress, Acked, Holds, Same, PendingHistory,
          PendingCurrent, DisjointOwners
  <2> QED
    BY <2>1, <2>2, <2>3
<1>11. CASE LogFirst(w)
  <2>1. /\ TypeOK' /\ ClosedIsClean' /\ (dhist \subseteq hist)'
        /\ \A x \in Writer : Locals(x)'
    BY <1>11 DEF LogFirst, Goto
  <2>2. PendingHistory' /\ PendingCurrent' /\ PendingDelete'
    BY <1>11 DEF LogFirst, Goto, PendingHistory, PendingCurrent, PendingDelete, Progress, Holds
  <2>3. \A x \in Writer : Progress(x)' /\ Acked(x)'
    BY <1>11 DEF LogFirst, Goto, Progress, Acked, Holds, Same, PendingHistory,
          PendingCurrent, DisjointOwners
  <2> QED
    BY <2>1, <2>2, <2>3
<1>12. CASE CommitLog(w)
  <2>1. /\ TypeOK' /\ ClosedIsClean' /\ (dhist \subseteq hist)'
        /\ \A x \in Writer : Locals(x)'
    BY <1>12 DEF CommitLog, Goto
  <2>2. PendingHistory' /\ PendingCurrent' /\ PendingDelete'
    BY <1>12 DEF CommitLog, Goto, PendingHistory, PendingCurrent, PendingDelete, Progress, Holds
  <2>3. \A x \in Writer : Progress(x)' /\ Acked(x)'
    BY <1>12 DEF CommitLog, Goto, Progress, Acked, Holds, Same, PendingHistory,
          PendingCurrent, DisjointOwners
  <2> QED
    BY <2>1, <2>2, <2>3
<1>13. CASE Raise(w)
  <2>1. /\ TypeOK' /\ ClosedIsClean' /\ (dhist \subseteq hist)'
        /\ \A x \in Writer : Locals(x)'
    BY <1>13 DEF Raise
  <2>2. PendingHistory' /\ PendingCurrent' /\ PendingDelete'
    BY <1>13 DEF Raise, PendingHistory, PendingCurrent, PendingDelete, Progress, Holds
  <2>3. \A x \in Writer : Progress(x)' /\ Acked(x)'
    BY <1>13 DEF Raise, Progress, Acked, Holds, Same, PendingHistory,
          PendingCurrent, DisjointOwners
  <2> QED
    BY <2>1, <2>2, <2>3
<1>14. CASE CloseCurrent(w)
  <2>1. /\ TypeOK' /\ ClosedIsClean' /\ (dhist \subseteq hist)'
        /\ \A x \in Writer : Locals(x)'
    BY <1>14 DEF CloseCurrent, Closing
  <2>2. PendingHistory' /\ PendingCurrent' /\ PendingDelete'
    BY <1>14 DEF CloseCurrent, Closing, PendingHistory, PendingCurrent, PendingDelete, Progress, Holds
  <2>3. \A x \in Writer : Progress(x)' /\ Acked(x)'
    BY <1>14 DEF CloseCurrent, Closing, Progress, Acked, Holds, Same, PendingHistory,
          PendingCurrent, DisjointOwners
  <2> QED
    BY <2>1, <2>2, <2>3
<1>15. CASE CloseHistory(w)
  <2>1. /\ TypeOK' /\ ClosedIsClean' /\ (dhist \subseteq hist)'
        /\ \A x \in Writer : Locals(x)'
    BY <1>15 DEF CloseHistory, Closing
  <2>2. PendingHistory' /\ PendingCurrent' /\ PendingDelete'
    BY <1>15 DEF CloseHistory, Closing, PendingHistory, PendingCurrent, PendingDelete, Progress, Holds
  <2>3. \A x \in Writer : Progress(x)' /\ Acked(x)'
    BY <1>15 DEF CloseHistory, Closing, Progress, Acked, Holds, Same, PendingHistory,
          PendingCurrent, DisjointOwners
  <2> QED
    BY <2>1, <2>2, <2>3
<1> QED
  BY <1>1, <1>2, <1>3, <1>4, <1>5, <1>6, <1>7, <1>8, <1>9, <1>10, <1>11, <1>12, <1>13, <1>14, <1>15 DEF Call

\* So does every step, a restart and a crash included.
LEMMA NextIInv == DisjointOwners /\ IInv /\ [Next]_vars => IInv'
<1> SUFFICES ASSUME DisjointOwners, IInv, [Next]_vars PROVE IInv'
  OBVIOUS
<1> USE StampAssumption, OwnedAssumption, NoneAssumption DEF Base, Returned
<1>1. ASSUME NEW w \in Writer, Call(w) PROVE IInv'
  BY <1>1, CallIInv
<1>2. CASE OpenClient
  BY <1>2 DEF OpenClient, IInv, TypeOK, ClosedIsClean, PendingHistory, PendingCurrent,
        PendingDelete, Locals, Progress, Acked, OldArg, NewArg
<1>3. CASE Crash
  BY <1>3 DEF Crash, IInv, TypeOK, ClosedIsClean, PendingHistory, PendingCurrent,
        PendingDelete, Locals, Progress, Acked, OldArg, NewArg, Holds
<1>4. CASE UNCHANGED vars
  BY <1>4 DEF vars, IInv, TypeOK, ClosedIsClean, PendingHistory, PendingCurrent,
        PendingDelete, Locals, Progress, Acked, OldArg, NewArg, Holds, Same
<1> QED
  BY <1>1, <1>2, <1>3, <1>4 DEF Next

\* Every reachable state of threads with objects of their own satisfies the
\* inductive invariant.
THEOREM Invariance == ASSUME DisjointOwners PROVE Spec => []IInv
<1>1. Init => IInv
  BY InitIInv
<1>2. IInv /\ [Next]_vars => IInv'
  BY NextIInv
<1> QED
  BY <1>1, <1>2, PTL DEF Spec

\* Nothing acknowledged by `<<' or `~' can be lost.
THEOREM AckedIsKept == ASSUME DisjointOwners PROVE Spec => []AckedKept
<1>1. IInv => AckedKept
  BY DEF IInv, Acked, AckedKept
<1> QED
  BY <1>1, Invariance, PTL

\* A step of the system never takes a version out of the committed current
\* base that is not in the committed history base.
THEOREM NoVersionLost == ASSUME DisjointOwners PROVE Spec => ArchivedBeforeRemoved
<1> DEFINE Kept == \A r \in dcur : Holds(dcur', r) \/ Holds(dhist', r)
<1>1. ASSUME IInv, [Next]_vars PROVE [Kept]_vars
  <2>1. ASSUME NEW r \in dcur PROVE Holds(dcur, r)
    BY DEF Holds, Same
  <2>2. CASE dcur' = dcur
    BY <2>1, <2>2 DEF Holds
  <2>3. CASE dcur' = cur /\ dhist' = dhist
    BY <1>1, <2>1, <2>3 DEF IInv, PendingDelete, Holds, Same
  <2>4. dcur' = dcur \/ (dcur' = cur /\ dhist' = dhist)
    BY <1>1 DEF Next, Call, vars, Put, PutOver, PutFirst, Remove, CheckNewest, Archive,
          CommitArchive, StoreNew, DeleteOld, CommitCurrent, StoreFirst, CommitFirst,
          LogFirst, CommitLog, Raise, CloseCurrent, CloseHistory, Closing, OpenClient, Crash
  <2> QED
    BY <2>2, <2>3, <2>4
<1>2. IInv /\ [Next]_vars => [Kept]_vars
  BY <1>1
<1> QED
  BY <1>2, Invariance, PTL DEF Spec, ArchivedBeforeRemoved

\* Whoever shares objects with whom, an operation has what it stores.
Given(w) ==
    /\ pc[w] \in {"check", "archive", "archiveCommit", "replace", "delete", "commit"}
         => old[w] \in Record
    /\ pc[w] \in {"replace", "insert", "insertCommit", "log", "logCommit"} => new[w] \in Record

\* The types, of the sessions, of the bases and of the locals of every thread.
THEOREM TypesAreKept == Spec => []TypeOK
<1> DEFINE Inv == TypeOK /\ \A w \in Writer : Given(w)
<1> USE DEF TypeOK, Returned, CallsCurrent, CallsHistory, Base, Given
<1>1. Init => Inv
  BY DEF Init
<1>2. ASSUME Inv, [Next]_vars PROVE Inv'
  <2>1. ASSUME NEW w \in Writer, Call(w) PROVE Inv'
    <3>1. ASSUME NEW o \in Record, Put(w, o) PROVE Inv'
      <4>1. ASSUME NEW found \in FindByUUID(cur, o.uuid), PutOver(w, o, found) PROVE Inv'
        <5>1. found \in Record BY <1>2, <4>1 DEF FindByUUID
        <5> QED BY <1>2, <3>1, <4>1, <5>1 DEF Put, PutOver
      <4>2. CASE PutFirst(w, o)
        BY <1>2, <3>1, <4>2 DEF Put, PutFirst
      <4> QED BY <3>1, <4>1, <4>2 DEF Put
    <3>2. ASSUME NEW u \in Uuid, Remove(w, u) PROVE Inv'
      BY <1>2, <3>2 DEF Remove, FindByUUID
    <3>3. CASE CheckNewest(w)
      BY <1>2, <3>3 DEF CheckNewest, Goto
    <3>4. CASE Archive(w) \/ LogFirst(w) \/ CommitLog(w)
      BY <1>2, <3>4 DEF Archive, LogFirst, CommitLog, Goto
    <3>5. CASE CommitArchive(w)
      BY <1>2, <3>5 DEF CommitArchive, Goto
    <3>6. CASE StoreNew(w) \/ DeleteOld(w) \/ CommitCurrent(w)
      BY <1>2, <3>6 DEF StoreNew, DeleteOld, CommitCurrent, Goto
    <3>7. CASE StoreFirst(w) \/ CommitFirst(w)
      BY <1>2, <3>7 DEF StoreFirst, CommitFirst, Goto
    <3>8. CASE Raise(w)
      BY <1>2, <3>8 DEF Raise
    <3>9. CASE CloseCurrent(w) \/ CloseHistory(w)
      BY <1>2, <3>9 DEF CloseCurrent, CloseHistory, Closing
    <3> QED
      BY <2>1, <3>1, <3>2, <3>3, <3>4, <3>5, <3>6, <3>7, <3>8, <3>9 DEF Call
  <2>2. CASE OpenClient \/ Crash
    BY <1>2, <2>2 DEF OpenClient, Crash
  <2>3. CASE UNCHANGED vars
    BY <1>2, <2>3 DEF vars
  <2> QED
    BY <1>2, <2>1, <2>2, <2>3 DEF Next
<1>3. Inv => TypeOK
  OBVIOUS
<1> QED
  BY <1>1, <1>2, <1>3, PTL DEF Spec

-----------------------------------------------------------------------------
(* One thread on the client: `<<' replaces and `~' removes exactly *)

OneWriter == \A w1, w2 \in Writer : w1 = w2

\* One thread shares its objects with nobody.
LEMMA OneWriterOwners == OneWriter => DisjointOwners
BY DEF OneWriter, DisjointOwners

\* What the sessions hold beside the committed contents, per call.
SessionOf(w) ==
    /\ pc[w] \notin Returned \cup {"close"} => open = Base
    /\ pc[w] \notin {"delete", "commit", "insertCommit"} => cur = dcur
    /\ pc[w] = "delete" => cur = IF new[w] = None THEN dcur ELSE dcur \cup {new[w]}
    /\ pc[w] = "commit" =>
         cur = (IF new[w] = None THEN dcur ELSE dcur \cup {new[w]}) \ {old[w]}
    /\ pc[w] = "insertCommit" => cur = dcur \cup {new[w]}
    /\ pc[w] \notin {"archiveCommit", "logCommit"} => hist = dhist
    /\ pc[w] = "archiveCommit" => hist = dhist \cup {old[w]}
    /\ pc[w] = "logCommit" => hist = dhist \cup {new[w]}

\* Which record of dcur an operation is about.
AboutRecord(w) ==
    /\ pc[w] \in {"check", "archive", "archiveCommit", "replace", "delete", "commit"}
         => old[w] \in dcur
    /\ pc[w] \in {"insert", "insertCommit"} => FindByUUID(dcur, new[w].uuid) = {}
    /\ pc[w] \in {"log", "logCommit"} => new[w] \in dcur

\* Open bases are closed together, by the thread itself.
BothOrNone(w) ==
    /\ pc[w] \in Returned => open \in {Base, {}}
    /\ pc[w] = "close" => "current" \notin open

SInv ==
    /\ IInv
    /\ OneCurrentPerUuid
    /\ AckedExact
    /\ \A w \in Writer : SessionOf(w) /\ AboutRecord(w) /\ BothOrNone(w)

\* Empty bases hold no record twice.
LEMMA InitSInv == Init => SInv
<1> SUFFICES ASSUME Init PROVE SInv
  OBVIOUS
<1>1. IInv
  BY InitIInv
<1> QED
  BY <1>1 DEF Init, SInv, OneCurrentPerUuid, AckedExact, SessionOf, AboutRecord, BothOrNone,
        Base, Returned

\* What AckedExact says of one thread.
ExactOf(w) ==
    pc[w] = "done" =>
        /\ new[w] # None => \A r \in FindByUUID(dcur, new[w].uuid) : Same(r, new[w])
        /\ new[w] = None /\ old[w] # None => FindByUUID(dcur, old[w].uuid) = {}

\* One call of the only thread preserves the invariant.
LEMMA CallSInv ==
  ASSUME OneWriter, SInv, IInv', NEW w \in Writer, Call(w)
  PROVE  SInv'
<1>1. SUFFICES /\ OneCurrentPerUuid' /\ ExactOf(w)'
               /\ SessionOf(w)' /\ AboutRecord(w)' /\ BothOrNone(w)'
  BY DEF OneWriter, SInv, AckedExact, ExactOf
<1> USE StampAssumption, OwnedAssumption, NoneAssumption
        DEF Returned, CallsCurrent, CallsHistory, Base, SInv, IInv, TypeOK, Record, Locals,
            OldArg, NewArg, OneCurrentPerUuid, SessionOf, AboutRecord, BothOrNone, ExactOf,
            FindByUUID, Same
<1>2. CASE \E o \in Record : Put(w, o)
  BY <1>2 DEF Put, PutOver, PutFirst
<1>3. CASE \E u \in Uuid : Remove(w, u)
  BY <1>3 DEF Remove
<1>4. CASE CheckNewest(w)
  BY <1>4 DEF CheckNewest, Goto
<1>5. CASE Archive(w)
  BY <1>5 DEF Archive, Goto
<1>6. CASE CommitArchive(w)
  BY <1>6 DEF CommitArchive, Goto
<1>7. CASE StoreNew(w)
  BY <1>7 DEF StoreNew, Goto
<1>8. CASE DeleteOld(w)
  BY <1>8 DEF DeleteOld, Goto
<1>9. CASE CommitCurrent(w)
  BY <1>9 DEF CommitCurrent, Goto
<1>10. CASE StoreFirst(w)
  BY <1>10 DEF StoreFirst, Goto
<1>11. CASE CommitFirst(w)
  BY <1>11 DEF CommitFirst, Goto
<1>12. CASE LogFirst(w)
  BY <1>12 DEF LogFirst, Goto
<1>13. CASE CommitLog(w)
  BY <1>13 DEF CommitLog, Goto
<1>14. CASE Raise(w)
  BY <1>14 DEF Raise
<1>15. CASE CloseCurrent(w)
  BY <1>15 DEF CloseCurrent, Closing
<1>16. CASE CloseHistory(w)
  BY <1>16 DEF CloseHistory, Closing
<1> QED
  BY <1>2, <1>3, <1>4, <1>5, <1>6, <1>7, <1>8, <1>9, <1>10, <1>11, <1>12, <1>13, <1>14, <1>15, <1>16 DEF Call

\* So does a restart, which finds the sessions clean, and a crash, which cleans them.
LEMMA NextSInv == OneWriter /\ SInv /\ [Next]_vars => SInv'
<1> SUFFICES ASSUME OneWriter, SInv, [Next]_vars PROVE SInv'
  OBVIOUS
<1>1. IInv'
  BY OneWriterOwners, NextIInv DEF SInv
<1>2. ASSUME NEW w \in Writer, Call(w) PROVE SInv'
  BY <1>1, <1>2, CallSInv
<1> USE DEF SInv, OneCurrentPerUuid, AckedExact, SessionOf, AboutRecord, BothOrNone, Returned
<1>3. CASE OpenClient
  <2>1. \A w \in Writer : cur = dcur /\ hist = dhist
    BY <1>3 DEF OpenClient, IInv, ClosedIsClean
  <2> QED
    BY <1>1, <1>3, <2>1 DEF OpenClient
<1>4. CASE Crash
  BY <1>1, <1>4 DEF Crash
<1>5. CASE UNCHANGED vars
  BY <1>1, <1>5 DEF vars, FindByUUID
<1> QED
  BY <1>2, <1>3, <1>4, <1>5 DEF Next

\* Every reachable state of a client with one thread.
THEOREM OneThreadInvariance == ASSUME OneWriter PROVE Spec => []SInv
<1>1. SInv /\ [Next]_vars => SInv'
  BY NextSInv
<1> QED
  BY <1>1, InitSInv, PTL DEF Spec

\* The committed current base of such a client never holds two records of one
\* object: `<<' replaces, in one commit.
THEOREM CurrentIsUnique == ASSUME OneWriter PROVE Spec => []OneCurrentPerUuid
<1>1. SInv => OneCurrentPerUuid
  BY DEF SInv
<1> QED
  BY <1>1, OneThreadInvariance, PTL

\* What `<<' has saved and `~' has removed, when it returns, is exactly what is
\* committed.
THEOREM AckedIsExact == ASSUME OneWriter PROVE Spec => []AckedExact
<1>1. SInv => AckedExact
  BY DEF SInv
<1> QED
  BY <1>1, OneThreadInvariance, PTL

-----------------------------------------------------------------------------
(* ... and the two bases are a versioned store *)

\* The live contents of an object are those of its one record.
LEMMA LiveFacts ==
  ASSUME TypeOK, OneCurrentPerUuid
  PROVE  /\ \A r \in dcur : Live[r.uuid] = r.val
         /\ \A u \in Uuid : FindByUUID(dcur, u) = {} => Live[u] = None
<1>1. ASSUME NEW r \in dcur PROVE Live[r.uuid] = r.val
  <2>1. r \in Record /\ r.uuid \in Uuid
    BY DEF TypeOK, Record
  <2>2. (CHOOSE q \in dcur : q.uuid = r.uuid) = r
    BY DEF OneCurrentPerUuid
  <2>3. r \in FindByUUID(dcur, r.uuid)
    BY DEF FindByUUID
  <2> QED
    BY <2>1, <2>2, <2>3 DEF Live
<1> QED
  BY <1>1 DEF Live

\* A commit of the current base that puts v in the place of what was live.
LEMMA LiveChanges ==
  ASSUME TypeOK, OneCurrentPerUuid, TypeOK', OneCurrentPerUuid',
         NEW u \in Uuid, NEW v \in Val \cup {None},
         \A r \in Record : r.uuid # u => (r \in dcur' <=> r \in dcur),
         v = None => FindByUUID(dcur', u) = {},
         v # None => \E r \in dcur' : r.uuid = u /\ r.val = v
  PROVE  Live' = [Live EXCEPT ![u] = v]
<1>1. ASSUME NEW x \in Uuid, x # u PROVE Live'[x] = Live[x]
  <2>1. CASE FindByUUID(dcur, x) = {}
    <3>1. FindByUUID(dcur', x) = {}
      BY <1>1, <2>1 DEF FindByUUID, TypeOK
    <3> QED
      BY <2>1, <3>1 DEF Live
  <2>2. CASE FindByUUID(dcur, x) # {}
    <3>1. PICK r \in dcur : r.uuid = x
      BY <2>2 DEF FindByUUID
    <3>2. r \in dcur'
      BY <1>1, <3>1 DEF TypeOK
    <3>3. Live[r.uuid] = r.val
      BY LiveFacts
    <3>4. Live'[r.uuid] = r.val
      <4>1. (CHOOSE q \in dcur' : q.uuid = x) = r
        BY <3>1, <3>2 DEF OneCurrentPerUuid
      <4>2. FindByUUID(dcur', x) # {}
        BY <3>1, <3>2 DEF FindByUUID
      <4> QED
        BY <3>1, <4>1, <4>2 DEF Live
    <3> QED
      BY <3>1, <3>3, <3>4
  <2> QED
    BY <2>1, <2>2
<1>2. Live'[u] = v
  <2>1. CASE v = None
    BY <2>1 DEF Live
  <2>2. CASE v # None
    <3>1. PICK r \in dcur' : r.uuid = u /\ r.val = v
      BY <2>2
    <3>2. (CHOOSE q \in dcur' : q.uuid = u) = r
      BY <3>1 DEF OneCurrentPerUuid
    <3>3. FindByUUID(dcur', u) # {}
      BY <3>1 DEF FindByUUID
    <3> QED
      BY <3>1, <3>2, <3>3 DEF Live
  <2> QED
    BY <2>1, <2>2
<1>3. Live = [x \in Uuid |-> Live[x]] /\ Live' = [x \in Uuid |-> Live'[x]]
  BY DEF Live
<1>4. [Live EXCEPT ![u] = v] = [x \in Uuid |-> IF x = u THEN v ELSE Live[x]]
  BY <1>3
<1> QED
  BY <1>1, <1>2, <1>3, <1>4, Zenon

\* A commit of the history base that adds a record of the current base.
LEMMA PastGrows ==
  ASSUME SInv, NEW r \in dcur, dhist' = dhist \cup {r}, dcur' = dcur
  PROVE  Abstract!Remember(r.uuid)
<1>1. Live[r.uuid] = r.val /\ r.val \in Val
  BY LiveFacts DEF SInv, IInv, TypeOK, Record
<1>2. Past' = Past \cup {<<r.uuid, r.val>>}
  BY DEF Past
<1>3. Live' = Live
  BY DEF Live, FindByUUID
<1> QED
  BY <1>1, <1>2, <1>3, NoneAssumption DEF Abstract!Remember

\* Steps that commit nothing new are stuttering steps of the versioned store.
LEMMA Stutters ==
  ASSUME dcur' = dcur, dhist' = dhist
  PROVE  UNCHANGED Abstract!vars
BY DEF Abstract!vars, Live, Past, FindByUUID

\* Every commit of the only thread is one step of the versioned store.
LEMMA CommitsRefine ==
  ASSUME SInv, SInv', NEW w \in Writer,
         CommitArchive(w) \/ CommitCurrent(w) \/ CommitFirst(w) \/ CommitLog(w)
  PROVE  [Abstract!Next]_Abstract!vars
<1> USE NoneAssumption, OwnedAssumption
<1>1. TypeOK /\ TypeOK' /\ OneCurrentPerUuid /\ OneCurrentPerUuid'
  BY DEF SInv, IInv
<1>2. CASE CommitArchive(w)
  <2>1. old[w] \in dcur /\ dhist' = dhist \cup {old[w]} /\ dcur' = dcur
    BY <1>2 DEF CommitArchive, Goto, SInv, SessionOf, AboutRecord
  <2>2. old[w].uuid \in Uuid
    BY <1>1, <2>1 DEF TypeOK, Record
  <2> QED
    BY <2>1, <2>2, PastGrows DEF Abstract!Next
<1>3. CASE CommitLog(w)
  <2>1. new[w] \in dcur /\ dhist' = dhist \cup {new[w]} /\ dcur' = dcur
    BY <1>3 DEF CommitLog, Goto, SInv, SessionOf, AboutRecord
  <2>2. new[w].uuid \in Uuid
    BY <1>1, <2>1 DEF TypeOK, Record
  <2> QED
    BY <2>1, <2>2, PastGrows DEF Abstract!Next
<1>4. CASE CommitFirst(w)
  <2> DEFINE u == new[w].uuid
  <2>1. /\ new[w] \in Record /\ u \in Uuid /\ new[w].val \in Val
        /\ dcur' = dcur \cup {new[w]} /\ FindByUUID(dcur, u) = {} /\ dhist' = dhist
    BY <1>4 DEF CommitFirst, Goto, SInv, IInv, Locals, NewArg, SessionOf, AboutRecord, Record
  <2>2. Live[u] = None
    BY <1>1, <2>1, LiveFacts
  <2>3. Live' = [Live EXCEPT ![u] = new[w].val]
    BY <1>1, <2>1, LiveChanges
  <2>4. Past' = Past
    BY <2>1 DEF Past
  <2>5. Abstract!Save(u, new[w].val)
    BY <2>2, <2>3, <2>4 DEF Abstract!Save, Abstract!Remembered
  <2> QED
    BY <2>1, <2>5 DEF Abstract!Next
<1>5. CASE CommitCurrent(w)
  <2> DEFINE u == old[w].uuid
  <2>1. /\ old[w] \in dcur /\ old[w] \in Record /\ u \in Uuid
        /\ dcur' = (IF new[w] = None THEN dcur ELSE dcur \cup {new[w]}) \ {old[w]}
        /\ dhist' = dhist /\ Holds(dhist, old[w])
        /\ new[w] # None =>
             /\ new[w] \in Record /\ new[w].val \in Val
             /\ new[w].uuid = u /\ new[w].val # old[w].val
    BY <1>5 DEF CommitCurrent, Goto, SInv, IInv, Locals, Progress, OldArg, NewArg, SessionOf,
          AboutRecord, Record
  <2>2. Live[u] = old[w].val
    BY <1>1, <2>1, LiveFacts
  <2>3. Abstract!Remembered(u)
    <3>1. PICK q \in dhist : Same(q, old[w])
      BY <2>1 DEF Holds
    <3>2. <<u, old[w].val>> \in Past
      BY <3>1 DEF Past, Same
    <3> QED
      BY <2>2, <3>2 DEF Abstract!Remembered
  <2>4. Past' = Past
    BY <2>1 DEF Past
  <2>5. CASE new[w] = None
    <3>1. FindByUUID(dcur', u) = {}
      BY <1>1, <2>1, <2>5 DEF FindByUUID, OneCurrentPerUuid
    <3>2. Live' = [Live EXCEPT ![u] = None]
      BY <1>1, <2>1, <2>5, <3>1, LiveChanges
    <3> QED
      BY <2>1, <2>3, <2>4, <3>2 DEF Abstract!Drop, Abstract!Next
  <2>6. CASE new[w] # None
    <3>1. new[w] \in dcur' /\ new[w].uuid = u
      BY <2>1, <2>6
    <3>2. \A r \in Record : r.uuid # u => (r \in dcur' <=> r \in dcur)
      BY <2>1, <2>6
    <3>3. Live' = [Live EXCEPT ![u] = new[w].val]
      BY <1>1, <2>1, <2>6, <3>1, <3>2, LiveChanges
    <3>4. Abstract!Save(u, new[w].val)
      BY <2>3, <2>4, <3>3 DEF Abstract!Save
    <3> QED
      BY <2>1, <2>6, <3>4 DEF Abstract!Next
  <2> QED
    BY <2>5, <2>6
<1> QED
  BY <1>2, <1>3, <1>4, <1>5

\* With one thread on the client, the two bases of DBClient implement the
\* versioned store: the step of every call, close, restart and crash is one of
\* its steps, or none.
THEOREM ImplementsVersions == ASSUME OneWriter PROVE Spec => ImplementsVersionedStore
<1>1. Init => Abstract!Init
  BY DEF Init, Abstract!Init, Live, Past, FindByUUID
<1>2. SInv /\ SInv' /\ [Next]_vars => [Abstract!Next]_Abstract!vars
  <2> SUFFICES ASSUME SInv, SInv', [Next]_vars PROVE [Abstract!Next]_Abstract!vars
    OBVIOUS
  <2>1. CASE \E w \in Writer :
                CommitArchive(w) \/ CommitCurrent(w) \/ CommitFirst(w) \/ CommitLog(w)
    BY <2>1, CommitsRefine
  <2>2. CASE \E w \in Writer : CloseCurrent(w) \/ CloseHistory(w)
    <3>1. dcur' = dcur /\ dhist' = dhist
      BY <2>2 DEF CloseCurrent, CloseHistory, Closing, SInv, SessionOf, Returned
    <3> QED
      BY <3>1, Stutters
  <2>3. CASE ~(\E w \in Writer :
                  \/ CommitArchive(w) \/ CommitCurrent(w) \/ CommitFirst(w) \/ CommitLog(w)
                  \/ CloseCurrent(w) \/ CloseHistory(w))
    <3>1. dcur' = dcur /\ dhist' = dhist
      BY <2>3 DEF Next, Call, vars, Put, Remove, CheckNewest, Archive, StoreNew, DeleteOld,
            StoreFirst, LogFirst, Raise, OpenClient, Crash
    <3> QED
      BY <3>1, Stutters
  <2> QED
    BY <2>1, <2>2, <2>3
<1> QED
  BY <1>1, <1>2, OneThreadInvariance, PTL DEF Spec, ImplementsVersionedStore, Abstract!Spec
=============================================================================
