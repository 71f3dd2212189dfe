---------------------------- MODULE ObjectStore ----------------------------
(***************************************************************************)
(* DBClient (svd.user, db/DBServerClient.scala): every persistent object   *)
(* of an account lives in two NeoDatis bases, "current" (the up-to-date    *)
(* objects) and "history" (their former versions).  `<<' saves an object,  *)
(* `~' removes one; each is a sequence of store, delete and commit calls   *)
(* on the two bases.                                                       *)
(*                                                                         *)
(* One DBClient is shared by all threads of the account's process: the     *)
(* account manager, the git manager and the callbacks of futures.  A       *)
(* client has ONE session per base, so what one thread has stored and not  *)
(* yet committed is seen, and committed, by every other thread.            *)
(*                                                                         *)
(* External (NeoDatis, from its use here): store and delete change the     *)
(* session, commit makes the whole session durable, a crash discards it,   *)
(* close either commits or discards it, and a call on a closed base        *)
(* raises.  Storing a record that is already there changes nothing.        *)
(***************************************************************************)
EXTENDS Naturals

CONSTANTS
    Uuid,       \* identities of persistent objects
    Val,        \* contents, all that case class equality compares
    Stamp,      \* values of createdAt, which equality ignores
    Writer,     \* threads that share the client
    Owned,      \* Owned[w]: the uuids thread w ever saves or removes
    None        \* Scala's None

Record == [uuid : Uuid, val : Val, at : Stamp]

ASSUME StampAssumption == Stamp \subseteq Nat
ASSUME OwnedAssumption == Owned \in [Writer -> SUBSET Uuid]
ASSUME NoneAssumption  == None \notin Record \cup Val

VARIABLES
    cur, hist,      \* the client's sessions: what a query sees
    dcur, dhist,    \* the committed contents of the two bases
    open,           \* the bases that are not closed
    pc, new, old    \* per thread: the next call, newObj and oldObj/obj

vars == <<cur, hist, dcur, dhist, open, pc, new, old>>

Base == {"current", "history"}

\* The base that the call a thread is about to make works on.
CallsCurrent == {"replace", "delete", "commit", "insert", "insertCommit"}
CallsHistory == {"check", "archive", "archiveCommit", "log", "logCommit"}
Returned     == {"idle", "done"}    \* between two operations

TypeOK ==
    /\ cur \subseteq Record /\ hist \subseteq Record
    /\ dcur \subseteq Record /\ dhist \subseteq Record
    /\ open \subseteq Base
    /\ pc \in [Writer -> CallsCurrent \cup CallsHistory \cup Returned \cup {"close"}]
    /\ new \in [Writer -> Record \cup {None}]
    /\ old \in [Writer -> Record \cup {None}]

Init ==
    /\ cur = {} /\ hist = {} /\ dcur = {} /\ dhist = {}
    /\ open = Base
    /\ pc  = [w \in Writer |-> "idle"]
    /\ new = [w \in Writer |-> None]
    /\ old = [w \in Writer |-> None]

-----------------------------------------------------------------------------
(* Queries *)

\* FindByUUIDCollection: the records of one object.
FindByUUID(S, u) == {r \in S : r.uuid = u}

\* orderByDesc("createdAt") ... headOption: the candidates for the head.
Newest(S) == {r \in S : \A q \in S : q.at <= r.at}

-----------------------------------------------------------------------------
(* `<<' and `~', one step per call *)

Goto(w, from, base, to) ==
    /\ pc[w] = from
    /\ base \in open
    /\ pc' = [pc EXCEPT ![w] = to]

\* newObj is saved over a record with the same uuid: with other contents the
\* old one is archived first, with equal contents nothing is written.
PutOver(w, o, found) ==
    /\ pc' = [pc EXCEPT ![w] = IF found.val # o.val THEN "archive" ELSE "done"]
    /\ new' = [new EXCEPT ![w] = o]
    /\ old' = [old EXCEPT ![w] = found]

PutFirst(w, o) ==
    /\ pc' = [pc EXCEPT ![w] = "insert"]
    /\ new' = [new EXCEPT ![w] = o]
    /\ old' = [old EXCEPT ![w] = None]

\* db << newObj: find, then one of the three cases.
Put(w, o) ==
    /\ pc[w] \in Returned
    /\ o.uuid \in Owned[w]
    /\ "current" \in open
    /\ \/ \E found \in FindByUUID(cur, o.uuid) : PutOver(w, o, found)
       \/ FindByUUID(cur, o.uuid) = {} /\ PutFirst(w, o)
    /\ UNCHANGED <<cur, hist, dcur, dhist, open>>

\* db ~ uuid: find; without a record there is nothing to do.
Remove(w, u) ==
    /\ pc[w] \in Returned
    /\ u \in Owned[w]
    /\ "current" \in open
    /\ new' = [new EXCEPT ![w] = None]
    /\ \/ \E found \in FindByUUID(cur, u) :
             /\ pc'  = [pc EXCEPT ![w] = "check"]
             /\ old' = [old EXCEPT ![w] = found]
       \/ /\ FindByUUID(cur, u) = {}
          /\ pc'  = [pc EXCEPT ![w] = "done"]
          /\ old' = [old EXCEPT ![w] = None]
    /\ UNCHANGED <<cur, hist, dcur, dhist, open>>

\* Faulty: any history at all counts as history of this object.
CheckAnyVersion(w) ==
    /\ pc[w] = "check"
    /\ \/ hist # {} /\ Goto(w, "check", "history", "delete")
       \/ hist = {} /\ Goto(w, "check", "history", "archive")
    /\ UNCHANGED <<cur, hist, dcur, dhist, open, new, old>>

\* `~': the newest version in history decides whether obj must be archived.
CheckNewest(w) ==
    /\ pc[w] = "check"
    /\ LET versions == FindByUUID(hist, old[w].uuid)
       IN \/ /\ \E o \in Newest(versions) : o.val = old[w].val
             /\ Goto(w, "check", "history", "delete")
          \/ /\ versions = {} \/ \E o \in Newest(versions) : o.val # old[w].val
             /\ Goto(w, "check", "history", "archive")
    /\ UNCHANGED <<cur, hist, dcur, dhist, open, new, old>>

\* historyODB.store(oldObj), of `<<' and of `~'.
Archive(w) ==
    /\ Goto(w, "archive", "history", "archiveCommit")
    /\ hist' = hist \cup {old[w]}
    /\ UNCHANGED <<cur, dcur, dhist, open, new, old>>

\* Faulty: the commit of the history base is left to a later one.
DeferArchive(w) ==
    /\ Goto(w, "archiveCommit", "history",
            IF new[w] = None THEN "delete" ELSE "replace")
    /\ UNCHANGED <<cur, hist, dcur, dhist, open, new, old>>

\* historyODB.commit; `<<' goes on to store newObj, `~' to delete obj.
CommitArchive(w) ==
    /\ Goto(w, "archiveCommit", "history",
            IF new[w] = None THEN "delete" ELSE "replace")
    /\ dhist' = hist
    /\ UNCHANGED <<cur, hist, dcur, open, new, old>>

\* Faulty: newObj is committed before the record it replaces is deleted.
StoreAndCommitNew(w) ==
    /\ Goto(w, "replace", "current", "delete")
    /\ cur' = cur \cup {new[w]}
    /\ dcur' = cur'
    /\ UNCHANGED <<hist, dhist, open, new, old>>

\* currentODB.store(newObj) next to the record it replaces.
StoreNew(w) ==
    /\ Goto(w, "replace", "current", "delete")
    /\ cur' = cur \cup {new[w]}
    /\ UNCHANGED <<hist, dcur, dhist, open, new, old>>

\* Faulty: `<<' leaves the record it replaces behind.
KeepOld(w) ==
    /\ Goto(w, "delete", "current", "commit")
    /\ cur' = IF new[w] = None THEN cur \ {old[w]} ELSE cur
    /\ UNCHANGED <<hist, dcur, dhist, open, new, old>>

\* currentODB.delete(oldObj), of `<<' and of `~'.
DeleteOld(w) ==
    /\ Goto(w, "delete", "current", "commit")
    /\ cur' = cur \ {old[w]}
    /\ UNCHANGED <<hist, dcur, dhist, open, new, old>>

CommitCurrent(w) ==
    /\ Goto(w, "commit", "current", "done")
    /\ dcur' = cur
    /\ UNCHANGED <<cur, hist, dhist, open, new, old>>

\* case None of `<<': the first version goes to current, then to history.
StoreFirst(w) ==
    /\ Goto(w, "insert", "current", "insertCommit")
    /\ cur' = cur \cup {new[w]}
    /\ UNCHANGED <<hist, dcur, dhist, open, new, old>>

CommitFirst(w) ==
    /\ Goto(w, "insertCommit", "current", "log")
    /\ dcur' = cur
    /\ UNCHANGED <<cur, hist, dhist, open, new, old>>

\* Faulty: history is given oldObj, which case None does not have.
LogOld(w) ==
    /\ Goto(w, "log", "history", "logCommit")
    /\ hist' = hist \cup {old[w]}
    /\ UNCHANGED <<cur, dcur, dhist, open, new, old>>

LogFirst(w) ==
    /\ Goto(w, "log", "history", "logCommit")
    /\ hist' = hist \cup {new[w]}
    /\ UNCHANGED <<cur, dcur, dhist, open, new, old>>

\* Faulty: the first version is left uncommitted in the history session.
SkipLogCommit(w) ==
    /\ Goto(w, "logCommit", "history", "done")
    /\ UNCHANGED <<cur, hist, dcur, dhist, open, new, old>>

CommitLog(w) ==
    /\ Goto(w, "logCommit", "history", "done")
    /\ dhist' = hist
    /\ UNCHANGED <<cur, hist, dcur, open, new, old>>

\* The next call is on a base that has been closed: it raises, and the
\* operation is abandoned where it stands.
Raise(w) ==
    /\ \/ pc[w] \in CallsCurrent /\ "current" \notin open
       \/ pc[w] \in CallsHistory /\ "history" \notin open
    /\ pc' = [pc EXCEPT ![w] = "idle"]
    /\ UNCHANGED <<cur, hist, dcur, dhist, open, new, old>>

-----------------------------------------------------------------------------
(* close, restart and crash *)

\* What closing a base makes of its session s over durable d.
Closing(s, d) == {s, d}

\* DBClient.close, called by a thread between its operations: the current
\* base first, then the history base, each unless it is closed already.
CloseCurrent(w) ==
    /\ pc[w] \in Returned
    /\ pc' = [pc EXCEPT ![w] = "close"]
    /\ \/ /\ "current" \in open
          /\ open' = open \ {"current"}
          /\ \E s \in Closing(cur, dcur) : cur' = s /\ dcur' = s
       \/ "current" \notin open /\ UNCHANGED <<cur, dcur, open>>
    /\ UNCHANGED <<hist, dhist, new, old>>

CloseHistory(w) ==
    /\ pc[w] = "close"
    /\ pc' = [pc EXCEPT ![w] = "idle"]
    /\ \/ /\ "history" \in open
          /\ open' = open \ {"history"}
          /\ \E s \in Closing(hist, dhist) : hist' = s /\ dhist' = s
       \/ "history" \notin open /\ UNCHANGED <<hist, dhist, open>>
    /\ UNCHANGED <<cur, dcur, new, old>>

\* A new client, from DBServer.openClient: threads still inside an operation
\* hold the closed one and raise.
OpenClient ==
    /\ open = {}
    /\ open' = Base
    /\ pc' = [w \in Writer |-> "idle"]
    /\ UNCHANGED <<cur, hist, dcur, dhist, new, old>>

\* The process dies at any point and is started again.
Crash ==
    /\ cur' = dcur
    /\ hist' = dhist
    /\ open' = Base
    /\ pc' = [w \in Writer |-> "idle"]
    /\ UNCHANGED <<dcur, dhist, new, old>>

-----------------------------------------------------------------------------
Call(w) ==
    \/ \E o \in Record : Put(w, o)
    \/ \E u \in Uuid : Remove(w, u)
    \/ CheckNewest(w)
    \/ Archive(w)
    \/ CommitArchive(w)
    \/ StoreNew(w)
    \/ DeleteOld(w)
    \/ CommitCurrent(w)
    \/ StoreFirst(w)
    \/ CommitFirst(w)
    \/ LogFirst(w)
    \/ CommitLog(w)
    \/ Raise(w)
    \/ CloseCurrent(w)
    \/ CloseHistory(w)

Next ==
    \/ \E w \in Writer : Call(w)
    \/ OpenClient
    \/ Crash

Spec == Init /\ [][Next]_vars

-----------------------------------------------------------------------------
(* Properties *)

Same(r, q) == r.uuid = q.uuid /\ r.val = q.val

\* Some record of S is a version equal to r.
Holds(S, r) == \E q \in S : Same(q, r)

\* No version is lost: what leaves the committed current base is, from that
\* very step on, in the committed history base (`<<' archives and commits
\* before it deletes; `~' skips the archiving only when it has been done).
ArchivedBeforeRemoved ==
    [][\A r \in dcur : Holds(dcur', r) \/ Holds(dhist', r)]_vars

\* `<<' REPLACES: the committed current base never holds two records of one
\* object, although `<<' stores the new one before it deletes the old one.
OneCurrentPerUuid ==
    \A r, q \in dcur : r.uuid = q.uuid => r = q

\* Nothing that was acknowledged can be lost: when `<<' has returned, the
\* saved contents are committed as a current version and the version they
\* replaced (or the first version itself) is committed in history; when `~'
\* has returned, the removed version is committed in history.
AckedKept ==
    \A w \in Writer : pc[w] = "done" =>
        /\ new[w] # None => Holds(dcur, new[w])
        /\ new[w] # None /\ old[w] = None => Holds(dhist, new[w])
        /\ old[w] # None /\ ~(new[w] # None /\ Same(new[w], old[w]))
             => Holds(dhist, old[w])

\* When `<<' has returned, no other contents of the object are left in the
\* current base; when `~' has returned, no record of it is.
AckedExact ==
    \A w \in Writer : pc[w] = "done" =>
        /\ new[w] # None =>
             \A r \in FindByUUID(dcur, new[w].uuid) : Same(r, new[w])
        /\ new[w] = None /\ old[w] # None =>
             FindByUUID(dcur, old[w].uuid) = {}

\* The committed bases as the versioned store of module VersionedStore.
Live == [u \in Uuid |-> IF FindByUUID(dcur, u) = {} THEN None
                        ELSE (CHOOSE r \in dcur : r.uuid = u).val]
Past == {<<r.uuid, r.val>> : r \in dhist}

Abstract == INSTANCE VersionedStore WITH live <- Live, past <- Past

\* With one thread on the client, every commit, crash and close is one step
\* of the versioned store, or none.
ImplementsVersionedStore == Abstract!Spec
=============================================================================
