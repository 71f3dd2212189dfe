---------------------------- MODULE FileWatches ----------------------------
(***************************************************************************)
(* File watches of an account: SvdAccountManager's handlers of             *)
(* User.CreateFileWatch, User.DestroyFileWatch and SvdFileEvent, composed  *)
(* with the file events manager that is its child.                         *)
(*                                                                         *)
(* A watch is recorded twice: as a binding (path, service, flags) in the   *)
(* account's database, and as an entry of the file events manager's table. *)
(* The account manager registers by a message to ITSELF, which it forwards *)
(* to the file events manager when its turn comes; it unregisters by a     *)
(* message straight to the file events manager; and it removes the binding *)
(* in the callback of a future.                                            *)
(***************************************************************************)
EXTENDS FileEvents

CONSTANTS
    Patient,        \* whether clients wait for their requests to settle
    Self,           \* the account manager's ActorRef
    WatchFlags,     \* the flags that clients ask for
    MaxBindings,    \* bound: bindings ever created
    MaxAmBox        \* bound: length of the account manager's mailbox

ASSUME SelfAssumption  == Self \in Ref
ASSUME WatchAssumption == WatchFlags \subseteq Flags
ASSUME MaxAssumption   == MaxBindings \in Nat /\ MaxAmBox \in Nat /\ Patient \in BOOLEAN

\* The uuid of a binding is fresh: the number of the creation stands for it.
Uuid    == 1..MaxBindings
Binding == [uuid : Uuid, path : Path, flags : WatchFlags]

AmMessage ==
    [type : {"create", "register"}, path : Path, flags : WatchFlags]
      \cup [type : {"destroy"}, path : Path]
      \cup [type : {"event"}, path : Path, flags : Flags]

VARIABLES
    amBox,      \* the account manager's mailbox
    bindings,   \* SvdFileEventBindings(db)
    created,    \* how many bindings were created
    doomed      \* uuids whose `db ~ binding' waits for the service's answer

watchVars == <<amBox, bindings, created, doomed>>
vars == <<femVars, watchVars>>

TypeOK ==
    /\ FemTypeOK
    /\ amBox \in Seq(AmMessage)
    /\ bindings \subseteq Binding
    /\ created \in 0..MaxBindings
    /\ doomed \subseteq Uuid

Init ==
    /\ FemInit
    /\ amBox = <<>>
    /\ bindings = {}
    /\ created = 0
    /\ doomed = {}

-----------------------------------------------------------------------------
(* Clients *)

\* Clients may be patient, and send a request only when the one before has
\* left nothing to do anywhere.
Settled == amBox = <<>> /\ mailbox = <<>> /\ doomed = {}

Ask(m) ==
    /\ Len(amBox) < MaxAmBox
    /\ Patient => Settled
    /\ amBox' = Append(amBox, m)
    /\ UNCHANGED <<femVars, bindings, created, doomed>>

\* Bound: each request in the mailbox may create a binding.
RoomToCreate == created + Len(amBox) < MaxBindings

-----------------------------------------------------------------------------
(* The account manager *)

AmReceived(type) == amBox # <<>> /\ Head(amBox).type = type

\* SvdFileEventBindings(db).find { _.absoluteFilePath == path }
Bound(p) == {b \in bindings : b.path = p}

\* Faulty: CreateFileWatch looks for the same flags as well as the same path.
CreateUnlessSame ==
    /\ AmReceived("create")
    /\ LET m == Head(amBox)
       IN \/ /\ \E b \in Bound(m.path) : b.flags = m.flags
             /\ amBox' = Tail(amBox)
             /\ UNCHANGED <<bindings, created>>
          \/ /\ ~\E b \in Bound(m.path) : b.flags = m.flags
             /\ created' = created + 1
             /\ amBox' = Append(Tail(amBox), [m EXCEPT !.type = "register"])
             /\ bindings' = bindings \cup
                  {[uuid |-> created + 1, path |-> m.path, flags |-> m.flags]}
    /\ UNCHANGED <<femVars, doomed>>

\* CreateFileWatch: a path with a binding is refused; otherwise the manager
\* posts the registration to itself and stores a new binding.
CreateFileWatch ==
    /\ AmReceived("create")
    /\ LET m == Head(amBox)
       IN \/ /\ Bound(m.path) # {}
             /\ amBox' = Tail(amBox)
             /\ UNCHANGED <<bindings, created>>
          \/ /\ Bound(m.path) = {}
             /\ created' = created + 1
             /\ amBox' = Append(Tail(amBox), [m EXCEPT !.type = "register"])
             /\ bindings' = bindings \cup
                  {[uuid |-> created + 1, path |-> m.path, flags |-> m.flags]}
    /\ UNCHANGED <<femVars, doomed>>

\* Faulty: only the binding is removed, the watch stays.
DestroyBindingOnly ==
    /\ AmReceived("destroy")
    /\ \/ \E b \in Bound(Head(amBox).path) : doomed' = doomed \cup {b.uuid}
       \/ Bound(Head(amBox).path) = {} /\ UNCHANGED doomed
    /\ amBox' = Tail(amBox)
    /\ UNCHANGED <<femVars, bindings, created>>

\* DestroyFileWatch: the binding is removed when the service has answered or
\* the ask has timed out; ALL events of the account manager are unregistered
\* at once, whether there is a binding or not.
DestroyFileWatch ==
    /\ AmReceived("destroy")
    /\ \/ \E b \in Bound(Head(amBox).path) : doomed' = doomed \cup {b.uuid}
       \/ Bound(Head(amBox).path) = {} /\ UNCHANGED doomed
    /\ Post([type |-> "unregister", ref |-> Self])
    /\ amBox' = Tail(amBox)
    /\ UNCHANGED <<idents, epoch, readers, opened, filter, pending,
                   bindings, created>>

\* onComplete of the ask: `db ~ binding', on a thread of its own.
RemoveBinding(u) ==
    /\ u \in doomed
    /\ doomed' = doomed \ {u}
    /\ bindings' = {b \in bindings : b.uuid # u}
    /\ UNCHANGED <<femVars, amBox, created>>

\* case x: Events.Base => fem forward x
ForwardRegister ==
    /\ AmReceived("register")
    /\ Post([type |-> "register", path |-> Head(amBox).path,
             flags |-> Head(amBox).flags, ref |-> Self])
    /\ amBox' = Tail(amBox)
    /\ UNCHANGED <<idents, epoch, readers, opened, filter, pending,
                   bindings, created, doomed>>

\* SvdFileEvent: the services of matching bindings are pinged; launching one
\* that does not answer is commented out, so only the message is consumed.
FileEvent ==
    /\ AmReceived("event")
    /\ amBox' = Tail(amBox)
    /\ UNCHANGED <<femVars, bindings, created, doomed>>

\* A handler of the account manager raises (its database is closed, say): it
\* is restarted with its mailbox and its database, and with a new file events
\* manager; bindings are not registered again.  What the old one's reader still
\* posts has no receiver any more.
AmRestart ==
    /\ amBox # <<>>
    /\ amBox' = Tail(amBox)
    /\ epoch < MaxEpoch
    /\ epoch' = epoch + 1
    /\ readers' = {epoch + 1}
    /\ idents' = NoIdents
    /\ mailbox' = <<>>
    /\ UNCHANGED <<opened, filter, pending, bindings, created, doomed>>

-----------------------------------------------------------------------------
(* The file events manager's steps *)

\* Events forwarded to the account manager arrive in its mailbox.
Forward ==
    /\ KqueueEvent
    /\ LET out == Forwarded(Head(mailbox))
           toSelf == Keep(out, [ref : {Self}, path : Path, flags : Flags])
       IN /\ Len(amBox) + Len(toSelf) <= MaxAmBox + 1    \* bound
          /\ amBox' = amBox \o [i \in 1..Len(toSelf) |->
                [type |-> "event", path |-> toSelf[i].path, flags |-> toSelf[i].flags]]
    /\ UNCHANGED <<bindings, created, doomed>>

Next ==
    \/ \E p \in Path, f \in WatchFlags :
          RoomToCreate /\ Ask([type |-> "create", path |-> p, flags |-> f])
    \/ \E p \in Path : Ask([type |-> "destroy", path |-> p])
    \/ CreateFileWatch
    \/ DestroyFileWatch
    \/ \E u \in Uuid : RemoveBinding(u)
    \/ ForwardRegister
    \/ FileEvent
    \/ AmRestart
    \/ FemInternal /\ UNCHANGED watchVars
    \/ Forward

Spec == Init /\ [][Next]_vars

-----------------------------------------------------------------------------
(* Properties *)

\* At most one binding per path: CreateFileWatch's look-up and its `<<' are one
\* handler, and the callbacks that run beside it only remove.
OneBindingPerPath ==
    \A b, c \in bindings : b.path = c.path => b = c

\* The binding's path is watched, with its flags, for the account manager.
Watched(b) ==
    \E fd \in Watching(b.path) :
        /\ filter[fd] # None /\ filter[fd][1] = epoch
        /\ b.flags \subseteq filter[fd][2]
        /\ \E i \in 1..Len(idents[fd].list) : idents[fd].list[i] = <<b.flags, Self>>

\* Once everything has settled, and unless the file events manager was
\* restarted, the two records of the account's watches agree: every binding is
\* watched and every watch has a binding.
RecordsAgree ==
    Settled /\ epoch = 1 =>
        /\ \A b \in bindings : Watched(b)
        /\ \A p \in Path : Watching(p) # {} => Bound(p) # {}
=============================================================================
