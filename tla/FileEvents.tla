----------------------------- MODULE FileEvents -----------------------------
(***************************************************************************)
(* SvdFileEventsManager (svd.utils): an actor that watches files through a *)
(* BSD kqueue and forwards what happens to them to the actors that asked.  *)
(*                                                                         *)
(* Three parties run concurrently: the kernel, which collects the events   *)
(* of every descriptor registered with a kqueue; the reader thread, which  *)
(* blocks in kevent and posts what it gets to the actor; and the actor,    *)
(* which keeps the table `idents' and handles one message at a time.       *)
(*                                                                         *)
(* An exception in a handler makes the supervisor restart the actor: a new *)
(* instance with an empty table, a kqueue of its own and a reader thread   *)
(* of its own, behind the same mailbox.  The old reader is only asked to   *)
(* stop: it is blocked in kevent on the OLD kqueue and posts at least one  *)
(* more event to the new instance.  Descriptors are never closed.          *)
(***************************************************************************)
EXTENDS Naturals, Sequences

CONSTANTS
    Path,       \* files that may be watched
    Note,       \* the NOTE_* bits, as numbers
    Ref,        \* actors that may watch
    MaxFd,      \* descriptors the process may have open for watching
    MaxEpoch,   \* bound: instances of the actor
    MaxBox,     \* bound: length of the mailbox
    MaxList,    \* bound: watchers of one file
    None

Fd    == 1..MaxFd
Epoch == 1..MaxEpoch

\* A set of flags; the bitwise `&' of the code is intersection.
Flags == (SUBSET Note) \ {{}}

Entry == [path : Path, list : Seq(Flags \X Ref)]

\* `from' is a ghost: the file the kernel's event is about.
Message ==
    [type : {"register"}, path : Path, flags : Flags, ref : Ref]
      \cup [type : {"unregister"}, ref : Ref]
      \cup [type : {"kqueue"}, ident : Fd, flags : Flags, from : Path]

ASSUME NoteAssumption  == Note \subseteq Nat
ASSUME BoundAssumption == MaxFd \in Nat /\ MaxEpoch \in Nat \ {0} /\ MaxBox \in Nat
                          /\ MaxList \in Nat
ASSUME NoneAssumption  == None \notin Entry \cup Path \cup (Epoch \X Flags)

VARIABLES
    idents,     \* the actor's table: descriptor -> (path, list of (flags, ref))
    mailbox,    \* the actor's mailbox
    epoch,      \* which instance of the actor is alive
    readers,    \* the instances whose reader thread is still running
    opened,     \* kernel: the file behind each open descriptor
    filter,     \* kernel: the kqueue and the flags each descriptor is added with
    pending     \* kernel: events of each descriptor not yet read (EV_CLEAR)

femVars == <<idents, mailbox, epoch, readers, opened, filter, pending>>

NoIdents == [fd \in Fd |-> None]

FemTypeOK ==
    /\ idents \in [Fd -> Entry \cup {None}]
    /\ mailbox \in Seq(Message)
    /\ epoch \in Epoch
    /\ readers \subseteq Epoch
    /\ opened \in [Fd -> Path \cup {None}]
    /\ filter \in [Fd -> (Epoch \X Flags) \cup {None}]
    /\ pending \in [Fd -> SUBSET Note]

\* preStart: the reader thread of the first instance is started.
FemInit ==
    /\ idents = NoIdents
    /\ mailbox = <<>>
    /\ epoch = 1
    /\ readers = {1}
    /\ opened = [fd \in Fd |-> None]
    /\ filter = [fd \in Fd |-> None]
    /\ pending = [fd \in Fd |-> {}]

-----------------------------------------------------------------------------
(* The kernel and the reader thread *)

\* Something happens to a file: every kqueue that asked for it notes it.
Touch(p, n) ==
    /\ \E fd \in Fd : opened[fd] = p /\ filter[fd] # None
    /\ pending' = [fd \in Fd |->
         IF opened[fd] = p /\ filter[fd] # None /\ n \in filter[fd][2]
           THEN pending[fd] \cup {n} ELSE pending[fd]]
    /\ pending' # pending
    /\ UNCHANGED <<idents, mailbox, epoch, readers, opened, filter>>

\* Faulty: nev >= 0 instead of nev > 0, an event is posted when there is none.
ReadAnyway(e, fd) ==
    /\ e \in readers
    /\ filter[fd] # None /\ filter[fd][1] = e
    /\ Len(mailbox) < MaxBox
    /\ mailbox' = Append(mailbox, [type |-> "kqueue", ident |-> fd,
                                   flags |-> pending[fd], from |-> opened[fd]])
    /\ pending' = [pending EXCEPT ![fd] = {}]
    /\ UNCHANGED <<idents, epoch, readers, opened, filter>>

\* kevent returns one event to the reader of instance e, which posts it.  A
\* reader that was told to stop leaves its loop when it sees keep = false; the
\* field is not volatile, so it need not see it.
Read(e, fd) ==
    /\ e \in readers
    /\ filter[fd] # None /\ filter[fd][1] = e
    /\ pending[fd] # {}
    /\ Len(mailbox) < MaxBox
    /\ mailbox' = Append(mailbox, [type |-> "kqueue", ident |-> fd,
                                   flags |-> pending[fd], from |-> opened[fd]])
    /\ pending' = [pending EXCEPT ![fd] = {}]
    /\ readers' \in IF e = epoch THEN {readers} ELSE {readers, readers \ {e}}
    /\ UNCHANGED <<idents, epoch, opened, filter>>

\* kevent returns -1: the exception ends the thread, and nothing starts another.
ReaderFails ==
    /\ epoch \in readers
    /\ readers' = readers \ {epoch}
    /\ UNCHANGED <<idents, mailbox, epoch, opened, filter, pending>>

-----------------------------------------------------------------------------
(* The actor *)

\* A message is posted by another actor.
Post(m) == mailbox' = Append(mailbox, m)

Received(type) ==
    /\ mailbox # <<>>
    /\ Head(mailbox).type = type

\* Faulty: the new instance inherits the table of the old one.
RestartWithTable ==
    /\ epoch < MaxEpoch
    /\ epoch' = epoch + 1
    /\ idents' = idents
    /\ readers' = readers \cup {epoch + 1}

\* preRestart, a new instance, its preStart.  The handler that raised has
\* consumed its message.
Restart ==
    /\ epoch < MaxEpoch
    /\ epoch' = epoch + 1
    /\ idents' = NoIdents
    /\ readers' \in {readers \cup {epoch + 1}, (readers \ {epoch}) \cup {epoch + 1}}

\* idents.find { case (i, (p, l)) => p == path }
Watching(p) == {fd \in Fd : idents[fd] # None /\ idents[fd].path = p}

\* case Some: the watcher joins the list; the kevent is left as it is.
Join(fd, m) ==
    /\ idents' = [idents EXCEPT ![fd].list = Append(@, <<m.flags, m.ref>>)]
    /\ UNCHANGED <<epoch, readers, opened, filter>>

\* case None, registerNewFileEvent: open, then kevent(EV_ADD).
RegisterNew(m) ==
    \/ \E fd \in Fd :
         /\ opened[fd] = None
         /\ opened' = [opened EXCEPT ![fd] = m.path]
         /\ \/ /\ filter' = [filter EXCEPT ![fd] = <<epoch, m.flags>>]
               /\ idents' = [idents EXCEPT ![fd] =
                               [path |-> m.path, list |-> <<<<m.flags, m.ref>>>>]]
               /\ UNCHANGED <<epoch, readers>>
            \/ Restart /\ UNCHANGED filter             \* kevent failed
    \/ Restart /\ UNCHANGED <<opened, filter>>         \* open failed

\* Faulty: every registration opens a descriptor of its own.
RegisterAnew ==
    /\ Received("register")
    /\ RegisterNew(Head(mailbox))
    /\ mailbox' = Tail(mailbox)
    /\ UNCHANGED pending

Register ==
    /\ Received("register")
    /\ LET m == Head(mailbox)
       IN \/ \E fd \in Watching(m.path) : Join(fd, m)
          \/ Watching(m.path) = {} /\ RegisterNew(m)
    /\ mailbox' = Tail(mailbox)
    /\ UNCHANGED pending

\* list.filter: the elements that are in Good, in their order.
Keep(s, Good) ==
    LET kept[i \in 0..Len(s)] ==
          IF i = 0 THEN <<>>
          ELSE IF s[i] \in Good THEN Append(kept[i - 1], s[i]) ELSE kept[i - 1]
    IN  kept[Len(s)]

\* The entries of every list that belong to ref are dropped, and the idents
\* whose list is empty then.
Without(entry, ref) ==
    LET kept == Keep(entry.list, Flags \X (Ref \ {ref}))
    IN IF kept = <<>> THEN None ELSE [entry EXCEPT !.list = kept]

\* Faulty: descriptors that nobody watches any more are closed, and free for
\* the next open, while events about them may still be in the mailbox.
UnregisterAndClose ==
    /\ Received("unregister")
    /\ idents' = [fd \in Fd |-> IF idents[fd] = None THEN None
                                ELSE Without(idents[fd], Head(mailbox).ref)]
    /\ opened' = [fd \in Fd |-> IF idents'[fd] = None THEN None ELSE opened[fd]]
    /\ filter' = [fd \in Fd |-> IF idents'[fd] = None THEN None ELSE filter[fd]]
    /\ pending' = [fd \in Fd |-> IF idents'[fd] = None THEN {} ELSE pending[fd]]
    /\ mailbox' = Tail(mailbox)
    /\ UNCHANGED <<epoch, readers>>

Unregister ==
    /\ Received("unregister")
    /\ idents' = [fd \in Fd |-> IF idents[fd] = None THEN None
                                ELSE Without(idents[fd], Head(mailbox).ref)]
    /\ mailbox' = Tail(mailbox)
    /\ UNCHANGED <<epoch, readers, opened, filter, pending>>

\* The watchers an event is forwarded to: (fl & flags) > 0.
Interested(list, flags) == Keep(list, {x \in Flags \X Ref : x[1] \cap flags # {}})

\* The SvdFileEvents that SvdKqueueFileEvent m makes the actor send.
Forwarded(m) ==
    IF idents[m.ident] = None THEN <<>>
    ELSE LET to == Interested(idents[m.ident].list, m.flags)
         IN [i \in 1..Len(to) |-> [ref |-> to[i][2], path |-> idents[m.ident].path,
                                   flags |-> m.flags]]

KqueueEvent ==
    /\ Received("kqueue")
    /\ mailbox' = Tail(mailbox)
    /\ UNCHANGED <<idents, epoch, readers, opened, filter, pending>>

-----------------------------------------------------------------------------
\* The bounds on lists and instances: each registration in the mailbox may still
\* join a list, or fail and make the supervisor restart the actor.
RoomToRegister ==
    LET waiting == Len(SelectSeq(mailbox, LAMBDA m : m.type = "register"))
    IN /\ epoch + waiting < MaxEpoch
       /\ \A fd \in Fd : idents[fd] # None => Len(idents[fd].list) + waiting < MaxList

\* An actor registers itself or unregisters.
Client ==
    /\ Len(mailbox) < MaxBox
    /\ \/ /\ RoomToRegister
          /\ \E p \in Path, f \in Flags, r \in Ref :
                Post([type |-> "register", path |-> p, flags |-> f, ref |-> r])
       \/ \E r \in Ref : Post([type |-> "unregister", ref |-> r])
    /\ UNCHANGED <<idents, epoch, readers, opened, filter, pending>>

\* The steps of the manager, its reader threads and the kernel, but for the
\* forwarding of events.
FemInternal ==
    \/ \E p \in Path, n \in Note : Touch(p, n)
    \/ \E e \in Epoch, fd \in Fd : Read(e, fd)
    \/ ReaderFails
    \/ Register
    \/ Unregister

FemNext == Client \/ FemInternal \/ KqueueEvent

FemSpec == FemInit /\ [][FemNext]_femVars

-----------------------------------------------------------------------------
(* Properties *)

\* An event is reported for the file that changed: as long as its descriptor
\* number is on its way through the mailbox, the table has that number for
\* that file or not at all.  Numbers outlive unregistration and restarts; that
\* none is ever given to a second file keeps a late event from being reported
\* for the wrong path.
RightPath ==
    \A i \in 1..Len(mailbox) :
        mailbox[i].type = "kqueue" /\ idents[mailbox[i].ident] # None
          => idents[mailbox[i].ident].path = mailbox[i].from

\* One descriptor per watched path: an event is never forwarded twice to a
\* watcher that registered once.
OneIdentPerPath ==
    \A p \in Path, f, g \in Fd : {f, g} \subseteq Watching(p) => f = g

\* Every entry of the table is registered with the kqueue of the instance that
\* is alive, the one whose reader was not told to stop: no restart leaves a
\* watch behind that looks registered and can never fire.
LiveKqueue ==
    \A fd \in Fd : idents[fd] # None => filter[fd] # None /\ filter[fd][1] = epoch

\* Every watcher is armed: the kevent of its file asks for all its flags.
Armed ==
    \A fd \in Fd : idents[fd] # None =>
        \A i \in 1..Len(idents[fd].list) :
            idents[fd].list[i][1] \subseteq filter[fd][2]
=============================================================================
