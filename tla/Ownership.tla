------------------------------ MODULE Ownership ------------------------------
(***************************************************************************)
(* own_t (src/lib/zeromq/own.cpp) and the objects of a socket that derive  *)
(* from it: the socket is the root of a tree of listeners, sessions and    *)
(* connecters that live in I/O threads, create children while they run and *)
(* are shut down by commands.  An object counts the commands that were     *)
(* sent to it and may not be deleted before it has processed them all.     *)
(*                                                                         *)
(* Every thread has one mailbox, which is first in, first out (Mailbox).   *)
(* The pipe between a session and the socket is reduced to its life: it is *)
(* created, bound, and once one side terminates it both sides may hear     *)
(* that it is gone: a pipe that still holds messages waits for a           *)
(* connection to take them, for ever if none comes (ZmqPipe,               *)
(* ZTerminatesUnlessHeld).                                                 *)
(***************************************************************************)
EXTENDS Naturals, Sequences, FiniteSets

CONSTANTS
    OwObject,     \* objects the tree may come to hold
    OwNone,       \* no object
    OwParent,     \* the object that launches each of them
    OwRole,       \* "socket", "listener", "session" (connects), "accepted",
                  \* or "connecter"
    OwThread,     \* the thread each object lives in
    OwEndpoints   \* bound: endpoints the application opens

ASSUME OwAssumption ==
    /\ OwNone \notin OwObject
    /\ IsFiniteSet(OwObject)
    /\ OwEndpoints \in Nat
    /\ OwParent \in [OwObject -> OwObject \cup {OwNone}]
    /\ OwRole \in [OwObject ->
            {"socket", "listener", "session", "accepted", "connecter"}]
    /\ Cardinality({o \in OwObject : OwRole[o] = "socket"}) = 1
    /\ \A o \in OwObject :
        /\ OwParent[o] = OwNone <=> OwRole[o] = "socket"
        /\ OwRole[o] \in {"listener", "session"} => OwRole[OwParent[o]] = "socket"
        /\ OwRole[o] = "accepted" => OwRole[OwParent[o]] = "listener"
        /\ OwRole[o] = "connecter" => OwRole[OwParent[o]] = "session"

OwRoot == CHOOSE o \in OwObject : OwRole[o] = "socket"
OwSessions == {o \in OwObject : OwRole[o] \in {"session", "accepted"}}
OwThreads == {OwThread[o] : o \in OwObject}
OwChildren(p) == {c \in OwObject : OwParent[c] = p}

VARIABLES
    owObj,      \* the fields of each object
    owBox,      \* mailbox of each thread
    owPipes,    \* sessions whose pipe the socket still has
    owClosed,   \* zmq_close was called and the reaper has the socket
    owFailed    \* a zmq_assert failed

owVars == <<owObj, owBox, owPipes, owClosed, owFailed>>

OwFields ==
    [st : {"unborn", "live", "deleted"}, term : BOOLEAN, sent : Nat,
     done : Nat, acks : Nat, owned : SUBSET OwObject, engine : BOOLEAN,
     pending : BOOLEAN, pipe : {"none", "sent", "bound"}, fd : BOOLEAN]

OwCommand ==
    [to : OwObject, obj : OwObject \cup {OwNone},
     type : {"plug", "own", "attach", "bind", "term_req", "term", "term_ack"}]

OwTypeOK ==
    /\ owObj \in [OwObject -> OwFields]
    /\ owBox \in [OwThreads -> Seq(OwCommand)]
    /\ owPipes \subseteq OwSessions
    /\ owClosed \in BOOLEAN /\ owFailed \in BOOLEAN

OwInit ==
    /\ owObj = [o \in OwObject |->
            [st |-> IF o = OwRoot THEN "live" ELSE "unborn", term |-> FALSE,
             sent |-> 0, done |-> 0, acks |-> 0, owned |-> {},
             engine |-> FALSE, pending |-> FALSE, pipe |-> "none",
             fd |-> FALSE]]
    /\ owBox = [t \in OwThreads |-> <<>>]
    /\ owPipes = {}
    /\ owClosed = FALSE
    /\ owFailed = FALSE

OwCmd(to, type, obj) == [to |-> to, type |-> type, obj |-> obj]

(* send_command puts a command into the mailbox of the destination.        *)
OwSend(box, c) == [box EXCEPT ![OwThread[c.to]] = Append(@, c)]

(* process_term asks each owned object, in the order of a std::set.        *)
OwSeqOf(S) ==
    CHOOSE s \in [1..Cardinality(S) -> S] : \A x \in S : \E i \in DOMAIN s : s[i] = x

OwSendTerms(box, S) ==
    [t \in OwThreads |->
        box[t] \o OwSeqOf({OwCmd(c, "term", OwNone) : c \in {d \in S : OwThread[d] = t}})]

OwFinishedEarly(r) == r.term /\ r.acks = 0

(* check_term_acks: an object that terminates, has processed what was sent *)
(* to it and has all acknowledgements tells its owner and is deleted.  (No *)
(* handler reads whom an acknowledgement is from.)                         *)
OwFinished(r) == r.term /\ r.done = r.sent /\ r.acks = 0

OwCheckTermAcks(objs, box, o) ==
    IF OwFinished(objs[o])
    THEN /\ owObj' = [objs EXCEPT ![o].st = "deleted"]
         /\ owBox' = IF o = OwRoot THEN box
                     ELSE OwSend(box, OwCmd(OwParent[o], "term_ack", o))
    ELSE owObj' = objs /\ owBox' = box

(* launch_child: both counters go up before the commands are sent.         *)
OwBorn(objs, p, c) ==
    [objs EXCEPT ![c].st = "live", ![c].sent = @ + 1, ![p].sent = @ + 1]

OwLaunch(box, p, c) ==
    OwSend(OwSend(box, OwCmd(c, "plug", OwNone)), OwCmd(p, "own", c))

(* The children of p that are still to be created, one of which a handler  *)
(* that connects or accepts creates; none when the bound is reached.       *)
OwUnborn(p) == {c \in OwChildren(p) : owObj[c].st = "unborn"}

(* own_t::process_term: the owned objects are asked to terminate, and so   *)
(* are, by the socket, the pipes.                                          *)
OwTermFields(r, pipes) ==
    [r EXCEPT !.term = TRUE, !.pending = FALSE, !.owned = {}, !.fd = FALSE,
              !.acks = @ + Cardinality(r.owned) + pipes]

-----------------------------------------------------------------------------
(* What the application does with the socket.                              *)

(* zmq_connect and zmq_bind: a new session, with its pipe attached, or a   *)
(* new listener.                                                           *)
OwEndpoint(c) ==
    /\ ~owClosed
    /\ c \in OwUnborn(OwRoot)
    /\ Cardinality(OwChildren(OwRoot) \ OwUnborn(OwRoot)) < OwEndpoints
    /\ LET pipe == IF OwRole[c] = "session" THEN "bound" ELSE "none"
       IN  owObj' = [OwBorn(owObj, OwRoot, c) EXCEPT ![c].pipe = pipe]
    /\ owBox' = OwLaunch(owBox, OwRoot, c)
    /\ owPipes' = owPipes \cup ({c} \cap OwSessions)
    /\ UNCHANGED <<owClosed, owFailed>>

(* process_term_req, also called directly by term_endpoint: an object that *)
(* is not owned any more was already asked to terminate.                   *)
OwTermReq(p, c, box) ==
    IF owObj[p].term \/ c \notin owObj[p].owned
    THEN owObj' = owObj /\ owBox' = box
    ELSE /\ owObj' = [owObj EXCEPT ![p].owned = @ \ {c}, ![p].acks = @ + 1]
         /\ owBox' = OwSend(box, OwCmd(c, "term", OwNone))

OwTermEndpoint(c) ==
    /\ ~owClosed
    /\ c \in owObj[OwRoot].owned
    /\ OwTermReq(OwRoot, c, owBox)
    /\ UNCHANGED <<owPipes, owClosed, owFailed>>

(* zmq_close: the reaper takes the socket over and terminates it.          *)
OwClose ==
    /\ ~owClosed
    /\ owClosed' = TRUE
    /\ LET r == OwTermFields(owObj[OwRoot], Cardinality(owPipes))
       IN  OwCheckTermAcks([owObj EXCEPT ![OwRoot] = r],
                    OwSendTerms(owBox, owObj[OwRoot].owned), OwRoot)
    /\ UNCHANGED <<owPipes, owFailed>>

-----------------------------------------------------------------------------
(* What happens on the network.                                            *)

(* tcp_listener_t::in_event: the session counts the attach command before  *)
(* it is launched.                                                         *)
OwAccept(l, c) ==
    /\ owObj[l].st = "live" /\ owObj[l].fd
    /\ OwRole[l] = "listener" /\ c \in OwUnborn(l)
    /\ owObj' = [OwBorn(owObj, l, c) EXCEPT ![c].sent = @ + 1]
    /\ owBox' = OwSend(OwLaunch(owBox, l, c), OwCmd(c, "attach", OwNone))
    /\ UNCHANGED <<owPipes, owClosed, owFailed>>

(* tcp_connecter_t::out_event: the session gets the engine, and the        *)
(* connecter asks to be terminated.                                        *)
OwConnected(c) ==
    /\ owObj[c].st = "live" /\ owObj[c].fd
    /\ OwRole[c] = "connecter"
    /\ owObj' = [owObj EXCEPT ![c].fd = FALSE, ![OwParent[c]].sent = @ + 1]
    /\ LET attached == OwSend(owBox, OwCmd(OwParent[c], "attach", OwNone))
       IN  owBox' = IF owObj[c].term THEN attached
                    ELSE OwSend(attached, OwCmd(OwParent[c], "term_req", c))
    /\ UNCHANGED <<owPipes, owClosed, owFailed>>

(* session_base_t::detach: a connecting session starts a new connecter, an *)
(* accepted one asks to be terminated.                                     *)
OwDetach(s) ==
    /\ owObj[s].st = "live" /\ owObj[s].engine
    /\ LET gone == [owObj EXCEPT ![s].engine = FALSE] IN
       \/ /\ OwRole[s] = "session"
          /\ \E c \in OwUnborn(s) :
                /\ owObj' = OwBorn(gone, s, c)
                /\ owBox' = OwLaunch(owBox, s, c)
       \/ /\ OwRole[s] = "accepted"
          /\ owObj' = gone
          /\ owBox' = IF owObj[s].term THEN owBox
                      ELSE OwSend(owBox, OwCmd(OwParent[s], "term_req", s))
    /\ UNCHANGED <<owPipes, owClosed, owFailed>>

-----------------------------------------------------------------------------
(* The end of the pipe between session s and the socket.                   *)

OwPipeEnding(s) == owObj[OwRoot].term \/ owObj[s].pending

(* socket_base_t::terminated                                               *)
OwSocketPipeGone(s) ==
    /\ s \in owPipes /\ OwPipeEnding(s)
    /\ owPipes' = owPipes \ {s}
    /\ LET closing == owObj[OwRoot].term IN
       /\ owFailed' = (owFailed \/ (closing /\ owObj[OwRoot].acks = 0))
       /\ OwCheckTermAcks([owObj EXCEPT ![OwRoot].acks = IF closing THEN @ - 1 ELSE @],
                   owBox, OwRoot)
    /\ UNCHANGED owClosed

(* session_base_t::terminated, with proceed_with_term.  The end that did   *)
(* not ask for the termination is deleted last.                            *)
OwSessionPipeGone(s) ==
    /\ owObj[s].st = "live" /\ owObj[s].pipe = "bound"
    /\ owObj[s].pending \/ s \notin owPipes
    /\ LET r == [owObj[s] EXCEPT !.pipe = "none"] IN
       IF r.pending
       THEN OwCheckTermAcks([owObj EXCEPT ![s] = OwTermFields(r, 0)],
                     OwSendTerms(owBox, r.owned), s)
       ELSE owObj' = [owObj EXCEPT ![s] = r] /\ owBox' = owBox
    /\ UNCHANGED <<owPipes, owClosed, owFailed>>

-----------------------------------------------------------------------------
(* Commands.  Those that carry a sequence number end in process_seqnum.    *)

OwReceive(t, type) ==
    /\ owBox[t] # <<>>
    /\ Head(owBox[t]).type = type
    /\ owObj[Head(owBox[t]).to].st = "live"

OwRest(t) == [owBox EXCEPT ![t] = Tail(@)]

(* A listener or a connecter registers its descriptor, a session launches  *)
(* a connecter.                                                            *)
OwProcessPlug(t) ==
    LET o == Head(owBox[t]).to
        objs == [owObj EXCEPT ![o].done = @ + 1,
                              ![o].fd = OwRole[o] \in {"listener", "connecter"}]
    IN
    /\ OwReceive(t, "plug")
    /\ IF OwRole[o] = "session"
       THEN \E c \in OwUnborn(o) :
                OwCheckTermAcks(OwBorn(objs, o, c), OwLaunch(OwRest(t), o, c), o)
       ELSE OwCheckTermAcks(objs, OwRest(t), o)
    /\ UNCHANGED <<owPipes, owClosed, owFailed>>

OwProcessOwnSilently(t) ==
    LET o == Head(owBox[t]).to
        c == Head(owBox[t]).obj
        counted == [owObj EXCEPT ![o].done = @ + 1]
    IN
    /\ OwReceive(t, "own")
    /\ IF owObj[o].term
       THEN OwCheckTermAcks([counted EXCEPT ![o].acks = @ + 1], OwRest(t), o)
       ELSE OwCheckTermAcks([counted EXCEPT ![o].owned = @ \cup {c}], OwRest(t), o)
    /\ UNCHANGED <<owPipes, owClosed, owFailed>>

(* A terminating object asks its new child to terminate at once.           *)
OwProcessOwn(t) ==
    LET o == Head(owBox[t]).to
        c == Head(owBox[t]).obj
        counted == [owObj EXCEPT ![o].done = @ + 1]
    IN
    /\ OwReceive(t, "own")
    /\ IF owObj[o].term
       THEN OwCheckTermAcks([counted EXCEPT ![o].acks = @ + 1],
                     OwSend(OwRest(t), OwCmd(c, "term", OwNone)), o)
       ELSE OwCheckTermAcks([counted EXCEPT ![o].owned = @ \cup {c}], OwRest(t), o)
    /\ UNCHANGED <<owPipes, owClosed, owFailed>>

(* The session plugs the engine in and, unless it terminates, creates the  *)
(* pipe it does not have yet.                                              *)
OwProcessAttach(t) ==
    LET o == Head(owBox[t]).to
        creates == owObj[o].pipe = "none" /\ ~owObj[o].term
        plugged == [owObj EXCEPT ![o].done = @ + 1, ![o].engine = TRUE]
    IN
    /\ OwReceive(t, "attach")
    /\ owFailed' = (owFailed \/ owObj[o].engine)
    /\ IF creates
       THEN OwCheckTermAcks([plugged EXCEPT ![o].pipe = "sent", ![OwRoot].sent = @ + 1],
                     OwSend(OwRest(t), OwCmd(OwRoot, "bind", o)), o)
       ELSE OwCheckTermAcks(plugged, OwRest(t), o)
    /\ UNCHANGED <<owPipes, owClosed>>

(* socket_base_t::attach_pipe: a closing socket terminates the pipe.       *)
OwProcessBind(t) ==
    LET s == Head(owBox[t]).obj
        objs == [owObj EXCEPT ![OwRoot].done = @ + 1, ![s].pipe = "bound"]
    IN
    /\ OwReceive(t, "bind")
    /\ owPipes' = owPipes \cup {s}
    /\ IF owObj[OwRoot].term
       THEN OwCheckTermAcks([objs EXCEPT ![OwRoot].acks = @ + 1], OwRest(t), OwRoot)
       ELSE OwCheckTermAcks(objs, OwRest(t), OwRoot)
    /\ UNCHANGED <<owClosed, owFailed>>

OwProcessTermReq(t) ==
    /\ OwReceive(t, "term_req")
    /\ OwTermReq(Head(owBox[t]).to, Head(owBox[t]).obj, OwRest(t))
    /\ UNCHANGED <<owPipes, owClosed, owFailed>>

(* A session with a pipe first waits for the pipe to terminate.            *)
OwProcessTerm(t) ==
    LET o == Head(owBox[t]).to
        r == owObj[o]
    IN
    /\ OwReceive(t, "term")
    /\ owFailed' = (owFailed \/ r.term \/ r.pending)
    /\ IF r.pipe # "none"
       THEN /\ owObj' = [owObj EXCEPT ![o].pending = TRUE]
            /\ owBox' = OwRest(t)
       ELSE OwCheckTermAcks([owObj EXCEPT ![o] = OwTermFields(r, 0)],
                     OwSendTerms(OwRest(t), r.owned), o)
    /\ UNCHANGED <<owPipes, owClosed>>

OwProcessTermAck(t) ==
    LET o == Head(owBox[t]).to IN
    /\ OwReceive(t, "term_ack")
    /\ owFailed' = (owFailed \/ owObj[o].acks = 0)
    /\ OwCheckTermAcks([owObj EXCEPT ![o].acks = @ - 1], OwRest(t), o)
    /\ UNCHANGED <<owPipes, owClosed>>

OwProcess(t) == \/ OwProcessPlug(t) \/ OwProcessOwn(t) \/ OwProcessAttach(t)
                \/ OwProcessBind(t) \/ OwProcessTermReq(t) \/ OwProcessTerm(t)
                \/ OwProcessTermAck(t)

OwNext ==
    \/ OwClose
    \/ \E c \in OwObject : OwEndpoint(c) \/ OwTermEndpoint(c) \/ OwConnected(c)
    \/ \E l \in OwObject, c \in OwObject : OwAccept(l, c)
    \/ \E s \in OwSessions :
            OwDetach(s) \/ OwSocketPipeGone(s) \/ OwSessionPipeGone(s)
    \/ \E t \in OwThreads : OwProcess(t)

(* The threads process their commands, the one of the socket from the time *)
(* the reaper has it.  Nothing makes a pipe end: linger is -1              *)
(* (options.cpp).                                                          *)
OwFairness ==
    \A t \in OwThreads : WF_owVars((t # OwThread[OwRoot] \/ owClosed) /\ OwProcess(t))

OwSpec == OwInit /\ [][OwNext]_owVars /\ OwFairness

-----------------------------------------------------------------------------
(* No object is deleted while anything can still reach it: no command is   *)
(* on its way to it and none of its children is left.                      *)
OwNothingDangles ==
    \A o \in OwObject : owObj[o].st = "deleted" =>
        /\ \A t \in OwThreads : \A i \in 1..Len(owBox[t]) : owBox[t][i].to # o
        /\ \A c \in OwChildren(o) : owObj[c].st # "live"

(* The assertions of the shutdown hold: an object is asked to terminate    *)
(* once, gets no acknowledgement it does not wait for, and a session never *)
(* gets a second engine.                                                   *)
OwNoAssertionFails == ~owFailed

(* Both, wherever the shutdown meets connections that are being opened.    *)
OwSafe == OwNothingDangles /\ OwNoAssertionFails

(* A pipe that was asked to end and has not, at one of its sides.          *)
OwHeld(s) ==
    \/ s \in owPipes /\ OwPipeEnding(s)
    \/ /\ owObj[s].st = "live" /\ owObj[s].pipe = "bound"
       /\ owObj[s].pending \/ s \notin owPipes

(* The sessions that an object waits for: those it owns, through other     *)
(* objects too, itself, and the one that owns it.                          *)
OwWaitsFor(o) ==
    {s \in OwSessions : o \in {s, OwParent[s], OwRoot} \/ OwParent[o] = s}

(* A closed socket is freed with everything it owns, however far the       *)
(* connections have got: a pipe that never ends, because no connection     *)
(* takes its messages, keeps its session, the connecter and the owners of  *)
(* that session, and no other object.                                      *)
OwAllFreed ==
    \A o \in OwObject :
        owClosed ~> (owObj[o].st # "live" \/ \E s \in OwWaitsFor(o) : []OwHeld(s))
=============================================================================
