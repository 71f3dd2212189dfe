------------------------------- MODULE Poller -------------------------------
(***************************************************************************)
(* The loop of an I/O thread (src/lib/zeromq/kqueue.cpp, poller_base.cpp,  *)
(* io_thread.cpp) with what it calls: the thread's mailbox, the connecters *)
(* of a session one after the other (tcp_connecter.cpp), each on a socket  *)
(* and a reconnection timer, and the engine on an established connection   *)
(* (stream_engine.cpp, plug to error).                                     *)
(*                                                                         *)
(* Everything here runs in one thread, inside callbacks that remove        *)
(* descriptors, close them and delete objects the rest of a batch of       *)
(* events still points to; the operating system gives numbers and          *)
(* addresses out again at once.  The session is reduced to the commands it *)
(* sends (Ownership); what the engine does with data is StreamEngine.      *)
(*                                                                         *)
(* An engine may outlive its end in two ways: without its descriptor, when *)
(* the connection is lost while its decoder is stalled, and without its    *)
(* session, when that is deleted while the encoder has data.  What is then *)
(* called may use what was deleted: `astray'.                              *)
(***************************************************************************)
EXTENDS Naturals, FiniteSets, SequencesExt

CONSTANTS
    PlConnecters,   \* bound: connecters the session comes to launch
    PlFaults,       \* bound: attempts to connect that fail
    PlEvents        \* max_io_events

ASSUME PlAssumption == PlConnecters \in Nat \ {0} /\ PlFaults \in Nat /\ PlEvents \in Nat \ {0}

PlConn == 1..PlConnecters
PlNumber == 1..(PlConnecters + 3)   \* descriptors, and addresses of poll entries
PlMailFd == 1

PlMailbox == [kind |-> "mailbox", id |-> 0]
PlConnecter(c) == [kind |-> "connecter", id |-> c]
PlEngineOf(c) == [kind |-> "engine", id |-> c]

VARIABLES
    plIo,       \* what the thread owns, see PlInit
    plBox,      \* its mailbox, where other threads write too
    plPhase,    \* "timers", "wait", "events", "drain" or "ended"
    plBatch,    \* callbacks the events of this round still ask for
    plStopping,
    plSession,  \* "runs", "ends", or "gone" with its objects
    plFailed    \* attempts that failed so far

plVars == <<plIo, plBox, plPhase, plBatch, plStopping, plSession, plFailed>>

PlEntry == [st : {"free", "used", "retired"}, fd : {0} \cup PlNumber,
            kind : {"none", "mailbox", "connecter", "engine"}, id : {0} \cup PlConn,
            polled : SUBSET {"in", "out"}]

PlTypeOK ==
    /\ plIo.entries \in [PlNumber -> PlEntry]
    /\ plIo.knotes \subseteq [fd : PlNumber, filter : {"in", "out"}, entry : PlNumber]
    /\ plIo.open \subseteq PlNumber
    /\ plIo.timers \in [PlConn -> Nat] /\ plIo.due \subseteq PlConn
    /\ plIo.ready \subseteq PlNumber
    /\ plIo.conn \in [PlConn -> [st : {"unborn", "launched", "live", "gone"},
                                 fd : {0} \cup PlNumber, handle : {0} \cup PlNumber,
                                 timer : BOOLEAN, delayed : BOOLEAN, asked : BOOLEAN]]
    /\ plIo.engine \in [of : {0} \cup PlConn, fd : {0} \cup PlNumber, handle : {0} \cup PlNumber,
                        io : BOOLEAN, terminating : BOOLEAN]
    /\ plIo.bad \in BOOLEAN /\ plIo.astray \in BOOLEAN
    /\ plPhase \in {"timers", "wait", "events", "drain", "ended"}
    /\ plBatch \in Seq([entry : PlNumber, call : {"in", "out"}])
    /\ plStopping \in BOOLEAN /\ plSession \in {"runs", "ends", "gone"}
    /\ plFailed \in 0..PlFaults

PlUnused == [st |-> "free", fd |-> 0, kind |-> "none", id |-> 0, polled |-> {}]
PlNoEngine == [of |-> 0, fd |-> 0, handle |-> 0, io |-> FALSE, terminating |-> FALSE]

(* entries: the poll_entry_t at each address; knotes: what the kqueue       *)
(* watches; open: descriptors of the process; ready: those whose connect()   *)
(* has come to an end; timers: entries of each connecter in `timers'; due:    *)
(* whose time has come; bad: an assertion failed or a deleted object was      *)
(* used; astray: an engine was called without its descriptor or its session,   *)
(* see PlActivate and PlEnding.  io_thread_t registers its mailbox; the        *)
(* session launches its first connecter.                                      *)
PlInit ==
    /\ plIo = [entries |-> [n \in PlNumber |-> IF n = 1
                              THEN [PlUnused EXCEPT !.st = "used", !.fd = PlMailFd,
                                                    !.kind = "mailbox", !.polled = {"in"}]
                              ELSE PlUnused],
               knotes |-> {[fd |-> PlMailFd, filter |-> "in", entry |-> 1]},
               open |-> {PlMailFd},
               ready |-> {},
               timers |-> [c \in PlConn |-> 0],
               due |-> {},
               conn |-> [c \in PlConn |->
                            [st |-> IF c = 1 THEN "launched" ELSE "unborn", fd |-> 0,
                             handle |-> 0, timer |-> FALSE, delayed |-> c # 1, asked |-> FALSE]],
               engine |-> PlNoEngine,
               bad |-> FALSE,
               astray |-> FALSE]
    /\ plBox = <<[type |-> "plug", c |-> 1, fd |-> 0]>>
    /\ plPhase = "timers"
    /\ plBatch = <<>>
    /\ plStopping = FALSE
    /\ plSession = "runs"
    /\ plFailed = 0

PlCmd(type, c, fd) == [type |-> type, c |-> c, fd |-> fd]
PlLowest(S) == Min(PlNumber \ S)
PlBad(io, failed) == [io EXCEPT !.bad = @ \/ failed]

-----------------------------------------------------------------------------
(* kqueue_t and the operating system, as functions of the thread's state.   *)

PlOpenFd(io) == PlLowest(io.open)

(* Closing a descriptor removes what the kqueue watches of it (external). *)
PlClose(io, fd) ==
    PlBad([io EXCEPT !.open = @ \ {fd}, !.knotes = {k \in @ : k.fd # fd}, !.ready = @ \ {fd}],
          fd \notin io.open)

PlNewEntry(io) == PlLowest({n \in PlNumber : io.entries[n].st # "free"})

PlAddFd(io, fd, reactor) ==
    [io EXCEPT !.entries[PlNewEntry(io)] =
        [st |-> "used", fd |-> fd, kind |-> reactor.kind, id |-> reactor.id, polled |-> {}]]

(* set_pollin and set_pollout: kevent_add replaces the user data of what is  *)
(* already watched.                                                           *)
PlSetPoll(io, e, filter) ==
    LET pe == io.entries[e] IN
    IF filter \in pe.polled THEN io
    ELSE PlBad([io EXCEPT
                    !.entries[e].polled = @ \cup {filter},
                    !.knotes = {k \in @ : k.fd # pe.fd \/ k.filter # filter}
                                   \cup {[fd |-> pe.fd, filter |-> filter, entry |-> e]}],
               pe.fd \notin io.open)

(* kevent_delete of each of the filters; it asserts that they were watched. *)
PlKeventDelete(io, fd, filters) ==
    PlBad([io EXCEPT !.knotes = {k \in @ : k.fd # fd \/ k.filter \notin filters}],
          \E f \in filters : ~\E k \in io.knotes : k.fd = fd /\ k.filter = f)

PlResetPoll(io, e, filter) ==
    LET pe == io.entries[e] IN
    IF filter \notin pe.polled THEN io
    ELSE PlKeventDelete([io EXCEPT !.entries[e].polled = @ \ {filter}], pe.fd, {filter})

PlRmFdDelete(io, e) ==
    PlKeventDelete([io EXCEPT !.entries[e] = PlUnused], io.entries[e].fd, io.entries[e].polled)

(* rm_fd: the entry stays until the end of the batch, without descriptor. *)
PlRmFd(io, e) ==
    PlBad(PlKeventDelete([io EXCEPT !.entries[e].st = "retired", !.entries[e].fd = 0,
                                    !.entries[e].polled = {}],
                         io.entries[e].fd, io.entries[e].polled),
          io.entries[e].st # "used")

PlAddTimer(io, c) == [io EXCEPT !.timers[c] = @ + 1, !.conn[c].timer = TRUE]

(* cancel_timer asserts that there is one. *)
PlCancelTimer(io, c) ==
    PlBad([io EXCEPT !.timers[c] = IF @ = 0 THEN 0 ELSE @ - 1, !.due = @ \ {c},
                     !.conn[c].timer = FALSE],
          io.timers[c] = 0)

-----------------------------------------------------------------------------
(* tcp_connecter_t.  A handler yields the thread's state and the commands   *)
(* it sends.                                                                 *)

PlDone(io, cmds) == [io |-> io, cmds |-> cmds]

PlRmHandle(io, c) ==
    IF io.conn[c].handle = 0 THEN PlBad(io, TRUE)
    ELSE [PlRmFd(io, io.conn[c].handle) EXCEPT !.conn[c].handle = 0,
                                              !.ready = @ \ {io.conn[c].fd}]

PlOutEventNoRetry(io, c, connected) ==
    LET removed == PlRmHandle(io, c)
        s == io.conn[c].fd
        away == [removed EXCEPT !.conn[c].fd = 0]
    IN IF connected
       THEN PlDone(away, <<PlCmd("attach", c, s), PlCmd("term_req", c, 0)>>)
       ELSE PlDone(PlClose(away, s), <<>>)

(* out_event: a connection goes to the session with an engine, and the       *)
(* connecter asks to be terminated; otherwise it tries again later.           *)
PlOutEvent(io, c, connected) ==
    LET removed == PlRmHandle(io, c)
        s == io.conn[c].fd
        away == [removed EXCEPT !.conn[c].fd = 0]
    IN IF connected
       THEN PlDone(away, <<PlCmd("attach", c, s), PlCmd("term_req", c, 0)>>)
       ELSE PlDone(PlAddTimer(PlClose(away, s), c), <<>>)

(* start_connecting: connect() succeeds at once, will be heard of later, or  *)
(* fails.                                                                     *)
PlStartConnecting(io, c, outcome) ==
    LET fd == PlOpenFd(io)
        open == PlBad([io EXCEPT !.open = @ \cup {fd}, !.conn[c].fd = fd], io.conn[c].fd # 0)
        e == PlNewEntry(open)
        added == [PlAddFd(open, fd, PlConnecter(c)) EXCEPT !.conn[c].handle = e]
    IN CASE outcome = "connected" -> PlOutEvent(added, c, TRUE)
         [] outcome = "later" -> PlDone(PlSetPoll(added, e, "out"), <<>>)
         [] OTHER -> PlDone(PlAddTimer(PlClose([open EXCEPT !.conn[c].fd = 0], fd), c), <<>>)

PlProcessPlug(io, c, outcome) ==
    LET live == [io EXCEPT !.conn[c].st = "live"] IN
    IF io.conn[c].delayed THEN PlDone(PlAddTimer(live, c), <<>>)
    ELSE PlStartConnecting(live, c, outcome)

(* process_term, and the deletion that follows at once, since nothing else   *)
(* is under way to the connecter.                                             *)
PlProcessTerm(io, c) ==
    LET r == io.conn[c]
        calm == IF r.timer THEN PlCancelTimer(io, c) ELSE io
        unpolled == IF r.handle # 0 THEN PlRmHandle(calm, c) ELSE calm
        closed == IF r.fd # 0 THEN PlClose(unpolled, r.fd) ELSE unpolled
    IN PlDone(PlBad([closed EXCEPT !.conn[c].fd = 0, !.conn[c].st = "gone"], r.st # "live"), <<>>)

-----------------------------------------------------------------------------
(* stream_engine_t and the session's end of it.                             *)

(* unplug, which removes the descriptor only if io_enabled, and the          *)
(* destructor.                                                                *)
PlEngineGone(io) ==
    LET unplugged == IF io.engine.io THEN PlRmFd(io, io.engine.handle) ELSE io
    IN  PlClose([unplugged EXCEPT !.engine = PlNoEngine], io.engine.fd)

(* error: the session launches a connecter that waits first, then the engine *)
(* goes.                                                                      *)
PlError(io) ==
    LET c == Min({n \in PlConn : io.conn[n].st = "unborn"}) IN
    PlDone(PlEngineGone([io EXCEPT !.conn[c].st = "launched"]), <<PlCmd("plug", c, 0)>>)

PlMayBreak(io) == \E c \in PlConn : io.conn[c].st = "unborn"

(* What in_event and out_event of the engine do to the poller: nothing, stop *)
(* polling, start polling for output, end in error, or, at a disconnection    *)
(* with a stalled decoder, give up the descriptor and wait for the pipe.       *)
PlEngineEvent(io, call, outcome) ==
    CASE outcome = "stall" -> PlDone(PlResetPoll(io, io.engine.handle, call), <<>>)
      [] outcome = "answer" -> PlDone(PlSetPoll(io, io.engine.handle, "out"), <<>>)
      [] outcome = "broken" -> PlError(io)
      [] outcome = "held" -> PlDone([PlRmFd(io, io.engine.handle) EXCEPT !.engine.io = FALSE],
                                    <<>>)
      [] OTHER -> PlDone(io, <<>>)

PlStray(io) == PlDone([io EXCEPT !.astray = TRUE], <<>>)

(* activate_in and activate_out.  An engine that gave up its descriptor ends  *)
(* with activate_in; its activate_out sets the flags of a poll entry that is   *)
(* retired, where kevent fails, or deleted.                                    *)
PlActivate(io, call, outcome) ==
    CASE io.engine.io -> PlEngineEvent(PlSetPoll(io, io.engine.handle, call), call, outcome)
      [] ~io.engine.io /\ call = "in" -> PlError(io)
      [] OTHER -> PlStray(io)

(* The events of an engine whose session is deleted: in_event flushes that    *)
(* session; out_event writes, and ends when the buffer is empty or the write   *)
(* fails, or fills the buffer, for which the encoder may pull from the         *)
(* session.                                                                    *)
PlEnding(io, call, outcome) ==
    CASE call = "out" /\ outcome = "fine" -> PlDone(io, <<>>)
      [] call = "out" /\ outcome = "stall" -> PlDone(PlEngineGone(io), <<>>)
      [] OTHER -> PlStray(io)

(* process_attach: the engine is plugged in and reads at once; its decoder is  *)
(* new and not stalled.                                                        *)
PlProcessAttach(io, c, fd, outcome) ==
    LET e == PlNewEntry(io)
        added == [PlAddFd(io, fd, PlEngineOf(c)) EXCEPT
                     !.engine = [of |-> c, fd |-> fd, handle |-> e, io |-> TRUE,
                                 terminating |-> FALSE]]
        polled == PlSetPoll(PlSetPoll(added, e, "in"), e, "out")
    IN PlEngineEvent(PlBad(polled, io.engine.of # 0), "in", outcome)

-----------------------------------------------------------------------------
(* The loop.                                                                *)

(* A failing write only stops the polling for output: the end of a connection *)
(* is found when reading.                                                     *)
PlOutcomes(io, call) ==
    {"fine", "stall"} \cup (IF call = "in" THEN {"answer"} ELSE {})
        \cup (IF call = "in" /\ PlMayBreak(io) THEN {"broken", "held"} ELSE {})

(* Connecting may fail PlFaults times. *)
PlCounted(failed) ==
    /\ failed => plFailed < PlFaults
    /\ plFailed' = IF failed THEN plFailed + 1 ELSE plFailed

PlEffect(result, box) ==
    /\ plIo' = result.io
    /\ plBox' = box \o result.cmds

(* execute_timers: a due timer is removed after its callback. *)
PlTimer(c) ==
    /\ plPhase = "timers" /\ c \in plIo.due
    /\ \E outcome \in {"connected", "later", "failed"} :
        LET fired == PlStartConnecting([plIo EXCEPT !.conn[c].timer = FALSE, !.due = @ \ {c}],
                                       c, outcome)
            erased == [fired.io EXCEPT !.timers[c] = @ - 1]
        IN  /\ PlCounted(outcome = "failed")
            /\ PlEffect(PlDone(PlBad(erased, plIo.conn[c].st # "live"), fired.cmds), plBox)
    /\ UNCHANGED <<plPhase, plBatch, plStopping, plSession>>

PlTimersDone ==
    /\ plPhase = "timers" /\ plIo.due = {}
    /\ plPhase' = "wait"
    /\ UNCHANGED <<plIo, plBox, plBatch, plStopping, plSession, plFailed>>

(* kevent reports what is ready, in any order: the mailbox when it is not    *)
(* empty, a socket whose connect() has ended, the engine's at any time.  It    *)
(* returns with nothing for a timer or a signal.  EV_EOF asks for in_event     *)
(* first.                                                                      *)
PlReady == {k \in plIo.knotes : (k.fd = PlMailFd /\ plBox # <<>>) \/ k.fd \in plIo.ready}

PlCalls(k, eof) ==
    (IF eof THEN <<[entry |-> k.entry, call |-> "in"]>> ELSE <<>>)
        \o <<[entry |-> k.entry, call |-> k.filter]>>

PlWait ==
    /\ plPhase = "wait"
    /\ \E engine \in SUBSET {k \in plIo.knotes : k.fd = plIo.engine.fd} :
        LET ready == PlReady \cup engine IN
        /\ Cardinality(ready) <= PlEvents
        /\ \E order \in SetToSeqs(ready), eof \in SUBSET {k \in ready : k.fd # PlMailFd} :
              plBatch' = FlattenSeq([i \in DOMAIN order |-> PlCalls(order[i], order[i] \in eof)])
    /\ plPhase' = "events"
    /\ UNCHANGED <<plIo, plBox, plStopping, plSession, plFailed>>

PlCallback(pe, call) ==
    /\ plBatch' = Tail(plBatch)
    /\ UNCHANGED <<plStopping, plSession>>
    /\ \/ /\ pe.kind = "mailbox"
          /\ plPhase' = "drain"
          /\ UNCHANGED <<plIo, plBox, plFailed>>
       \/ /\ pe.kind = "connecter"
          /\ \E connected \in BOOLEAN :
                /\ PlCounted(~connected)
                /\ LET done == PlOutEvent(plIo, pe.id, connected) IN
                   PlEffect(PlDone(PlBad(done.io, plIo.conn[pe.id].st # "live"), done.cmds), plBox)
          /\ UNCHANGED plPhase
       \/ /\ pe.kind = "engine"
          /\ \E outcome \in PlOutcomes(plIo, call) :
                PlEffect(IF plIo.engine.of # pe.id THEN PlDone(PlBad(plIo, TRUE), <<>>)
                         ELSE IF plIo.engine.terminating THEN PlEnding(plIo, call, outcome)
                         ELSE PlEngineEvent(plIo, call, outcome), plBox)
          /\ UNCHANGED <<plPhase, plFailed>>

(* The loop over the events skips an entry that has been retired; an entry   *)
(* that has been deleted must not be looked at.                               *)
PlDispatch ==
    /\ plPhase = "events" /\ plBatch # <<>>
    /\ LET pe == plIo.entries[Head(plBatch).entry] IN
       IF pe.st = "used" THEN PlCallback(pe, Head(plBatch).call)
       ELSE /\ plIo' = PlBad(plIo, pe.st = "free")
            /\ plBatch' = Tail(plBatch)
            /\ UNCHANGED <<plBox, plPhase, plStopping, plSession, plFailed>>

(* io_thread_t::in_event: every command that is there. *)
PlCommand ==
    /\ plPhase = "drain" /\ plBox # <<>>
    /\ LET cmd == Head(plBox)
           rest == Tail(plBox)
       IN
       \/ /\ cmd.type = "plug"
          /\ \E outcome \in {"connected", "later", "failed"} :
                /\ PlCounted(outcome = "failed" /\ ~plIo.conn[cmd.c].delayed)
                /\ PlEffect(PlProcessPlug(plIo, cmd.c, outcome), rest)
          /\ UNCHANGED <<plStopping, plSession>>
       \/ /\ cmd.type = "attach"
          /\ \E outcome \in PlOutcomes(plIo, "in") \ {"held"} :
                PlEffect(PlProcessAttach(plIo, cmd.c, cmd.fd, outcome), rest)
          /\ UNCHANGED <<plStopping, plSession, plFailed>>
       \/ /\ cmd.type \in {"in", "out"}
          /\ IF plIo.engine.of = 0 THEN PlEffect(PlDone(plIo, <<>>), rest)
             ELSE \E outcome \in PlOutcomes(plIo, cmd.type) :
                      PlEffect(PlActivate(plIo, cmd.type, outcome), rest)
          /\ UNCHANGED <<plStopping, plSession, plFailed>>
       \/ /\ cmd.type = "term_req"
          /\ PlEffect(IF plIo.conn[cmd.c].asked THEN PlDone(plIo, <<>>)
                      ELSE PlDone([plIo EXCEPT !.conn[cmd.c].asked = TRUE],
                                  <<PlCmd("term", cmd.c, 0)>>), rest)
          /\ UNCHANGED <<plStopping, plSession, plFailed>>
       \/ /\ cmd.type = "term"
          /\ PlEffect(PlProcessTerm(plIo, cmd.c), rest)
          /\ UNCHANGED <<plStopping, plSession, plFailed>>
       \/ /\ cmd.type = "stop"
          /\ PlEffect(PlDone(PlRmFd(plIo, 1), <<>>), rest)
          /\ plStopping' = TRUE
          /\ UNCHANGED <<plSession, plFailed>>
    /\ UNCHANGED <<plPhase, plBatch>>

PlDrained ==
    /\ plPhase = "drain" /\ plBox = <<>>
    /\ plPhase' = "events"
    /\ UNCHANGED <<plIo, plBox, plBatch, plStopping, plSession, plFailed>>

(* The retired entries are deleted after the batch. *)
PlEndBatch ==
    /\ plPhase = "events" /\ plBatch = <<>>
    /\ plIo' = [plIo EXCEPT !.entries =
                   [n \in PlNumber |-> IF @[n].st = "retired" THEN PlUnused ELSE @[n]]]
    /\ plPhase' = IF plStopping THEN "ended" ELSE "timers"
    /\ UNCHANGED <<plBox, plBatch, plStopping, plSession, plFailed>>

PlLoop == (\E c \in PlConn : PlTimer(c)) \/ PlTimersDone \/ PlWait \/ PlDispatch \/ PlCommand \/ PlDrained \/ PlEndBatch

-----------------------------------------------------------------------------
(* The rest of the library.                                                 *)

(* The time of a timer comes.  That it may come while others are executed    *)
(* makes no difference to its coming after the wait that follows.             *)
PlTick ==
    /\ \E c \in PlConn : plIo.timers[c] > 0 /\ c \notin plIo.due
                            /\ plIo' = [plIo EXCEPT !.due = @ \cup {c}]
    /\ UNCHANGED <<plBox, plPhase, plBatch, plStopping, plSession, plFailed>>

(* The operating system ends an attempt to connect (external). *)
PlConnectEnds ==
    /\ \E c \in PlConn : plIo.conn[c].handle # 0 /\ plIo.conn[c].fd \notin plIo.ready
                            /\ plIo' = [plIo EXCEPT !.ready = @ \cup {plIo.conn[c].fd}]
    /\ UNCHANGED <<plBox, plPhase, plBatch, plStopping, plSession, plFailed>>

(* The session's pipe has become readable or writable. *)
PlPipeActivated(call) ==
    /\ plIo.engine.of # 0 /\ plSession # "gone"
    /\ \A i \in DOMAIN plBox : plBox[i].type # call
    /\ plBox' = Append(plBox, PlCmd(call, 0, 0))
    /\ UNCHANGED <<plIo, plPhase, plBatch, plStopping, plSession, plFailed>>

(* The session is terminated and asks its connecters to. *)
PlShutdown ==
    /\ plSession = "runs"
    /\ plSession' = "ends"
    /\ UNCHANGED <<plIo, plBox, plPhase, plBatch, plStopping, plFailed>>

PlAskTerm(c) ==
    /\ plSession = "ends"
    /\ plIo.conn[c].st \in {"launched", "live"} /\ ~plIo.conn[c].asked
    /\ plIo' = [plIo EXCEPT !.conn[c].asked = TRUE]
    /\ plBox' = Append(plBox, PlCmd("term", c, 0))
    /\ UNCHANGED <<plPhase, plBatch, plStopping, plSession, plFailed>>

(* In the callback of its last command the session is deleted, and terminates *)
(* its engine, which stays when its encoder has data.                         *)
PlSessionGone ==
    /\ plSession = "ends" /\ plPhase = "drain" /\ plBox = <<>>
    /\ \A c \in PlConn : plIo.conn[c].st \in {"unborn", "gone"}
    /\ plSession' = "gone"
    /\ \/ plIo' = IF plIo.engine.of = 0 THEN plIo ELSE PlEngineGone(plIo)
       \/ plIo.engine.of # 0 /\ plIo' = [plIo EXCEPT !.engine.terminating = TRUE]
    /\ UNCHANGED <<plBox, plPhase, plBatch, plStopping, plFailed>>

(* The context stops its threads when all sockets are gone. *)
PlStop ==
    /\ plSession = "gone" /\ plPhase # "ended" /\ ~plStopping
    /\ \A i \in DOMAIN plBox : plBox[i].type # "stop"
    /\ plBox' = Append(plBox, PlCmd("stop", 0, 0))
    /\ UNCHANGED <<plIo, plPhase, plBatch, plStopping, plSession, plFailed>>

(* Nothing is said of the thread after it used what was deleted. *)
PlNext ==
    /\ ~plIo.astray
    /\ \/ \E c \in PlConn : PlAskTerm(c)
       \/ \E call \in {"in", "out"} : PlPipeActivated(call)
       \/ PlTick \/ PlConnectEnds \/ PlLoop \/ PlShutdown \/ PlSessionGone \/ PlStop

(* The thread runs on, time passes, and connect() comes to an end. *)
PlFairness ==
    /\ WF_plVars(~plIo.astray /\ PlLoop)
    /\ WF_plVars(~plIo.astray /\ PlTick)
    /\ WF_plVars(~plIo.astray /\ PlConnectEnds)

PlSpec == PlInit /\ [][PlNext]_plVars /\ PlFairness

-----------------------------------------------------------------------------
(* No assertion fails and no deleted entry or object is used, and the poll   *)
(* entries in use are exactly those of the mailbox, of connecters that wait   *)
(* for the network and of an engine that has its descriptor, so that the load *)
(* is back at zero when the thread ends (kqueue.cpp, poller_base.cpp:29-33,    *)
(* tcp_connecter.cpp:79-84).  Excepted are the two ways an engine is called    *)
(* astray (stream_engine.cpp:313, 240-253), and an engine that still has data  *)
(* to write when the thread ends (stream_engine.cpp:186-190).                  *)
PlSafe ==
    /\ ~plIo.bad
    /\ {e \in PlNumber : plIo.entries[e].st = "used"} =
            ({plIo.conn[c].handle : c \in PlConn}
                \cup (IF plIo.engine.io THEN {plIo.engine.handle} ELSE {})
                \cup {IF plStopping THEN 0 ELSE 1}) \ {0}
    /\ \A c \in PlConn : plIo.timers[c] = IF plIo.conn[c].timer THEN 1 ELSE 0
    /\ plPhase = "ended" /\ ~plIo.engine.terminating =>
            plIo.open = {PlMailFd} /\ \A e \in PlNumber : plIo.entries[e].st # "used"

(* A session that is not shut down gets its connection back, however often   *)
(* attempts fail and connections break, once they cease to (tcp_connecter.cpp,*)
(* session_base.cpp, detached).  An engine that lost its connection with a     *)
(* stalled decoder stands in the way until the application has read a message  *)
(* (stream_engine.cpp:247-250, 324-334).                                       *)
PlReconnects ==
    \/ <>[](plSession # "runs" \/ plIo.engine.io)
    \/ <>[](plIo.engine.of # 0 /\ ~plIo.engine.io)
    \/ <>plIo.astray
=============================================================================
