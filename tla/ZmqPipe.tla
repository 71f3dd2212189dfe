------------------------------- MODULE ZmqPipe -------------------------------
(***************************************************************************)
(* pipe_t (src/lib/zeromq/pipe.cpp): the two ends of a message pipe, one   *)
(* in the thread of a socket and one in the I/O thread of a session.  Each *)
(* end reads one ypipe_t and writes another; everything else passes        *)
(* between them as commands, which arrive in the order they were sent      *)
(* (Mailbox), but in no order with the messages.                           *)
(*                                                                         *)
(* A ypipe_t is the flush queue that YPipe implements.  Its items are the  *)
(* parts of messages ("more", then "last") and the delimiter that          *)
(* terminate() writes.                                                     *)
(*                                                                         *)
(* The session (session_base.cpp) reads its end through an engine, which   *)
(* comes with a connection and goes with it.  Without one it only looks    *)
(* for the delimiter, at the points of its code that call check_read().    *)
(* Its handlers of several steps have a program counter, zAt: the thread   *)
(* of the socket runs beside them.                                         *)
(***************************************************************************)
EXTENDS Naturals, Sequences, FiniteSets

CONSTANTS
    ZHwm,       \* high watermark of both directions; 0 is no limit
    ZMaxDelta,  \* max_wm_delta
    ZWrites,    \* bound: message parts written by each end, a function of the end
    ZTerms,     \* bound: calls of terminate() by each end
    ZHiccups    \* bound: reconnections of the session

ASSUME ZAssumption ==
    /\ ZHwm \in Nat /\ ZMaxDelta \in Nat \ {0}
    /\ ZWrites \in [{"session", "socket"} -> Nat]
    /\ ZTerms \in [{"session", "socket"} -> Nat] /\ ZHiccups \in Nat

ZEnd == {"session", "socket"}
ZPeer(e) == IF e = "session" THEN "socket" ELSE "session"

ZNone == 0                       \* a NULL upipe_t
ZUpipe == 1..(2 + ZHiccups)      \* upipe_t objects, in the order created

VARIABLES
    zEnd,       \* the fields of each pipe_t
    zChan,      \* commands on their way to each end
    zQueue,     \* contents of each upipe_t
    zMade,      \* how many upipe_t were created
    zFreed,     \* the upipe_t that were deleted
    zAlive,     \* the pipe_t that were not yet deleted
    zMid,       \* ends that have read a part of a message and not its last
                \* one: of a session, incomplete_in
    zParts,     \* parts written so far
    zTerms,     \* calls of terminate() so far
    zFailed,    \* a zmq_assert of pipe_t failed
    zEngine,    \* the session has an engine
    zAt         \* where the session's thread is

zPipe == <<zEnd, zChan, zQueue, zMade, zFreed, zAlive, zMid, zParts, zTerms, zFailed>>
zVars == <<zPipe, zEngine, zAt>>

ZState == {"active", "delimited", "pending", "terminating", "terminated",
           "double_terminated"}

ZCommand ==
    [type : {"activate_read", "pipe_term", "pipe_term_ack"}]
        \cup [type : {"activate_write"}, read : Nat]
        \cup [type : {"hiccup"}, pipe : ZUpipe]

ZPipeTypeOK ==
    /\ zEnd \in [ZEnd ->
            [state : ZState, delay : BOOLEAN, in : ZUpipe,
             out : ZUpipe \cup {ZNone}, inActive : BOOLEAN,
             outActive : BOOLEAN, read : Nat, written : Nat,
             peersRead : Nat]]
    /\ zChan \in [ZEnd -> Seq(ZCommand)]
    /\ zQueue \in [ZUpipe ->
            [items : Seq({"more", "last", "delimiter"}), complete : Nat,
             flushed : Nat, asleep : BOOLEAN]]
    /\ zMade \in ZUpipe
    /\ zFreed \subseteq ZUpipe
    /\ zAlive \subseteq ZEnd /\ zMid \subseteq ZEnd
    /\ zParts \in [ZEnd -> Nat] /\ \A e \in ZEnd : zParts[e] <= ZWrites[e]
    /\ zTerms \in [ZEnd -> Nat] /\ \A e \in ZEnd : zTerms[e] <= ZTerms[e]
    /\ zFailed \in BOOLEAN

ZTypeOK ==
    /\ ZPipeTypeOK
    /\ zEngine \in BOOLEAN /\ zAt \in {"idle", "draining", "checking", "aborted"}

(* compute_lwm: half of a small high watermark.                            *)
ZLwm == IF ZHwm > ZMaxDelta * 2 THEN ZHwm - ZMaxDelta ELSE (ZHwm + 1) \div 2

-----------------------------------------------------------------------------
(* The flush queue as operations on its value.                             *)

ZEmpty == [items |-> <<>>, complete |-> 0, flushed |-> 0, asleep |-> FALSE]

ZPut(q, part) ==
    [q EXCEPT !.items = Append(@, part),
              !.complete = IF part = "more" THEN @ ELSE Len(q.items) + 1]

ZRollback(q) == [q EXCEPT !.items = SubSeq(@, 1, q.complete)]

ZFlush(q) ==
    IF q.flushed = q.complete THEN q
    ELSE [q EXCEPT !.flushed = q.complete, !.asleep = FALSE]

ZWakes(q) == q.flushed # q.complete /\ q.asleep   \* flush returns false

ZReadable(q) == q.flushed > 0 /\ ~q.asleep

ZTake(q) ==
    [q EXCEPT !.items = Tail(@), !.complete = @ - 1, !.flushed = @ - 1]

-----------------------------------------------------------------------------
(* pipepair: both ends active, with the delay of the default options.  A   *)
(* session that was accepted has an engine from the start, one that        *)
(* connects does not.                                                      *)
ZInit ==
    /\ zEnd = [e \in ZEnd |->
            [state |-> "active", delay |-> TRUE,
             in |-> IF e = "session" THEN 1 ELSE 2,
             out |-> IF e = "session" THEN 2 ELSE 1,
             inActive |-> TRUE, outActive |-> TRUE,
             read |-> 0, written |-> 0, peersRead |-> 0]]
    /\ zChan = [e \in ZEnd |-> <<>>]
    /\ zQueue = [u \in ZUpipe |-> ZEmpty]
    /\ zMade = 2
    /\ zFreed = {}
    /\ zAlive = ZEnd
    /\ zMid = {}
    /\ zParts = [e \in ZEnd |-> 0]
    /\ zTerms = [e \in ZEnd |-> 0]
    /\ zFailed = FALSE
    /\ zEngine \in BOOLEAN
    /\ zAt = "idle"

ZSend(chan, e, cmds) == [chan EXCEPT ![ZPeer(e)] = @ \o cmds]

ZCmd(t) == [type |-> t]

ZMayRead(e) == /\ e \in zAlive
               /\ zEnd[e].inActive
               /\ zEnd[e].state \in {"active", "pending"}

(* delimit(): the delimiter ends a pipe the peer has already asked to      *)
(* terminate.                                                              *)
ZDelimited(p) ==
    IF p.state = "active" THEN [p EXCEPT !.state = "delimited"]
    ELSE [p EXCEPT !.state = "terminating", !.out = ZNone]

ZDelimitSilently(p) ==
    <<>>

ZDelimitAck(p) ==
    IF p.state = "pending" THEN <<ZCmd("pipe_term_ack")>> ELSE <<>>

(* read() and check_read() find nothing: the end goes inactive and the     *)
(* upipe sleeps.                                                           *)
ZReadNothing(e) ==
    LET p == zEnd[e] IN
    /\ ZMayRead(e)
    /\ ~ZReadable(zQueue[p.in])
    /\ zQueue' = [zQueue EXCEPT ![p.in].asleep = TRUE]
    /\ zEnd' = [zEnd EXCEPT ![e].inActive = FALSE]
    /\ UNCHANGED <<zChan, zMade, zFreed, zAlive, zMid, zParts, zTerms, zFailed>>

(* read() and check_read() meet the delimiter.                             *)
ZReadDelimiter(e) ==
    LET p == zEnd[e] IN
    /\ ZMayRead(e)
    /\ ZReadable(zQueue[p.in])
    /\ Head(zQueue[p.in].items) = "delimiter"
    /\ zQueue' = [zQueue EXCEPT ![p.in] = ZTake(@)]
    /\ zEnd' = [zEnd EXCEPT ![e] = ZDelimited(@)]
    /\ zChan' = ZSend(zChan, e, ZDelimitAck(p))
    /\ UNCHANGED <<zMade, zFreed, zAlive, zMid, zParts, zTerms, zFailed>>

ZReadPartCountsParts(e) ==
    LET p == zEnd[e]
        part == Head(zQueue[p.in].items)
        read == p.read + 1
    IN
    /\ ZMayRead(e)
    /\ ZReadable(zQueue[p.in])
    /\ part # "delimiter"
    /\ zQueue' = [zQueue EXCEPT ![p.in] = ZTake(@)]
    /\ zEnd' = [zEnd EXCEPT ![e].read = read]
    /\ zMid' = IF part = "more" THEN zMid \cup {e} ELSE zMid \ {e}
    /\ zChan' = IF ZLwm > 0 /\ read % ZLwm = 0
                THEN ZSend(zChan, e, <<[type |-> "activate_write", read |-> read]>>)
                ELSE zChan
    /\ UNCHANGED <<zMade, zFreed, zAlive, zParts, zTerms, zFailed>>

(* read() of a message part.  The peer hears of it whenever the number of  *)
(* messages read is a multiple of the low watermark.                       *)
ZReadPart(e) ==
    LET p == zEnd[e]
        part == Head(zQueue[p.in].items)
        read == IF part = "last" THEN p.read + 1 ELSE p.read
    IN
    /\ ZMayRead(e)
    /\ ZReadable(zQueue[p.in])
    /\ part # "delimiter"
    /\ zQueue' = [zQueue EXCEPT ![p.in] = ZTake(@)]
    /\ zEnd' = [zEnd EXCEPT ![e].read = read]
    /\ zMid' = IF part = "more" THEN zMid \cup {e} ELSE zMid \ {e}
    /\ zChan' = IF ZLwm > 0 /\ read % ZLwm = 0
                THEN ZSend(zChan, e, <<[type |-> "activate_write", read |-> read]>>)
                ELSE zChan
    /\ UNCHANGED <<zMade, zFreed, zAlive, zParts, zTerms, zFailed>>

-----------------------------------------------------------------------------
(* write(), with check_write(): a full pipe makes the end inactive.  A     *)
(* socket flushes the last part of a message in the call that writes it    *)
(* (dist_t::write), a session when its engine has decoded a batch.         *)

ZFull(p) == ZHwm > 0 /\ p.written - p.peersRead = ZHwm

ZWrite(e, part) ==
    LET p == zEnd[e]
        q == ZPut(zQueue[p.out], part)
    IN
    /\ e \in zAlive
    /\ p.outActive /\ p.state = "active"
    /\ IF ZFull(p)
       THEN /\ zEnd' = [zEnd EXCEPT ![e].outActive = FALSE]
            /\ UNCHANGED <<zQueue, zChan, zParts>>
       ELSE /\ zParts[e] < ZWrites[e]
            /\ zQueue' = [zQueue EXCEPT ![p.out] =
                            IF e = "socket" /\ part = "last" THEN ZFlush(q) ELSE q]
            /\ zChan' = IF e = "socket" /\ part = "last" /\ ZWakes(q)
                        THEN ZSend(zChan, e, <<ZCmd("activate_read")>>) ELSE zChan
            /\ zEnd' = [zEnd EXCEPT ![e].written =
                            IF part = "last" THEN @ + 1 ELSE @]
            /\ zParts' = [zParts EXCEPT ![e] = @ + 1]
    /\ UNCHANGED <<zMade, zFreed, zAlive, zMid, zTerms, zFailed>>

(* flush(), which the engine of a session calls after a batch: nothing is  *)
(* sent once the peer may be gone.                                         *)
ZFlushOut ==
    LET p == zEnd["session"] IN
    /\ "session" \in zAlive
    /\ p.state # "terminating" /\ p.out # ZNone
    /\ zQueue[p.out].flushed # zQueue[p.out].complete
    /\ zQueue' = [zQueue EXCEPT ![p.out] = ZFlush(@)]
    /\ zChan' = IF ZWakes(zQueue[p.out])
                THEN ZSend(zChan, "session", <<ZCmd("activate_read")>>) ELSE zChan
    /\ UNCHANGED <<zEnd, zMade, zFreed, zAlive, zMid, zParts, zTerms, zFailed>>

(* The beginning of clean_pipes(): rollback() and flush(), which do        *)
(* nothing without an outbound upipe.  The engine may have broken in the   *)
(* middle of a message.                                                    *)
ZCleanPipes ==
    LET p == zEnd["session"]
        q == ZRollback(zQueue[p.out])
    IN
    /\ "session" \in zAlive
    /\ IF p.out = ZNone THEN UNCHANGED <<zQueue, zChan>>
       ELSE /\ zQueue' = [zQueue EXCEPT ![p.out] = ZFlush(q)]
            /\ zChan' = IF ZWakes(q)
                        THEN ZSend(zChan, "session", <<ZCmd("activate_read")>>)
                        ELSE zChan
    /\ UNCHANGED <<zEnd, zMade, zFreed, zAlive, zMid, zParts, zTerms, zFailed>>

(* hiccup(): the session reads from a new upipe from now on and leaves the *)
(* old one to the socket.                                                  *)
ZHiccup ==
    /\ "session" \in zAlive
    /\ zEnd["session"].state = "active"
    /\ zMade < 2 + ZHiccups
    /\ zMade' = zMade + 1
    /\ zEnd' = [zEnd EXCEPT !["session"].in = zMade + 1,
                            !["session"].inActive = TRUE]
    /\ zChan' = ZSend(zChan, "session", <<[type |-> "hiccup", pipe |-> zMade + 1]>>)
    /\ UNCHANGED <<zQueue, zFreed, zAlive, zMid, zParts, zTerms, zFailed>>

-----------------------------------------------------------------------------
(* terminate(delay_): what each state answers, then the delimiter, past    *)
(* the watermark, into an outbound upipe that is still there.  A session   *)
(* terminates with delay when it has to linger, and once more without when *)
(* the linger timer expires; a socket never delays.                        *)

ZTermSend(p, delay) ==
    CASE p.state \in {"active", "delimited"} -> <<ZCmd("pipe_term")>>
      [] p.state = "pending" /\ ~delay -> <<ZCmd("pipe_term_ack")>>
      [] OTHER -> <<>>

ZTermEnd(p, delay) ==
    [p EXCEPT !.delay = delay,
              !.outActive = FALSE,
              !.state = CASE p.state \in {"active", "delimited"} -> "terminated"
                          [] p.state = "pending" /\ ~delay -> "terminating"
                          [] OTHER -> p.state,
              !.out = IF p.state = "pending" /\ ~delay THEN ZNone ELSE @]

ZTerminate(e, delay) ==
    LET p == zEnd[e]
        new == ZTermEnd(p, delay)
        q == ZPut(ZRollback(zQueue[p.out]), "delimiter")
    IN
    /\ e \in zAlive
    /\ zTerms[e] < ZTerms[e]
    /\ delay => e = "session" /\ zTerms[e] = 0
    /\ zTerms' = [zTerms EXCEPT ![e] = @ + 1]
    /\ IF p.state \in {"terminated", "double_terminated", "terminating"}
       THEN /\ zEnd' = [zEnd EXCEPT ![e].delay = delay]
            /\ UNCHANGED <<zQueue, zChan>>
       ELSE /\ zEnd' = [zEnd EXCEPT ![e] = new]
            /\ zQueue' = IF new.out = ZNone THEN zQueue
                         ELSE [zQueue EXCEPT ![p.out] = ZFlush(q)]
            /\ zChan' = ZSend(zChan, e, ZTermSend(p, delay) \o
                            IF new.out # ZNone /\ ZWakes(q)
                            THEN <<ZCmd("activate_read")>> ELSE <<>>)
    /\ UNCHANGED <<zMade, zFreed, zAlive, zMid, zParts, zFailed>>

-----------------------------------------------------------------------------
(* Commands.                                                               *)

ZReceive(e, t) ==
    /\ e \in zAlive
    /\ zChan[e] # <<>>
    /\ Head(zChan[e]).type = t

ZTaken(e) == [zChan EXCEPT ![e] = Tail(@)]

ZProcessActivateRead(e) ==
    /\ ZReceive(e, "activate_read")
    /\ zEnd' = [zEnd EXCEPT ![e].inActive =
                    @ \/ zEnd[e].state \in {"active", "pending"}]
    /\ zChan' = ZTaken(e)
    /\ UNCHANGED <<zQueue, zMade, zFreed, zAlive, zMid, zParts, zTerms, zFailed>>

ZProcessActivateWrite(e) ==
    /\ ZReceive(e, "activate_write")
    /\ zEnd' = [zEnd EXCEPT
                    ![e].peersRead = Head(zChan[e]).read,
                    ![e].outActive = @ \/ zEnd[e].state = "active"]
    /\ zChan' = ZTaken(e)
    /\ UNCHANGED <<zQueue, zMade, zFreed, zAlive, zMid, zParts, zTerms, zFailed>>

(* The old upipe is read empty and deleted, and the new one plugged in;    *)
(* zmq_assert (outpipe).                                                   *)
ZProcessHiccup(e) ==
    /\ ZReceive(e, "hiccup")
    /\ zFailed' = (zFailed \/ zEnd[e].out = ZNone)
    /\ zFreed' = zFreed \cup ({zEnd[e].out} \ {ZNone})
    /\ zQueue' = [u \in ZUpipe |-> IF u = zEnd[e].out THEN ZEmpty ELSE zQueue[u]]
    /\ zEnd' = [zEnd EXCEPT ![e].out = Head(zChan[e]).pipe,
                            ![e].outActive = TRUE]
    /\ zChan' = ZTaken(e)
    /\ UNCHANGED <<zMade, zAlive, zMid, zParts, zTerms>>

(* The peer asks for the end.  An active end with delay first reads what   *)
(* is left; every other state acknowledges, or must not get the command.   *)
ZProcessPipeTerm(e) ==
    LET p == zEnd[e]
        waits == p.state = "active" /\ p.delay
    IN
    /\ ZReceive(e, "pipe_term")
    /\ zFailed' = (zFailed \/ p.state \notin {"active", "delimited", "terminated"})
    /\ zEnd' = [zEnd EXCEPT ![e] =
                    IF waits THEN [p EXCEPT !.state = "pending"]
                    ELSE [p EXCEPT !.out = ZNone,
                                   !.state = IF @ = "terminated"
                                             THEN "double_terminated"
                                             ELSE "terminating"]]
    /\ zChan' = IF waits THEN ZTaken(e)
                ELSE ZSend(ZTaken(e), e, <<ZCmd("pipe_term_ack")>>)
    /\ UNCHANGED <<zQueue, zMade, zFreed, zAlive, zMid, zParts, zTerms>>

(* Memory that was deleted holds nothing of interest.                      *)
ZGone == [state |-> "terminated", delay |-> FALSE, in |-> 1, out |-> ZNone,
          inActive |-> FALSE, outActive |-> FALSE,
          read |-> 0, written |-> 0, peersRead |-> 0]

(* The end may go: it acknowledges if the peer still waits for that, and   *)
(* deletes its inbound upipe and itself.                                   *)
ZProcessPipeTermAck(e) ==
    LET p == zEnd[e] IN
    /\ ZReceive(e, "pipe_term_ack")
    /\ zFailed' = (zFailed \/ p.in \in zFreed
                       \/ p.state \notin {"terminated", "terminating",
                                          "double_terminated"})
    /\ zChan' = IF p.state = "terminated"
                THEN ZSend(ZTaken(e), e, <<ZCmd("pipe_term_ack")>>)
                ELSE ZTaken(e)
    /\ zQueue' = [zQueue EXCEPT ![p.in] = ZEmpty]
    /\ zFreed' = zFreed \cup {p.in}
    /\ zAlive' = zAlive \ {e}
    /\ zEnd' = [zEnd EXCEPT ![e] = ZGone]
    /\ zMid' = zMid \ {e}
    /\ zParts' = [zParts EXCEPT ![e] = 0] /\ zTerms' = [zTerms EXCEPT ![e] = 0]
    /\ UNCHANGED zMade

ZProcess(e) == \/ ZProcessActivateRead(e) \/ ZProcessActivateWrite(e)
               \/ ZProcessHiccup(e) \/ ZProcessPipeTerm(e)
               \/ ZProcessPipeTermAck(e)

ZReadStep(e) == ZReadNothing(e) \/ ZReadDelimiter(e) \/ ZReadPart(e)

-----------------------------------------------------------------------------
(* The thread of the socket: the application or the reaper.                *)
ZSocketStep ==
    /\ \/ ZReadStep("socket")
       \/ \E part \in {"more", "last"} : ZWrite("socket", part)
       \/ ZTerminate("socket", FALSE)
    /\ UNCHANGED <<zEngine, zAt>>

ZSocketProcess == ZProcess("socket") /\ UNCHANGED <<zEngine, zAt>>

(* The I/O thread.  process_attach plugs an engine in, which then pulls    *)
(* messages as its connection takes them, pushes those it receives, and    *)
(* flushes.                                                                *)
ZAttach ==
    /\ zAt = "idle" /\ ~zEngine /\ "session" \in zAlive
    /\ zEngine' = TRUE
    /\ UNCHANGED <<zPipe, zAt>>

ZEngineStep ==
    /\ zAt = "idle" /\ zEngine
    /\ \/ ZReadStep("session")
       \/ \E part \in {"more", "last"} : ZWrite("session", part)
       \/ ZFlushOut
    /\ UNCHANGED <<zEngine, zAt>>

(* A command.  read_activated of a session without engine goes on with     *)
(* check_read().                                                           *)
ZSessionProcess ==
    LET wakes == /\ ZReceive("session", "activate_read")
                 /\ ~zEnd["session"].inActive
                 /\ zEnd["session"].state \in {"active", "pending"}
    IN
    /\ zAt = "idle"
    /\ ZProcess("session")
    /\ zAt' = IF wakes /\ ~zEngine THEN "checking" ELSE "idle"
    /\ UNCHANGED zEngine

(* process_term, which terminates the pipe and looks for the delimiter,    *)
(* and later timer_event, which only terminates it.                        *)
ZSessionTerminate(delay) ==
    /\ zAt = "idle"
    /\ ZTerminate("session", delay)
    /\ zAt' = IF zTerms["session"] = 0 THEN "checking" ELSE "idle"
    /\ UNCHANGED zEngine

(* detach(): the connection is lost.  clean_pipes() reads the rest of a    *)
(* message of which the engine has sent a part; it asserts that the rest   *)
(* is there.                                                               *)
ZDetach ==
    /\ zAt = "idle" /\ zEngine
    /\ ZCleanPipes
    /\ zEngine' = FALSE
    /\ zAt' = "draining"

ZPartReady ==
    /\ ZMayRead("session")
    /\ ZReadable(zQueue[zEnd["session"].in])
    /\ Head(zQueue[zEnd["session"].in].items) # "delimiter"

ZDrain ==
    /\ zAt = "draining" /\ "session" \in zMid
    /\ IF ZPartReady THEN ZReadPart("session") /\ UNCHANGED zAt
       ELSE zAt' = "aborted" /\ UNCHANGED zPipe
    /\ UNCHANGED zEngine

(* detached(): a session of a SUB or XSUB socket hiccups its pipe.         *)
ZDetached ==
    /\ zAt = "draining" /\ "session" \notin zMid
    /\ ZHiccup \/ UNCHANGED zPipe
    /\ zAt' = "checking"
    /\ UNCHANGED zEngine

(* check_read(), which leaves a message where it is.                       *)
ZCheckRead ==
    /\ zAt = "checking"
    /\ \/ ZReadNothing("session") \/ ZReadDelimiter("session")
       \/ (~ZMayRead("session") \/ ZPartReady) /\ UNCHANGED zPipe
    /\ zAt' = "idle"
    /\ UNCHANGED zEngine

ZHandler == ZDrain \/ ZDetached \/ ZCheckRead

ZNext ==
    /\ zAt # "aborted"
    /\ \/ ZSocketStep \/ ZSocketProcess
       \/ ZAttach \/ ZEngineStep \/ ZSessionProcess
       \/ \E delay \in BOOLEAN : ZSessionTerminate(delay)
       \/ ZDetach \/ ZHandler

(* The term command that a closing socket sends to its sessions            *)
(* (Ownership).                                                            *)
ZTermArrives ==
    /\ zEnd["socket"].state = "terminated" /\ zTerms["session"] = 0
    /\ \E delay \in BOOLEAN : ZSessionTerminate(delay)

(* Both threads process their commands and finish their handlers, and the  *)
(* session of a closing socket is told to terminate.  An engine comes by   *)
(* an attach command through the mailbox that brings the session these     *)
(* commands too, and it is first in, first out: connections that come and  *)
(* go do not hold them up for ever, hence SF.  Nothing makes the           *)
(* application read, a connection come or stay, or the network take what   *)
(* the engine would send; nothing sets a linger timer (options.linger is   *)
(* -1).                                                                    *)
ZFairness ==
    /\ WF_zVars(zAt # "aborted" /\ ZSocketProcess)
    /\ SF_zVars(ZSessionProcess)
    /\ WF_zVars(ZHandler)
    /\ SF_zVars(ZTermArrives)

ZSpec == ZInit /\ [][ZNext]_zVars /\ ZFairness

-----------------------------------------------------------------------------
(* The two ends never disagree on how far the shutdown has come: no        *)
(* zmq_assert on a state, a missing outbound upipe or a deleted inbound    *)
(* one can fail, whoever terminates first and whatever hiccup is on its    *)
(* way.  The assertion of clean_pipes() fails only for a session that has  *)
(* already ended its pipe itself, in the middle of a message, when its     *)
(* connection breaks: pull_msg() then finds nothing any more.              *)
ZNoAssertionFails ==
    /\ ~zFailed
    /\ zAt = "aborted" => zEnd["session"].state \notin {"active", "pending"}

(* An end is deleted only when nothing refers to it or to its upipe any    *)
(* more: no command is on its way to a deleted end, no end that is left    *)
(* writes to or reads from a deleted upipe, and when both are gone every   *)
(* upipe that was created is deleted too.                                  *)
ZNothingDangles ==
    /\ \A e \in ZEnd \ zAlive : zChan[e] = <<>>
    /\ \A e \in zAlive : zEnd[e].in \notin zFreed /\ zEnd[e].out \notin zFreed
    /\ zAlive = {} => zFreed = 1..zMade

(* A message is read whole: once an end has read its first part, the rest  *)
(* of it is in the upipe and the delimiter is not in between (clean_pipes  *)
(* and fq_t assert this).                                                  *)
ZMessagesWhole ==
    \A e \in zMid \cap zAlive :
        ZMayRead(e) => /\ ZReadable(zQueue[zEnd[e].in])
                       /\ Head(zQueue[zEnd[e].in].items) # "delimiter"

(* Credit is never lost: what the writer believes to be outstanding is     *)
(* exactly what is in the upipe, read but not yet reported, or reported in *)
(* a command on its way.  So a full pipe can always be written again once  *)
(* the reader has caught up.  Without a watermark there is nothing to      *)
(* report.  A hiccup breaks this: the messages it drops stay counted.      *)
ZCreditExact ==
    \A e \in zAlive :
        LET p == zEnd[e]
            peer == zEnd[ZPeer(e)]
            left == Cardinality({i \in 1..Len(zQueue[p.out].items) :
                                    zQueue[p.out].items[i] = "last"})
        IN  (zMade = 2 /\ p.state = "active" /\ ZPeer(e) \in zAlive) =>
                /\ p.written = left + peer.read
                /\ ZHwm > 0 =>
                   /\ p.written - p.peersRead <= ZHwm
                   /\ (p.peersRead = peer.read - (peer.read % ZLwm)
                         \/ \E i \in 1..Len(zChan[e]) :
                               /\ zChan[e][i].type = "activate_write"
                               /\ zChan[e][i].read = peer.read - (peer.read % ZLwm))

(* All of it, for every order of writes, reads, terminations, hiccups and  *)
(* commands on their way between the two threads.                          *)
ZSafe == ZNoAssertionFails /\ ZNothingDangles /\ ZMessagesWhole /\ ZCreditExact

(* The session waits: the socket has ended the pipe, and messages before   *)
(* the delimiter are still to be sent, or an engine is still to get to it. *)
ZHeld ==
    /\ "session" \in zAlive /\ zEnd["session"].state = "pending"
    /\ zEngine \/ ZPartReady

(* A pipe that a closing socket has terminated goes away at both ends,     *)
(* unless the session waits for ever with messages that no connection      *)
(* takes: the delimiter alone is always found, with or without an engine.  *)
(* (An abort, and a hiccup that crosses the termination, are excepted.)    *)
ZTerminatesUnlessHeld ==
    (zEnd["socket"].state = "terminated") ~>
        (zAlive = {} \/ zMade > 2 \/ zAt = "aborted" \/ []ZHeld)
=============================================================================
