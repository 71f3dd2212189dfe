---------------------------- MODULE MCTransport ----------------------------
(***************************************************************************)
(* Model checking of the transport below dispel, one component per         *)
(* behaviour: `component' says which of them runs, and never changes.      *)
(***************************************************************************)
EXTENDS YPipe, Mailbox, ZmqPipe, Ownership, ZmqContext, StreamEngine,
        SharedMessage, Poller

VARIABLE component

suiteVars == <<component, yVars, mbVars, zVars, owVars, cxVars, seVars, mgVars, plVars>>

(* A socket with a connecting session, two connecters in turn, a listener    *)
(* and two accepted sessions, in three threads.                               *)
TreeParent ==
    [o \in OwObject |->
        CASE o = "socket" -> "none"
          [] o \in {"session", "listener"} -> "socket"
          [] o \in {"connecter1", "connecter2"} -> "session"
          [] OTHER -> "listener"]
TreeRole ==
    [o \in OwObject |->
        CASE o \in {"socket", "session", "listener"} -> o
          [] o \in {"connecter1", "connecter2"} -> "connecter"
          [] OTHER -> "accepted"]
TreeThread ==
    [o \in OwObject |->
        CASE o = "socket" -> "app"
          [] o \in {"session", "accepted1"} -> "io1"
          [] OTHER -> "io2"]

(* One message of two parts from the socket, a publisher, and one            *)
(* subscription the other way.                                                *)
PipeWrites == [e \in ZEnd |-> IF e = "session" THEN 1 ELSE 2]

(* Nothing sets a linger timer (options.cpp), so that each end asks once. *)
PipeTerms == [e \in ZEnd |-> 1]

(* Bodies of no unit, of one, and larger than the buffers. *)
BodySize == [m \in 0..SeLast |-> IF m = 1 THEN 1 ELSE IF m = SeLast THEN 4 ELSE 0]

(* malloc's addresses are interchangeable, so the first one may be fixed;    *)
(* the session of the pipe gets its engine by a step.                          *)
Init ==
    /\ component \in {"ypipe", "mailbox", "pipe", "own", "context", "engine",
                     "message", "poller"}
    /\ YInit /\ MbInit /\ ZInit /\ OwInit /\ CxInit /\ SeInit
    /\ MgInit /\ PlInit
    /\ yBegin.chunk = CHOOSE c \in YChunk : TRUE
    /\ ~zEngine

YPipeStep == component = "ypipe" /\ YNextStep
    /\ UNCHANGED <<component, mbVars, zVars, owVars, cxVars, seVars, mgVars, plVars>>
MailboxStep == component = "mailbox" /\ MbNext
    /\ UNCHANGED <<component, yVars, zVars, owVars, cxVars, seVars, mgVars, plVars>>
(* The sockets whose sessions hiccup are subscribers, whose subscriptions    *)
(* have one part; a publisher's message has two.  Two parts are written in     *)
(* all, so that the two parts of a message and a subscription are apart.       *)
PipeStep == component = "pipe" /\ ZNext
    /\ zParts'["socket"] + zParts'["session"] <= (IF zMade' = 2 THEN 2 ELSE 1)
    /\ UNCHANGED <<component, yVars, mbVars, owVars, cxVars, seVars, mgVars, plVars>>
OwnStep == component = "own" /\ OwNext
    /\ UNCHANGED <<component, yVars, mbVars, zVars, cxVars, seVars, mgVars, plVars>>
ContextStep == component = "context" /\ CxNext
    /\ UNCHANGED <<component, yVars, mbVars, zVars, owVars, seVars, mgVars, plVars>>
EngineStep == component = "engine" /\ SeNext
    /\ UNCHANGED <<component, yVars, mbVars, zVars, owVars, cxVars, mgVars, plVars>>
MessageStep == component = "message" /\ MgNext
    /\ UNCHANGED <<component, yVars, mbVars, zVars, owVars, cxVars, seVars, plVars>>
PollerStep == component = "poller" /\ PlNext
    /\ UNCHANGED <<component, yVars, mbVars, zVars, owVars, cxVars, seVars, mgVars>>

Next == YPipeStep \/ MailboxStep \/ PipeStep \/ OwnStep \/ ContextStep \/ EngineStep
    \/ MessageStep \/ PollerStep

(* The fairness of each component, where it is the one that runs. *)
Fairness ==
    /\ \A s \in MbSender : WF_mbVars(component = "mailbox" /\ MbSend(s))
    /\ WF_mbVars(component = "mailbox" /\ MbReceive)
    /\ WF_zVars(component = "pipe" /\ zAt # "aborted" /\ ZSocketProcess)
    /\ SF_zVars(component = "pipe" /\ ZSessionProcess)
    /\ WF_zVars(component = "pipe" /\ ZHandler)
    /\ SF_zVars(component = "pipe" /\ ZTermArrives)
    /\ \A t \in OwThreads :
          WF_owVars(component = "own" /\ (t # OwThread[OwRoot] \/ owClosed) /\ OwProcess(t))
    /\ WF_cxVars(component = "context" /\ CxProcess)
    /\ WF_cxVars(component = "context" /\ CxTermStop)
    /\ \A s \in CxSlot :
          /\ WF_cxVars(component = "context" /\ CxSocketStop(s))
          /\ WF_cxVars(component = "context" /\ s \in cxEterm /\ CxClose(s))
    /\ WF_seVars(component = "engine" /\ ~seDangling /\ (SeSend \/ SeEngines \/ SeReceive))
    /\ WF_plVars(component = "poller" /\ ~plIo.astray /\ PlLoop)
    /\ WF_plVars(component = "poller" /\ ~plIo.astray /\ PlTick)
    /\ WF_plVars(component = "poller" /\ ~plIo.astray /\ PlConnectEnds)

Spec == Init /\ [][Next]_suiteVars /\ Fairness

-----------------------------------------------------------------------------
(* The type invariants of the components. *)
TransportTypeOK ==
    YTypeOK /\ MbTypeOK /\ ZTypeOK /\ OwTypeOK /\ CxTypeOK /\ SeTypeOK
        /\ MgTypeOK /\ PlTypeOK

(* Nothing is used after it was freed, and nothing is freed twice: chunks of *)
(* the lock-free queue (yqueue.hpp), contents that messages share (msg.cpp,   *)
(* dist.cpp), poll entries and what they point to (kqueue.cpp).               *)
MemorySafe == (component = "ypipe" => YMemorySafe) /\ MgSafe /\ PlSafe

(* What is sent arrives: every command sent to a mailbox is received         *)
(* (mailbox.cpp), and every message given to an engine comes out of its peer,  *)
(* however the stream is cut (stream_engine.cpp, decoder.hpp).                 *)
Delivers ==
    /\ component = "mailbox" => MbAllReceived
    /\ component = "engine" => SeDelivers

(* PlReconnects, of the behaviours in which the poller runs: a session gets   *)
(* its connection back (tcp_connecter.cpp, poller_base.cpp).                   *)
SessionReconnects == component = "poller" => PlReconnects
=============================================================================
