------------------------------- MODULE Dispel -------------------------------
(***************************************************************************)
(* The event loop of dispel (src/lib/dispel, with the polling context of   *)
(* nzmqt): one publisher that sends an idle message again and again, and   *)
(* subscribers whose messages the context fetches.  PollingZMQContext      *)
(* keeps two parallel lists, poll items and sockets; run() polls until     *)
(* nothing is readable, and arms its timer again unless it was stopped.    *)
(*                                                                         *)
(* Everything runs in one thread, but sockets come and go, and messages    *)
(* arrive, between any two steps of a poll.  Slots connected to a socket   *)
(* neither create nor close sockets, as dispel's do not.                   *)
(***************************************************************************)
EXTENDS Naturals, Sequences, FiniteSets, SequencesExt

CONSTANTS
    DpSocket,
    DpWaiting,      \* bound: messages that wait at a socket at a time
    DpSwitches,     \* bound: calls of stop() and start()
    DpFaults        \* bound: polls and receptions that fail

VARIABLES
    dpItems,        \* m_pollItems: the 0MQ socket of each item
    dpSockets,      \* m_sockets of the context
    dpInbox,        \* complete messages waiting at each 0MQ socket
    dpStopped,      \* m_stopped
    dpRuns,         \* single-shot timers for run() that are armed
    dpReady,        \* inside poll(): items found readable
    dpAt,           \* inside poll(): index of the item looked at, 0 outside
    dpMixed,        \* a message was announced by another socket
    dpBit,          \* history: alternates with each reception at a socket
    dpSent,         \* alternates with each idle message
    dpSwitched, dpFailed

dpVars == <<dpItems, dpSockets, dpInbox, dpStopped, dpRuns, dpReady,
            dpAt, dpMixed, dpBit, dpSent, dpSwitched, dpFailed>>

DpTypeOK ==
    /\ dpItems \in Seq(DpSocket)
    /\ dpSockets \in Seq(DpSocket)
    /\ dpInbox \in [DpSocket -> 0..DpWaiting]
    /\ dpBit \in [DpSocket -> BOOLEAN]
    /\ dpRuns \in Nat
    /\ dpReady \subseteq DpSocket
    /\ dpAt \in Nat
    /\ {dpStopped, dpMixed, dpSent} \subseteq BOOLEAN
    /\ dpSwitched \in 0..DpSwitches
    /\ dpFailed \in 0..DpFaults

(* main: the context is started, the publisher bound.                      *)
DpInit ==
    /\ dpItems = <<>>
    /\ dpSockets = <<>>
    /\ dpInbox = [s \in DpSocket |-> 0]
    /\ dpStopped = FALSE
    /\ dpRuns = 1
    /\ dpReady = {}
    /\ dpAt = 0
    /\ dpMixed = FALSE
    /\ dpBit = [s \in DpSocket |-> FALSE]
    /\ dpSent = FALSE
    /\ dpSwitched = 0
    /\ dpFailed = 0

DpIdle == dpAt = 0

-----------------------------------------------------------------------------
(* registerSocket and unregisterSocket: both lists, in the same place.     *)

DpRegister(s) ==
    /\ DpIdle
    /\ s \notin Range(dpSockets)
    /\ dpItems' = Append(dpItems, s)
    /\ dpSockets' = Append(dpSockets, s)
    /\ UNCHANGED <<dpInbox, dpStopped, dpRuns, dpReady, dpAt, dpMixed,
                   dpBit, dpSent, dpSwitched, dpFailed>>

DpUnregister(s) ==
    LET i == CHOOSE k \in DOMAIN dpSockets : dpSockets[k] = s IN
    /\ DpIdle
    /\ s \in Range(dpSockets)
    /\ dpItems' = RemoveAt(dpItems, i)
    /\ dpSockets' = RemoveAt(dpSockets, i)
    /\ dpInbox' = [dpInbox EXCEPT ![s] = 0]
    /\ UNCHANGED <<dpStopped, dpRuns, dpReady, dpAt, dpMixed, dpBit, dpSent,
                   dpSwitched, dpFailed>>

(* A message gets through to a socket; I/O threads do this at any time.    *)
DpArrive(s) ==
    /\ s \in Range(dpSockets)
    /\ dpInbox[s] < DpWaiting
    /\ dpInbox' = [dpInbox EXCEPT ![s] = @ + 1]
    /\ UNCHANGED <<dpItems, dpSockets, dpStopped, dpRuns, dpReady, dpAt,
                   dpMixed, dpBit, dpSent, dpSwitched, dpFailed>>

-----------------------------------------------------------------------------
(* start, stop, run and poll.                                              *)

DpStart ==
    /\ DpIdle
    /\ dpSwitched < DpSwitches
    /\ dpSwitched' = dpSwitched + 1
    /\ dpStopped' = FALSE
    /\ dpRuns' = dpRuns + 1
    /\ UNCHANGED <<dpItems, dpSockets, dpInbox, dpReady, dpAt, dpMixed,
                   dpBit, dpSent, dpFailed>>

DpStop ==
    /\ DpIdle
    /\ dpSwitched < DpSwitches
    /\ dpSwitched' = dpSwitched + 1
    /\ dpStopped' = TRUE
    /\ UNCHANGED <<dpItems, dpSockets, dpInbox, dpRuns, dpReady, dpAt,
                   dpMixed, dpBit, dpSent, dpFailed>>

DpReadable == {s \in Range(dpItems) : dpInbox[s] > 0}

(* The timer fires while stopped, or nothing is readable: run() ends.      *)
DpRunEmpty ==
    /\ DpIdle
    /\ dpRuns > 0
    /\ dpStopped \/ DpReadable = {}
    /\ dpRuns' = IF dpStopped THEN dpRuns - 1 ELSE dpRuns
    /\ UNCHANGED <<dpItems, dpSockets, dpInbox, dpStopped, dpReady, dpAt,
                   dpMixed, dpBit, dpSent, dpSwitched, dpFailed>>

DpRunFailsDisarmed ==
    /\ DpIdle
    /\ dpRuns > 0 /\ ~dpStopped /\ dpItems # <<>>
    /\ dpFailed < DpFaults
    /\ dpFailed' = dpFailed + 1
    /\ dpRuns' = dpRuns - 1
    /\ UNCHANGED <<dpItems, dpSockets, dpInbox, dpStopped, dpReady, dpAt,
                   dpMixed, dpBit, dpSent, dpSwitched>>

(* zmq_poll fails: the exception is caught and the timer armed again.      *)
DpRunFails ==
    /\ DpIdle
    /\ dpRuns > 0 /\ ~dpStopped /\ dpItems # <<>>
    /\ dpFailed < DpFaults
    /\ dpFailed' = dpFailed + 1
    /\ UNCHANGED <<dpItems, dpSockets, dpInbox, dpStopped, dpRuns, dpReady,
                   dpAt, dpMixed, dpBit, dpSent, dpSwitched>>

(* run() polls and finds something; dpRuns goes down until it re-arms.     *)
DpRun ==
    /\ DpIdle
    /\ dpRuns > 0 /\ ~dpStopped
    /\ DpReadable # {}
    /\ dpReady' = DpReadable
    /\ dpAt' = 1
    /\ dpRuns' = dpRuns - 1
    /\ UNCHANGED <<dpItems, dpSockets, dpInbox, dpStopped, dpMixed, dpBit,
                   dpSent, dpSwitched, dpFailed>>

(* One readable item: the socket at the same place in the other list       *)
(* receives one message and emits it.                                      *)
DpServe ==
    LET s == dpSockets[dpAt] IN
    /\ dpAt \in DOMAIN dpItems
    /\ dpItems[dpAt] \in dpReady
    /\ dpInbox' = [dpInbox EXCEPT ![s] = IF @ = 0 THEN 0 ELSE @ - 1]
    /\ dpMixed' = (dpMixed \/ dpInbox[s] = 0)
    /\ dpBit' = [dpBit EXCEPT ![s] = ~@]
    /\ dpReady' = dpReady \ {dpItems[dpAt]}
    /\ dpAt' = dpAt + 1
    /\ UNCHANGED <<dpItems, dpSockets, dpStopped, dpRuns, dpSent,
                   dpSwitched, dpFailed>>

DpSkip ==
    /\ dpAt \in DOMAIN dpItems
    /\ dpReady # {} /\ dpItems[dpAt] \notin dpReady
    /\ dpAt' = dpAt + 1
    /\ UNCHANGED <<dpItems, dpSockets, dpInbox, dpStopped, dpRuns, dpReady,
                   dpMixed, dpBit, dpSent, dpSwitched, dpFailed>>

(* The counted items are served: poll again, and re-arm once nothing is    *)
(* readable.                                                               *)
DpPollAgain ==
    /\ dpAt > 0 /\ dpReady = {}
    /\ dpReady' = DpReadable
    /\ dpAt' = IF DpReadable = {} THEN 0 ELSE 1
    /\ dpRuns' = IF DpReadable = {} /\ ~dpStopped THEN dpRuns + 1 ELSE dpRuns
    /\ UNCHANGED <<dpItems, dpSockets, dpInbox, dpStopped, dpMixed, dpBit,
                   dpSent, dpSwitched, dpFailed>>

(* An exception leaves poll() in the middle: run() catches it and arms its *)
(* timer again.                                                             *)
DpThrows ==
    /\ dpFailed < DpFaults
    /\ dpFailed' = dpFailed + 1
    /\ dpAt' = 0
    /\ dpReady' = {}
    /\ dpRuns' = IF dpStopped THEN dpRuns ELSE dpRuns + 1
    /\ UNCHANGED <<dpItems, dpSockets, dpInbox, dpStopped, dpMixed, dpBit, dpSent,
                   dpSwitched>>

(* receiveMessage throws before it has taken a part; the items after it    *)
(* are not looked at.                                                       *)
DpReceiveFails ==
    /\ dpAt \in DOMAIN dpItems
    /\ dpItems[dpAt] \in dpReady
    /\ DpThrows

(* zmq::poll throws once the counted items are served. *)
DpPollFails ==
    /\ dpAt > 0 /\ dpReady = {}
    /\ DpThrows

(* sendIDLEJobMessage: sends, whether or not there is room, and arms its   *)
(* single-shot timer again.  Nothing says when: poll() returns only when   *)
(* nothing is readable, and messages may go on arriving.                   *)
DpSendIDLEJobMessage ==
    /\ DpIdle
    /\ dpSent' = ~dpSent
    /\ UNCHANGED <<dpItems, dpSockets, dpInbox, dpStopped, dpRuns, dpReady,
                   dpAt, dpMixed, dpBit, dpSwitched, dpFailed>>

DpNext ==
    \/ \E s \in DpSocket : DpRegister(s) \/ DpUnregister(s) \/ DpArrive(s)
    \/ DpStart \/ DpStop \/ DpRunEmpty \/ DpRunFails \/ DpRun
    \/ DpServe \/ DpSkip \/ DpPollAgain \/ DpReceiveFails \/ DpPollFails
    \/ DpSendIDLEJobMessage

(* Qt's event loop fires an armed timer and finishes a slot it has begun.  *)
DpFairness ==
    /\ WF_dpVars(DpServe \/ DpSkip \/ DpPollAgain)
    /\ WF_dpVars(DpRun)
    /\ WF_dpVars(DpRunEmpty)

DpSpec == DpInit /\ [][DpNext]_dpVars /\ DpFairness

-----------------------------------------------------------------------------
(* Whatever sockets come and go, however polls and receptions fail and     *)
(* however steadily messages arrive at the other sockets, the next message *)
(* that waits at a socket is received there, unless the context is stopped *)
(* or the socket is closed, and no socket receives what was announced at   *)
(* another.                                                                *)
DpKeepsGoing ==
    \A s \in DpSocket, b \in BOOLEAN :
        (dpInbox[s] > 0 /\ dpBit[s] = b)
            ~> (dpBit[s] # b \/ dpInbox[s] = 0 \/ dpStopped) /\ ~dpMixed
=============================================================================
