------------------------------- MODULE Mailbox -------------------------------
(***************************************************************************)
(* mailbox_t and signaler_t (src/lib/zeromq/mailbox.cpp, signaler.cpp):    *)
(* the way one ZeroMQ thread sends a command to another.  Many senders     *)
(* share the writing end of a ypipe_t under the mutex sync; the receiver   *)
(* sleeps on the signaler when the pipe is empty.  The pipe is the flush   *)
(* queue YPipe is shown to implement, and its items are the commands.      *)
(*                                                                         *)
(* Each sender sends MbSends commands.  The receiver polls with a timeout  *)
(* that may expire at any moment, and destroys the mailbox once it has had *)
(* every command: the last one, stop or reaped in the code, says that no   *)
(* more follow.                                                            *)
(***************************************************************************)
EXTENDS FlushQueue, FiniteSets

CONSTANTS
    MbSender,   \* threads that send commands to this mailbox
    MbSends     \* bound: commands per sender

ASSUME MbAssumption == MbSends \in Nat /\ IsFiniteSet(MbSender)

VARIABLES
    mbLock,     \* the senders holding sync
    mbPc,       \* where each sender is in send()
    mbWoke,     \* senders whose flush returned false: they must signal
    mbLeft,     \* commands each sender still has to send
    mbSignals,  \* value of the eventfd, or bytes in the socketpair
    mbActive,   \* active
    mbRecv,     \* where the receiver is in recv()
    mbGot,      \* commands received
    mbFailed,   \* an assertion of recv() or of signaler_t failed
    mbDead      \* the mailbox is destroyed

mbVars == <<fqItems, fqComplete, fqFlushed, fqAsleep, mbLock, mbPc, mbWoke,
            mbLeft, mbSignals, mbActive, mbRecv, mbGot, mbFailed, mbDead>>

MbTypeOK ==
    /\ fqItems \in Seq(FqItem)
    /\ fqComplete \in Nat /\ fqFlushed \in Nat /\ fqAsleep \in BOOLEAN
    /\ mbLock \subseteq MbSender
    /\ mbPc \in [MbSender -> {"idle", "written", "flushed", "unlocked"}]
    /\ mbWoke \subseteq MbSender
    /\ mbLeft \in [MbSender -> 0..MbSends]
    /\ mbSignals \in Nat
    /\ mbActive \in BOOLEAN
    /\ mbRecv \in {"start", "drain", "wait", "read"}
    /\ mbGot \in Nat
    /\ mbFailed \in BOOLEAN /\ mbDead \in BOOLEAN

(* The constructor reads once, which fails and puts the pipe to sleep.     *)
MbInit ==
    /\ fqItems = <<>>
    /\ fqComplete = 0
    /\ fqFlushed = 0
    /\ fqAsleep = TRUE
    /\ mbLock = {}
    /\ mbPc = [s \in MbSender |-> "idle"]
    /\ mbWoke = {}
    /\ mbLeft = [s \in MbSender |-> MbSends]
    /\ mbSignals = 0
    /\ mbActive = FALSE
    /\ mbRecv = "start"
    /\ mbGot = 0
    /\ mbFailed = FALSE
    /\ mbDead = FALSE

mbReceiver == <<mbActive, mbRecv, mbGot, mbFailed, mbDead>>
mbSenders == <<mbLock, mbPc, mbWoke, mbLeft>>

-----------------------------------------------------------------------------
(* send()                                                                  *)

MbWrite(s) ==
    /\ mbPc[s] = "idle" /\ mbLeft[s] > 0
    /\ mbLock = {}
    /\ mbLock' = {s}
    /\ \E cmd \in FqItem : fqItems' = Append(fqItems, cmd)
    /\ fqComplete' = Len(fqItems) + 1
    /\ mbLeft' = [mbLeft EXCEPT ![s] = @ - 1]
    /\ mbPc' = [mbPc EXCEPT ![s] = "written"]
    /\ UNCHANGED <<fqFlushed, fqAsleep, mbWoke, mbSignals, mbReceiver>>

MbFlushAlwaysWakes(s) ==
    /\ mbPc[s] = "written"
    /\ FqFlush
    /\ mbWoke' = mbWoke \cup {s}
    /\ mbPc' = [mbPc EXCEPT ![s] = "flushed"]
    /\ UNCHANGED <<mbLock, mbLeft, mbSignals, mbReceiver>>

MbFlush(s) ==
    /\ mbPc[s] = "written"
    /\ FqFlush
    /\ mbWoke' = IF fqAsleep THEN mbWoke \cup {s} ELSE mbWoke
    /\ mbPc' = [mbPc EXCEPT ![s] = "flushed"]
    /\ UNCHANGED <<mbLock, mbLeft, mbSignals, mbReceiver>>

MbUnlockForgetsSignal(s) ==
    /\ mbPc[s] = "flushed"
    /\ mbLock' = mbLock \ {s}
    /\ mbPc' = [mbPc EXCEPT ![s] = "idle"]
    /\ UNCHANGED <<fqVars, mbWoke, mbLeft, mbSignals, mbReceiver>>

MbUnlock(s) ==
    /\ mbPc[s] = "flushed"
    /\ mbLock' = mbLock \ {s}
    /\ mbPc' = [mbPc EXCEPT ![s] = IF s \in mbWoke THEN "unlocked" ELSE "idle"]
    /\ UNCHANGED <<fqVars, mbWoke, mbLeft, mbSignals, mbReceiver>>

(* signaler.send(), outside the lock.                                      *)
MbSignal(s) ==
    /\ mbPc[s] = "unlocked"
    /\ mbSignals' = mbSignals + 1
    /\ mbWoke' = mbWoke \ {s}
    /\ mbPc' = [mbPc EXCEPT ![s] = "idle"]
    /\ UNCHANGED <<fqVars, mbLock, mbLeft, mbReceiver>>

-----------------------------------------------------------------------------
(* recv()                                                                  *)

(* In the active state the next command is read without the signaler; when *)
(* there is none the pipe goes to sleep.                                   *)
MbReadActive ==
    /\ ~mbDead /\ mbRecv = "start" /\ mbActive
    /\ \/ /\ FqRead
          /\ mbGot' = mbGot + 1
          /\ UNCHANGED <<mbActive, mbRecv>>
       \/ /\ FqSleep
          /\ mbActive' = FALSE
          /\ mbRecv' = "drain"
          /\ UNCHANGED mbGot
    /\ UNCHANGED <<mbSenders, mbSignals, mbFailed, mbDead>>

(* signaler.recv(): takes the signal that woke the receiver up earlier.    *)
(* The eventfd hands out its whole value; a second signal is written back. *)
(* Zero would make the read fail, three would fail the assertion.          *)
MbDrain ==
    /\ mbRecv = "drain"
    /\ mbFailed' = (mbFailed \/ mbSignals \notin {1, 2})
    /\ mbSignals' = IF mbSignals = 2 THEN 1 ELSE 0
    /\ mbRecv' = "wait"
    /\ UNCHANGED <<fqVars, mbSenders, mbActive, mbGot, mbDead>>

(* recv() of an inactive mailbox goes straight to the signaler.            *)
MbWaitInactive ==
    /\ ~mbDead /\ mbRecv = "start" /\ ~mbActive
    /\ mbRecv' = "wait"
    /\ UNCHANGED <<fqVars, mbSenders, mbSignals, mbActive, mbGot, mbFailed,
                   mbDead>>

(* signaler.wait() returns without a signal: timeout or EINTR.             *)
MbTimeout ==
    /\ mbRecv = "wait"
    /\ mbSignals = 0
    /\ mbRecv' = "start"
    /\ UNCHANGED <<fqVars, mbSenders, mbSignals, mbActive, mbGot, mbFailed,
                   mbDead>>

(* The signal is seen but stays in the signaler.                           *)
MbAwake ==
    /\ mbRecv = "wait"
    /\ mbSignals > 0
    /\ mbActive' = TRUE
    /\ mbRecv' = "read"
    /\ UNCHANGED <<fqVars, mbSenders, mbSignals, mbGot, mbFailed, mbDead>>

(* The read after a signal; zmq_assert (ok).                               *)
MbReadWoken ==
    /\ mbRecv = "read"
    /\ mbRecv' = "start"
    /\ \/ FqRead /\ mbGot' = mbGot + 1 /\ UNCHANGED mbFailed
       \/ /\ (fqFlushed = 0 \/ fqAsleep)
          /\ mbFailed' = TRUE
          /\ UNCHANGED <<fqVars, mbGot>>
    /\ UNCHANGED <<mbSenders, mbSignals, mbActive, mbDead>>

(* ~mailbox_t locks and unlocks sync, then frees everything.               *)
MbDestroy ==
    /\ ~mbDead /\ mbRecv = "start"
    /\ mbGot = MbSends * Cardinality(MbSender)
    /\ mbLock = {}
    /\ mbDead' = TRUE
    /\ UNCHANGED <<fqVars, mbSenders, mbSignals, mbActive, mbRecv, mbGot,
                   mbFailed>>

MbSend(s) == MbWrite(s) \/ MbFlush(s) \/ MbUnlock(s) \/ MbSignal(s)

MbReceive == MbReadActive \/ MbDrain \/ MbWaitInactive \/ MbTimeout
                \/ MbAwake \/ MbReadWoken

MbNext == (\E s \in MbSender : MbSend(s)) \/ MbReceive \/ MbDestroy

(* A thread inside send() runs on; the receiver's loop keeps calling       *)
(* recv().                                                                 *)
MbFairness ==
    /\ \A s \in MbSender : WF_mbVars(MbSend(s))
    /\ WF_mbVars(MbReceive)

MbSpec == MbInit /\ [][MbNext]_mbVars /\ MbFairness

-----------------------------------------------------------------------------
(* No assertion of recv() or of the signaler can fail: a signal is there   *)
(* exactly when a command is, although senders signal after they release   *)
(* the lock and a second one may overtake them.                            *)
MbNoAssertionFails == ~mbFailed

(* When the receiver has had every command it may free the mailbox: no     *)
(* sender still holds the lock or has a signal left to send.               *)
MbNoUseAfterFree == mbDead => \A s \in MbSender : mbPc[s] = "idle"

(* Both, for every order in which the commands, the lock and the signals   *)
(* of the senders fall.                                                    *)
MbSafe == MbNoAssertionFails /\ MbNoUseAfterFree

(* No wake-up is lost: every command that is sent is received.             *)
MbAllReceived == <>(mbGot = MbSends * Cardinality(MbSender))
=============================================================================
