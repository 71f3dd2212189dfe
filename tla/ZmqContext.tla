------------------------------ MODULE ZmqContext ------------------------------
(***************************************************************************)
(* ctx_t and reaper_t (src/lib/zeromq/ctx.cpp, reaper.cpp): the sockets of *)
(* a context, the reaper thread that takes closed sockets over, and        *)
(* zmq_term, which stops every socket and waits until the reaper has       *)
(* destroyed the last one.                                                 *)
(*                                                                         *)
(* A socket is the slot of its mailbox, so a slot is used again once its   *)
(* socket is destroyed.  Its own shutdown is Ownership; here it may end    *)
(* any time after the reaper has got it.                                   *)
(***************************************************************************)
EXTENDS Naturals, Sequences

CONSTANT CxSlot    \* slots for sockets: max_sockets of them

VARIABLES
    cxStarted,      \* the first socket was created: ~starting
    cxTerminating,  \* terminating
    cxSock,         \* the socket in each slot
    cxStop,         \* sockets that a stop command is on its way to
    cxEterm,        \* sockets with ctx_terminated
    cxTerm,         \* where the thread in zmq_term is
    cxBox,          \* mailbox of the reaper
    cxReaping,      \* reaper_t::sockets
    cxReaperTerm,   \* reaper_t::terminating
    cxFinished,     \* times the reaper sent done
    cxTermBox,      \* done commands in term_mailbox
    cxLoop,         \* the reaper's thread: its poller runs, is stopped while
                    \* in_event still reads the mailbox, has ended, or an
                    \* errno_assert failed and the process is gone
    cxRaced         \* history: the last socket was destroyed after zmq_term
                    \* had marked the context and before it locked it again

cxVars == <<cxStarted, cxTerminating, cxSock, cxStop, cxEterm, cxTerm, cxBox,
            cxReaping, cxReaperTerm, cxFinished, cxTermBox, cxLoop, cxRaced>>

cxReaper == <<cxReaping, cxReaperTerm, cxFinished, cxTermBox, cxLoop>>

CxSockets == {s \in CxSlot : cxSock[s] # "free"}   \* the array sockets

CxTypeOK ==
    /\ cxStarted \in BOOLEAN /\ cxTerminating \in BOOLEAN
    /\ cxSock \in [CxSlot -> {"free", "open", "closed", "reaping"}]
    /\ cxStop \subseteq CxSlot /\ cxEterm \subseteq CxSlot
    /\ cxTerm \in {"no", "marked", "waiting", "interrupted", "freed"}
    /\ cxBox \in Seq({"reap", "reaped", "stop"} \X (CxSlot \cup {"none"}))
    /\ cxReaping \in Nat /\ cxReaperTerm \in BOOLEAN
    /\ cxFinished \in Nat /\ cxTermBox \in Nat
    /\ cxLoop \in {"runs", "stops", "ended", "aborted"} /\ cxRaced \in BOOLEAN

CxInit ==
    /\ cxStarted = FALSE
    /\ cxTerminating = FALSE
    /\ cxSock = [s \in CxSlot |-> "free"]
    /\ cxStop = {}
    /\ cxEterm = {}
    /\ cxTerm = "no"
    /\ cxBox = <<>>
    /\ cxReaping = 0
    /\ cxReaperTerm = FALSE
    /\ cxFinished = 0
    /\ cxTermBox = 0
    /\ cxLoop = "runs"
    /\ cxRaced = FALSE

(* create_socket: the first one starts the threads; none after zmq_term,   *)
(* and none without a free slot.                                           *)
CxCreateSocket(s) ==
    /\ ~cxTerminating
    /\ cxTerm # "freed"
    /\ cxSock[s] = "free"
    /\ cxStarted' = TRUE
    /\ cxSock' = [cxSock EXCEPT ![s] = "open"]
    /\ UNCHANGED <<cxTerminating, cxStop, cxEterm, cxTerm, cxBox, cxReaper, cxRaced>>

(* process_stop of a socket: from now on its calls return ETERM.           *)
CxSocketStop(s) ==
    /\ s \in cxStop /\ cxSock[s] # "free"
    /\ cxStop' = cxStop \ {s}
    /\ cxEterm' = cxEterm \cup {s}
    /\ UNCHANGED <<cxStarted, cxTerminating, cxSock, cxTerm, cxBox, cxReaper, cxRaced>>

(* zmq_close: the socket goes to the reaper.                               *)
CxClose(s) ==
    /\ cxSock[s] = "open"
    /\ cxSock' = [cxSock EXCEPT ![s] = "closed"]
    /\ cxBox' = Append(cxBox, <<"reap", s>>)
    /\ UNCHANGED <<cxStarted, cxTerminating, cxStop, cxEterm, cxTerm, cxReaper, cxRaced>>

-----------------------------------------------------------------------------
(* zmq_term.  The mutex is released between marking the context and        *)
(* stopping the sockets.  A context that never had a socket is freed at    *)
(* once; a call that was interrupted may be repeated.                      *)
CxTermMark ==
    /\ cxTerm \in {"no", "interrupted"}
    /\ cxTerm' = IF ~cxStarted THEN "freed"
                 ELSE IF cxTerminating THEN "waiting" ELSE "marked"
    /\ cxTerminating' = cxStarted
    /\ UNCHANGED <<cxStarted, cxSock, cxStop, cxEterm, cxBox, cxReaper, cxRaced>>

CxTermStop ==
    /\ cxTerm = "marked"
    /\ cxTerm' = "waiting"
    /\ cxStop' = CxSockets
    /\ cxBox' = IF CxSockets = {} THEN Append(cxBox, <<"stop", "none">>) ELSE cxBox
    /\ UNCHANGED <<cxStarted, cxTerminating, cxSock, cxEterm, cxReaper, cxRaced>>

CxTermInterrupted ==
    /\ cxTerm = "waiting"
    /\ cxTerm' = "interrupted"
    /\ UNCHANGED <<cxStarted, cxTerminating, cxSock, cxStop, cxEterm, cxBox,
                   cxReaper, cxRaced>>

(* The context is deleted.  The destructor waits for the reaper's thread.  *)
CxTermDone ==
    /\ cxTerm = "waiting"
    /\ cxTermBox > 0
    /\ cxTermBox' = cxTermBox - 1
    /\ cxTerm' = "freed"
    /\ UNCHANGED <<cxStarted, cxTerminating, cxSock, cxStop, cxEterm, cxBox,
                   cxReaping, cxReaperTerm, cxFinished, cxLoop, cxRaced>>

-----------------------------------------------------------------------------
(* The reaper.  in_event reads its mailbox until there is nothing in it.   *)

CxReceive(type) ==
    cxLoop \in {"runs", "stops"} /\ cxBox # <<>> /\ Head(cxBox)[1] = type

CxProcessReapUncounted ==
    /\ CxReceive("reap")
    /\ cxSock' = [cxSock EXCEPT ![Head(cxBox)[2]] = "reaping"]
    /\ cxBox' = Tail(cxBox)
    /\ UNCHANGED <<cxStarted, cxTerminating, cxStop, cxEterm, cxTerm, cxReaper, cxRaced>>

CxProcessReap ==
    /\ CxReceive("reap")
    /\ cxSock' = [cxSock EXCEPT ![Head(cxBox)[2]] = "reaping"]
    /\ cxReaping' = cxReaping + 1
    /\ cxBox' = Tail(cxBox)
    /\ UNCHANGED <<cxStarted, cxTerminating, cxStop, cxEterm, cxTerm,
                   cxReaperTerm, cxFinished, cxTermBox, cxLoop, cxRaced>>

CxDestroySocketSilently(s) ==
    /\ cxSock[s] = "reaping"
    /\ cxSock' = [cxSock EXCEPT ![s] = "free"]
    /\ cxStop' = cxStop \ {s}
    /\ cxEterm' = cxEterm \ {s}
    /\ cxBox' = Append(cxBox, <<"reaped", s>>)
    /\ UNCHANGED <<cxStarted, cxTerminating, cxTerm, cxReaper, cxRaced>>

(* check_destroy, with destroy_socket: the slot is free again, and the     *)
(* last socket of a terminating context stops the reaper.                  *)
CxDestroySocket(s) ==
    LET last == cxTerminating /\ CxSockets = {s} IN
    /\ cxSock[s] = "reaping"
    /\ cxSock' = [cxSock EXCEPT ![s] = "free"]
    /\ cxStop' = cxStop \ {s}
    /\ cxEterm' = cxEterm \ {s}
    /\ cxBox' = cxBox \o IF last THEN <<<<"stop", "none">>, <<"reaped", s>>>>
                         ELSE <<<<"reaped", s>>>>
    /\ cxRaced' = (cxRaced \/ (last /\ cxTerm = "marked"))
    /\ UNCHANGED <<cxStarted, cxTerminating, cxTerm, cxReaper>>

(* send_done, then rm_fd(mailbox_handle) and poller->stop().  A second     *)
(* rm_fd deletes the filter of a retired descriptor, and errno_assert      *)
(* aborts.                                                                 *)
CxFinish(reaping, term) ==
    IF reaping = 0 /\ term
    THEN /\ cxFinished' = cxFinished + 1
         /\ cxTermBox' = cxTermBox + 1
         /\ cxLoop' = IF cxLoop = "runs" THEN "stops" ELSE "aborted"
    ELSE UNCHANGED <<cxFinished, cxTermBox, cxLoop>>

CxProcessStop ==
    /\ CxReceive("stop")
    /\ cxReaperTerm' = TRUE
    /\ CxFinish(cxReaping, TRUE)
    /\ cxBox' = Tail(cxBox)
    /\ UNCHANGED <<cxStarted, cxTerminating, cxSock, cxStop, cxEterm, cxTerm,
                   cxReaping, cxRaced>>

CxProcessReaped ==
    /\ CxReceive("reaped")
    /\ cxReaping' = cxReaping - 1
    /\ CxFinish(cxReaping - 1, cxReaperTerm)
    /\ cxBox' = Tail(cxBox)
    /\ UNCHANGED <<cxStarted, cxTerminating, cxSock, cxStop, cxEterm, cxTerm,
                   cxReaperTerm, cxRaced>>

(* in_event has read everything, and loop() finds stopping set.  A stop    *)
(* that arrives now is never read.                                         *)
CxLoopEnds ==
    /\ cxLoop = "stops" /\ cxBox = <<>>
    /\ cxLoop' = "ended"
    /\ UNCHANGED <<cxStarted, cxTerminating, cxSock, cxStop, cxEterm, cxTerm, cxBox,
                   cxReaping, cxReaperTerm, cxFinished, cxTermBox, cxRaced>>

CxProcess == CxProcessReap \/ CxProcessStop \/ CxProcessReaped \/ CxLoopEnds

CxNext ==
    /\ cxLoop # "aborted"
    /\ \/ \E s \in CxSlot : CxCreateSocket(s) \/ CxSocketStop(s) \/ CxClose(s)
                               \/ CxDestroySocket(s)
       \/ CxTermMark \/ CxTermStop \/ CxTermInterrupted \/ CxTermDone
       \/ CxProcess

(* The reaper runs, zmq_term runs on once called, and an application that  *)
(* gets ETERM closes its socket, as zmq_term asks of it.  Nothing makes    *)
(* the shutdown of a socket end (Ownership, OwAllFreed).                   *)
CxFairness ==
    /\ WF_cxVars(CxProcess)
    /\ WF_cxVars(CxTermStop)
    /\ \A s \in CxSlot : /\ WF_cxVars(CxSocketStop(s))
                         /\ WF_cxVars(s \in cxEterm /\ CxClose(s))

CxSpec == CxInit /\ [][CxNext]_cxVars /\ CxFairness

-----------------------------------------------------------------------------
(* The reaper reports that it is done only when every socket of the        *)
(* context is destroyed and it has heard of each; so zmq_term frees a      *)
(* context that no thread uses any more.                                   *)
CxDoneMeansReaped ==
    cxFinished > 0 =>
        /\ CxSockets = {}
        /\ cxReaping = 0
        /\ \A i \in 1..Len(cxBox) : cxBox[i][1] = "stop"

(* zmq_term gets its answer and the reaper's thread ends, also when        *)
(* sockets are being closed while zmq_term starts or when it is            *)
(* interrupted and called again, unless a socket that the reaper has never *)
(* ends; and never before the last socket is destroyed.  The reaper        *)
(* finishes twice, and aborts, only if the last socket was destroyed while *)
(* zmq_term did not hold the lock.                                         *)
CxTermCompletes ==
    /\ cxTerminating ~> \/ cxFinished > 0 /\ cxLoop \in {"ended", "aborted"}
                        \/ \E s \in CxSlot : [](cxSock[s] = "reaping")
    /\ [](CxDoneMeansReaped /\ (cxLoop = "aborted" => cxRaced))
=============================================================================
