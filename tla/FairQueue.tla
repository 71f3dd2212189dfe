------------------------------ MODULE FairQueue ------------------------------
(***************************************************************************)
(* fq_t (src/lib/zeromq/fq.cpp, array.hpp): how a receiving socket, such   *)
(* as the one of dispel's subscriber, takes messages from its pipes in     *)
(* turn.  The pipes are an array whose first `active' places hold the ones *)
(* that may have messages; places are exchanged when a pipe runs dry,      *)
(* wakes up, comes or goes.                                                *)
(*                                                                         *)
(* The application thread runs recvpipe to its end before it treats        *)
(* commands; the peers write into their pipes at any time and flush whole  *)
(* messages.  A pipe ends for one of two reasons.  Its peer is gone: then  *)
(* its delimiter was read, and it sleeps.  Or the socket itself ends it,   *)
(* in zmq_disconnect of an inproc address or in hiccuped() under           *)
(* ZMQ_DELAY_ATTACH_ON_CONNECT: then it may be anywhere in the array, and  *)
(* cannot be read from until it is gone.  A pipe holds one message at a    *)
(* time here, besides the one being read.                                  *)
(***************************************************************************)
EXTENDS Naturals, FiniteSets, SequencesExt

CONSTANTS
    FrPipe,
    FrParts,        \* the numbers of parts messages have
    FrEnds          \* bound: pipes that end

VARIABLES
    frPipes,        \* the array
    frActive,
    frCurrent,      \* an index from 0, as in the code
    frMore,
    frScanning,     \* "recv" or "poll": recvpipe or has_in is at work, or "no"
    frWaiting,      \* per pipe: parts of the message waiting in it, 0 for none
    frLeft,         \* per pipe: parts left of the message being read
    frAwake,        \* per pipe: its reader has not found it empty
    frCommands,     \* the mailbox: activate_read commands of these pipes
    frEnded,        \* pipes that have ended or that the socket has ended
    frFrom,         \* history: the pipes whose message the application is in
    frDisplaced,    \* history: an end moved the pipe being read from
    frLost,         \* history: the socket ended the pipe being read from
    frAborted       \* an assertion failed

frVars == <<frPipes, frActive, frCurrent, frMore, frScanning, frWaiting, frLeft, frAwake,
            frCommands, frEnded, frFrom, frDisplaced, frLost, frAborted>>

FrTypeOK ==
    /\ frPipes \in SeqOf(FrPipe, Cardinality(FrPipe))
    /\ frActive \in 0..Len(frPipes) /\ frCurrent \in 0..Len(frPipes)
    /\ {frMore, frDisplaced, frLost, frAborted} \subseteq BOOLEAN
    /\ frScanning \in {"no", "recv", "poll"}
    /\ frWaiting \in [FrPipe -> FrParts \cup {0}]
    /\ frLeft \in [FrPipe -> Nat]
    /\ frAwake \in [FrPipe -> BOOLEAN]
    /\ frCommands \in SeqOf(FrPipe, Cardinality(FrPipe)) /\ frEnded \subseteq FrPipe /\ frFrom \subseteq FrPipe

FrInit ==
    /\ frPipes = <<>> /\ frActive = 0 /\ frCurrent = 0
    /\ frMore = FALSE /\ frScanning = "no"
    /\ frWaiting = [p \in FrPipe |-> 0]
    /\ frLeft = [p \in FrPipe |-> 0]
    /\ frAwake = [p \in FrPipe |-> TRUE]
    /\ frCommands = <<>> /\ frEnded = {} /\ frFrom = {}
    /\ frDisplaced = FALSE /\ frLost = FALSE /\ frAborted = FALSE

(* array_t: swap by index, index of an item, erase (the last item takes the  *)
(* place of the erased one).                                                   *)
FrSwap(s, i, j) == [s EXCEPT ![i + 1] = s[j + 1], ![j + 1] = s[i + 1]]
FrIndex(s, p) == (CHOOSE i \in 1..Len(s) : s[i] = p) - 1
FrErase(s, p) == LET t == [s EXCEPT ![FrIndex(s, p) + 1] = Last(s)] IN Front(t)

FrIdle == frScanning = "no" /\ ~frAborted

(* A peer writes a message; a sleeping reader is sent a command. *)
FrArrive(p, parts) ==
    /\ p \notin frEnded /\ frWaiting[p] = 0
    /\ frWaiting' = [frWaiting EXCEPT ![p] = parts]
    /\ frAwake' = [frAwake EXCEPT ![p] = TRUE]
    /\ frCommands' = IF frAwake[p] THEN frCommands ELSE Append(frCommands, p)
    /\ UNCHANGED <<frPipes, frActive, frCurrent, frMore, frScanning, frLeft, frEnded, frFrom,
                   frDisplaced, frLost, frAborted>>

FrAttach(p) ==
    /\ FrIdle
    /\ p \notin frEnded /\ ~Contains(frPipes, p)
    /\ frPipes' = LET s == Append(frPipes, p) IN FrSwap(s, frActive, Len(s) - 1)
    /\ frActive' = frActive + 1
    /\ UNCHANGED <<frCurrent, frMore, frScanning, frWaiting, frLeft, frAwake, frCommands,
                   frEnded, frFrom, frDisplaced, frLost, frAborted>>

(* activate_read, which a pipe the socket has ended ignores. *)
FrActivated ==
    /\ FrIdle
    /\ frCommands # <<>>
    /\ frCommands' = Tail(frCommands)
    /\ IF Head(frCommands) \in frEnded THEN UNCHANGED <<frPipes, frActive>>
       ELSE /\ frPipes' = FrSwap(frPipes, FrIndex(frPipes, Head(frCommands)), frActive)
            /\ frActive' = frActive + 1
    /\ UNCHANGED <<frCurrent, frMore, frScanning, frWaiting, frLeft, frAwake, frEnded, frFrom,
                   frDisplaced, frLost, frAborted>>

(* The socket calls terminate(false) of a pipe: nothing more is read from it. *)
FrTerminate(p) ==
    /\ FrIdle
    /\ Contains(frPipes, p) /\ p \notin frEnded
    /\ Cardinality(frEnded) < FrEnds
    /\ frEnded' = frEnded \cup {p}
    /\ frWaiting' = [frWaiting EXCEPT ![p] = 0]
    /\ frLeft' = [frLeft EXCEPT ![p] = 0]
    /\ frAwake' = [frAwake EXCEPT ![p] = FALSE]
    /\ frLost' = (frLost \/ frLeft[p] > 0)
    /\ UNCHANGED <<frPipes, frActive, frCurrent, frMore, frScanning, frCommands, frFrom,
                   frDisplaced, frAborted>>

(* The pipe is gone: its peer has ended it and its delimiter was read, or     *)
(* the peer has acknowledged, after whatever else it had sent.                 *)
FrGone(p) ==
    /\ FrIdle
    /\ Contains(frPipes, p) /\ ~Contains(frCommands, p)
    /\ \/ p \in frEnded
       \/ ~frAwake[p] /\ Cardinality(frEnded) < FrEnds

FrTerminatedKeepsActive(p) ==
    LET index == FrIndex(frPipes, p)
        inside == index < frActive
        last == frActive - 1
    IN  /\ FrGone(p)
        /\ frPipes' = FrErase(IF inside THEN FrSwap(frPipes, index, last) ELSE frPipes, p)
        /\ frActive' = frActive
        /\ frCurrent' = IF inside /\ frCurrent = last THEN 0 ELSE frCurrent
        /\ frEnded' = frEnded \cup {p}
        /\ frDisplaced' = (frDisplaced \/
              (frMore /\ inside /\ frCurrent = last /\ index # last /\ index # 0))
        /\ UNCHANGED <<frMore, frScanning, frWaiting, frLeft, frAwake, frCommands, frFrom,
                       frLost, frAborted>>

(* terminated.  The last active pipe takes the place of the ended one;        *)
(* `current', if it was that last place, becomes 0.                            *)
FrTerminated(p) ==
    LET index == FrIndex(frPipes, p)
        inside == index < frActive
        last == frActive - 1
    IN  /\ FrGone(p)
        /\ frPipes' = FrErase(IF inside THEN FrSwap(frPipes, index, last) ELSE frPipes, p)
        /\ frActive' = IF inside THEN last ELSE frActive
        /\ frCurrent' = IF inside /\ frCurrent = last THEN 0 ELSE frCurrent
        /\ frEnded' = frEnded \cup {p}
        /\ frDisplaced' = (frDisplaced \/
              (frMore /\ inside /\ frCurrent = last /\ index # last /\ index # 0))
        /\ UNCHANGED <<frMore, frScanning, frWaiting, frLeft, frAwake, frCommands, frFrom,
                       frLost, frAborted>>

(* recvpipe: the application asks for a part. *)
FrRecv ==
    /\ FrIdle
    /\ frActive > 0
    /\ frScanning' = "recv"
    /\ UNCHANGED <<frPipes, frActive, frCurrent, frMore, frWaiting, frLeft, frAwake,
                   frCommands, frEnded, frFrom, frDisplaced, frLost, frAborted>>

(* has_in: it asks whether there is one.  In the middle of a message there is. *)
FrHasIn ==
    /\ FrIdle
    /\ frActive > 0 /\ ~frMore
    /\ frScanning' = "poll"
    /\ UNCHANGED <<frPipes, frActive, frCurrent, frMore, frWaiting, frLeft, frAwake,
                   frCommands, frEnded, frFrom, frDisplaced, frLost, frAborted>>

FrStays == frCurrent

(* Round-robin, at the end of a message. *)
FrAdvances == (frCurrent + 1) % frActive

(* One round of its loop that fetches a part. *)
FrFetch ==
    LET p == frPipes[frCurrent + 1]
        left == IF frLeft[p] > 0 THEN frLeft[p] ELSE frWaiting[p]
    IN  /\ frScanning = "recv" /\ frActive > 0
        /\ frLeft[p] > 0 \/ frWaiting[p] # 0
        /\ frScanning' = "no"
        /\ frLeft' = [frLeft EXCEPT ![p] = left - 1]
        /\ frWaiting' = [frWaiting EXCEPT ![p] = IF frLeft[p] > 0 THEN @ ELSE 0]
        /\ frMore' = (left > 1)
        /\ frCurrent' = IF left > 1 THEN frCurrent ELSE FrAdvances
        /\ frFrom' = (IF frMore THEN frFrom ELSE {}) \cup {p}
        /\ UNCHANGED <<frPipes, frActive, frAwake, frCommands, frEnded, frDisplaced, frLost, frAborted>>

(* One round of has_in's loop that finds a message. *)
FrFound ==
    /\ frScanning = "poll" /\ frActive > 0
    /\ frWaiting[frPipes[frCurrent + 1]] # 0
    /\ frScanning' = "no"
    /\ UNCHANGED <<frPipes, frActive, frCurrent, frMore, frWaiting, frLeft, frAwake,
                   frCommands, frEnded, frFrom, frDisplaced, frLost, frAborted>>

(* A round of either that finds the pipe empty: it goes to sleep and leaves the     *)
(* active ones.                                                                 *)
FrDry ==
    LET p == frPipes[frCurrent + 1] IN
    /\ frScanning # "no" /\ frActive > 0
    /\ frLeft[p] = 0 /\ frWaiting[p] = 0
    /\ frAwake' = [frAwake EXCEPT ![p] = FALSE]
    /\ IF frMore
       THEN /\ frAborted' = TRUE
            /\ frScanning' = "no"
            /\ UNCHANGED <<frPipes, frActive, frCurrent>>
       ELSE /\ frActive' = frActive - 1
            /\ frPipes' = FrSwap(frPipes, frCurrent, frActive - 1)
            /\ frCurrent' = IF frCurrent = frActive - 1 THEN 0 ELSE frCurrent
            /\ UNCHANGED <<frScanning, frAborted>>
    /\ UNCHANGED <<frMore, frWaiting, frLeft, frCommands, frEnded, frFrom, frDisplaced, frLost>>

(* EAGAIN: the application waits for a command. *)
FrNothing ==
    /\ frScanning # "no" /\ frActive = 0
    /\ frScanning' = "no"
    /\ UNCHANGED <<frPipes, frActive, frCurrent, frMore, frWaiting, frLeft, frAwake,
                   frCommands, frEnded, frFrom, frDisplaced, frLost, frAborted>>

FrScans == FrFetch \/ FrFound \/ FrDry \/ FrNothing

FrNext ==
    \/ \E p \in FrPipe : FrAttach(p) \/ FrTerminate(p) \/ FrTerminated(p)
    \/ \E p \in FrPipe, parts \in FrParts : FrArrive(p, parts)
    \/ FrActivated
    \/ FrRecv \/ FrHasIn
    \/ FrScans

(* The application goes on receiving, whatever it polls in between, and recv  *)
(* treats commands again and again.                                            *)
FrFairness == WF_frVars(FrScans) /\ SF_frVars(FrRecv) /\ SF_frVars(FrActivated)

FrSpec == FrInit /\ [][FrNext]_frVars /\ FrFairness

-----------------------------------------------------------------------------
(* `If we've already received the first part of the message we should get     *)
(* the remaining parts without blocking' (fq.cpp:99-102): what the application *)
(* receives as one message came through one pipe, and the assertion holds,     *)
(* unless that pipe itself was ended in the middle of the message.             *)
FrAtomic == frLost \/ (Cardinality(frFrom) <= 1 /\ ~frAborted)

(* The places of the array say where messages may be: outside the active      *)
(* ones every pipe is asleep or has its wake-up under way, and no other pipe's  *)
(* message is half read.                                                        *)
FrRegions ==
    /\ \A i, j \in 1..Len(frPipes) : frPipes[i] = frPipes[j] => i = j
    /\ \A i \in 1..Len(frPipes) :
          i > frActive => (~frAwake[frPipes[i]] \/ Contains(frCommands, frPipes[i]))
    /\ frActive > 0 => frCurrent < frActive
    /\ frDisplaced \/ FrAtomic

(* Fair queueing (fq.cpp): the array keeps its regions, and while pipes wake   *)
(* up, run dry and end around it, a pipe with a message is served in its turn,  *)
(* unless the one being read from was ended or moved by the end of another.     *)
FrNoStarvation ==
    /\ []FrRegions
    /\ \A p \in FrPipe :
          (Contains(frPipes, p) /\ frWaiting[p] # 0) ~> (frWaiting[p] = 0 \/ frDisplaced \/ frLost)
=============================================================================
