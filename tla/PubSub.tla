------------------------------- MODULE PubSub -------------------------------
(***************************************************************************)
(* How subscriptions travel from subscribers to a publisher                *)
(* (src/lib/zeromq/xsub.cpp, xpub.cpp, with session_base.cpp's detached    *)
(* and the parts of pipe.cpp they use).  A subscriber's socket writes      *)
(* (un)subscriptions to the pipe of its session; the session sends them    *)
(* over a connection that may break and is made again.  A broken           *)
(* connection gives the pipe a hiccup: what was written is thrown away and *)
(* the socket sends all its subscriptions again.                           *)
(*                                                                         *)
(* The trees of subscriptions are the sets that SubscriptionTries shows    *)
(* them to be.  The pipe admits PsHwm messages that the session has not    *)
(* acknowledged; what a hiccup throws away is never acknowledged           *)
(* (process_hiccup leaves msgs_written as it is).  Reads are acknowledged  *)
(* one at a time, as with a low water mark of one.                         *)
(***************************************************************************)
EXTENDS Naturals, Sequences, FiniteSets, SequencesExt

CONSTANTS
    PsNode,         \* subscribers
    PsTopic,
    PsHwm,          \* send high water mark of a subscriber's pipe
    PsCalls,        \* bound: (un)subscriptions, per subscriber
    PsBreaks        \* bound: broken connections, per subscriber

VARIABLES
    psRefs,         \* per subscriber: subscriptions to each topic
    psOut,          \* messages in the pipe, not read by the session
    psHeld,         \* msgs_written - peers_msgs_read
    psAcks,         \* activate_write commands under way
    psOutActive,    \* out_active of the pipe
    psDistActive,   \* the pipe is among the active ones of dist_t
    psHiccups,      \* hiccup commands under way
    psLink,         \* the connection is up
    psWire,         \* messages on it
    psPub,          \* topics of the publisher's pipe for this connection
    psOld,          \* topics of its former pipes not yet terminated
    psAborted,      \* the publisher's assertion in mtrie_t failed
    psDropped,      \* history: a message of the subscriber was refused
    psCalls, psBreaks

psVars == <<psRefs, psOut, psHeld, psAcks, psOutActive, psDistActive, psHiccups,
            psLink, psWire, psPub, psOld, psAborted, psDropped, psCalls, psBreaks>>

PsMsg == [sub : BOOLEAN, topic : PsTopic]

PsTypeOK ==
    /\ psRefs \in [PsNode -> [PsTopic -> Nat]]
    /\ psOut \in [PsNode -> Seq(PsMsg)]
    /\ psHeld \in [PsNode -> 0..PsHwm]
    /\ psAcks \in [PsNode -> Nat]
    /\ {psOutActive, psDistActive, psLink, psDropped} \subseteq [PsNode -> BOOLEAN]
    /\ psHiccups \in [PsNode -> Nat]
    /\ psWire \in [PsNode -> Seq(PsMsg)]
    /\ psPub \in [PsNode -> SUBSET PsTopic]
    /\ psOld \in [PsNode -> SUBSET PsTopic]
    /\ psAborted \in BOOLEAN
    /\ psCalls \in [PsNode -> Nat]
    /\ psBreaks \in [PsNode -> Nat]

PsInit ==
    /\ psRefs = [s \in PsNode |-> [t \in PsTopic |-> 0]]
    /\ psOut = [s \in PsNode |-> <<>>]
    /\ psHeld = [s \in PsNode |-> 0]
    /\ psAcks = [s \in PsNode |-> 0]
    /\ psOutActive = [s \in PsNode |-> TRUE]
    /\ psDistActive = [s \in PsNode |-> TRUE]
    /\ psHiccups = [s \in PsNode |-> 0]
    /\ psLink = [s \in PsNode |-> FALSE]
    /\ psWire = [s \in PsNode |-> <<>>]
    /\ psPub = [s \in PsNode |-> {}]
    /\ psOld = [s \in PsNode |-> {}]
    /\ psAborted = FALSE
    /\ psDropped = [s \in PsNode |-> FALSE]
    /\ psCalls = [s \in PsNode |-> 0]
    /\ psBreaks = [s \in PsNode |-> 0]

PsTopics(s) == {t \in PsTopic : psRefs[s][t] > 0}

-----------------------------------------------------------------------------
(* pipe_t::write as both uses of it see it: a message is taken as long as  *)
(* fewer than PsHwm are unacknowledged, else the pipe turns inactive.      *)

PsRoom(s) == psHeld[s] < PsHwm

(* dist_t::send_to_all: an inactive pipe is passed over.                   *)
PsSendToAll(s, msg) ==
    LET taken == psDistActive[s] /\ psOutActive[s] /\ PsRoom(s) IN
    /\ psOut' = [psOut EXCEPT ![s] = IF taken THEN Append(@, msg) ELSE @]
    /\ psHeld' = [psHeld EXCEPT ![s] = IF taken THEN @ + 1 ELSE @]
    /\ psDistActive' = [psDistActive EXCEPT ![s] = taken]
    /\ psOutActive' = [psOutActive EXCEPT ![s] = IF psDistActive[s] THEN taken ELSE @]
    /\ psDropped' = [psDropped EXCEPT ![s] = @ \/ ~taken]

(* xsub_t::xsend: only the first subscription to a topic and the last      *)
(* unsubscription from it are sent.                                        *)
PsSubscribe(s, t) ==
    /\ psCalls[s] < PsCalls[s]
    /\ psCalls' = [psCalls EXCEPT ![s] = @ + 1]
    /\ psRefs' = [psRefs EXCEPT ![s][t] = @ + 1]
    /\ IF psRefs[s][t] = 0 THEN PsSendToAll(s, [sub |-> TRUE, topic |-> t])
       ELSE UNCHANGED <<psOut, psHeld, psDistActive, psOutActive, psDropped>>
    /\ UNCHANGED <<psAcks, psHiccups, psLink, psWire, psPub, psOld, psAborted, psBreaks>>

PsUnsubscribe(s, t) ==
    /\ psCalls[s] < PsCalls[s]
    /\ psRefs[s][t] > 0
    /\ psCalls' = [psCalls EXCEPT ![s] = @ + 1]
    /\ psRefs' = [psRefs EXCEPT ![s][t] = @ - 1]
    /\ IF psRefs[s][t] = 1 THEN PsSendToAll(s, [sub |-> FALSE, topic |-> t])
       ELSE UNCHANGED <<psOut, psHeld, psDistActive, psOutActive, psDropped>>
    /\ UNCHANGED <<psAcks, psHiccups, psLink, psWire, psPub, psOld, psAborted, psBreaks>>

(* process_hiccup and xhiccuped: the old queue is thrown away, then every  *)
(* subscription is written for as long as there is room.                   *)
PsHiccuped(s) ==
    LET all == SetToSeq({[sub |-> TRUE, topic |-> t] : t \in PsTopics(s)})
        room == PsHwm - psHeld[s]
        n == IF Len(all) < room THEN Len(all) ELSE room
    IN
    /\ psHiccups[s] > 0
    /\ psHiccups' = [psHiccups EXCEPT ![s] = @ - 1]
    /\ psOut' = [psOut EXCEPT ![s] = SubSeq(all, 1, n)]
    /\ psHeld' = [psHeld EXCEPT ![s] = @ + n]
    /\ psOutActive' = [psOutActive EXCEPT ![s] = n = Len(all)]
    /\ psDropped' = [psDropped EXCEPT ![s] = @ \/ n < Len(all)]
    /\ UNCHANGED <<psRefs, psAcks, psDistActive, psLink, psWire, psPub, psOld,
                   psAborted, psCalls, psBreaks>>

(* process_activate_write: dist_t is told only if the pipe was inactive.   *)
PsActivateWrite(s) ==
    /\ psAcks[s] > 0
    /\ psAcks' = [psAcks EXCEPT ![s] = @ - 1]
    /\ psHeld' = [psHeld EXCEPT ![s] = @ - 1]
    /\ psOutActive' = [psOutActive EXCEPT ![s] = TRUE]
    /\ psDistActive' = [psDistActive EXCEPT ![s] = @ \/ ~psOutActive[s]]
    /\ UNCHANGED <<psRefs, psOut, psHiccups, psLink, psWire, psPub, psOld,
                   psAborted, psDropped, psCalls, psBreaks>>

-----------------------------------------------------------------------------
(* The session and the connection.  While a hiccup is under way the        *)
(* session reads its new, empty queue.                                     *)

PsSessionReads(s) ==
    /\ psLink[s]
    /\ psHiccups[s] = 0
    /\ psOut[s] # <<>>
    /\ psOut' = [psOut EXCEPT ![s] = Tail(@)]
    /\ psWire' = [psWire EXCEPT ![s] = Append(@, Head(psOut[s]))]
    /\ psAcks' = [psAcks EXCEPT ![s] = @ + 1]
    /\ UNCHANGED <<psRefs, psHeld, psOutActive, psDistActive, psHiccups, psLink,
                   psPub, psOld, psAborted, psDropped, psCalls, psBreaks>>

PsConnected(s) ==
    /\ ~psLink[s]
    /\ psLink' = [psLink EXCEPT ![s] = TRUE]
    /\ UNCHANGED <<psRefs, psOut, psHeld, psAcks, psOutActive, psDistActive,
                   psHiccups, psWire, psPub, psOld, psAborted, psDropped,
                   psCalls, psBreaks>>

(* detached: the subscriber's session hiccups its pipe, the publisher's    *)
(* session ends and takes its pipe with it.                                *)
PsDetached(s) ==
    /\ psLink[s]
    /\ psBreaks[s] < PsBreaks[s]
    /\ psBreaks' = [psBreaks EXCEPT ![s] = @ + 1]
    /\ psLink' = [psLink EXCEPT ![s] = FALSE]
    /\ psWire' = [psWire EXCEPT ![s] = <<>>]
    /\ psHiccups' = [psHiccups EXCEPT ![s] = @ + 1]
    /\ psOld' = [psOld EXCEPT ![s] = @ \cup psPub[s]]
    /\ psPub' = [psPub EXCEPT ![s] = {}]
    /\ UNCHANGED <<psRefs, psOut, psHeld, psAcks, psOutActive, psDistActive,
                   psAborted, psDropped, psCalls>>

-----------------------------------------------------------------------------
(* The publisher.                                                          *)

(* xread_activated: mtrie_t::rm asserts that the pipe has the topic when   *)
(* any pipe has it.                                                        *)
PsReadActivated(s) ==
    LET m == Head(psWire[s])
        others == \/ m.topic \in psOld[s]
                  \/ \E r \in PsNode \ {s} : m.topic \in psPub[r] \cup psOld[r]
    IN
    /\ psWire[s] # <<>>
    /\ ~psAborted
    /\ psWire' = [psWire EXCEPT ![s] = Tail(@)]
    /\ psPub' = [psPub EXCEPT ![s] = IF m.sub THEN @ \cup {m.topic} ELSE @ \ {m.topic}]
    /\ psAborted' = (~m.sub /\ m.topic \notin psPub[s] /\ others)
    /\ UNCHANGED <<psRefs, psOut, psHeld, psAcks, psOutActive, psDistActive, psHiccups,
                   psLink, psOld, psDropped, psCalls, psBreaks>>

PsTerminatedKeeps(s) ==
    /\ psOld[s] # {}
    /\ ~psAborted
    /\ UNCHANGED psOld
    /\ UNCHANGED <<psRefs, psOut, psHeld, psAcks, psOutActive, psDistActive, psHiccups,
                   psLink, psWire, psPub, psAborted, psDropped, psCalls, psBreaks>>

(* xterminated: the topics of a pipe whose session is gone are removed.    *)
PsTerminated(s) ==
    /\ psOld[s] # {}
    /\ ~psAborted
    /\ psOld' = [psOld EXCEPT ![s] = {}]
    /\ UNCHANGED <<psRefs, psOut, psHeld, psAcks, psOutActive, psDistActive, psHiccups,
                   psLink, psWire, psPub, psAborted, psDropped, psCalls, psBreaks>>

PsNext ==
    \E s \in PsNode :
        \/ \E t \in PsTopic : PsSubscribe(s, t) \/ PsUnsubscribe(s, t)
        \/ PsHiccuped(s) \/ PsActivateWrite(s) \/ PsSessionReads(s)
        \/ PsConnected(s) \/ PsDetached(s) \/ PsReadActivated(s) \/ PsTerminated(s)

(* Threads process their commands and readable pipes; a connecter tries    *)
(* again until it succeeds.                                                *)
PsFairness ==
    \A s \in PsNode :
        /\ WF_psVars(PsHiccuped(s)) /\ WF_psVars(PsActivateWrite(s))
        /\ WF_psVars(PsSessionReads(s)) /\ WF_psVars(PsConnected(s))
        /\ WF_psVars(PsReadActivated(s)) /\ WF_psVars(PsTerminated(s))

PsSpec == PsInit /\ [][PsNext]_psVars /\ PsFairness

-----------------------------------------------------------------------------
(* The publisher's assertion holds as long as no subscriber ran into its   *)
(* high water mark: nothing overtakes the list that is sent after a        *)
(* hiccup, and no unsubscription comes without its subscription.           *)
PsAssertionHolds == psAborted => \E s \in PsNode : psDropped[s]

(* Once calls and broken connections cease, the publisher ends up with     *)
(* exactly the topics of a subscriber that never ran into the mark; and    *)
(* its assertion holds on the way.                                         *)
PsConverges ==
    /\ []PsAssertionHolds
    /\ \A s \in PsNode :
        <>[](psDropped[s] \/ psAborted \/ psPub[s] \cup psOld[s] = PsTopics(s))
=============================================================================
