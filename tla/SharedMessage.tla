---------------------------- MODULE SharedMessage ----------------------------
(***************************************************************************)
(* The contents of a long message (src/lib/zeromq/msg.cpp) that several    *)
(* msg_t refer to: a publisher's socket puts one msg_t into each matching  *)
(* pipe (dist.cpp, distribute), I/O threads close them when they are       *)
(* encoded, and the application may keep a copy of its own.                *)
(*                                                                         *)
(* One piece of contents is followed from its creation to its release.  A  *)
(* msg_t that refers to it is the value of its flag `shared'; the          *)
(* reference counter counts only once that flag is set.  Copying and       *)
(* sending happen in the application's thread, everything else at any      *)
(* moment.                                                                 *)
(***************************************************************************)
EXTENDS Naturals, FiniteSets, Sequences

CONSTANTS
    MgPipe,         \* the pipes of the socket
    MgSends         \* bound: times the contents are sent

ASSUME MgAssumption == IsFiniteSet(MgPipe) /\ MgSends \in Nat

VARIABLES
    mgRefs,         \* content_t::refcnt
    mgFreed,        \* times the contents were released
    mgStray,        \* the counter was used after the release
    mgOwn,          \* the application's msg_t: a sequence of at most one flag
    mgMsg,          \* the msg_t being sent, likewise
    mgTodo,         \* matching pipes that distribute has still to write to
    mgFails,        \* writes that were refused, `failed' in distribute
    mgPipes,        \* the msg_t in each pipe, as a sequence of flags
    mgSent          \* times it was sent

mgVars == <<mgRefs, mgFreed, mgStray, mgOwn, mgMsg, mgTodo, mgFails, mgPipes, mgSent>>
mgContent == <<mgRefs, mgFreed, mgStray>>

MgTypeOK ==
    /\ mgRefs \in Nat /\ mgFreed \in Nat /\ mgStray \in BOOLEAN
    /\ \A s \in {mgOwn, mgMsg} : s \in Seq(BOOLEAN) /\ Len(s) <= 1
    /\ mgTodo \subseteq MgPipe /\ mgFails \in 0..Cardinality(MgPipe)
    /\ mgPipes \in [MgPipe -> Seq(BOOLEAN)]
    /\ mgSent \in 0..MgSends

(* init_size of a long message: not shared, the counter at 1. *)
MgInit ==
    /\ mgRefs = 1
    /\ mgFreed = 0
    /\ mgStray = FALSE
    /\ mgOwn = <<FALSE>>
    /\ mgMsg = <<>>
    /\ mgTodo = {}
    /\ mgFails = 0
    /\ mgPipes = [p \in MgPipe |-> <<>>]
    /\ mgSent = 0

MgSub(n) ==
    /\ mgRefs' = mgRefs - n
    /\ mgFreed' = IF mgRefs = n THEN mgFreed + 1 ELSE mgFreed
    /\ mgStray' = (mgStray \/ mgFreed > 0 \/ mgRefs < n)

(* msg_t::close of one msg_t. *)
MgClose(shared) ==
    IF shared THEN MgSub(1)
    ELSE mgFreed' = mgFreed + 1 /\ UNCHANGED <<mgRefs, mgStray>>

(* add_refs and copy: n more references by way of a msg_t. *)
MgAdd(n, shared) ==
    /\ mgRefs' = IF n = 0 THEN mgRefs ELSE IF shared THEN mgRefs + n ELSE n + 1
    /\ mgStray' = (mgStray \/ (n > 0 /\ mgFreed > 0))
    /\ UNCHANGED mgFreed

MgIdle == mgMsg = <<>> /\ mgSent < MgSends

(* send_to_matching of the application's own msg_t (taken over) or of a      *)
(* copy, up to add_refs.  No matching pipe: the msg_t is closed at once.      *)
MgSendOwn(pipes) ==
    /\ MgIdle /\ mgOwn # <<>>
    /\ mgOwn' = <<>>
    /\ mgSent' = mgSent + 1
    /\ IF pipes = {}
       THEN MgClose(mgOwn[1]) /\ UNCHANGED <<mgMsg, mgTodo>>
       ELSE /\ MgAdd(Cardinality(pipes) - 1, mgOwn[1])
            /\ mgMsg' = <<mgOwn[1] \/ Cardinality(pipes) > 1>>
            /\ mgTodo' = pipes
    /\ UNCHANGED <<mgFails, mgPipes>>

(* zmq_msg_copy sets the flag in both; the copy is sent, so that add_refs    *)
(* finds it shared.  Without a matching pipe the copy is closed again.        *)
MgSendCopy(pipes) ==
    /\ MgIdle /\ mgOwn # <<>>
    /\ mgOwn' = <<TRUE>>
    /\ mgMsg' = <<TRUE>>
    /\ mgTodo' = pipes
    /\ mgSent' = mgSent + 1
    /\ MgAdd(Cardinality(pipes), mgOwn[1])
    /\ UNCHANGED <<mgFails, mgPipes>>

(* dist_t::write of the next pipe, which takes the msg_t or refuses it. *)
MgWrite(p) ==
    /\ p \in mgTodo
    /\ mgTodo' = mgTodo \ {p}
    /\ \/ mgPipes' = [mgPipes EXCEPT ![p] = Append(@, mgMsg[1])] /\ UNCHANGED mgFails
       \/ mgFails' = mgFails + 1 /\ UNCHANGED mgPipes
    /\ UNCHANGED <<mgContent, mgOwn, mgMsg, mgSent>>

(* The end of distribute: rm_refs for the pipes that refused, then init. *)
MgRmRefs ==
    /\ mgMsg # <<>> /\ mgTodo = {}
    /\ IF mgFails = 0 THEN UNCHANGED mgContent
       ELSE IF mgMsg[1] THEN MgSub(mgFails)
       ELSE MgClose(FALSE)
    /\ mgMsg' = <<>>
    /\ mgFails' = 0
    /\ UNCHANGED <<mgOwn, mgTodo, mgPipes, mgSent>>

(* An I/O thread, or the end of a pipe, closes what it read. *)
MgReaderCloses(p) ==
    /\ mgPipes[p] # <<>>
    /\ MgClose(Head(mgPipes[p]))
    /\ mgPipes' = [mgPipes EXCEPT ![p] = Tail(@)]
    /\ UNCHANGED <<mgOwn, mgMsg, mgTodo, mgFails, mgSent>>

(* zmq_msg_close of the application's msg_t, in any of its threads. *)
MgOwnCloses ==
    /\ mgOwn # <<>>
    /\ MgClose(mgOwn[1])
    /\ mgOwn' = <<>>
    /\ UNCHANGED <<mgMsg, mgTodo, mgFails, mgPipes, mgSent>>

MgNext ==
    \/ \E pipes \in SUBSET MgPipe : MgSendOwn(pipes) \/ MgSendCopy(pipes)
    \/ \E p \in MgPipe : MgWrite(p) \/ MgReaderCloses(p)
    \/ MgRmRefs \/ MgOwnCloses

MgSpec == MgInit /\ [][MgNext]_mgVars

-----------------------------------------------------------------------------
(* msg_t that refer to the contents: those in pipes, by their places, the     *)
(* application's, and one under way, which counts for the pipes it is still   *)
(* to be written to and for those that refused it.                            *)
MgPlaces(pipes) == UNION {{p} \X (1..Len(pipes[p])) : p \in MgPipe}

MgHolders ==
    Len(mgOwn) + Cardinality(mgTodo) + mgFails + Cardinality(MgPlaces(mgPipes))

(* However closing, copying and distribution interleave, contents are        *)
(* released once, when the last msg_t that refers to them is closed, and      *)
(* nobody touches them afterwards (msg.cpp:108, 221-263; dist.cpp:154-168).   *)
MgSafe ==
    /\ ~mgStray
    /\ mgFreed = IF MgHolders = 0 THEN 1 ELSE 0
=============================================================================
