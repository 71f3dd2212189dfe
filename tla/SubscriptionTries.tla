-------------------------- MODULE SubscriptionTries --------------------------
(***************************************************************************)
(* The two prefix trees of the publish-subscribe sockets: trie_t counts    *)
(* the subscriptions of a subscriber (src/lib/zeromq/trie.cpp), mtrie_t    *)
(* keeps for a publisher the pipes subscribed to each topic (mtrie.cpp).   *)
(* A node holds its children in a table from character min on, grows it    *)
(* for characters outside, prunes redundant children and compacts the      *)
(* table from whichever end was pruned.                                    *)
(*                                                                         *)
(* A node is a record whose next is the table, its length the count of     *)
(* the code; TrNull stands for a null pointer.  The single-child form of   *)
(* the union is a table of one.  A result carries whether the assertions   *)
(* on the way held.  trRefs and mtSubs are the reference: what a tree of   *)
(* any shape has to answer.                                                *)
(***************************************************************************)
EXTENDS Naturals, Sequences, FiniteSets, SequencesExt

CONSTANTS
    TrPrefix,       \* topics, as sequences of characters
    TrData,         \* first parts of messages
    TrRefs,         \* bound: subscriptions to one topic
    TrPipe          \* a publisher's pipes

VARIABLES
    trRoot,         \* trie_t of the subscriber
    trRefs,         \* reference: subscriptions to each topic
    mtRoot,         \* mtrie_t of the publisher
    mtSubs,         \* reference: pairs of a topic and a pipe
    mtAborted,      \* rm_helper's assertion has ended the publisher
    trOk            \* assertions held and results were as documented

trVars == <<trRoot, trRefs, trOk>>
mtVars == <<mtRoot, mtSubs, mtAborted, trOk>>

TrNull == [null |-> TRUE]

(* A node of trie_t, and one of mtrie_t: only what is kept for a topic     *)
(* differs.                                                                *)
TrNode == [refcnt |-> 0, min |-> 0, live |-> 0, next |-> <<>>]
MtNode == [pipes |-> {}, min |-> 0, live |-> 0, next |-> <<>>]

TrInit ==
    /\ trRoot = TrNode
    /\ trRefs = [p \in TrPrefix |-> 0]
    /\ trOk = TRUE

MtInit ==
    /\ mtRoot = MtNode
    /\ mtSubs = {}
    /\ mtAborted = FALSE
    /\ trOk = TRUE

-----------------------------------------------------------------------------
(* The table of a node.                                                    *)

TrCount(n) == Len(n.next)

TrInRange(n, c) == n.min <= c /\ c < n.min + TrCount(n)

TrNulls(k) == [i \in 1..k |-> TrNull]

TrExtendShort(n, c) ==
    CASE TrInRange(n, c) -> n
      [] ~TrInRange(n, c) /\ TrCount(n) = 0 ->
            [n EXCEPT !.min = c, !.next = TrNulls(1)]
      [] ~TrInRange(n, c) /\ TrCount(n) > 0 /\ n.min < c ->
            [n EXCEPT !.next = @ \o TrNulls(c + 1 - n.min - TrCount(n))]
      [] OTHER -> [n EXCEPT !.min = c, !.next = TrNulls(n.min - c - 1) \o @]

(* A character outside the table: extended upwards or downwards.           *)
TrExtend(n, c) ==
    CASE TrInRange(n, c) -> n
      [] ~TrInRange(n, c) /\ TrCount(n) = 0 ->
            [n EXCEPT !.min = c, !.next = TrNulls(1)]
      [] ~TrInRange(n, c) /\ TrCount(n) > 0 /\ n.min < c ->
            [n EXCEPT !.next = @ \o TrNulls(c + 1 - n.min - TrCount(n))]
      [] OTHER -> [n EXCEPT !.min = c, !.next = TrNulls(n.min - c) \o @]

TrLive(t) == {i \in 1..Len(t) : t[i] # TrNull}

TrFirst(t) == CHOOSE i \in TrLive(t) : \A j \in TrLive(t) : i <= j
TrLast(t) == CHOOSE i \in TrLive(t) : \A j \in TrLive(t) : i >= j

(* Keeps the entries i to j of the table.                                  *)
TrSlice(n, i, j) == [n EXCEPT !.min = @ + i - 1, !.next = SubSeq(@, i, j)]

-----------------------------------------------------------------------------
(* trie_t.                                                                 *)

TrRedundant(n) == n.refcnt = 0 /\ n.live = 0

RECURSIVE TrAdd(_, _)
TrAdd(n, prefix) ==
    IF prefix = <<>>
    THEN [node |-> [n EXCEPT !.refcnt = @ + 1], ret |-> n.refcnt = 0, ok |-> TRUE]
    ELSE LET e == TrExtend(n, Head(prefix))
             i == Head(prefix) - e.min + 1
             fresh == e.next[i] = TrNull
             live == IF fresh THEN e.live + 1 ELSE e.live
             sub == TrAdd(IF fresh THEN TrNode ELSE e.next[i], Tail(prefix))
         IN  [node |-> [e EXCEPT !.live = live, !.next[i] = sub.node],
              ret |-> sub.ret,
              ok |-> sub.ok /\ (fresh => (live = 1 <=> TrCount(e) = 1))]

(* The child at place i was redundant.  With one live child left the code  *)
(* takes it from the other end of the table.                               *)
TrPrune(n, i) ==
    LET k == TrCount(n)
        m == [n EXCEPT !.live = @ - 1, !.next[i] = TrNull]
    IN
    CASE k = 1 -> [node |-> [m EXCEPT !.next = <<>>], ok |-> m.live = 0]
      [] k > 1 /\ m.live = 1 ->
            LET other == IF i = 1 THEN k ELSE 1 IN
            [node |-> TrSlice(m, other, other),
             ok |-> i \in {1, k} /\ m.next[other] # TrNull]
      [] k > 1 /\ m.live > 1 /\ i = 1 ->
            [node |-> TrSlice(m, TrFirst(m.next), k), ok |-> TRUE]
      [] k > 1 /\ m.live > 1 /\ i = k ->
            [node |-> TrSlice(m, 1, TrLast(m.next)), ok |-> TRUE]
      [] OTHER -> [node |-> m, ok |-> m.live >= 1]

RECURSIVE TrRm(_, _)
TrRm(n, prefix) ==
    LET c == Head(prefix)
        i == c - n.min + 1
        missing == [node |-> n, ret |-> FALSE, ok |-> TRUE]
    IN
    CASE prefix = <<>> ->
            [node |-> [n EXCEPT !.refcnt = IF @ = 0 THEN 0 ELSE @ - 1],
             ret |-> n.refcnt = 1, ok |-> TRUE]
      [] prefix # <<>> /\ ~TrInRange(n, c) -> missing
      [] prefix # <<>> /\ TrInRange(n, c) /\ n.next[i] = TrNull -> missing
      [] OTHER ->
            LET sub == TrRm(n.next[i], Tail(prefix))
                m == [n EXCEPT !.next[i] = sub.node]
                pruned == TrPrune(m, i)
            IN  IF TrRedundant(sub.node)
                THEN [pruned EXCEPT !.ok = @ /\ sub.ok] @@ [ret |-> sub.ret]
                ELSE [node |-> m, ret |-> sub.ret, ok |-> sub.ok]

RECURSIVE TrCheck(_, _)
TrCheck(n, data) ==
    \/ n.refcnt > 0
    \/ /\ data # <<>>
       /\ TrInRange(n, Head(data))
       /\ n.next[Head(data) - n.min + 1] # TrNull
       /\ TrCheck(n.next[Head(data) - n.min + 1], Tail(data))

(* apply: the topics handed to the function, in the order of the walk.     *)
RECURSIVE TrApply(_, _)
TrApply(n, buff) ==
    LET below == [i \in 1..TrCount(n) |->
                    IF n.next[i] = TrNull THEN <<>>
                    ELSE TrApply(n.next[i], Append(buff, n.min + i - 1))]
    IN  (IF n.refcnt > 0 THEN <<buff>> ELSE <<>>) \o FlattenSeq(below)

TrSubscribe(p) ==
    LET r == TrAdd(trRoot, p) IN
    /\ trRefs[p] < TrRefs
    /\ trRoot' = r.node
    /\ trRefs' = [trRefs EXCEPT ![p] = @ + 1]
    /\ trOk' = (trOk /\ r.ok /\ r.ret = (trRefs[p] = 0))

(* A topic that is not subscribed to may be removed as well.               *)
TrUnsubscribe(p) ==
    LET r == TrRm(trRoot, p) IN
    /\ trRoot' = r.node
    /\ trRefs' = [trRefs EXCEPT ![p] = IF @ = 0 THEN 0 ELSE @ - 1]
    /\ trOk' = (trOk /\ r.ok /\ r.ret = (trRefs[p] = 1))

TrNext == \E p \in TrPrefix : TrSubscribe(p) \/ TrUnsubscribe(p)

TrSpec == TrInit /\ [][TrNext]_trVars

-----------------------------------------------------------------------------
(* mtrie_t.                                                                *)

MtRedundant(n) == n.pipes = {} /\ n.live = 0

RECURSIVE MtAddHelper(_, _, _)
MtAddHelper(n, prefix, pipe) ==
    IF prefix = <<>>
    THEN [node |-> [n EXCEPT !.pipes = @ \cup {pipe}], ret |-> n.pipes = {}]
    ELSE LET e == TrExtend(n, Head(prefix))
             i == Head(prefix) - e.min + 1
             fresh == e.next[i] = TrNull
             sub == MtAddHelper(IF fresh THEN MtNode ELSE e.next[i], Tail(prefix), pipe)
         IN  [node |-> [e EXCEPT !.live = IF fresh THEN @ + 1 ELSE @,
                                 !.next[i] = sub.node],
              ret |-> sub.ret]

(* One topic of a pipe: as in trie_t, except that the last live child is   *)
(* searched for instead of taken from the other end.                       *)
MtPrune(n, i) ==
    LET k == TrCount(n)
        m == [n EXCEPT !.live = @ - 1, !.next[i] = TrNull]
    IN
    CASE k = 1 -> [node |-> [m EXCEPT !.next = <<>>], ok |-> m.live = 0]
      [] k > 1 /\ m.live = 1 ->
            [node |-> TrSlice(m, TrFirst(m.next), TrFirst(m.next)), ok |-> TRUE]
      [] k > 1 /\ m.live > 1 /\ i = 1 ->
            [node |-> TrSlice(m, TrFirst(m.next), k), ok |-> TRUE]
      [] k > 1 /\ m.live > 1 /\ i = k ->
            [node |-> TrSlice(m, 1, TrLast(m.next)), ok |-> TRUE]
      [] OTHER -> [node |-> m, ok |-> m.live >= 1]

RECURSIVE MtRmHelper(_, _, _)
MtRmHelper(n, prefix, pipe) ==
    LET c == Head(prefix)
        i == c - n.min + 1
        missing == [node |-> n, ret |-> FALSE, ok |-> TRUE]
    IN
    CASE prefix = <<>> ->
            [node |-> [n EXCEPT !.pipes = @ \ {pipe}], ret |-> n.pipes \subseteq {pipe},
             ok |-> n.pipes # {} => pipe \in n.pipes]
      [] prefix # <<>> /\ ~TrInRange(n, c) -> missing
      [] prefix # <<>> /\ TrInRange(n, c) /\ n.next[i] = TrNull -> missing
      [] OTHER ->
            LET sub == MtRmHelper(n.next[i], Tail(prefix), pipe)
                m == [n EXCEPT !.next[i] = sub.node]
                pruned == MtPrune(m, i)
            IN  IF MtRedundant(sub.node)
                THEN [pruned EXCEPT !.ok = @ /\ sub.ok] @@ [ret |-> sub.ret]
                ELSE [node |-> m, ret |-> sub.ret, ok |-> sub.ok]

(* After the walk over the children: table freed, single child kept, or    *)
(* cut to the outermost live children.                                     *)
MtCompact(n) ==
    IF n.live = 0 THEN [n EXCEPT !.next = <<>>]
    ELSE TrSlice(n, TrFirst(n.next), TrLast(n.next))

(* All topics of a pipe: the walk visits every node, and gone lists the    *)
(* topics nobody has any more.                                             *)
RECURSIVE MtRmPipe(_, _, _)
MtRmPipe(n, buff, pipe) ==
    LET subs == [i \in 1..TrCount(n) |->
                    IF n.next[i] = TrNull THEN [node |-> TrNull, gone |-> <<>>]
                    ELSE MtRmPipe(n.next[i], Append(buff, n.min + i - 1), pipe)]
        keep == [i \in 1..TrCount(n) |->
                    IF subs[i].node = TrNull \/ MtRedundant(subs[i].node)
                    THEN TrNull ELSE subs[i].node]
        live == Cardinality(TrLive(keep))
        m == [n EXCEPT !.pipes = @ \ {pipe}, !.next = keep,
                       !.live = @ - (Cardinality(TrLive(n.next)) - live)]
    IN  [node |-> MtCompact(m),
         gone |-> (IF n.pipes = {pipe} THEN <<buff>> ELSE <<>>)
                    \o FlattenSeq([i \in 1..TrCount(n) |-> subs[i].gone])]

(* match: the pipes the function is called with, once per topic.           *)
RECURSIVE MtMatch(_, _)
MtMatch(n, data) ==
    LET i == Head(data) - n.min + 1 IN
    {<<data, p>> : p \in n.pipes} \cup
        (IF data = <<>> \/ TrCount(n) = 0 THEN {}
         ELSE IF ~TrInRange(n, Head(data)) THEN {}
         ELSE IF n.next[i] = TrNull THEN {}
         ELSE MtMatch(n.next[i], Tail(data)))

MtSubscribe(p, pipe) ==
    LET r == MtAddHelper(mtRoot, p, pipe) IN
    /\ mtRoot' = r.node
    /\ mtSubs' = mtSubs \cup {<<p, pipe>>}
    /\ trOk' = (trOk /\ r.ret = (\A q \in TrPipe : <<p, q>> \notin mtSubs))
    /\ UNCHANGED mtAborted

(* A pipe may take back a topic it does not have: its subscription was     *)
(* dropped on the way.  Where others have the topic that is an assertion    *)
(* and the end of the process; else it may be reported upstream again.      *)
MtUnsubscribe(p, pipe) ==
    LET r == MtRmHelper(mtRoot, p, pipe)
        had == <<p, pipe>> \in mtSubs
        others == \E q \in TrPipe \ {pipe} : <<p, q>> \in mtSubs
    IN
    /\ mtRoot' = IF r.ok THEN r.node ELSE mtRoot
    /\ mtSubs' = mtSubs \ {<<p, pipe>>}
    /\ mtAborted' = ~r.ok
    /\ trOk' = (trOk /\ r.ok = (had \/ ~others)
                /\ IF had THEN r.ret = ~others ELSE r.ret /\ r.ok => ~others)

(* The pipe has terminated (xpub_t::xterminated).                          *)
MtTerminated(pipe) ==
    LET r == MtRmPipe(mtRoot, <<>>, pipe)
        left == {s \in mtSubs : s[2] # pipe}
    IN
    /\ mtRoot' = r.node
    /\ mtSubs' = left
    /\ trOk' = (trOk /\ IsInjective(r.gone)
                /\ Range(r.gone) = {s[1] : s \in mtSubs} \ {s[1] : s \in left})
    /\ UNCHANGED mtAborted

MtNext ==
    /\ ~mtAborted
    /\ \E pipe \in TrPipe :
        \/ \E p \in TrPrefix : MtSubscribe(p, pipe) \/ MtUnsubscribe(p, pipe)
        \/ MtTerminated(pipe)

MtSpec == MtInit /\ [][MtNext]_mtVars

-----------------------------------------------------------------------------
(* Every node's table is as small as it can be: both ends are live, live   *)
(* counts the live children, and no child is redundant.  The assertions    *)
(* and the memory of long-lived sockets rest on it.                        *)
RECURSIVE TrTight(_)
TrTight(n) ==
    /\ n.live = Cardinality(TrLive(n.next))
    /\ n.next # <<>> => n.next[1] # TrNull /\ n.next[Len(n.next)] # TrNull
    /\ \A i \in TrLive(n.next) :
            /\ TrTight(n.next[i])
            /\ IF "pipes" \in DOMAIN n THEN ~MtRedundant(n.next[i])
               ELSE ~TrRedundant(n.next[i])

(* trie_t is the bag of subscriptions, whatever was added and removed      *)
(* before: check finds a message iff some topic is a prefix of it, apply   *)
(* visits each topic once, add and rm report first and last subscriptions. *)
TrIsBag ==
    /\ trOk
    /\ TrTight(trRoot)
    /\ \A d \in TrData : TrCheck(trRoot, d) =
            (\E p \in TrPrefix : trRefs[p] > 0 /\ IsPrefix(p, d))
    /\ LET all == TrApply(trRoot, <<>>) IN
       IsInjective(all) /\ Range(all) = {p \in TrPrefix : trRefs[p] > 0}

(* mtrie_t is the relation of topics and pipes: match calls its function   *)
(* for exactly the pipes with a prefix of the message, what is reported    *)
(* upstream as subscribed or unsubscribed is, and the only assertion that  *)
(* fails is that of a pipe taking back a topic which others have and it    *)
(* has not (mtrie.cpp:302).                                                *)
MtIsRelation ==
    /\ trOk
    /\ TrTight(mtRoot)
    /\ \A d \in TrData :
            {m[2] : m \in MtMatch(mtRoot, d)} =
                {s[2] : s \in {t \in mtSubs : IsPrefix(t[1], d)}}

(* The two tries of a connection are what they stand for.                  *)
TriesExact == TrIsBag /\ MtIsRelation
=============================================================================
