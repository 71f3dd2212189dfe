----------------------------- MODULE Distributor -----------------------------
(***************************************************************************)
(* dist_t over array_t (src/lib/zeromq/dist.cpp, array.hpp), with which a  *)
(* publisher sends each message to the matching subscribers.  The pipes    *)
(* stand in one array: first the matching ones, then the other active      *)
(* ones, then those that became writable in the middle of a message and    *)
(* have to wait for the next one, then the rest.                           *)
(*                                                                         *)
(* A message has DsParts parts at most.  A pipe refuses the first part of  *)
(* a message when it is full, and any part once its peer has asked it to   *)
(* terminate; xpub_t is told of the termination some time later.           *)
(***************************************************************************)
EXTENDS Naturals, Sequences, FiniteSets, SequencesExt

CONSTANTS
    DsPipe,     \* outbound pipes
    DsParts     \* bound: parts of a message

ASSUME DsAssumption == IsFiniteSet(DsPipe) /\ DsParts \in Nat

VARIABLES
    dsPipes,        \* the array pipes
    dsMatching, dsActive, dsEligible, dsMore,
    dsPart,         \* parts of the current message sent so far
    dsPipeState,    \* "new", "open", "full", "ending" or "gone"
    dsGot,          \* parts of the current message in each pipe
    dsDamaged,      \* pipes holding part of a message with others missing
    dsDisplaced     \* history: a removed pipe's place went to one of another region

dsVars == <<dsPipes, dsMatching, dsActive, dsEligible, dsMore, dsPart,
            dsPipeState, dsGot, dsDamaged, dsDisplaced>>

DsTypeOK ==
    /\ dsPipes \in Seq(DsPipe)
    /\ {dsMatching, dsActive, dsEligible} \subseteq Nat
    /\ dsMore \in BOOLEAN
    /\ dsPart \in 0..DsParts
    /\ dsPipeState \in [DsPipe -> {"new", "open", "full", "ending", "gone"}]
    /\ dsGot \in [DsPipe -> 0..DsParts]
    /\ dsDamaged \subseteq DsPipe
    /\ dsDisplaced \in BOOLEAN

DsInit ==
    /\ dsPipes = <<>>
    /\ dsMatching = 0
    /\ dsActive = 0
    /\ dsEligible = 0
    /\ dsMore = FALSE
    /\ dsPart = 0
    /\ dsPipeState = [p \in DsPipe |-> "new"]
    /\ dsGot = [p \in DsPipe |-> 0]
    /\ dsDamaged = {}
    /\ dsDisplaced = FALSE

-----------------------------------------------------------------------------
(* array_t, counted from zero as in the code.                              *)

DsIndex(s, p) == (CHOOSE i \in 1..Len(s) : s[i] = p) - 1

DsSwap(s, i, j) == [s EXCEPT ![i + 1] = s[j + 1], ![j + 1] = s[i + 1]]

(* The last item takes the place of the erased one.                        *)
DsErase(s, i) == Front([s EXCEPT ![i + 1] = Last(s)])

(* 0 for a matching pipe, 1 active, 2 eligible, 3 for the rest.            *)
DsRegion(i) == Cardinality({k \in 1..3 : <<dsMatching, dsActive, dsEligible>>[k] <= i})

-----------------------------------------------------------------------------
DsAttachAlwaysActive(p) ==
    /\ dsPipeState[p] = "new"
    /\ dsPipeState' = [dsPipeState EXCEPT ![p] = "open"]
    /\ LET at == dsActive IN
       dsPipes' = DsSwap(Append(dsPipes, p), at, Len(dsPipes))
    /\ dsActive' = dsActive + 1
    /\ dsEligible' = dsEligible + 1
    /\ UNCHANGED <<dsMatching, dsMore, dsPart, dsGot, dsDamaged, dsDisplaced>>

(* attach: in the middle of a message a new pipe is eligible, not active.  *)
DsAttach(p) ==
    /\ dsPipeState[p] = "new"
    /\ dsPipeState' = [dsPipeState EXCEPT ![p] = "open"]
    /\ LET at == IF dsMore THEN dsEligible ELSE dsActive IN
       dsPipes' = DsSwap(Append(dsPipes, p), at, Len(dsPipes))
    /\ dsActive' = IF dsMore THEN dsActive ELSE dsActive + 1
    /\ dsEligible' = dsEligible + 1
    /\ UNCHANGED <<dsMatching, dsMore, dsPart, dsGot, dsDamaged, dsDisplaced>>

(* activated: the reader has made room in a full pipe.  After a            *)
(* displacement the swap may reach past the end of the array, which is     *)
(* undefined: no behaviour is given to it.                                 *)
DsActivated(p) ==
    /\ dsPipeState[p] = "full"
    /\ dsEligible < Len(dsPipes)
    /\ dsPipeState' = [dsPipeState EXCEPT ![p] = "open"]
    /\ LET s == DsSwap(dsPipes, DsIndex(dsPipes, p), dsEligible) IN
       dsPipes' = IF dsMore THEN s ELSE DsSwap(s, dsEligible, dsActive)
    /\ dsEligible' = dsEligible + 1
    /\ dsActive' = IF dsMore THEN dsActive ELSE dsActive + 1
    /\ UNCHANGED <<dsMatching, dsMore, dsPart, dsGot, dsDamaged, dsDisplaced>>

(* The peer asks the pipe to terminate: writing fails from now on.         *)
DsPeerEnds(p) ==
    /\ dsPipeState[p] \in {"open", "full"}
    /\ dsPipeState' = [dsPipeState EXCEPT ![p] = "ending"]
    /\ UNCHANGED <<dsPipes, dsMatching, dsActive, dsEligible, dsMore, dsPart,
                   dsGot, dsDamaged, dsDisplaced>>

(* terminated: the counters go down, then the last pipe fills the gap.     *)
DsTerminated(p) ==
    LET i == DsIndex(dsPipes, p) IN
    /\ dsPipeState[p] = "ending"
    /\ dsPipeState' = [dsPipeState EXCEPT ![p] = "gone"]
    /\ dsMatching' = IF i < dsMatching THEN dsMatching - 1 ELSE dsMatching
    /\ dsActive' = IF i < dsActive THEN dsActive - 1 ELSE dsActive
    /\ dsEligible' = IF i < dsEligible THEN dsEligible - 1 ELSE dsEligible
    /\ dsPipes' = DsErase(dsPipes, i)
    /\ dsGot' = [dsGot EXCEPT ![p] = 0]
    /\ dsDamaged' = dsDamaged \ {p}
    /\ dsDisplaced' = (dsDisplaced \/ DsRegion(i) # DsRegion(Len(dsPipes) - 1))
    /\ UNCHANGED <<dsMore, dsPart>>

-----------------------------------------------------------------------------
(* send_to_matching.                                                       *)

(* match: a pipe beyond the eligible ones is skipped.                      *)
DsMatch(c, p) ==
    LET i == DsIndex(c.pipes, p) IN
    IF i < c.matching \/ i >= c.eligible THEN c
    ELSE [c EXCEPT !.pipes = DsSwap(@, i, c.matching), !.matching = @ + 1]

(* A failed write moves the pipe behind the matching, the active and the   *)
(* eligible ones.                                                          *)
DsWriteFailed(c, p) ==
    LET s1 == DsSwap(c.pipes, DsIndex(c.pipes, p), c.matching - 1)
        s2 == DsSwap(s1, DsIndex(s1, p), c.active - 1)
        s3 == DsSwap(s2, c.active - 1, c.eligible - 1)
    IN  [c EXCEPT !.pipes = s3, !.matching = @ - 1, !.active = @ - 1,
                  !.eligible = @ - 1]

DsRefuses(full, p) ==
    \/ dsPipeState[p] = "ending"
    \/ dsPart = 0 /\ p \in full

(* A publisher names the pipes that match the message, in some order.      *)
DsMatchAll(c, want) ==
    LET order == SetToSeq(want)
        after[n \in 0..Len(order)] ==
            IF n = 0 THEN c ELSE DsMatch(after[n - 1], order[n])
    IN  after[Len(order)]

(* The next write of distribute: after a failed one the same index is      *)
(* tried again, as another pipe stands there.                              *)
DsWriteNext(t, full) ==
    LET p == t.cursor.pipes[t.at + 1] IN
    IF DsRefuses(full, p) THEN [t EXCEPT !.cursor = DsWriteFailed(@, p)]
    ELSE [t EXCEPT !.at = @ + 1, !.written = @ \cup {p}]

(* distribute: each write moves the index up or the end of the matching    *)
(* pipes down, so that there are `matching' of them.                       *)
DsDistribute(c, full) ==
    LET try[n \in 0..c.matching] ==
            IF n = 0 THEN [cursor |-> c, at |-> 0, written |-> {}]
            ELSE DsWriteNext(try[n - 1], full)
    IN  try[c.matching]

(* A part of a message is sent: the first one to the pipes that match it,  *)
(* some of which may be full, the others to the same pipes.                *)
DsSend(want, full, more) ==
    LET start == [pipes |-> dsPipes, matching |-> dsMatching,
                  active |-> dsActive, eligible |-> dsEligible]
        c == IF dsMore THEN start
             ELSE DsMatchAll(start, want)
        sent == DsDistribute(c, full)
        end == sent.cursor
        got == [p \in DsPipe |->
                    IF p \in sent.written THEN dsPart + 1 ELSE dsGot[p]]
        broken == {p \in sent.written : dsGot[p] # dsPart}
        cut == {p \in DsPipe : dsPipeState[p] \in {"open", "full"}
                                /\ got[p] \in 1..dsPart}
    IN
    /\ dsPart < DsParts
    /\ more => dsPart + 1 < DsParts
    /\ want \subseteq Range(dsPipes) /\ full \subseteq want
    /\ dsPart > 0 => want = {} /\ full = {}
    /\ \A p \in full : dsPipeState[p] = "open"
    /\ dsPipes' = end.pipes
    /\ dsMatching' = IF more THEN end.matching ELSE 0
    /\ dsActive' = IF more THEN end.active ELSE end.eligible
    /\ dsEligible' = end.eligible
    /\ dsMore' = more
    /\ dsPart' = IF more THEN dsPart + 1 ELSE 0
    /\ dsPipeState' = [p \in DsPipe |->
            IF dsPart = 0 /\ p \in full /\ p \notin sent.written
               /\ DsIndex(dsPipes, p) < dsEligible
            THEN "full" ELSE dsPipeState[p]]
    /\ dsGot' = IF more THEN got ELSE [p \in DsPipe |-> 0]
    /\ dsDamaged' = dsDamaged \cup broken \cup (IF more THEN {} ELSE cut)
    /\ UNCHANGED dsDisplaced

DsNext ==
    \/ \E p \in DsPipe : DsAttach(p) \/ DsActivated(p) \/ DsPeerEnds(p)
                            \/ DsTerminated(p)
    \/ \E want \in SUBSET DsPipe, full \in SUBSET DsPipe, more \in BOOLEAN :
            DsSend(want, full, more)

DsSpec == DsInit /\ [][DsNext]_dsVars

-----------------------------------------------------------------------------
(* The eligible pipes are those whose high water mark is not reached (the  *)
(* comment on eligible in dist.hpp): a pipe with room gets messages, a     *)
(* full one is not counted as if it did.                                   *)
DsEligibleHaveRoom ==
    \A p \in Range(dsPipes) :
        /\ dsPipeState[p] = "open" => DsIndex(dsPipes, p) < dsEligible
        /\ dsPipeState[p] = "full" => DsIndex(dsPipes, p) >= dsEligible

(* The same, with the regions nested and nobody left waiting between       *)
(* messages, for as long as the last pipe of the array never takes the     *)
(* place of a removed pipe of another region (terminated, erase).          *)
DsRegions ==
    dsDisplaced \/
        /\ dsMatching <= dsActive /\ dsActive <= dsEligible
        /\ dsEligible <= Len(dsPipes)
        /\ DsEligibleHaveRoom
        /\ ~dsMore => dsMatching = 0 /\ dsActive = dsEligible

(* Under the same condition a subscriber gets all parts of a message or    *)
(* none, pipes attached and activated in the middle of one included.       *)
DsWholeMessages == dsDisplaced \/ dsDamaged = {}

(* Both: whom dist_t counts on, and what its subscribers get.              *)
DsSafe == DsRegions /\ DsWholeMessages
=============================================================================
