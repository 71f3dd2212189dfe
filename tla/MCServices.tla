----------------------------- MODULE MCServices -----------------------------
(***************************************************************************)
(* Model checking of what stands on the transport and beside it, one       *)
(* component per behaviour: how a socket spreads, filters and collects     *)
(* messages, the programs that use sockets, and the programs and managers  *)
(* that share files.  `component' says which of them runs, and never       *)
(* changes.                                                                *)
(***************************************************************************)
EXTENDS Distributor, FairQueue, SubscriptionTries, PubSub, Logger, Dispel,
        Kickstart, NotificationFiles, GitManager

VARIABLE component

socketVars == <<dsVars, frVars, trVars, mtVars, psVars>>
programVars == <<lgVars, dpVars, kkVars, ntVars, gmVars>>
suiteVars == <<component, socketVars, programVars>>

(* Topics with common prefixes, on both sides of the first character of     *)
(* the table, and everything a message can begin with.                       *)
TopicPrefixes == {<<>>, <<1>>, <<3>>, <<3, 2>>, <<3, 4>>, <<4>>}
Messages == {<<>>} \cup {<<a>> : a \in 1..4} \cup {<<a, b>> : a \in {1, 3, 4}, b \in 1..4}

(* The first subscriber calls and loses its connection, the second stays. *)
SubscriberCalls == <<3, 1>>
SubscriberBreaks == <<2, 0>>

(* One program notifies twice, the other once. *)
ProgramCalls == [p \in NtProgram |-> p]

(* `kick' alone starts the svd of root, `kick u' that of an account. *)
UidOf == [a \in KkArgument |-> IF a = "u" THEN 501 ELSE 0]

Components == {"distributor", "fairqueue", "trie", "mtrie", "pubsub", "logger",
               "dispel", "kickstart", "notifications", "git"}

(* Runs of kick with different arguments share no file, so that those of one *)
(* argument are looked at together.                                            *)
KickInit ==
    /\ KkInit
    /\ \A p, q \in KkProcess : kkArg[p] = kkArg[q]
    /\ component # "kickstart" => \A p \in KkProcess : kkArg[p] = "u"
    /\ \A a \in KkArgument :
          kkHome[a] = "absent" =>
              component = "kickstart" /\ \A p \in KkProcess : kkArg[p] = a

Init ==
    /\ component \in Components
    /\ DsInit /\ FrInit /\ TrInit /\ MtInit /\ PsInit
    /\ LgInit /\ DpInit /\ KickInit /\ NtInit /\ GmInit

DistributorStep == component = "distributor" /\ DsNext
    /\ UNCHANGED <<component, frVars, trVars, mtVars, psVars, programVars>>
FairQueueStep == component = "fairqueue" /\ FrNext
    /\ UNCHANGED <<component, dsVars, trVars, mtVars, psVars, programVars>>
TrieStep == component = "trie" /\ TrNext
    /\ UNCHANGED <<component, dsVars, frVars, mtRoot, mtSubs, mtAborted, psVars, programVars>>
MtrieStep == component = "mtrie" /\ MtNext
    /\ UNCHANGED <<component, dsVars, frVars, trRoot, trRefs, psVars, programVars>>
PubSubStep == component = "pubsub" /\ PsNext
    /\ UNCHANGED <<component, dsVars, frVars, trVars, mtVars, programVars>>
LoggerStep == component = "logger" /\ LgNext
    /\ UNCHANGED <<component, socketVars, dpVars, kkVars, ntVars, gmVars>>
DispelStep == component = "dispel" /\ DpNext
    /\ UNCHANGED <<component, socketVars, lgVars, kkVars, ntVars, gmVars>>
KickstartStep == component = "kickstart" /\ KkNext
    /\ UNCHANGED <<component, socketVars, lgVars, dpVars, ntVars, gmVars>>
NotificationStep == component = "notifications" /\ NtNext
    /\ UNCHANGED <<component, socketVars, lgVars, dpVars, kkVars, gmVars>>
GitStep == component = "git" /\ GmNext
    /\ UNCHANGED <<component, socketVars, lgVars, dpVars, kkVars, ntVars>>

Next ==
    \/ DistributorStep \/ FairQueueStep \/ TrieStep \/ MtrieStep \/ PubSubStep
    \/ LoggerStep \/ DispelStep \/ KickstartStep \/ NotificationStep \/ GitStep

(* The fairness of each component, where it is the one that runs. *)
Fairness ==
    /\ WF_frVars(component = "fairqueue" /\ FrScans)
    /\ SF_frVars(component = "fairqueue" /\ FrRecv)
    /\ SF_frVars(component = "fairqueue" /\ FrActivated)
    /\ \A s \in PsNode :
          /\ WF_psVars(component = "pubsub" /\ PsHiccuped(s))
          /\ WF_psVars(component = "pubsub" /\ PsActivateWrite(s))
          /\ WF_psVars(component = "pubsub" /\ PsSessionReads(s))
          /\ WF_psVars(component = "pubsub" /\ PsConnected(s))
          /\ WF_psVars(component = "pubsub" /\ PsReadActivated(s))
          /\ WF_psVars(component = "pubsub" /\ PsTerminated(s))
    /\ WF_dpVars(component = "dispel" /\ (DpServe \/ DpSkip \/ DpPollAgain))
    /\ WF_dpVars(component = "dispel" /\ DpRun)
    /\ WF_dpVars(component = "dispel" /\ DpRunEmpty)
    /\ \A p \in KkProcess : WF_kkVars(component = "kickstart" /\ KkStep(p))

Spec == Init /\ [][Next]_suiteVars /\ Fairness

-----------------------------------------------------------------------------
(* The type invariants of the components. *)
ServicesTypeOK ==
    DsTypeOK /\ FrTypeOK /\ PsTypeOK /\ LgTypeOK /\ DpTypeOK
        /\ KkTypeOK /\ NtTypeOK /\ GmTypeOK

(* DpKeepsGoing, of the behaviours in which dispel runs: the next message     *)
(* that waits at a socket is received there (run and poll of                  *)
(* PollingZMQContext).                                                         *)
DispelKeepsGoing == component = "dispel" => DpKeepsGoing
=============================================================================
