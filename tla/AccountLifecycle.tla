-------------------------- MODULE AccountLifecycle --------------------------
(***************************************************************************)
(* The life of account managers and what the root process knows of them.   *)
(*                                                                         *)
(* Every account has a process of its own, SvdUserBoot.  It asks the root  *)
(* process' SvdAccountsManager for a port, to learn whether there is one:  *)
(* on an answer it starts a SvdAccountManager, without one in time it      *)
(* starts a headless SvdAccountManager.  A manager that is not headless    *)
(* announces itself (Admin.Alive) when it starts and its death             *)
(* (Admin.Dead) when it handles Shutdown, which its postStop sends to      *)
(* itself.  SvdAccountsManager keeps the list accountsAlive.               *)
(*                                                                         *)
(* External (Akka 2.1, from its use here): messages between two actors     *)
(* keep their order and may be lost; a guardian restarts a top-level actor *)
(* whose handler throws, keeping its mailbox, and stops one whose start    *)
(* throws; an ask ends once, by an answer or by a timeout.                 *)
(***************************************************************************)
EXTENDS Naturals, Sequences

CONSTANTS
    Account,
    MaxBox,         \* bound: Shutdown messages an account's failing manager
                    \* may owe itself
    MaxEntries      \* bound: an account's entries and announcements

ASSUME BoundAssumption == MaxBox \in [Account -> Nat] /\ MaxEntries \in [Account -> Nat]

VARIABLES
    root,       \* the root process; "deaf": without its SvdAccountsManager
    stopping,   \* a Terminate for SvdAccountsManager is under way
    alive,      \* accountsAlive: how many entries each account has
    chan,       \* announcements under way, per account
    proc,       \* the account's process
    ask,        \* SvdUserBoot's question for a port
    headless,   \* the parameter of the account's manager
    mgr,        \* the account's manager
    box,        \* Shutdown messages in the manager's mailbox
    upset       \* history: what kept accountsAlive from following the account

rootVars == <<root, stopping, alive>>
userVars == <<proc, ask, headless, mgr, box>>
vars == <<rootVars, userVars, chan, upset>>

\* "missed": an announcement was never made, got lost or may be overtaken.
Cause == {"missed", "restarted"}

TypeOK ==
    /\ root \in {"up", "deaf", "down"}
    /\ stopping \in BOOLEAN
    /\ alive \in [Account -> Nat]
    /\ chan \in [Account -> Seq({"Alive", "Dead"})]
    /\ proc \in [Account -> {"down", "asking", "running", "exiting"}]
    /\ ask \in [Account -> {"idle", "sent", "lost", "answered"}]
    /\ headless \in [Account -> BOOLEAN]
    /\ mgr \in [Account -> {"none", "started", "stopped"}]
    /\ box \in [Account -> Nat]
    /\ upset \in [Account -> SUBSET Cause]

Init ==
    /\ root \in {"up", "down"}
    /\ stopping = FALSE
    /\ alive = [a \in Account |-> 0]
    /\ chan = [a \in Account |-> <<>>]
    /\ proc = [a \in Account |-> "down"]
    /\ ask = [a \in Account |-> "idle"]
    /\ headless = [a \in Account |-> FALSE]
    /\ mgr = [a \in Account |-> "none"]
    /\ box = [a \in Account |-> 0]
    /\ upset = [a \in Account |-> {}]

\* A manager that the root process should know of.
Serving(a) == proc[a] = "running" /\ mgr[a] = "started" /\ ~headless[a]

\* `accountsManager ! m': without a receiver it is a dead letter.
After(a, m) == IF root = "up" THEN Append(chan[a], m) ELSE chan[a]
Tell(a, m)  == chan' = [chan EXCEPT ![a] = After(a, m)]

Upset(a, causes) == upset' = [upset EXCEPT ![a] = @ \cup causes]

-----------------------------------------------------------------------------
(* SvdUserBoot *)

\* The process starts: accountsManager ? System.GetPort.
Boot(a) ==
    /\ proc[a] = "down"
    /\ alive[a] + Len(chan[a]) < MaxEntries[a]
    /\ proc' = [proc EXCEPT ![a] = "asking"]
    /\ ask' = [ask EXCEPT ![a] = IF root = "up" THEN "sent" ELSE "lost"]
    /\ UNCHANGED <<rootVars, headless, mgr, box, chan, upset>>

\* SvdAccountManager.preStart ends well, and the manager then has its mailbox
\* to serve; or it throws, before or after it announced the manager, and the
\* manager is stopped.  An announcement may be overtaken by one that an
\* earlier process of the account left under way.
PreStart(a, dumb, pending, causes) ==
    \/ /\ mgr' = [mgr EXCEPT ![a] = "started"]
       /\ box' = [box EXCEPT ![a] = pending]
       /\ IF dumb
            THEN UNCHANGED chan /\ Upset(a, causes)
            ELSE /\ Tell(a, "Alive")
                 /\ Upset(a, IF causes = {} /\ chan[a] # <<>> THEN {"missed"} ELSE causes)
    \/ /\ mgr' = [mgr EXCEPT ![a] = "stopped"]
       /\ box' = [box EXCEPT ![a] = 0]
       /\ \/ UNCHANGED chan /\ Upset(a, causes)
          \/ ~dumb /\ Tell(a, "Alive") /\ Upset(a, {"missed"})

Created(a, dumb) ==
    /\ proc[a] = "asking"
    /\ proc' = [proc EXCEPT ![a] = "running"]
    /\ ask' = [ask EXCEPT ![a] = "idle"]
    /\ headless' = [headless EXCEPT ![a] = dumb]
    /\ PreStart(a, dumb, 0, {})
    /\ UNCHANGED rootVars

\* gp.onSuccess
BootConnected(a) == ask[a] = "answered" /\ Created(a, FALSE)

BootHeadlessIfSent(a) == ask[a] = "sent" /\ Created(a, TRUE)

\* gp.onFailure: the timeout may also beat an answer that is under way.
BootHeadless(a) == ask[a] # "idle" /\ Created(a, TRUE)

\* The hook of the exiting process runs the manager's postStop, which posts
\* Shutdown to the manager.
Exiting(a) ==
    /\ proc' = [proc EXCEPT ![a] = "exiting"]
    /\ ask' = [ask EXCEPT ![a] = "idle"]
    /\ box' = [box EXCEPT ![a] = IF mgr[a] = "started" THEN @ + 1 ELSE @]
    /\ UNCHANGED <<headless, mgr, chan, upset>>

\* The process is told to end.
Exit(a) ==
    /\ proc[a] \in {"asking", "running"}
    /\ Exiting(a)
    /\ UNCHANGED rootVars

\* Maintenance.RestartAccountManager, forwarded by the account's manager:
\* SvdUserBoot stops accountsManager, which is the root process', and exits.
RestartAccountManager(a) ==
    /\ proc[a] = "running" /\ mgr[a] = "started"
    /\ stopping' = (stopping \/ root = "up")
    /\ Exiting(a)
    /\ UNCHANGED <<root, alive>>

\* The process is gone: killed, or at the end of an exit (system.shutdown
\* stops the manager, and what is still in its mailbox is never handled).
ProcessEnds(a) ==
    /\ proc[a] # "down"
    /\ proc' = [proc EXCEPT ![a] = "down"]
    /\ ask' = [ask EXCEPT ![a] = "idle"]
    /\ mgr' = [mgr EXCEPT ![a] = "none"]
    /\ box' = [box EXCEPT ![a] = 0]
    /\ Upset(a, IF mgr[a] = "started" /\ ~headless[a]
                      /\ (proc[a] = "running" \/ box[a] > 0)
                  THEN {"missed"} ELSE {})
    /\ headless' = [headless EXCEPT ![a] = FALSE]
    /\ UNCHANGED <<rootVars, chan>>

-----------------------------------------------------------------------------
(* SvdAccountManager *)

ShutdownIsSilent(a) ==
    /\ mgr[a] = "started" /\ box[a] > 0
    /\ box' = [box EXCEPT ![a] = @ - 1]
    /\ UNCHANGED <<rootVars, proc, ask, headless, mgr, chan, upset>>

\* Shutdown: the announcement is made only by a manager that is not headless.
Shutdown(a) ==
    /\ mgr[a] = "started" /\ box[a] > 0
    /\ box' = [box EXCEPT ![a] = @ - 1]
    /\ IF headless[a] THEN UNCHANGED chan ELSE Tell(a, "Dead")
    /\ UNCHANGED <<rootVars, proc, ask, headless, mgr, upset>>

\* A handler throws and the guardian restarts the manager: preRestart runs
\* postStop, whose Shutdown stays in the mailbox, and the new instance runs
\* preStart.  While the process exits there can be no new instance: its
\* constructor adds a shutdown hook, which throws.
Restart(a) ==
    /\ mgr[a] = "started" /\ box[a] < MaxBox[a]
    /\ alive[a] + Len(chan[a]) < MaxEntries[a]
    /\ \/ /\ proc[a] = "running"
          /\ PreStart(a, headless[a], box[a] + 1, {"restarted"})
       \/ /\ proc[a] = "exiting"
          /\ mgr' = [mgr EXCEPT ![a] = "stopped"]
          /\ box' = [box EXCEPT ![a] = 0]
          /\ Upset(a, {"missed"})
          /\ UNCHANGED chan
    /\ UNCHANGED <<rootVars, proc, ask, headless>>

-----------------------------------------------------------------------------
(* SvdAccountsManager *)

\* System.GetPort
GetPort(a) ==
    /\ root = "up" /\ ask[a] = "sent"
    /\ ask' = [ask EXCEPT ![a] = "answered"]
    /\ UNCHANGED <<rootVars, proc, headless, mgr, box, chan, upset>>

Take(a, m) ==
    /\ root = "up" /\ chan[a] # <<>> /\ Head(chan[a]) = m
    /\ chan' = [chan EXCEPT ![a] = Tail(@)]

\* Admin.Alive: one more entry, even if there is one.
Alive(a) ==
    /\ Take(a, "Alive")
    /\ alive' = [alive EXCEPT ![a] = @ + 1]
    /\ UNCHANGED <<root, stopping, userVars, upset>>

\* Nothing is wrong about an account that is off and has no entry.
Settle(a) ==
    upset' = [upset EXCEPT ![a] =
                IF ~Serving(a) /\ chan'[a] = <<>> THEN {} ELSE @]

DeadDropsOne(a) ==
    /\ Take(a, "Dead")
    /\ alive' = [alive EXCEPT ![a] = @ - 1]
    /\ Settle(a)
    /\ UNCHANGED <<root, stopping, userVars>>

\* Admin.Dead: filterNot drops every entry with the account's uuid.
Dead(a) ==
    /\ Take(a, "Dead")
    /\ alive' = [alive EXCEPT ![a] = 0]
    /\ Settle(a)
    /\ UNCHANGED <<root, stopping, userVars>>

\* An announcement is lost with the connection.
Lose(a) ==
    /\ chan[a] # <<>>
    /\ chan' = [chan EXCEPT ![a] = Tail(@)]
    /\ Upset(a, {"missed"})
    /\ UNCHANGED <<rootVars, userVars>>

\* The accounts manager is no more: its mailbox goes with it.
Unmanned(next) ==
    /\ root' = next
    /\ stopping' = FALSE
    /\ alive' = [a \in Account |-> 0]
    /\ chan' = [a \in Account |-> <<>>]
    /\ ask' = [a \in Account |-> IF ask[a] = "sent" THEN "lost" ELSE ask[a]]
    /\ UNCHANGED <<proc, headless, mgr, box, upset>>

\* The Terminate of RestartAccountManager arrives.
AccountsManagerStops == root = "up" /\ stopping /\ Unmanned("deaf")

RootExit == root # "down" /\ Unmanned("down")

\* SvdRootBoot creates the accounts manager, which knows nobody.
RootStart ==
    /\ root = "down"
    /\ root' = "up"
    /\ upset' = [a \in Account |-> IF Serving(a) THEN {"missed"} ELSE {}]
    /\ UNCHANGED <<stopping, alive, userVars, chan>>

-----------------------------------------------------------------------------

Next ==
    \/ \E a \in Account :
          \/ Boot(a) \/ BootConnected(a) \/ BootHeadless(a)
          \/ Exit(a) \/ RestartAccountManager(a) \/ ProcessEnds(a)
          \/ Shutdown(a) \/ Restart(a)
          \/ GetPort(a) \/ Alive(a) \/ Dead(a) \/ Lose(a)
    \/ AccountsManagerStops \/ RootExit \/ RootStart

\* Asks time out, mailboxes are served and an exit comes to its end; no
\* answer is ever owed, and no fault has to happen or to stop.
Fairness ==
    \A a \in Account :
        /\ WF_vars(BootHeadless(a))
        /\ WF_vars(Shutdown(a))
        /\ WF_vars(Alive(a) \/ Dead(a))
        /\ WF_vars(proc[a] = "exiting" /\ ProcessEnds(a))

Spec == Init /\ [][Next]_vars /\ Fairness

-----------------------------------------------------------------------------
(* Properties *)

Settled(a) == chan[a] = <<>> /\ box[a] = 0

Exact(a) == alive[a] = IF Serving(a) THEN 1 ELSE 0

\* accountsAlive has exactly one entry for each account with a manager that is
\* not headless and none for the others, once the account's announcements have
\* arrived: unless one was lost, never made or overtaken, the manager was
\* restarted, or the root process started after it.  The next Dead that
\* arrives makes up for all of that, whatever entries had piled up.
RegistryExact ==
    root = "up" => \A a \in Account : upset[a] = {} /\ Settled(a) => Exact(a)

\* A manager that the guardian restarted is known too: its preStart "registers
\* current manager in accounts manager".
RestartedIsKnown ==
    root = "up" =>
        \A a \in Account : upset[a] \subseteq {"restarted"} /\ Settled(a) /\ Serving(a)
                             => alive[a] > 0

\* A process that asks the root process for a port is not kept waiting: a
\* manager is created, connected or headless, whether or not there is a root
\* process to answer, unless the process ends first.
BootCompletes ==
    \A a \in Account :
        proc[a] = "asking" ~> (mgr[a] # "none" \/ proc[a] \in {"exiting", "down"})

\* The registry never stays wrong about an account that nothing has upset.
RegistryConverges ==
    \A a \in Account : []<>(root # "up" \/ upset[a] # {} \/ Exact(a))
=============================================================================
