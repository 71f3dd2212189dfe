------------------------------ MODULE Kickstart ------------------------------
(***************************************************************************)
(* `kick' (src/lib/kickstart/kick.cc, core.cc), the root program that      *)
(* turns itself into the svd of an account: it makes the home directory,   *)
(* drops its privileges, takes a lock on the pid file, writes its pid      *)
(* there and replaces itself by the JVM, which inherits the lock.          *)
(*                                                                         *)
(* A pid file is the name of an inode; locks and contents belong to the    *)
(* inode.  The argument of a run also names its home and its pid file:     *)
(* <home>/<argument>.pid.  `kick' without argument has a home and a pid    *)
(* file of its own, and the uid 0.                                         *)
(***************************************************************************)
EXTENDS Naturals, FiniteSets

CONSTANTS
    KkProcess,      \* runs of kick; positive numbers, their pids
    KkArgument,     \* command lines
    KkUid           \* atoi of the argument

ASSUME KkAssumption ==
    /\ KkProcess \subseteq Nat \ {0} /\ IsFiniteSet(KkProcess)
    /\ KkUid \in [KkArgument -> Nat]

VARIABLES
    kkPc,           \* where a run is
    kkArg,          \* its command line
    kkTried,        \* runs whose first execv came back
    kkFd,           \* the inode a run opened as lock file, 0 for none
    kkHome,         \* "absent", made by "root", or given to its "owner"
    kkInode,        \* the inode the pid file of an argument names, 0 for none
    kkHolder,       \* who holds the lock of an inode, 0 for nobody
    kkPid,          \* the pid an inode contains, 0 for none
    kkStarted,      \* history: arguments an svd was loaded for
    kkFault         \* history: a run was signalled, or setuid or execv failed

kkVars == <<kkPc, kkArg, kkTried, kkFd, kkHome, kkInode, kkHolder, kkPid,
            kkStarted, kkFault>>

KkInodes == 1..Cardinality(KkProcess)

KkTypeOK ==
    /\ kkPc \in [KkProcess -> {"off", "mkdir", "chown", "setuid", "open", "lock",
                               "write", "exec", "svd", "gone"}]
    /\ kkArg \in [KkProcess -> KkArgument]
    /\ kkTried \subseteq KkProcess
    /\ kkFd \in [KkProcess -> {0} \cup KkInodes]
    /\ kkHome \in [KkArgument -> {"absent", "root", "owner"}]
    /\ kkInode \in [KkArgument -> {0} \cup KkInodes]
    /\ kkHolder \in [KkInodes -> {0} \cup KkProcess]
    /\ kkPid \in [KkInodes -> {0} \cup KkProcess]
    /\ kkStarted \subseteq KkArgument
    /\ kkFault \in BOOLEAN

KkInit ==
    /\ kkPc = [p \in KkProcess |-> "off"]
    /\ kkArg \in [KkProcess -> KkArgument]
    /\ kkTried = {}
    /\ kkFd = [p \in KkProcess |-> 0]
    /\ kkHome \in [KkArgument -> {"absent", "owner"}]
    /\ kkInode = [a \in KkArgument |-> 0]
    /\ kkHolder = [i \in KkInodes |-> 0]
    /\ kkPid = [i \in KkInodes |-> 0]
    /\ kkStarted = {}
    /\ kkFault = FALSE

KkGoto(p, pc) == kkPc' = [kkPc EXCEPT ![p] = pc]

(* A process ends: the kernel drops its locks.  The file stays. *)
KkExit(p) ==
    /\ KkGoto(p, "gone")
    /\ kkHolder' = [i \in KkInodes |-> IF kkHolder[i] = p THEN 0 ELSE kkHolder[i]]

(* main: the checks of the installation, and fileExists(homeDir). *)
KkMain(p) ==
    /\ kkPc[p] = "off"
    /\ KkGoto(p, IF kkHome[kkArg[p]] = "absent" THEN "mkdir" ELSE "setuid")
    /\ UNCHANGED <<kkArg, kkTried, kkFd, kkHome, kkInode, kkHolder, kkPid, kkStarted,
                   kkFault>>

(* mkdir fails, and is not looked at, when another run was faster. *)
KkMkdir(p) ==
    /\ kkPc[p] = "mkdir"
    /\ KkGoto(p, "chown")
    /\ kkHome' = [kkHome EXCEPT ![kkArg[p]] = IF @ = "absent" THEN "root" ELSE @]
    /\ UNCHANGED <<kkArg, kkTried, kkFd, kkInode, kkHolder, kkPid, kkStarted, kkFault>>

KkChownMissing(p) ==
    /\ kkPc[p] = "chown"
    /\ KkGoto(p, "setuid")
    /\ UNCHANGED <<kkArg, kkTried, kkFd, kkHome, kkInode, kkHolder, kkPid, kkStarted,
                   kkFault>>

KkChown(p) ==
    /\ kkPc[p] = "chown"
    /\ KkGoto(p, "setuid")
    /\ kkHome' = [kkHome EXCEPT ![kkArg[p]] = "owner"]
    /\ UNCHANGED <<kkArg, kkTried, kkFd, kkInode, kkHolder, kkPid, kkStarted, kkFault>>

(* uid 0 stays root; anybody else calls setuid, and ends when it fails. *)
KkSetuid(p) ==
    /\ kkPc[p] = "setuid"
    /\ \/ /\ KkGoto(p, "open")
          /\ UNCHANGED <<kkHolder, kkFault>>
       \/ /\ KkUid[kkArg[p]] # 0
          /\ KkExit(p)
          /\ kkFault' = TRUE
    /\ UNCHANGED <<kkArg, kkTried, kkFd, kkHome, kkInode, kkPid, kkStarted>>

(* spawnBackgroundTask: open(O_RDWR | O_CREAT), which only root can do in a *)
(* home of mode 0700 that root still owns.                                   *)
KkOpen(p) ==
    LET a == kkArg[p]
        fresh == CHOOSE i \in KkInodes : \A q \in KkProcess, b \in KkArgument :
                                            kkFd[q] # i /\ kkInode[b] # i
    IN  /\ kkPc[p] = "open"
        /\ \/ /\ kkHome[a] = "root" /\ KkUid[a] # 0
              /\ KkExit(p)
              /\ UNCHANGED <<kkFd, kkInode, kkPid>>
           \/ /\ ~(kkHome[a] = "root" /\ KkUid[a] # 0)
              /\ kkInode' = [kkInode EXCEPT ![a] = IF @ = 0 THEN fresh ELSE @]
              /\ kkFd' = [kkFd EXCEPT ![p] = kkInode'[a]]
              /\ KkGoto(p, "lock")
              /\ UNCHANGED <<kkHolder, kkPid>>
        /\ UNCHANGED <<kkArg, kkTried, kkHome, kkStarted, kkFault>>

(* lockf(F_TLOCK): a lock of the process itself is granted again. *)
KkLock(p) ==
    /\ kkPc[p] = "lock"
    /\ IF kkHolder[kkFd[p]] \in {0, p}
       THEN /\ kkHolder' = [kkHolder EXCEPT ![kkFd[p]] = p]
            /\ KkGoto(p, "write")
       ELSE KkExit(p)
    /\ UNCHANGED <<kkArg, kkTried, kkFd, kkHome, kkInode, kkPid, kkStarted, kkFault>>

(* write at offset 0 without truncation: the old pid is overwritten, and a *)
(* longer one leaves digits on a line of its own behind.                    *)
KkWrite(p) ==
    /\ kkPc[p] = "write"
    /\ kkPid' = [kkPid EXCEPT ![kkFd[p]] = p]
    /\ KkGoto(p, "exec")
    /\ UNCHANGED <<kkArg, kkTried, kkFd, kkHome, kkInode, kkHolder, kkStarted, kkFault>>

(* load_svd, load_svd64: execv keeps pid and lock.  When it comes back, a   *)
(* run as root falls through to the second spawnBackgroundTask of main.      *)
KkExec(p) ==
    /\ kkPc[p] = "exec"
    /\ \/ /\ KkGoto(p, "svd")
          /\ kkStarted' = kkStarted \cup {kkArg[p]}
          /\ UNCHANGED <<kkTried, kkHolder, kkFault>>
       \/ /\ kkFault' = TRUE
          /\ IF KkUid[kkArg[p]] = 0 /\ p \notin kkTried
             THEN /\ KkGoto(p, "open")
                  /\ kkTried' = kkTried \cup {p}
                  /\ UNCHANGED kkHolder
             ELSE /\ KkExit(p)
                  /\ UNCHANGED kkTried
          /\ UNCHANGED kkStarted
    /\ UNCHANGED <<kkArg, kkFd, kkHome, kkInode, kkPid>>

KkSignalUnlinksPidFile(p) ==
    /\ kkPc[p] \notin {"off", "svd", "gone"}
    /\ KkExit(p)
    /\ kkInode' = [kkInode EXCEPT ![kkArg[p]] = 0]
    /\ kkFault' = TRUE
    /\ UNCHANGED <<kkArg, kkTried, kkFd, kkHome, kkPid, kkStarted>>

(* defaultSignalHandler unlinks LOCK_FILE, svd-core.lock in the working     *)
(* directory, which is not the pid file, and exits.                          *)
KkSignal(p) ==
    /\ kkPc[p] \notin {"off", "svd", "gone"}
    /\ KkExit(p)
    /\ kkFault' = TRUE
    /\ UNCHANGED <<kkArg, kkTried, kkFd, kkHome, kkInode, kkPid, kkStarted>>

(* The JVM ends (external). *)
KkSvdEnds(p) ==
    /\ kkPc[p] = "svd"
    /\ KkExit(p)
    /\ UNCHANGED <<kkArg, kkTried, kkFd, kkHome, kkInode, kkPid, kkStarted, kkFault>>

KkStep(p) ==
    \/ KkMain(p) \/ KkMkdir(p) \/ KkChown(p) \/ KkSetuid(p) \/ KkOpen(p)
    \/ KkLock(p) \/ KkWrite(p) \/ KkExec(p)

KkNext == \E p \in KkProcess : KkStep(p) \/ KkSignal(p) \/ KkSvdEnds(p)

KkSpec == KkInit /\ [][KkNext]_kkVars /\ \A p \in KkProcess : WF_kkVars(KkStep(p))

-----------------------------------------------------------------------------
(* `Cannot lock! Already spawned?' and `first instance continues'           *)
(* (core.cc:158, 162): of the runs with one command line, started, signalled *)
(* and dying in any order, at most one is an svd, and the pid file names it. *)
KkOneSvd ==
    \A p \in KkProcess : kkPc[p] = "svd" =>
        /\ \A q \in KkProcess \ {p} : ~(kkPc[q] = "svd" /\ kkArg[q] = kkArg[p])
        /\ kkInode[kkArg[p]] # 0
        /\ kkPid[kkInode[kkArg[p]]] = p

(* Runs of kick that race for the home directory and the lock do not defeat *)
(* each other: an account somebody kicks gets its svd, unless a run was      *)
(* killed or setuid or execv failed.  (A run killed between mkdir and chown  *)
(* leaves a home its user cannot open: kick.cc:75-77.)                        *)
KkSomebodyStarts ==
    \A a \in KkArgument :
        (\E p \in KkProcess : kkArg[p] = a /\ kkPc[p] # "off") ~> (a \in kkStarted \/ kkFault)
=============================================================================
