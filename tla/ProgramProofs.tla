---------------------------- MODULE ProgramProofs ----------------------------
(***************************************************************************)
(* The programs and managers that share files or memory: kick starts one   *)
(* svd per account, the git manager's records agree with the disk and its  *)
(* answers with what it did, a log record carries the context of its own   *)
(* thread, and notification files are not lost; for every number of runs,  *)
(* arguments, repositories, names, keys, threads, records, programs, files *)
(* and limits.                                                             *)
(***************************************************************************)
EXTENDS Kickstart, GitManager, Logger, NotificationFiles, FiniteSetTheorems,
        FunctionTheorems, SequenceTheorems, TLAPS

-----------------------------------------------------------------------------
(* Kickstart *)

(* One of N numbers is not among the values of N processes when a process    *)
(* has the value 0.                                                          *)
LEMMA SpareNumber ==
    ASSUME NEW S, IsFiniteSet(S), NEW f \in [S -> {0} \cup 1..Cardinality(S)],
           NEW p \in S, f[p] = 0
    PROVE  \E i \in 1..Cardinality(S) : \A q \in S : f[q] # i
  <1> DEFINE N == Cardinality(S)
             g == [i \in 1..N |-> CHOOSE q \in S : f[q] = i]
  <1>1. SUFFICES ASSUME \A i \in 1..N : \E q \in S : f[q] = i PROVE FALSE
    OBVIOUS
  <1>2. N \in Nat /\ IsFiniteSet(1..N) /\ Cardinality(1..N) = N
    BY FS_CardinalityType, FS_Interval
  <1>3. IsFiniteSet(S \ {p}) /\ Cardinality(S \ {p}) = N - 1
    BY FS_RemoveElement
  <1>4. \A i \in 1..N : g[i] \in S /\ f[g[i]] = i
    BY <1>1
  <1>5. \A i \in 1..N : i # 0
    BY <1>2
  <1>6. g \in [1..N -> S \ {p}]
    BY <1>4, <1>5
  <1>7. N - 1 < N
    BY <1>2
  <1> HIDE DEF g, N
  <1>8. \E i, j \in 1..N : i # j /\ g[i] = g[j]
    BY <1>2, <1>3, <1>6, <1>7, FS_PigeonHole
  <1> QED
    BY <1>4, <1>8

(* A run names the inode it has open by its argument; the inodes of           *)
(* different pid files differ, and each was made by a run that has it open.  *)
KkFiles ==
    /\ \A q \in KkProcess : kkFd[q] # 0 => kkInode[kkArg[q]] = kkFd[q]
    /\ \A a, b \in KkArgument : kkInode[a] # 0 /\ kkInode[a] = kkInode[b] => a = b
    /\ \A a \in KkArgument : kkInode[a] # 0 => \E q \in KkProcess : kkFd[q] = kkInode[a]

(* Past the lock a run is the holder of it, and past the write its pid is in  *)
(* the file, until the run ends.                                              *)
KkHolds(p) ==
    /\ kkPc[p] \in {"lock", "write", "exec", "svd"} => kkFd[p] # 0
    /\ kkPc[p] \in {"write", "exec", "svd"} => kkHolder[kkFd[p]] = p
    /\ kkPc[p] \in {"exec", "svd"} => kkPid[kkFd[p]] = p

KkIInv == KkTypeOK /\ KkFiles /\ \A p \in KkProcess : KkHolds(p)

(* Nothing is open, held or written when no run has begun. *)
LEMMA KkInitIInv == KkInit => KkIInv
  BY DEF KkInit, KkIInv, KkTypeOK, KkFiles, KkHolds

(* A run that ends gives up its own lock and no other. *)
LEMMA KkExitKeepsIInv ==
    ASSUME KkIInv, NEW p \in KkProcess, KkExit(p), kkFault' \in BOOLEAN,
           UNCHANGED <<kkArg, kkTried, kkFd, kkHome, kkInode, kkPid, kkStarted>>
    PROVE  KkIInv'
  BY KkAssumption DEF KkIInv, KkTypeOK, KkFiles, KkHolds, KkExit, KkGoto

(* The inode open() makes is a new one. *)
LEMMA KkFreshInode ==
    ASSUME KkIInv, NEW p \in KkProcess, kkPc[p] = "open", kkInode[kkArg[p]] = 0
    PROVE  \E i \in KkInodes : \A q \in KkProcess, b \in KkArgument :
                                    kkFd[q] # i /\ kkInode[b] # i
  <1>1. kkFd[p] = 0
    BY DEF KkIInv, KkFiles
  <1>2. PICK i \in KkInodes : \A q \in KkProcess : kkFd[q] # i
    <2>1. kkFd \in [KkProcess -> {0} \cup 1..Cardinality(KkProcess)]
      BY DEF KkIInv, KkTypeOK, KkInodes
    <2>2. IsFiniteSet(KkProcess)
      BY KkAssumption
    <2>3. \E i \in 1..Cardinality(KkProcess) : \A q \in KkProcess : kkFd[q] # i
      BY <1>1, <2>1, <2>2, SpareNumber, Zenon
    <2> QED
      BY <2>3 DEF KkInodes
  <1>3. i # 0
    BY KkAssumption, FS_CardinalityType DEF KkInodes
  <1>4. \A b \in KkArgument : kkInode[b] # i
    BY <1>2, <1>3 DEF KkIInv, KkFiles
  <1> QED
    BY <1>2, <1>4

(* open() gives the run the inode its pid file names from then on, or ends it. *)
LEMMA KkOpenKeepsIInv ==
    ASSUME KkIInv, NEW p \in KkProcess, KkOpen(p)
    PROVE  KkIInv'
  <1> DEFINE a == kkArg[p]
             fresh == CHOOSE i \in KkInodes : \A q \in KkProcess, b \in KkArgument :
                                                kkFd[q] # i /\ kkInode[b] # i
             new == IF kkInode[a] = 0 THEN fresh ELSE kkInode[a]
  <1>1. CASE kkHome[a] = "root" /\ KkUid[a] # 0
    BY <1>1, KkExitKeepsIInv DEF KkOpen, KkIInv, KkTypeOK
  <1>2. CASE ~(kkHome[a] = "root" /\ KkUid[a] # 0)
    <2>1. /\ kkPc[p] = "open"
          /\ kkInode' = [kkInode EXCEPT ![a] = new]
          /\ kkFd' = [kkFd EXCEPT ![p] = kkInode'[a]]
          /\ kkPc' = [kkPc EXCEPT ![p] = "lock"]
          /\ UNCHANGED <<kkArg, kkTried, kkHome, kkHolder, kkPid, kkStarted, kkFault>>
      BY <1>2 DEF KkOpen, KkGoto
    <2>2. a \in KkArgument /\ \A i \in KkInodes : i # 0
      BY KkAssumption, FS_CardinalityType DEF KkIInv, KkTypeOK, KkInodes
    <2>3. kkInode[a] = 0 =>
            /\ fresh \in KkInodes
            /\ \A q \in KkProcess, b \in KkArgument : kkFd[q] # fresh /\ kkInode[b] # fresh
      BY <2>1, KkFreshInode
    <2>4. /\ new \in KkInodes /\ new # 0
          /\ kkInode[a] # 0 => new = kkInode[a]
          /\ kkInode[a] = 0 =>
                \A q \in KkProcess, b \in KkArgument : kkFd[q] # new /\ kkInode[b] # new
      BY <2>2, <2>3 DEF KkIInv, KkTypeOK
    <2> HIDE DEF a, new
    <2>5. /\ kkInode' = [kkInode EXCEPT ![a] = new]
          /\ kkFd' = [kkFd EXCEPT ![p] = new]
      BY <2>1, <2>2 DEF KkIInv, KkTypeOK
    <2>6. KkTypeOK'
      BY <2>1, <2>2, <2>4, <2>5 DEF KkIInv, KkTypeOK
    <2>7. KkFiles'
      BY <2>1, <2>2, <2>4, <2>5 DEF KkIInv, KkTypeOK, KkFiles, a
    <2>8. \A q \in KkProcess : KkHolds(q)'
      BY <2>1, <2>2, <2>4, <2>5 DEF KkIInv, KkTypeOK, KkHolds
    <2> QED
      BY <2>6, <2>7, <2>8 DEF KkIInv
  <1> QED
    BY <1>1, <1>2

(* One case per step of kick; those that end a run are one lemma. *)
LEMMA KkNextKeepsIInv == KkIInv /\ [KkNext]_kkVars => KkIInv'
  <1> SUFFICES ASSUME KkIInv, [KkNext]_kkVars PROVE KkIInv'
    OBVIOUS
  <1>1. CASE UNCHANGED kkVars
    BY <1>1 DEF kkVars, KkIInv, KkTypeOK, KkFiles, KkHolds
  <1>2. ASSUME NEW p \in KkProcess, KkStep(p) \/ KkSignal(p) \/ KkSvdEnds(p)
        PROVE  KkIInv'
    <2>1. CASE KkMain(p) \/ KkMkdir(p) \/ KkChown(p)
      BY <2>1 DEF KkMain, KkMkdir, KkChown, KkGoto, KkIInv, KkTypeOK, KkFiles, KkHolds
    <2>2. CASE KkSetuid(p)
      <3>1. CASE KkExit(p)
        BY <2>2, <3>1, KkExitKeepsIInv DEF KkSetuid, KkIInv, KkTypeOK
      <3>2. CASE ~KkExit(p)
        BY <2>2, <3>2 DEF KkSetuid, KkGoto, KkIInv, KkTypeOK, KkFiles, KkHolds
      <3> QED
        BY <3>1, <3>2
    <2>3. CASE KkOpen(p)
      BY <2>3, KkOpenKeepsIInv
    <2>4. CASE KkLock(p)
      <3>1. CASE kkHolder[kkFd[p]] \notin {0, p}
        <4>1. KkExit(p)
          BY <2>4, <3>1 DEF KkLock
        <4> QED
          BY <2>4, <4>1, KkExitKeepsIInv DEF KkLock, KkIInv, KkTypeOK
      <3>2. CASE kkHolder[kkFd[p]] \in {0, p}
        <4>1. /\ kkPc[p] = "lock"
              /\ kkHolder' = [kkHolder EXCEPT ![kkFd[p]] = p]
              /\ kkPc' = [kkPc EXCEPT ![p] = "write"]
              /\ UNCHANGED <<kkArg, kkTried, kkFd, kkHome, kkInode, kkPid, kkStarted, kkFault>>
          BY <2>4, <3>2 DEF KkLock, KkGoto
        <4>2. KkTypeOK' /\ KkFiles'
          BY <4>1 DEF KkIInv, KkTypeOK, KkFiles
        <4>3. \A q \in KkProcess : KkHolds(q)'
          BY <4>1, <3>2, KkAssumption DEF KkIInv, KkTypeOK, KkHolds
        <4> QED
          BY <4>2, <4>3 DEF KkIInv
      <3> QED
        BY <3>1, <3>2
    <2>5. CASE KkWrite(p)
      BY <2>5 DEF KkWrite, KkGoto, KkIInv, KkTypeOK, KkFiles, KkHolds
    <2>6. CASE KkExec(p)
      <3>1. kkPc[p] = "exec" /\ UNCHANGED <<kkArg, kkFd, kkHome, kkInode, kkPid>>
        BY <2>6 DEF KkExec
      <3>2. CASE KkExit(p) /\ kkFault' = TRUE /\ UNCHANGED <<kkTried, kkStarted>>
        BY <3>1, <3>2, KkExitKeepsIInv
      <3>3. CASE /\ kkPc' = [kkPc EXCEPT ![p] = "svd"]
                 /\ kkStarted' = kkStarted \cup {kkArg[p]}
                 /\ UNCHANGED <<kkTried, kkHolder, kkFault>>
        BY <3>1, <3>3 DEF KkIInv, KkTypeOK, KkFiles, KkHolds
      <3>4. CASE /\ kkPc' = [kkPc EXCEPT ![p] = "open"]
                 /\ kkTried' = kkTried \cup {p}
                 /\ kkFault' = TRUE
                 /\ UNCHANGED <<kkHolder, kkStarted>>
        BY <3>1, <3>4 DEF KkIInv, KkTypeOK, KkFiles, KkHolds
      <3> QED
        BY <2>6, <3>2, <3>3, <3>4 DEF KkExec, KkGoto
    <2>7. CASE KkSignal(p)
      BY <2>7, KkExitKeepsIInv DEF KkSignal, KkIInv, KkTypeOK
    <2>8. CASE KkSvdEnds(p)
      BY <2>8, KkExitKeepsIInv DEF KkSvdEnds, KkIInv, KkTypeOK
    <2> QED
      BY <1>2, <2>1, <2>2, <2>3, <2>4, <2>5, <2>6, <2>7, <2>8 DEF KkStep
  <1> QED
    BY <1>1, <1>2 DEF KkNext

(* KkOneSvd: of the runs of kick with one command line at most one is an svd, *)
(* and the pid file names it (core.cc, kick.cc).  Two of them would hold the   *)
(* lock of the same inode, because the pid file is never replaced.             *)
THEOREM KkOneSvdPerAccount == KkSpec => []KkOneSvd
  <1>1. KkIInv => KkOneSvd
    BY DEF KkIInv, KkTypeOK, KkFiles, KkHolds, KkOneSvd
  <1> QED
    BY KkInitIInv, KkNextKeepsIInv, <1>1, PTL DEF KkSpec

-----------------------------------------------------------------------------
(* GitManager *)

(* What holds between the two halves of a request: the name a creation is    *)
(* at has its directory and no record yet, and the one a removal is at has   *)
(* no record any more, so that no other request can have taken it.           *)
GmHalfway ==
    /\ gmPc = "made" =>
          /\ gmJob \in GmName
          /\ \A u \in GmUuid : gmRepo[u] # gmJob
          /\ gmByHand \/ gmJob \in gmDirs
    /\ gmPc = "forgotten" =>
          /\ gmJob \in GmName
          /\ \A u \in GmUuid : gmRepo[u] # gmJob

GmIInv == GmTypeOK /\ GmConsistent /\ GmHalfway

(* There is no record, no directory and no answer at first. *)
LEMMA GmInitIInv == GmInit => GmIInv
  <1> SUFFICES ASSUME GmInit PROVE GmIInv
    OBVIOUS
  <1> USE DEF GmInit
  <1>1. GmTypeOK
    <2>1. \A i \in 1..Len(gmReplies) :
              gmReplies[i] \in {"success", "repository", "exists", "missing"}
      BY EmptySeq
    <2> QED
      BY <2>1 DEF GmTypeOK
  <1>2. GmConsistent
    BY DEF GmConsistent, GmRecordedOnDisk, GmFirstAnswerTrue
  <1> QED
    BY <1>1, <1>2 DEF GmIInv, GmHalfway

(* A handler that throws changes no record and no directory. *)
LEMMA GmThrowKeepsIInv ==
    ASSUME GmIInv, gmPc = "ready", GmThrow, UNCHANGED gmByHand
    PROVE  GmIInv'
  <1>1. \A i \in 1..Len(gmReplies') :
            gmReplies'[i] \in {"success", "repository", "exists", "missing"}
    BY EmptySeq DEF GmThrow, GmAnswer
  <1> QED
    BY <1>1 DEF GmIInv, GmThrow, GmAnswer, GmTypeOK, GmConsistent, GmRecordedOnDisk,
                GmFirstAnswerTrue, GmHalfway

(* One case per handler; a throw in any of them is the lemma above. *)
LEMMA GmNextKeepsIInv == GmIInv /\ [GmNext]_gmVars => GmIInv'
  <1> SUFFICES ASSUME GmIInv, [GmNext]_gmVars PROVE GmIInv'
    OBVIOUS
  <1> USE GmAssumption DEF GmIInv, GmAnswer, GmTypeOK, GmConsistent,
            GmRecordedOnDisk, GmFirstAnswerTrue, GmHalfway
  <1>1. ASSUME NEW name \in GmName, GmCreate(name) PROVE GmIInv'
    <2>1. CASE GmThrow
      BY <1>1, <2>1, GmThrowKeepsIInv DEF GmCreate
    <2>2. CASE ~GmThrow
      BY <1>1, <2>2 DEF GmCreate
    <2> QED
      BY <2>1, <2>2
  <1>2. ASSUME NEW name \in GmName, GmDeletedByHand(name) PROVE GmIInv'
    BY <1>2 DEF GmDeletedByHand
  <1>3. ASSUME NEW u \in GmUuid, GmCreated(u) PROVE GmIInv'
    BY <1>3 DEF GmCreated
  <1>4. ASSUME NEW u \in GmUuid, GmRemove(u) PROVE GmIInv'
    <2>1. CASE GmThrow
      BY <1>4, <2>1, GmThrowKeepsIInv DEF GmRemove
    <2>2. CASE ~GmThrow
      BY <1>4, <2>2 DEF GmRemove
    <2> QED
      BY <2>1, <2>2
  <1>5. ASSUME NEW u \in GmUuid, NEW keys \in SUBSET GmKey, GmStoreKeys(u, keys)
        PROVE  GmIInv'
    <2>1. CASE GmThrow
      BY <1>5, <2>1, GmThrowKeepsIInv DEF GmStoreKeys
    <2>2. CASE ~GmThrow
      BY <1>5, <2>2 DEF GmStoreKeys
    <2> QED
      BY <2>1, <2>2
  <1>6. CASE GmRemoved
    BY <1>6 DEF GmRemoved
  <1>7. CASE GmKilled
    BY <1>7 DEF GmKilled
  <1>8. CASE GmPreStart
    BY <1>8 DEF GmPreStart
  <1>9. CASE UNCHANGED gmVars
    BY <1>9 DEF gmVars
  <1>10. ASSUME NEW u \in GmUuid, NEW k \in GmKey, GmAddKey(u, k) \/ GmRemoveKey(u, k)
         PROVE  GmIInv'
    BY <1>5, <1>10 DEF GmAddKey, GmRemoveKey
  <1> QED
    BY <1>1, <1>2, <1>3, <1>4, <1>6, <1>7, <1>8, <1>9, <1>10 DEF GmNext

(* GmConsistent: killed between any two steps, the git manager has no record  *)
(* without its directory and no two records of one name, and the first answer  *)
(* to a request is true (SvdGitManager.scala).                                  *)
THEOREM GmAlwaysConsistent == GmSpec => []GmConsistent
  <1>1. GmIInv => GmConsistent
    BY DEF GmIInv
  <1> QED
    BY GmInitIInv, GmNextKeepsIInv, <1>1, PTL DEF GmSpec

-----------------------------------------------------------------------------
(* Logger *)

(* The threads that got a device. *)
LgSeers == {t \in LgThread : lgSees[t] # 0}

(* The pointer is the device made last, and there are no more of them than   *)
(* threads that have one: a thread makes at most one.                         *)
LgPointer ==
    /\ lgDevice = lgMade
    /\ lgMade <= Cardinality(LgSeers)
    /\ \A t \in LgThread : lgSees[t] <= lgMade

(* Where a thread is, and what it got for it. *)
LgPlace(t) ==
    /\ lgPc[t] = "create" => lgSees[t] = 0
    /\ lgPc[t] \in {"lock", "stream"} => lgSees[t] # 0
    /\ lgPc[t] \in {"create", "lock", "stream"} => lgDone[t] < LgRecords
    /\ lgPc[t] = "stream" => lgPieces[t] # 0

(* As long as every record was flushed whole, a device on which a record is  *)
(* being streamed has no place left, and none has more than one.              *)
LgWhole ==
    lgSplit = FALSE =>
        /\ \A d \in LgDevices : lgSem[d] <= 1
        /\ \A t \in LgThread :
              lgPc[t] = "stream" => lgPieces[t] = 1 /\ lgSem[lgSees[t]] = 0

LgIInv == LgTypeOK /\ LgRightContext /\ LgPointer /\ (\A t \in LgThread : LgPlace(t)) /\ LgWhole

(* There are finitely many of them. *)
LEMMA LgSeersFinite ==
    /\ IsFiniteSet(LgSeers) /\ Cardinality(LgSeers) \in Nat
    /\ Cardinality(LgSeers) <= Cardinality(LgThread)
  <1>1. LgSeers \in SUBSET LgThread
    BY DEF LgSeers
  <1>2. IsFiniteSet(LgThread)
    BY LgAssumption
  <1> QED
    BY <1>1, <1>2, FS_Subset, FS_CardinalityType

(* No device is made, and nobody streams. *)
LEMMA LgInitIInv == LgInit => LgIInv
  <1> SUFFICES ASSUME LgInit PROVE LgIInv
    OBVIOUS
  <1>1. Cardinality(LgThread) \in Nat /\ LgRecords \in Nat
    BY LgAssumption, FS_CardinalityType
  <1>2. \A d \in LgDevices : (CHOOSE t \in LgThread : TRUE) \in LgThread
    <2> SUFFICES ASSUME NEW d \in LgDevices PROVE \E t \in LgThread : TRUE
      OBVIOUS
    <2>1. Cardinality(LgThread) # 0
      BY <1>1 DEF LgDevices
    <2> QED
      BY <2>1, FS_EmptySet
  <1>3. LgTypeOK
    <2> DEFINE anybody == CHOOSE t \in LgThread : TRUE
    <2>1. lgContext = [d \in LgDevices |-> anybody] /\ \A d \in LgDevices : anybody \in LgThread
      BY <1>2 DEF LgInit
    <2> HIDE DEF anybody
    <2>2. lgContext \in [LgDevices -> LgThread]
      BY <2>1
    <2>3. lgSem \in [LgDevices -> Nat] /\ lgDone \in [LgThread -> 0..LgRecords]
      BY <1>1 DEF LgInit
    <2>4. lgPc \in [LgThread -> {"idle", "create", "lock", "stream", "end"}]
      BY DEF LgInit
    <2>5. /\ lgSees \in [LgThread -> {0} \cup LgDevices]
          /\ lgPieces \in [LgThread -> 0..2]
      BY DEF LgInit
    <2>6. /\ lgDevice \in {0} \cup LgDevices /\ lgMade \in {0} \cup LgDevices
          /\ lgWrong \subseteq LgThread /\ lgSplit \in BOOLEAN
      BY DEF LgInit
    <2> QED
      BY <2>2, <2>3, <2>4, <2>5, <2>6 DEF LgTypeOK
  <1>4. LgSeers = {}
    BY DEF LgInit, LgSeers
  <1>5. LgPointer
    BY <1>4, FS_EmptySet DEF LgInit, LgPointer
  <1> QED
    BY <1>3, <1>5 DEF LgInit, LgIInv, LgRightContext, LgPlace, LgWhole

(* The pointer is read: a thread that had a device gets one again. *)
LEMMA LgLogDeviceKeepsIInv ==
    ASSUME LgIInv, NEW t \in LgThread, LgLogDevice(t)
    PROVE  LgIInv'
  <1> USE DEF LgLogDevice
  <1>1. Cardinality(LgThread) \in Nat /\ LgRecords \in Nat
    BY LgAssumption, FS_CardinalityType
  <1>2. LgTypeOK'
    BY DEF LgIInv, LgTypeOK
  <1>3. LgSeers \in SUBSET LgSeers'
    BY <1>1 DEF LgIInv, LgTypeOK, LgPointer, LgSeers, LgDevices
  <1>4. IsFiniteSet(LgSeers')
    <2>1. LgSeers' \in SUBSET LgThread
      BY DEF LgSeers
    <2> QED
      BY <2>1, LgAssumption, FS_Subset
  <1>5. Cardinality(LgSeers) <= Cardinality(LgSeers') /\ Cardinality(LgSeers') \in Nat
    BY <1>3, <1>4, FS_Subset, FS_CardinalityType
  <1>6. LgPointer'
    BY <1>1, <1>5, LgSeersFinite DEF LgIInv, LgTypeOK, LgPointer, LgDevices
  <1>7. \A u \in LgThread : LgPlace(u)'
    BY DEF LgIInv, LgTypeOK, LgPlace
  <1>8. LgRightContext' /\ LgWhole'
    BY DEF LgIInv, LgTypeOK, LgRightContext, LgWhole
  <1> QED
    BY <1>2, <1>6, <1>7, <1>8 DEF LgIInv

(* A device more, and a thread more that has one. *)
LEMMA LgCreateKeepsIInv ==
    ASSUME LgIInv, NEW t \in LgThread, LgCreate(t)
    PROVE  LgIInv'
  <1> USE DEF LgCreate
  <1>1. Cardinality(LgThread) \in Nat /\ LgRecords \in Nat
    BY LgAssumption, FS_CardinalityType
  <1>2. lgMade \in Nat /\ lgSees[t] = 0
    BY <1>1 DEF LgIInv, LgTypeOK, LgDevices, LgPlace
  <1>3. LgSeers' = LgSeers \cup {t} /\ t \notin LgSeers
    BY <1>2 DEF LgIInv, LgTypeOK, LgSeers
  <1>4. Cardinality(LgSeers') = Cardinality(LgSeers) + 1
    BY <1>3, LgSeersFinite, FS_AddElement
  <1>5. Cardinality(LgSeers') <= Cardinality(LgThread)
    <2>1. LgSeers' \in SUBSET LgThread
      BY DEF LgSeers
    <2> QED
      BY <2>1, LgAssumption, FS_Subset
  <1>6. lgMade + 1 \in LgDevices /\ lgMade + 1 <= Cardinality(LgSeers')
    BY <1>1, <1>2, <1>4, <1>5, LgSeersFinite DEF LgIInv, LgPointer, LgDevices
  <1>7. LgTypeOK'
    BY <1>6 DEF LgIInv, LgTypeOK
  <1>8. LgPointer'
    BY <1>1, <1>2, <1>6 DEF LgIInv, LgTypeOK, LgPointer, LgDevices
  <1>9. \A u \in LgThread : LgPlace(u)'
    BY <1>2 DEF LgIInv, LgTypeOK, LgPlace
  <1>10. LgRightContext' /\ LgWhole'
    BY DEF LgIInv, LgTypeOK, LgRightContext, LgWhole
  <1> QED
    BY <1>7, <1>8, <1>9, <1>10 DEF LgIInv

(* The place that is taken says that nobody streams on this device. *)
LEMMA LgLockKeepsIInv ==
    ASSUME LgIInv, NEW t \in LgThread, NEW pieces \in 1..2, LgLock(t, pieces)
    PROVE  LgIInv'
  <1> USE DEF LgLock
  <1>1. lgSees[t] \in LgDevices
    BY DEF LgIInv, LgTypeOK, LgPlace
  <1>2. LgTypeOK'
    BY <1>1 DEF LgIInv, LgTypeOK
  <1>3. LgPointer'
    BY DEF LgIInv, LgPointer, LgSeers
  <1>4. \A u \in LgThread : LgPlace(u)'
    BY DEF LgIInv, LgTypeOK, LgPlace
  <1>5. CASE lgSplit' = TRUE
    BY <1>2, <1>3, <1>4, <1>5 DEF LgIInv, LgRightContext, LgWhole
  <1>6. CASE lgSplit' = FALSE
    <2>1. lgSplit = FALSE /\ pieces = 1
      <3>1. ~lgSplit /\ ~(pieces > 1)
        BY <1>6, Zenon
      <3> QED
        BY <3>1 DEF LgIInv, LgTypeOK
    <2>2. \A u \in LgThread : lgPc[u] = "stream" => lgSees[u] # lgSees[t]
      BY <2>1 DEF LgIInv, LgWhole
    <2>3. LgRightContext'
      BY <1>1, <2>1, <2>2 DEF LgIInv, LgTypeOK, LgRightContext
    <2>4. LgWhole'
      BY <1>1, <2>1, <2>2 DEF LgIInv, LgTypeOK, LgWhole
    <2> QED
      BY <1>2, <1>3, <1>4, <2>3, <2>4 DEF LgIInv
  <1> QED
    BY <1>2, <1>5, <1>6 DEF LgTypeOK

(* An empty record takes the place and leaves it taken. *)
LEMMA LgEmptyKeepsIInv ==
    ASSUME LgIInv, NEW t \in LgThread, LgEmpty(t)
    PROVE  LgIInv'
  <1> USE DEF LgEmpty
  <1>1. lgSees[t] \in LgDevices /\ lgDone[t] \in 0..(LgRecords - 1)
    BY LgAssumption DEF LgIInv, LgTypeOK, LgPlace
  <1>2. LgTypeOK'
    BY <1>1, LgAssumption DEF LgIInv, LgTypeOK
  <1>3. LgPointer'
    BY DEF LgIInv, LgPointer, LgSeers
  <1>4. \A u \in LgThread : LgPlace(u)'
    BY <1>1 DEF LgIInv, LgTypeOK, LgPlace
  <1>5. CASE lgSplit = TRUE
    BY <1>2, <1>3, <1>4, <1>5 DEF LgIInv, LgRightContext, LgWhole
  <1>6. CASE lgSplit = FALSE
    <2>1. \A u \in LgThread : lgPc[u] = "stream" => lgSees[u] # lgSees[t]
      BY <1>6 DEF LgIInv, LgWhole
    <2>2. LgRightContext'
      BY <1>1, <1>6, <2>1 DEF LgIInv, LgTypeOK, LgRightContext
    <2>3. LgWhole'
      BY <1>1, <1>6, <2>1 DEF LgIInv, LgTypeOK, LgWhole
    <2> QED
      BY <1>2, <1>3, <1>4, <2>2, <2>3 DEF LgIInv
  <1> QED
    BY <1>2, <1>5, <1>6 DEF LgIInv, LgTypeOK

(* The place is given back by the only one that streams on the device. *)
LEMMA LgWriteDataKeepsIInv ==
    ASSUME LgIInv, NEW t \in LgThread, LgWriteData(t)
    PROVE  LgIInv'
  <1> USE DEF LgWriteData
  <1>1. lgSees[t] \in LgDevices /\ lgPieces[t] \in 1..2 /\ lgDone[t] \in 0..(LgRecords - 1)
    BY LgAssumption DEF LgIInv, LgTypeOK, LgPlace
  <1>2. LgTypeOK'
    BY <1>1, LgAssumption DEF LgIInv, LgTypeOK
  <1>3. LgPointer'
    BY DEF LgIInv, LgPointer, LgSeers
  <1>4. \A u \in LgThread : LgPlace(u)'
    BY <1>1 DEF LgIInv, LgTypeOK, LgPlace
  <1>5. CASE lgSplit = TRUE
    BY <1>2, <1>3, <1>4, <1>5 DEF LgIInv, LgRightContext, LgWhole
  <1>6. CASE lgSplit = FALSE
    <2>1. lgPieces[t] = 1 /\ lgWrong = {} /\ lgContext[lgSees[t]] = t
      BY <1>6 DEF LgIInv, LgWhole, LgRightContext
    <2>2. \A u \in LgThread \ {t} : lgPc[u] = "stream" => lgSees[u] # lgSees[t]
      BY <1>6 DEF LgIInv, LgRightContext
    <2>3. LgRightContext'
      BY <1>6, <2>1 DEF LgIInv, LgTypeOK, LgRightContext
    <2>4. LgWhole'
      BY <1>1, <1>6, <2>1, <2>2 DEF LgIInv, LgTypeOK, LgWhole
    <2> QED
      BY <1>2, <1>3, <1>4, <2>3, <2>4 DEF LgIInv
  <1> QED
    BY <1>2, <1>5, <1>6 DEF LgIInv, LgTypeOK

(* A fatal record ends all threads; the other steps are the lemmas above. *)
LEMMA LgNextKeepsIInv == LgIInv /\ [LgNext]_lgVars => LgIInv'
  <1> SUFFICES ASSUME LgIInv, [LgNext]_lgVars PROVE LgIInv'
    OBVIOUS
  <1>1. CASE UNCHANGED lgVars
    BY <1>1 DEF lgVars, LgIInv, LgTypeOK, LgRightContext, LgPointer, LgSeers, LgPlace, LgWhole
  <1>2. ASSUME NEW t \in LgThread, LgFatal(t) PROVE LgIInv'
    BY <1>2 DEF LgFatal, LgIInv, LgTypeOK, LgRightContext, LgPointer, LgSeers, LgPlace, LgWhole
  <1> QED
    BY <1>1, <1>2, LgLogDeviceKeepsIInv, LgCreateKeepsIInv, LgLockKeepsIInv, LgEmptyKeepsIInv,
       LgWriteDataKeepsIInv DEF LgNext

(* LgRightContext: as long as no record was flushed in pieces, every record    *)
(* carries the context of its thread and a thread that streams has its device  *)
(* to itself, however many devices a race of logDevice() made (Logger.cpp).    *)
THEOREM LgContextIsRight == LgSpec => []LgRightContext
  <1>1. LgIInv => LgRightContext
    BY DEF LgIInv
  <1> QED
    BY LgInitIInv, LgNextKeepsIInv, <1>1, PTL DEF LgSpec

-----------------------------------------------------------------------------
(* NotificationFiles *)

(* What no program is about to delete. *)
NtSpared == NtIn(ntHistory) \ NtDoomed

(* Ahead of every file about to be deleted there are enough that are not. *)
NtGuarded(dir, D) ==
    \A f \in NtIn(dir) \cap D :
        Cardinality({g \in NtIn(dir) \ D : NtNewer(dir, g, f)}) > NtKeep

(* A loop has an item to treat, and treats files that were written. *)
NtBusy(p) ==
    /\ ntPc[p] \in {"copy", "remove"} =>
        ntTodo[p] # <<>> /\ \A i \in 1..Len(ntTodo[p]) : ntTodo[p][i] \in ntWritten
    /\ ntPc[p] = "prune" => ntTodo[p] # <<>>

NtShape ==
    /\ NtTypeOK
    /\ NtIn(ntCurrent) \subseteq ntWritten
    /\ \A p \in NtProgram : NtBusy(p)

(* A program is about to remove what is in the history, or was pruned from it. *)
NtMoved(p) ==
    ntPc[p] = "remove" => ntHistory[Head(ntTodo[p])] # 0 \/ Head(ntTodo[p]) \in ntPruned

NtSafe ==
    /\ NtGuarded(ntHistory, NtDoomed)
    /\ ntWritten \subseteq NtIn(ntCurrent) \cup NtIn(ntHistory) \cup ntPruned
    /\ \A p \in NtProgram : NtMoved(p)

NtIInv == NtShape /\ (~ntCopyFailed /\ ~ntOutdated => NtSafe)

-----------------------------------------------------------------------------
NtDirs == [NtFile -> Nat]

\* The order of a listing is total.
LEMMA NtOrder ==
    ASSUME NEW dir \in NtDirs, NEW f \in NtFile, NEW g \in NtFile, NEW h \in NtFile
    PROVE  /\ ~NtNewer(dir, f, f)
           /\ NtNewer(dir, f, g) => ~NtNewer(dir, g, f)
           /\ NtNewer(dir, f, g) /\ NtNewer(dir, g, h) => NtNewer(dir, f, h)
           /\ f = g \/ NtNewer(dir, f, g) \/ NtNewer(dir, g, f)
<1>1. f \in Nat /\ g \in Nat /\ h \in Nat /\ dir[f] \in Nat /\ dir[g] \in Nat /\ dir[h] \in Nat
  BY NtAssumption DEF NtDirs
<1> QED BY <1>1 DEF NtNewer

\* A set of files has a size, and a part of it is no larger.
LEMMA NtSizes ==
    ASSUME NEW S \in SUBSET NtFile, NEW T \in SUBSET S
    PROVE  /\ IsFiniteSet(S) /\ Cardinality(S) \in Nat /\ Cardinality(T) \in Nat
           /\ Cardinality(T) <= Cardinality(S)
           /\ T # S => Cardinality(T) < Cardinality(S)
<1>1. IsFiniteSet(S) BY NtAssumption, FS_Subset
<1>2. IsFiniteSet(T) /\ Cardinality(T) <= Cardinality(S)
      /\ (Cardinality(T) = Cardinality(S) => T = S)
  BY <1>1, FS_Subset
<1> QED BY <1>1, <1>2, FS_CardinalityType

\* A file that is newer than another has a smaller index.
LEMMA NtIndex ==
    ASSUME NEW dir \in NtDirs, NEW f \in NtIn(dir)
    PROVE  /\ Cardinality(NtAhead(dir, f)) \in 0..(Cardinality(NtIn(dir)) - 1)
           /\ \A g \in NtIn(dir) : NtNewer(dir, f, g) =>
                Cardinality(NtAhead(dir, f)) < Cardinality(NtAhead(dir, g))
<1>1. NtIn(dir) \subseteq NtFile /\ f \in NtFile BY DEF NtIn
<1>2. NtAhead(dir, f) \subseteq NtIn(dir) /\ f \notin NtAhead(dir, f)
  BY <1>1, NtOrder DEF NtAhead
<1>3. Cardinality(NtAhead(dir, f)) \in 0..(Cardinality(NtIn(dir)) - 1)
  BY <1>1, <1>2, NtSizes
<1>4. ASSUME NEW g \in NtIn(dir), NtNewer(dir, f, g)
      PROVE  Cardinality(NtAhead(dir, f)) < Cardinality(NtAhead(dir, g))
  <2>1. NtAhead(dir, f) \subseteq NtAhead(dir, g) /\ f \in NtAhead(dir, g)
    BY <1>1, <1>4, NtOrder DEF NtAhead
  <2>2. NtAhead(dir, g) \subseteq NtFile BY <1>1 DEF NtAhead
  <2> QED BY <1>2, <2>1, <2>2, NtSizes
<1> QED BY <1>3, <1>4

\* Every index of a listing has one file.
LEMMA NtEntries ==
    ASSUME NEW dir \in NtDirs, NEW k \in 0..(Cardinality(NtIn(dir)) - 1)
    PROVE  /\ NtEntry(dir, k) \in NtIn(dir)
           /\ Cardinality(NtAhead(dir, NtEntry(dir, k))) = k
           /\ \A f \in NtIn(dir) : Cardinality(NtAhead(dir, f)) = k => f = NtEntry(dir, k)
<1> DEFINE S == NtIn(dir)
           n == Cardinality(S)
           C == 0..(n - 1)
           r == [f \in S |-> Cardinality(NtAhead(dir, f))]
<1>1. S \in SUBSET NtFile /\ IsFiniteSet(S) /\ n \in Nat BY NtSizes DEF NtIn
<1>2. r \in [S -> C] BY NtIndex
<1>3. ASSUME NEW f \in S, NEW g \in S, r[f] = r[g] PROVE f = g
  <2>1. f \in NtFile /\ g \in NtFile BY <1>1
  <2>2. NtNewer(dir, f, g) => r[f] < r[g] BY NtIndex
  <2>3. NtNewer(dir, g, f) => r[g] < r[f] BY NtIndex
  <2>4. r[f] \in Nat /\ r[g] \in Nat BY <1>1, <1>2
  <2> QED BY <1>3, <2>1, <2>2, <2>3, <2>4, NtOrder
<1> HIDE DEF S, r
<1>4. r \in Injection(S, C) BY <1>2, <1>3 DEF Injection, IsInjective
<1>5. IsFiniteSet(C) /\ Cardinality(C) = n
  <2>1. 0 \in Int /\ n - 1 \in Int BY <1>1
  <2>2. Cardinality(C) = IF 0 > n - 1 THEN 0 ELSE (n - 1) - 0 + 1 BY <2>1, FS_Interval
  <2> QED BY <1>1, <2>1, <2>2, FS_Interval
<1>6. r \in Surjection(S, C)
  <2>1. Cardinality(S) = Cardinality(C) BY <1>5
  <2> HIDE DEF C, n
  <2> QED BY <1>4, <1>5, <2>1, FS_Injection
<1>7. \E f \in S : r[f] = k BY <1>6 DEF Surjection, S
<1>8. \E f \in NtIn(dir) : Cardinality(NtAhead(dir, f)) = k BY <1>7 DEF r, S
<1>9. NtEntry(dir, k) \in S /\ Cardinality(NtAhead(dir, NtEntry(dir, k))) = k
  BY <1>8 DEF NtEntry, S
<1> QED BY <1>3, <1>9 DEF r, S

NtMembers(s) == {f \in NtFile : \E i \in 1..Len(s) : s[i] = f}

\* The loops treat all files but the newest limit + 1.
LEMMA NtOldest ==
    ASSUME NEW dir \in NtDirs, NEW limit \in Nat
    PROVE  LET s == NtBeyond(dir, limit)
               R == NtMembers(s)
           IN  /\ s \in Seq(NtFile) /\ R \subseteq NtIn(dir)
               /\ \A i \in 1..Len(s) : s[i] \in NtIn(dir)
               /\ R # {} =>
                    /\ Cardinality(NtIn(dir) \ R) = limit + 1
                    /\ \A f \in R, g \in NtIn(dir) \ R : NtNewer(dir, g, f)
<1> DEFINE S == NtIn(dir)
           n == Cardinality(S)
           s == NtBeyond(dir, limit)
           R == NtMembers(s)
           m == n - (limit + 1)
<1>1. S \in SUBSET NtFile /\ IsFiniteSet(S) /\ n \in Nat BY NtSizes DEF NtIn
<1>2. s = [i \in 1..m |-> NtEntry(dir, n - i)] BY DEF NtBeyond
<1>3. \A i \in 1..m : n - i \in (limit + 1)..(n - 1) /\ n - i \in 0..(n - 1) BY <1>1
<1>4. \A i \in 1..m : NtEntry(dir, n - i) \in S /\ NtEntry(dir, n - i) \in NtFile
  BY <1>1, <1>3, NtEntries
<1>5. CASE m <= 0
  <2>1. 1..m = {} BY <1>1, <1>5
  <2>2. s = <<>> BY <1>2, <2>1
  <2>3. R = {} BY <2>2 DEF NtMembers
  <2>4. s \in Seq(NtFile) /\ Len(s) = 0 BY <2>2
  <2> QED BY <2>3, <2>4
<1>6. CASE m > 0
  <2>1. s \in [1..m -> NtFile] BY <1>2, <1>4
  <2>2. m \in Nat BY <1>1, <1>6
  <2>3. s \in Seq(NtFile) /\ Len(s) = m BY <2>1, <2>2
  <2>4. \A i \in 1..m : s[i] = NtEntry(dir, n - i) BY <1>2
  <2> HIDE DEF s
  <2>5. \A f : f \in R <=> \E i \in 1..m : f = NtEntry(dir, n - i)
    BY <1>4, <2>3, <2>4 DEF NtMembers
  <2> HIDE DEF R
  <2>6. R \subseteq S /\ \A i \in 1..Len(s) : s[i] \in S BY <1>4, <2>3, <2>4, <2>5
  <2>7. ASSUME NEW f \in S
        PROVE  f \in R <=> Cardinality(NtAhead(dir, f)) > limit
    <3> DEFINE k == Cardinality(NtAhead(dir, f))
    <3>1. k \in 0..(n - 1) BY NtIndex
    <3>2. ASSUME f \in R PROVE k > limit
      <4>1. PICK i \in 1..m : f = NtEntry(dir, n - i) BY <2>5, <3>2
      <4>2. k = n - i BY <4>1, <1>3, NtEntries
      <4> QED BY <4>2, <1>1, <1>3
    <3>3. ASSUME k > limit PROVE f \in R
      <4>1. n - k \in 1..m /\ n - (n - k) = k BY <1>1, <3>1, <3>3
      <4>2. f = NtEntry(dir, k) BY <3>1, NtEntries
      <4> QED BY <4>1, <4>2, <2>5
    <3> QED BY <3>2, <3>3
  <2> DEFINE e == NtEntry(dir, limit + 1)
             T == S \ R
  <2>8. limit + 1 \in 0..(n - 1) BY <1>1, <1>6
  <2>9. e \in S /\ Cardinality(NtAhead(dir, e)) = limit + 1 BY <2>8, NtEntries
  <2>10. ASSUME NEW f \in R, NEW g \in T PROVE NtNewer(dir, g, f)
    <3>1. f \in S /\ f \in NtFile /\ g \in NtFile /\ f # g BY <1>1, <2>6
    <3>2. Cardinality(NtAhead(dir, f)) \in Nat /\ Cardinality(NtAhead(dir, g)) \in Nat
      BY <3>1, <1>1, NtIndex
    <3>3. Cardinality(NtAhead(dir, f)) > limit /\ ~(Cardinality(NtAhead(dir, g)) > limit)
      BY <2>7, <3>1
    <3>4. NtNewer(dir, f, g) =>
            Cardinality(NtAhead(dir, f)) < Cardinality(NtAhead(dir, g))
      BY <3>1, NtIndex
    <3> QED BY <3>1, <3>2, <3>3, <3>4, NtOrder
  <2>11. T = NtAhead(dir, e)
    <3> HIDE DEF e
    <3>1. e \in R /\ e \in NtFile BY <1>1, <2>7, <2>9
    <3>2. ASSUME NEW g \in T PROVE g \in NtAhead(dir, e)
      BY <2>10, <3>1 DEF NtAhead
    <3>3. ASSUME NEW g \in NtAhead(dir, e) PROVE g \in T
      <4>1. g \in S /\ NtNewer(dir, g, e) BY DEF NtAhead
      <4>2. Cardinality(NtAhead(dir, g)) < limit + 1 BY <4>1, <2>9, NtIndex
      <4>3. Cardinality(NtAhead(dir, g)) \in Nat BY <4>1, <1>1, NtIndex
      <4> QED BY <4>1, <4>2, <4>3, <2>7
    <3> QED BY <3>2, <3>3
  <2>12. Cardinality(S \ R) = limit + 1 BY <2>9, <2>11
  <2> QED BY <2>3, <2>6, <2>10, <2>12 DEF s, R
<1> QED BY <1>1, <1>5, <1>6

\* More files are spared, fewer are doomed.
LEMMA NtSpares ==
    ASSUME NEW h \in NtDirs, NEW h1 \in NtDirs, NEW D, NEW D1,
           NtIn(h) \ D \subseteq NtIn(h1) \ D1, NtIn(h1) \cap D1 \subseteq NtIn(h) \cap D,
           \A g \in NtIn(h) : g \in NtIn(h1) => h1[g] = h[g]
    PROVE  NtGuarded(h, D) => NtGuarded(h1, D1)
<1>0. NtKeep \in Nat /\ NtIn(h) \subseteq NtFile /\ NtIn(h1) \subseteq NtFile
  BY NtAssumption DEF NtIn
<1>1. ASSUME NtGuarded(h, D), NEW f \in NtIn(h1) \cap D1
      PROVE  Cardinality({g \in NtIn(h1) \ D1 : NtNewer(h1, g, f)}) > NtKeep
  <2> DEFINE A == {g \in NtIn(h) \ D : NtNewer(h, g, f)}
             B == {g \in NtIn(h1) \ D1 : NtNewer(h1, g, f)}
  <2>1. f \in NtIn(h) \cap D OBVIOUS
  <2>2. Cardinality(A) > NtKeep BY <1>1, <2>1 DEF NtGuarded
  <2>3. h1[f] = h[f] BY <2>1
  <2>4. A \subseteq B BY <2>3 DEF NtNewer
  <2>5. B \in SUBSET NtFile BY <1>0
  <2> HIDE DEF A, B
  <2>6. Cardinality(A) <= Cardinality(B) /\ Cardinality(A) \in Nat /\ Cardinality(B) \in Nat
    BY <2>4, <2>5, NtSizes
  <2> QED BY <1>0, <2>2, <2>6 DEF B
<1> QED BY <1>1 DEF NtGuarded

\* A new listing spares the newest files, none of which was doomed.
LEMMA NtListed ==
    ASSUME NEW h \in NtDirs, NEW D, NEW D1, D1 = D \cup NtMembers(NtBeyond(h, NtKeep)),
           NtGuarded(h, D)
    PROVE  NtGuarded(h, D1)
<1> DEFINE R == NtMembers(NtBeyond(h, NtKeep))
           T == NtIn(h) \ R
<1>0. NtKeep \in Nat /\ NtIn(h) \in SUBSET NtFile BY NtAssumption DEF NtIn
<1>1. /\ R \subseteq NtIn(h)
      /\ R # {} => /\ Cardinality(T) = NtKeep + 1
                   /\ \A f \in R, g \in T : NtNewer(h, g, f)
  BY <1>0, NtOldest
<1> HIDE DEF R
<1>2. CASE R = {}
  <2>1. D1 = D BY <1>2 DEF R
  <2> QED BY <2>1
<1>3. CASE R # {}
  <2>1. ASSUME NEW f \in T \cap D PROVE FALSE
    <3> DEFINE A == {g \in NtIn(h) \ D : NtNewer(h, g, f)}
    <3>1. Cardinality(A) > NtKeep BY DEF NtGuarded
    <3>2. A \subseteq T /\ f \notin A
      <4> SUFFICES ASSUME NEW g \in A PROVE g \notin R /\ g # f OBVIOUS
      <4>1. g \in NtFile /\ f \in NtFile /\ NtNewer(h, g, f) BY <1>0
      <4>2. g \in R => NtNewer(h, f, g) BY <1>1, <1>3
      <4> QED BY <4>1, <4>2, NtOrder
    <3>3. T \in SUBSET NtFile /\ f \in T BY <1>0
    <3> HIDE DEF A, T
    <3>4. Cardinality(A) < Cardinality(T) /\ Cardinality(A) \in Nat BY <3>2, <3>3, NtSizes
    <3> QED BY <1>0, <1>1, <1>3, <3>1, <3>4
  <2>2. NtIn(h) \ D1 = T BY <2>1 DEF R
  <2>3. Cardinality(T) > NtKeep BY <1>0, <1>1, <1>3
  <2>4. ASSUME NEW f \in NtIn(h) \cap D1
        PROVE  Cardinality({g \in NtIn(h) \ D1 : NtNewer(h, g, f)}) > NtKeep
    <3>1. f \in R BY <2>2
    <3>2. {g \in NtIn(h) \ D1 : NtNewer(h, g, f)} = T BY <1>1, <2>2, <3>1
    <3> QED BY <2>3, <3>2
  <2> QED BY <2>2, <2>3, <2>4 DEF NtGuarded
<1> QED BY <1>2, <1>3

-----------------------------------------------------------------------------
\* The directories of a typed state are directories.
LEMMA NtTyped ==
    ASSUME NtTypeOK
    PROVE  /\ ntHistory \in NtDirs /\ ntCurrent \in NtDirs
           /\ NtKeep \in Nat /\ NtShown \in Nat /\ NtTicks \in Nat \ {0}
<1>1. NtTimes \subseteq Nat BY NtAssumption DEF NtTimes
<1> QED BY <1>1, NtAssumption DEF NtTypeOK, NtDirs

\* A sequence that is not empty has a head and a shorter tail.
LEMMA NtTails ==
    ASSUME NEW s \in Seq(NtFile), s # <<>>
    PROVE  /\ Len(s) \in Nat \ {0} /\ Head(s) = s[1] /\ Head(s) \in NtFile
           /\ Tail(s) \in Seq(NtFile)
           /\ Len(s) # 1 => Tail(s) # <<>>
           /\ \A i \in 1..Len(Tail(s)) : i + 1 \in 1..Len(s) /\ Tail(s)[i] = s[i + 1]
<1>1. Len(s) \in Nat \ {0} /\ Head(s) = s[1] /\ Head(s) \in NtFile OBVIOUS
<1>2. Tail(s) \in Seq(NtFile) /\ Len(Tail(s)) = Len(s) - 1 OBVIOUS
<1>3. \A i \in 1..Len(Tail(s)) : i + 1 \in 1..Len(s) /\ Tail(s)[i] = s[i + 1] BY <1>1, <1>2
<1>4. Len(s) # 1 => Tail(s) # <<>>
  <2> DEFINE t == Tail(s)
  <2>1. t \in Seq(NtFile) /\ Len(t) = Len(s) - 1 BY <1>2
  <2> HIDE DEF t
  <2>2. Len(s) # 1 => Len(t) # 0 BY <1>1, <2>1
  <2>3. Len(t) # 0 => t # <<>> BY <2>1
  <2> QED BY <2>2, <2>3 DEF t
<1> QED BY <1>1, <1>2, <1>3, <1>4

\* A step of a program that prunes neither before nor after dooms what was doomed.
LEMMA NtDoomSame ==
    ASSUME NEW p \in NtProgram, ntPc[p] # "prune", ntPc'[p] # "prune",
           \A q \in NtProgram \ {p} : ntPc'[q] = ntPc[q] /\ ntTodo'[q] = ntTodo[q]
    PROVE  NtDoomed' = NtDoomed
<1>1. ASSUME NEW q \in NtProgram, NEW f
      PROVE  ntPc'[q] = "prune" /\ (\E i \in 1..Len(ntTodo'[q]) : ntTodo'[q][i] = f)
             <=> ntPc[q] = "prune" /\ (\E i \in 1..Len(ntTodo[q]) : ntTodo[q][i] = f)
  BY SMT
<1> QED BY <1>1 DEF NtDoomed

\* What one program changes of itself leaves the others as they are.
LEMMA NtOthers ==
    ASSUME NtTypeOK, NEW p \in NtProgram, NEW pc, NEW s,
           ntPc' = [ntPc EXCEPT ![p] = pc], ntTodo' = [ntTodo EXCEPT ![p] = s]
    PROVE  /\ ntPc'[p] = pc /\ ntTodo'[p] = s
           /\ \A q \in NtProgram \ {p} : ntPc'[q] = ntPc[q] /\ ntTodo'[q] = ntTodo[q]
BY DEF NtTypeOK

\* The other programs stay busy.
LEMMA NtBusyOthers ==
    ASSUME NtShape, NEW p \in NtProgram, ntWritten \subseteq ntWritten',
           \A q \in NtProgram \ {p} : ntPc'[q] = ntPc[q] /\ ntTodo'[q] = ntTodo[q]
    PROVE  \A q \in NtProgram \ {p} : NtBusy(q)'
<1> SUFFICES ASSUME NEW q \in NtProgram \ {p} PROVE NtBusy(q)' OBVIOUS
<1>1. NtBusy(q) BY DEF NtShape
<1>2. ntPc'[q] = ntPc[q] /\ ntTodo'[q] = ntTodo[q] OBVIOUS
<1> QED BY <1>1, <1>2 DEF NtBusy

-----------------------------------------------------------------------------
\* The shape is that of the first state.
LEMMA NtShapeInit == NtInit => NtShape
<1> SUFFICES ASSUME NtInit PROVE NtShape OBVIOUS
<1>1. <<>> \in Seq(NtFile) OBVIOUS
<1>2. NtTypeOK
  <2>1. 0 \in NtTimes /\ 1 \in NtTimes /\ 1 \in 1..NtTicks BY NtAssumption DEF NtTimes
  <2>2. \A p \in NtProgram : NtCalls[p] <= NtCalls[p] BY NtAssumption
  <2> QED BY <1>1, <2>1, <2>2, NtAssumption DEF NtInit, NtTypeOK
<1> QED BY <1>2 DEF NtInit, NtShape, NtBusy, NtIn

\* Every step keeps the types of the state and the files of the loops.
LEMMA NtShapeStep == NtShape /\ [NtNext]_ntVars => NtShape'
<1> SUFFICES ASSUME NtShape, [NtNext]_ntVars PROVE NtShape' OBVIOUS
<1>0. NtTypeOK /\ NtIn(ntCurrent) \subseteq ntWritten BY DEF NtShape
<1>t. /\ ntHistory \in NtDirs /\ ntCurrent \in NtDirs
      /\ NtKeep \in Nat /\ NtShown \in Nat /\ NtTicks \in Nat \ {0}
  BY <1>0, NtTyped
<1>c. ntClock \in NtTimes /\ 0 \in NtTimes BY <1>0, <1>t DEF NtTypeOK, NtTimes
<1>1. ASSUME NEW p \in NtProgram, NEW f \in NtFile, NtNotification(p, f) PROVE NtShape'
  <2>1. ntPc' = [ntPc EXCEPT ![p] = "list"] /\ ntTodo' = [ntTodo EXCEPT ![p] = ntTodo[p]]
    BY <1>0, <1>1 DEF NtNotification, NtGoto, NtTypeOK
  <2>2. /\ ntPc'[p] = "list"
        /\ \A q \in NtProgram \ {p} : ntPc'[q] = ntPc[q] /\ ntTodo'[q] = ntTodo[q]
    BY <1>0, <2>1, NtOthers
  <2>3. ntLeft[p] - 1 \in Nat /\ ntLeft[p] - 1 <= NtCalls[p]
    <3>1. ntLeft[p] \in Nat /\ ntLeft[p] <= NtCalls[p] /\ ntLeft[p] > 0
      BY <1>0, <1>1 DEF NtTypeOK, NtNotification
    <3>2. NtCalls[p] \in Nat BY NtAssumption
    <3> QED BY <3>1, <3>2
  <2>4. ntLeft' \in [NtProgram -> Nat] /\ \A q \in NtProgram : ntLeft'[q] <= NtCalls[q]
    BY <1>0, <1>1, <2>3 DEF NtTypeOK, NtNotification
  <2>5. NtTypeOK' BY <1>0, <1>1, <1>c, <2>4 DEF NtTypeOK, NtNotification, NtGoto, NtTimes
  <2>6. ntWritten' = ntWritten \cup {f} /\ ntCurrent' = [ntCurrent EXCEPT ![f] = ntClock]
    BY <1>1 DEF NtNotification
  <2>7. NtIn(ntCurrent') \subseteq ntWritten' BY <1>0, <2>6 DEF NtIn, NtTypeOK
  <2>8. NtBusy(p)' BY <2>2 DEF NtBusy
  <2> QED BY <2>2, <2>5, <2>6, <2>7, <2>8, NtBusyOthers DEF NtShape
<1>2. ASSUME NEW p \in NtProgram, NtList(p) PROVE NtShape'
  <2> DEFINE s == NtBeyond(ntCurrent, NtShown)
             pc == IF ntTodo'[p] = <<>> THEN "listHistory" ELSE "copy"
  <2>1. ntPc' = [ntPc EXCEPT ![p] = pc] /\ ntTodo' = [ntTodo EXCEPT ![p] = s]
    BY <1>2 DEF NtList, NtGoto
  <2>2. s \in Seq(NtFile) /\ \A i \in 1..Len(s) : s[i] \in ntWritten
    BY <1>0, <1>t, NtOldest
  <2> HIDE DEF s, pc
  <2>3. /\ ntPc'[p] = pc /\ ntTodo'[p] = s
        /\ \A q \in NtProgram \ {p} : ntPc'[q] = ntPc[q] /\ ntTodo'[q] = ntTodo[q]
    BY <1>0, <2>1, NtOthers
  <2>4. pc = IF s = <<>> THEN "listHistory" ELSE "copy" BY <2>3 DEF pc
  <2>5. NtTypeOK' BY <1>0, <1>2, <2>1, <2>2, <2>4 DEF NtTypeOK, NtList
  <2>6. ntWritten' = ntWritten /\ NtIn(ntCurrent') \subseteq ntWritten'
    BY <1>0, <1>2 DEF NtList
  <2>7. NtBusy(p)' BY <2>2, <2>3, <2>4, <2>6 DEF NtBusy
  <2> QED BY <2>3, <2>5, <2>6, <2>7, NtBusyOthers DEF NtShape
<1>3. ASSUME NEW p \in NtProgram, NtCopy(p) PROVE NtShape'
  <2> DEFINE f == Head(ntTodo[p])
  <2>1. ntPc' = [ntPc EXCEPT ![p] = "remove"] /\ ntTodo' = [ntTodo EXCEPT ![p] = ntTodo[p]]
    BY <1>0, <1>3 DEF NtCopy, NtGoto, NtTypeOK
  <2>2. /\ ntPc'[p] = "remove" /\ ntTodo'[p] = ntTodo[p]
        /\ \A q \in NtProgram \ {p} : ntPc'[q] = ntPc[q] /\ ntTodo'[q] = ntTodo[q]
    BY <1>0, <2>1, NtOthers
  <2>3. NtBusy(p) /\ ntPc[p] = "copy" BY <1>3 DEF NtShape, NtCopy
  <2>4. \/ ntHistory' = [ntHistory EXCEPT ![f] = ntClock]
        \/ ntHistory' = ntHistory
    BY <1>3 DEF NtCopy
  <2>5. ntHistory' \in [NtFile -> NtTimes] BY <1>0, <1>c, <2>4 DEF NtTypeOK
  <2>6. ntCopyFailed' \in BOOLEAN /\ ntOutdated' \in BOOLEAN BY <1>0, <1>3 DEF NtTypeOK, NtCopy
  <2>7. NtTypeOK' BY <1>0, <1>3, <2>1, <2>5, <2>6 DEF NtTypeOK, NtCopy
  <2>8. ntWritten' = ntWritten /\ NtIn(ntCurrent') \subseteq ntWritten'
    BY <1>0, <1>3 DEF NtCopy
  <2>9. NtBusy(p)' BY <2>2, <2>3, <2>8 DEF NtBusy
  <2> QED BY <2>2, <2>7, <2>8, <2>9, NtBusyOthers DEF NtShape
<1>4. ASSUME NEW p \in NtProgram, NtRemove(p) PROVE NtShape'
  <2> DEFINE s == ntTodo[p]
             pc == IF Len(s) = 1 THEN "listHistory" ELSE "copy"
  <2>1. ntPc' = [ntPc EXCEPT ![p] = pc] /\ ntTodo' = [ntTodo EXCEPT ![p] = Tail(s)]
    BY <1>4 DEF NtRemove, NtNextItem, NtGoto
  <2> HIDE DEF pc, s
  <2>2. /\ ntPc'[p] = pc /\ ntTodo'[p] = Tail(s)
        /\ \A q \in NtProgram \ {p} : ntPc'[q] = ntPc[q] /\ ntTodo'[q] = ntTodo[q]
    BY <1>0, <2>1, NtOthers
  <2>3. NtBusy(p) /\ ntPc[p] = "remove" BY <1>4 DEF NtShape, NtRemove
  <2>4. s \in Seq(NtFile) /\ s # <<>> /\ \A i \in 1..Len(s) : s[i] \in ntWritten
    BY <1>0, <2>3 DEF NtBusy, NtTypeOK, s
  <2>5. /\ Tail(s) \in Seq(NtFile) /\ (Len(s) # 1 => Tail(s) # <<>>)
        /\ \A i \in 1..Len(Tail(s)) : Tail(s)[i] \in ntWritten
    BY <2>4, NtTails
  <2>6. ntWritten' = ntWritten /\ ntCurrent' = [ntCurrent EXCEPT ![Head(ntTodo[p])] = 0]
    BY <1>4 DEF NtRemove
  <2>7. NtIn(ntCurrent') \subseteq ntWritten' BY <1>0, <2>6 DEF NtTypeOK, NtIn
  <2>8. ntCurrent' \in [NtFile -> NtTimes] BY <1>0, <1>c, <2>6 DEF NtTypeOK
  <2>9. NtTypeOK' BY <1>0, <1>4, <2>1, <2>5, <2>8 DEF NtTypeOK, NtRemove, pc
  <2>10. NtBusy(p)' BY <2>2, <2>5, <2>6 DEF NtBusy, pc
  <2> QED BY <2>2, <2>6, <2>7, <2>9, <2>10, NtBusyOthers DEF NtShape
<1>5. ASSUME NEW p \in NtProgram, NtListHistory(p) PROVE NtShape'
  <2> DEFINE s == NtBeyond(ntHistory, NtKeep)
             pc == IF ntTodo'[p] = <<>> THEN "idle" ELSE "prune"
  <2>1. ntPc' = [ntPc EXCEPT ![p] = pc] /\ ntTodo' = [ntTodo EXCEPT ![p] = s]
    BY <1>5 DEF NtListHistory, NtGoto
  <2>2. s \in Seq(NtFile) BY <1>t, NtOldest
  <2> HIDE DEF s, pc
  <2>3. /\ ntPc'[p] = pc /\ ntTodo'[p] = s
        /\ \A q \in NtProgram \ {p} : ntPc'[q] = ntPc[q] /\ ntTodo'[q] = ntTodo[q]
    BY <1>0, <2>1, NtOthers
  <2>4. pc = IF s = <<>> THEN "idle" ELSE "prune" BY <2>3 DEF pc
  <2>5. NtTypeOK' BY <1>0, <1>5, <2>1, <2>2, <2>4 DEF NtTypeOK, NtListHistory
  <2>6. ntWritten' = ntWritten /\ NtIn(ntCurrent') \subseteq ntWritten'
    BY <1>0, <1>5 DEF NtListHistory
  <2>7. NtBusy(p)' BY <2>3, <2>4 DEF NtBusy
  <2> QED BY <2>3, <2>5, <2>6, <2>7, NtBusyOthers DEF NtShape
<1>6. ASSUME NEW p \in NtProgram, NtPrune(p) PROVE NtShape'
  <2> DEFINE s == ntTodo[p]
             pc == IF Len(s) = 1 THEN "idle" ELSE "prune"
  <2>1. ntPc' = [ntPc EXCEPT ![p] = pc] /\ ntTodo' = [ntTodo EXCEPT ![p] = Tail(s)]
    BY <1>6 DEF NtPrune, NtNextItem, NtGoto
  <2> HIDE DEF pc, s
  <2>2. /\ ntPc'[p] = pc /\ ntTodo'[p] = Tail(s)
        /\ \A q \in NtProgram \ {p} : ntPc'[q] = ntPc[q] /\ ntTodo'[q] = ntTodo[q]
    BY <1>0, <2>1, NtOthers
  <2>3. NtBusy(p) /\ ntPc[p] = "prune" BY <1>6 DEF NtShape, NtPrune
  <2>4. s \in Seq(NtFile) /\ s # <<>> BY <1>0, <2>3 DEF NtBusy, NtTypeOK, s
  <2>5. Tail(s) \in Seq(NtFile) /\ (Len(s) # 1 => Tail(s) # <<>>) BY <2>4, NtTails
  <2>6. ntHistory' \in [NtFile -> NtTimes] BY <1>0, <1>c, <1>6 DEF NtTypeOK, NtPrune
  <2>7. ntWritten' = ntWritten /\ NtIn(ntCurrent') \subseteq ntWritten'
    BY <1>0, <1>6 DEF NtPrune
  <2>8. NtTypeOK' BY <1>0, <1>6, <2>1, <2>5, <2>6 DEF NtTypeOK, NtPrune, pc
  <2>9. NtBusy(p)' BY <2>2, <2>5 DEF NtBusy, pc
  <2> QED BY <2>2, <2>7, <2>8, <2>9, NtBusyOthers DEF NtShape
<1>7. ASSUME NEW p \in NtProgram, NtKilled(p) PROVE NtShape'
  <2>1. ntPc' = [ntPc EXCEPT ![p] = "idle"] /\ ntTodo' = [ntTodo EXCEPT ![p] = <<>>]
    BY <1>7 DEF NtKilled, NtGoto
  <2>2. /\ ntPc'[p] = "idle"
        /\ \A q \in NtProgram \ {p} : ntPc'[q] = ntPc[q] /\ ntTodo'[q] = ntTodo[q]
    BY <1>0, <2>1, NtOthers
  <2>3. <<>> \in Seq(NtFile) OBVIOUS
  <2>4. NtTypeOK' BY <1>0, <1>7, <2>1, <2>3 DEF NtTypeOK, NtKilled
  <2>5. ntWritten' = ntWritten /\ NtIn(ntCurrent') \subseteq ntWritten'
    BY <1>0, <1>7 DEF NtKilled
  <2>6. NtBusy(p)' BY <2>2 DEF NtBusy
  <2> QED BY <2>2, <2>4, <2>5, <2>6, NtBusyOthers DEF NtShape
<1>8. CASE NtTick
  <2>1. NtTypeOK' BY <1>0, <1>8, <1>t DEF NtTypeOK, NtTick, NtTimes
  <2> QED BY <2>1, <1>8 DEF NtTick, NtShape, NtBusy, NtIn
<1>9. CASE UNCHANGED ntVars
  BY <1>9 DEF ntVars, NtShape, NtTypeOK, NtBusy, NtIn
<1> QED BY <1>1, <1>2, <1>3, <1>4, <1>5, <1>6, <1>7, <1>8, <1>9 DEF NtNext, NtStep

-----------------------------------------------------------------------------
\* A file about to be deleted that is in the history has enough newer ones beside it.
LEMMA NtDoomedIsOld ==
    ASSUME NtTypeOK, NtGuarded(ntHistory, NtDoomed), NEW f \in NtIn(ntHistory) \cap NtDoomed
    PROVE  Cardinality(NtAhead(ntHistory, f)) >= NtKeep
<1> DEFINE A == {g \in NtIn(ntHistory) \ NtDoomed : NtNewer(ntHistory, g, f)}
           B == NtAhead(ntHistory, f)
<1>1. Cardinality(A) > NtKeep BY DEF NtGuarded
<1>2. A \subseteq B /\ B \in SUBSET NtFile BY DEF NtAhead, NtIn
<1> HIDE DEF A, B
<1>3. /\ Cardinality(A) <= Cardinality(B)
      /\ Cardinality(A) \in Nat /\ Cardinality(B) \in Nat
  BY <1>2, NtSizes
<1>4. NtKeep \in Nat BY NtTyped
<1> QED BY <1>1, <1>3, <1>4 DEF B

\* A step that spares what was spared and dooms nothing in the history that was not
\* doomed leaves the doomed files guarded.
LEMMA NtSparing ==
    ASSUME NtShape, NtShape', NtGuarded(ntHistory, NtDoomed),
           NtSpared \subseteq NtSpared',
           NtIn(ntHistory') \cap NtDoomed' \subseteq NtIn(ntHistory) \cap NtDoomed,
           \A g \in NtIn(ntHistory) : g \in NtIn(ntHistory') => ntHistory'[g] = ntHistory[g]
    PROVE  NtGuarded(ntHistory', NtDoomed')
<1>1. ntHistory \in NtDirs /\ ntHistory' \in NtDirs
  <2>1. NtTimes \subseteq Nat BY NtAssumption DEF NtTimes
  <2> QED BY <2>1 DEF NtShape, NtTypeOK, NtDirs
<1>2. NtIn(ntHistory) \ NtDoomed \subseteq NtIn(ntHistory') \ NtDoomed' BY DEF NtSpared
<1> QED BY <1>1, <1>2, NtSpares

\* What no program does to the history, to its own copy or to the files leaves the rest
\* of the invariant as it is: a step that changes nothing of it.
LEMMA NtSafeSame ==
    ASSUME NtShape, NtShape', NtSafe, ntHistory' = ntHistory, NtDoomed' \subseteq NtDoomed,
           ntWritten' \subseteq NtIn(ntCurrent') \cup NtIn(ntHistory) \cup ntPruned',
           \A q \in NtProgram : ntPc'[q] = "remove" =>
                ntHistory[Head(ntTodo'[q])] # 0 \/ Head(ntTodo'[q]) \in ntPruned'
    PROVE  NtSafe'
<1>1. NtSpared \subseteq NtSpared' BY DEF NtSpared
<1>2. NtGuarded(ntHistory, NtDoomed) BY DEF NtSafe
<1>3. NtGuarded(ntHistory', NtDoomed') BY <1>1, <1>2, NtSparing
<1>4. NtGuarded(ntHistory, NtDoomed)' BY <1>3
<1>5. \A q \in NtProgram : NtMoved(q)' BY DEF NtMoved
<1>6. (ntWritten \subseteq NtIn(ntCurrent) \cup NtIn(ntHistory) \cup ntPruned)'
  BY DEF NtIn
<1> QED BY <1>4, <1>5, <1>6 DEF NtSafe

\* Every step keeps what the invariant says of the files, while no copy has failed and
\* no listing was outdated.
LEMMA NtSafeStep ==
    ASSUME NtShape, NtShape', NtSafe, [NtNext]_ntVars, ~ntCopyFailed', ~ntOutdated'
    PROVE  NtSafe'
<1>0. NtTypeOK /\ NtGuarded(ntHistory, NtDoomed)
      /\ ntWritten \subseteq NtIn(ntCurrent) \cup NtIn(ntHistory) \cup ntPruned
  BY DEF NtShape, NtSafe
<1>t. ntHistory \in NtDirs /\ ntCurrent \in NtDirs /\ NtKeep \in Nat BY <1>0, NtTyped
<1>m. \A q \in NtProgram : ntPc[q] = "remove" =>
          ntHistory[Head(ntTodo[q])] # 0 \/ Head(ntTodo[q]) \in ntPruned
  BY DEF NtSafe, NtMoved
<1>1. ASSUME NEW p \in NtProgram, NEW f \in NtFile, NtNotification(p, f) PROVE NtSafe'
  <2>1. ntPc' = [ntPc EXCEPT ![p] = "list"] /\ ntTodo' = [ntTodo EXCEPT ![p] = ntTodo[p]]
    BY <1>0, <1>1 DEF NtNotification, NtGoto, NtTypeOK
  <2>2. /\ ntPc'[p] = "list"
        /\ \A q \in NtProgram \ {p} : ntPc'[q] = ntPc[q] /\ ntTodo'[q] = ntTodo[q]
    BY <1>0, <2>1, NtOthers
  <2>3. ntPc[p] = "idle" BY <1>1 DEF NtNotification
  <2>4. NtDoomed' = NtDoomed BY <2>2, <2>3, NtDoomSame
  <2>5. /\ ntWritten' = ntWritten \cup {f} /\ ntCurrent' = [ntCurrent EXCEPT ![f] = ntClock]
        /\ ntHistory' = ntHistory /\ ntPruned' = ntPruned \ {f}
    BY <1>1 DEF NtNotification
  <2>6. ntClock # 0 BY <1>0 DEF NtTypeOK
  <2>7. NtIn(ntCurrent') = NtIn(ntCurrent) \cup {f} BY <1>0, <2>5, <2>6 DEF NtIn, NtTypeOK
  <2>8. ntWritten' \subseteq NtIn(ntCurrent') \cup NtIn(ntHistory) \cup ntPruned'
    BY <1>0, <2>5, <2>7
  <2>9. \A q \in NtProgram : ntPc'[q] = "remove" =>
            ntHistory[Head(ntTodo'[q])] # 0 \/ Head(ntTodo'[q]) \in ntPruned'
    <3> SUFFICES ASSUME NEW q \in NtProgram, ntPc'[q] = "remove", ntHistory[Head(ntTodo'[q])] = 0
                 PROVE  Head(ntTodo'[q]) \in ntPruned'
      OBVIOUS
    <3>1. ntPc[q] = "remove" /\ ntTodo'[q] = ntTodo[q] BY <2>2
    <3>2. Head(ntTodo[q]) \in ntPruned BY <1>m, <3>1
    <3>3. ~NtUncopied(f) BY <1>1 DEF NtNotification
    <3>4. Head(ntTodo[q]) # f BY <3>1, <3>3 DEF NtUncopied
    <3> QED BY <2>5, <3>1, <3>2, <3>4
  <2> QED BY <2>4, <2>5, <2>8, <2>9, NtSafeSame
<1>2. ASSUME NEW p \in NtProgram, NtList(p) PROVE NtSafe'
  <2> DEFINE s == NtBeyond(ntCurrent, NtShown)
             pc == IF ntTodo'[p] = <<>> THEN "listHistory" ELSE "copy"
  <2>1. ntPc' = [ntPc EXCEPT ![p] = pc] /\ ntTodo' = [ntTodo EXCEPT ![p] = s]
    BY <1>2 DEF NtList, NtGoto
  <2>2. pc # "prune" /\ pc # "remove" /\ ntPc[p] = "list" BY <1>2 DEF NtList
  <2> HIDE DEF s, pc
  <2>3. /\ ntPc'[p] = pc
        /\ \A q \in NtProgram \ {p} : ntPc'[q] = ntPc[q] /\ ntTodo'[q] = ntTodo[q]
    BY <1>0, <2>1, NtOthers
  <2>4. NtDoomed' = NtDoomed BY <2>2, <2>3, NtDoomSame
  <2>5. /\ ntHistory' = ntHistory /\ ntCurrent' = ntCurrent /\ ntWritten' = ntWritten
        /\ ntPruned' = ntPruned
    BY <1>2 DEF NtList
  <2>6. \A q \in NtProgram : ntPc'[q] = "remove" =>
            ntHistory[Head(ntTodo'[q])] # 0 \/ Head(ntTodo'[q]) \in ntPruned'
    BY <1>m, <2>2, <2>3, <2>5
  <2> QED BY <1>0, <2>4, <2>5, <2>6, NtSafeSame
<1>3. ASSUME NEW p \in NtProgram, NtCopy(p) PROVE NtSafe'
  <2> DEFINE f == Head(ntTodo[p])
  <2>1. ntPc' = [ntPc EXCEPT ![p] = "remove"] /\ ntTodo' = [ntTodo EXCEPT ![p] = ntTodo[p]]
    BY <1>0, <1>3 DEF NtCopy, NtGoto, NtTypeOK
  <2>2. /\ ntPc'[p] = "remove" /\ ntTodo'[p] = ntTodo[p]
        /\ \A q \in NtProgram \ {p} : ntPc'[q] = ntPc[q] /\ ntTodo'[q] = ntTodo[q]
    BY <1>0, <2>1, NtOthers
  <2>3. NtBusy(p) /\ ntPc[p] = "copy" BY <1>3 DEF NtShape, NtCopy
  <2>4. NtDoomed' = NtDoomed BY <2>2, <2>3, NtDoomSame
  <2>5. ntCurrent' = ntCurrent /\ ntWritten' = ntWritten /\ ntPruned' = ntPruned
    BY <1>3 DEF NtCopy
  <2>6. f \in NtFile /\ f \in ntWritten
    <3>1. ntTodo[p] \in Seq(NtFile) /\ ntTodo[p] # <<>>
      BY <1>0, <2>3 DEF NtBusy, NtTypeOK
    <3>2. f = ntTodo[p][1] /\ f \in NtFile /\ 1 \in 1..Len(ntTodo[p]) BY <3>1, NtTails
    <3> QED BY <2>3, <3>2 DEF NtBusy
  <2>7. CASE ntCurrent[f] # 0 /\ ntHistory[f] = 0
    <3>1. /\ ntHistory' = [ntHistory EXCEPT ![f] = ntClock]
          /\ f \notin NtDoomed
      BY <1>3, <2>7 DEF NtCopy
    <3>2. ntClock # 0 BY <1>0 DEF NtTypeOK
    <3> HIDE DEF f
    <3>3. /\ ntHistory'[f] # 0
          /\ \A g \in NtFile \ {f} : ntHistory'[g] = ntHistory[g]
      BY <1>0, <2>6, <3>1, <3>2 DEF NtTypeOK
    <3>4. NtIn(ntHistory') = NtIn(ntHistory) \cup {f} BY <2>6, <3>3 DEF NtIn
    <3>5. f \notin NtIn(ntHistory) BY <2>7 DEF NtIn
    <3>6. NtSpared \subseteq NtSpared' BY <2>4, <3>4 DEF NtSpared
    <3>7. NtIn(ntHistory') \cap NtDoomed' \subseteq NtIn(ntHistory) \cap NtDoomed
      BY <2>4, <3>1, <3>4
    <3>8. \A g \in NtIn(ntHistory) : g \in NtIn(ntHistory') => ntHistory'[g] = ntHistory[g]
      BY <3>3, <3>5 DEF NtIn
    <3>9. NtGuarded(ntHistory', NtDoomed')
      BY <1>0, <3>6, <3>7, <3>8, NtSparing
    <3>10. NtGuarded(ntHistory, NtDoomed)' BY <3>9
    <3>11. (ntWritten \subseteq NtIn(ntCurrent) \cup NtIn(ntHistory) \cup ntPruned)'
      <4>1. NtIn(ntHistory) \subseteq NtIn(ntHistory)' BY <3>4 DEF NtIn
      <4>2. NtIn(ntCurrent)' = NtIn(ntCurrent) BY <2>5 DEF NtIn
      <4> QED BY <1>0, <2>5, <4>1, <4>2
    <3>12. ASSUME NEW q \in NtProgram PROVE NtMoved(q)'
      <4>1. CASE q = p BY <2>2, <3>3, <4>1 DEF NtMoved, f
      <4>2. CASE q # p
        <5>1. ntPc'[q] = ntPc[q] /\ ntTodo'[q] = ntTodo[q] BY <2>2, <4>2
        <5>2. ASSUME ntPc[q] = "remove", ntHistory[Head(ntTodo[q])] # 0
              PROVE  ntHistory'[Head(ntTodo[q])] # 0
          <6>1. NtBusy(q) BY DEF NtShape
          <6>2. ntTodo[q] \in Seq(NtFile) /\ ntTodo[q] # <<>>
            BY <1>0, <5>2, <6>1 DEF NtBusy, NtTypeOK
          <6>3. Head(ntTodo[q]) \in NtFile BY <6>2, NtTails
          <6> QED BY <3>3, <5>2, <6>3
        <5> QED BY <1>m, <2>5, <5>1, <5>2 DEF NtMoved
      <4> QED BY <4>1, <4>2
    <3> QED BY <3>10, <3>11, <3>12 DEF NtSafe
  <2>8. CASE ~(ntCurrent[f] # 0 /\ ntHistory[f] = 0)
    <3>1. ntHistory' = ntHistory BY <1>3, <2>8 DEF NtCopy
    <3> HIDE DEF f
    <3>2. ntHistory[f] # 0 \/ f \in ntPruned BY <1>0, <2>6, <2>8 DEF NtIn
    <3>3. \A q \in NtProgram : ntPc'[q] = "remove" =>
              ntHistory[Head(ntTodo'[q])] # 0 \/ Head(ntTodo'[q]) \in ntPruned'
      BY <1>m, <2>2, <2>5, <3>2 DEF f
    <3> QED BY <1>0, <2>4, <2>5, <3>1, <3>3, NtSafeSame
  <2> QED BY <2>7, <2>8
<1>4. ASSUME NEW p \in NtProgram, NtRemove(p) PROVE NtSafe'
  <2> DEFINE f == Head(ntTodo[p])
             pc == IF Len(ntTodo[p]) = 1 THEN "listHistory" ELSE "copy"
  <2>1. ntPc' = [ntPc EXCEPT ![p] = pc] /\ ntTodo' = [ntTodo EXCEPT ![p] = Tail(ntTodo[p])]
    BY <1>4 DEF NtRemove, NtNextItem, NtGoto
  <2>2. pc # "prune" /\ pc # "remove" /\ ntPc[p] = "remove" BY <1>4 DEF NtRemove
  <2> HIDE DEF pc
  <2>3. /\ ntPc'[p] = pc
        /\ \A q \in NtProgram \ {p} : ntPc'[q] = ntPc[q] /\ ntTodo'[q] = ntTodo[q]
    BY <1>0, <2>1, NtOthers
  <2>4. NtDoomed' = NtDoomed BY <2>2, <2>3, NtDoomSame
  <2>5. /\ ntHistory' = ntHistory /\ ntWritten' = ntWritten /\ ntPruned' = ntPruned
        /\ ntCurrent' = [ntCurrent EXCEPT ![f] = 0]
    BY <1>4 DEF NtRemove
  <2>6. \A q \in NtProgram : ntPc'[q] = "remove" =>
            ntHistory[Head(ntTodo'[q])] # 0 \/ Head(ntTodo'[q]) \in ntPruned'
    BY <1>m, <2>2, <2>3, <2>5
  <2>7. ntHistory[f] # 0 \/ f \in ntPruned BY <1>m, <2>2
  <2> HIDE DEF f
  <2>8. NtIn(ntCurrent) \ {f} \subseteq NtIn(ntCurrent') BY <1>0, <2>5 DEF NtTypeOK, NtIn
  <2>9. f \in ntWritten => f \in NtIn(ntHistory) \cup ntPruned
    BY <1>0, <2>7 DEF NtIn, NtTypeOK
  <2>10. ntWritten' \subseteq NtIn(ntCurrent') \cup NtIn(ntHistory) \cup ntPruned'
    BY <1>0, <2>5, <2>8, <2>9
  <2> QED BY <2>4, <2>5, <2>6, <2>10, NtSafeSame
<1>5. ASSUME NEW p \in NtProgram, NtListHistory(p) PROVE NtSafe'
  <2> DEFINE s == NtBeyond(ntHistory, NtKeep)
             pc == IF ntTodo'[p] = <<>> THEN "idle" ELSE "prune"
  <2>1. ntPc' = [ntPc EXCEPT ![p] = pc] /\ ntTodo' = [ntTodo EXCEPT ![p] = s]
    BY <1>5 DEF NtListHistory, NtGoto
  <2>2. pc # "remove" /\ ntPc[p] = "listHistory" /\ (pc = "prune" <=> ntTodo'[p] # <<>>)
    BY <1>5 DEF NtListHistory
  <2> HIDE DEF s, pc
  <2>3. /\ ntPc'[p] = pc /\ ntTodo'[p] = s
        /\ \A q \in NtProgram \ {p} : ntPc'[q] = ntPc[q] /\ ntTodo'[q] = ntTodo[q]
    BY <1>0, <2>1, NtOthers
  <2>4. /\ ntHistory' = ntHistory /\ ntCurrent' = ntCurrent /\ ntWritten' = ntWritten
        /\ ntPruned' = ntPruned
    BY <1>5 DEF NtListHistory
  <2>5. NtDoomed' = NtDoomed \cup NtMembers(s)
    <3>1. ASSUME s = <<>> PROVE NtMembers(s) = {} BY <3>1 DEF NtMembers
    <3>2. CASE s = <<>>
      <4>1. pc # "prune" BY <2>2, <2>3, <3>2
      <4>2. NtDoomed' = NtDoomed BY <2>2, <2>3, <4>1, NtDoomSame
      <4> QED BY <3>1, <3>2, <4>2
    <3>3. CASE s # <<>>
      <4>1. ntPc'[p] = "prune" BY <2>2, <2>3, <3>3
      <4>2. ASSUME NEW f \in NtFile, f \in NtDoomed' PROVE f \in NtDoomed \cup NtMembers(s)
        <5>1. PICK q \in NtProgram :
                ntPc'[q] = "prune" /\ \E i \in 1..Len(ntTodo'[q]) : ntTodo'[q][i] = f
          BY <4>2 DEF NtDoomed
        <5>2. CASE q = p BY <2>3, <5>1, <5>2 DEF NtMembers
        <5>3. CASE q # p
          <6>1. ntPc'[q] = ntPc[q] /\ ntTodo'[q] = ntTodo[q] BY <2>3, <5>3
          <6> QED BY <5>1, <6>1 DEF NtDoomed
        <5> QED BY <5>2, <5>3
      <4>3. ASSUME NEW f \in NtFile, f \in NtDoomed PROVE f \in NtDoomed'
        <5>1. PICK q \in NtProgram :
                ntPc[q] = "prune" /\ \E i \in 1..Len(ntTodo[q]) : ntTodo[q][i] = f
          BY <4>3 DEF NtDoomed
        <5>2. q # p BY <2>2, <5>1
        <5>3. ntPc'[q] = ntPc[q] /\ ntTodo'[q] = ntTodo[q] BY <2>3, <5>2
        <5> QED BY <5>1, <5>3 DEF NtDoomed
      <4>4. ASSUME NEW f \in NtFile, f \in NtMembers(s) PROVE f \in NtDoomed'
        BY <2>3, <4>1, <4>4 DEF NtMembers, NtDoomed
      <4>5. NtDoomed' \subseteq NtFile /\ NtDoomed \subseteq NtFile /\ NtMembers(s) \subseteq NtFile
        BY DEF NtDoomed, NtMembers
      <4> QED BY <4>2, <4>3, <4>4, <4>5
    <3> QED BY <3>2, <3>3
  <2>6. NtGuarded(ntHistory, NtDoomed')
    BY <1>0, <1>t, <2>5, NtListed DEF s
  <2>7. NtGuarded(ntHistory, NtDoomed)' BY <2>4, <2>6
  <2>8. ASSUME NEW q \in NtProgram PROVE NtMoved(q)'
    <3>1. CASE q = p BY <2>2, <2>3, <3>1 DEF NtMoved
    <3>2. CASE q # p
      <4>1. ntPc'[q] = ntPc[q] /\ ntTodo'[q] = ntTodo[q] BY <2>3, <3>2
      <4> QED BY <1>m, <2>4, <4>1 DEF NtMoved
    <3> QED BY <3>1, <3>2
  <2>9. (ntWritten \subseteq NtIn(ntCurrent) \cup NtIn(ntHistory) \cup ntPruned)'
    BY <1>0, <2>4 DEF NtIn
  <2> QED BY <2>7, <2>8, <2>9 DEF NtSafe
<1>6. ASSUME NEW p \in NtProgram, NtPrune(p) PROVE NtSafe'
  <2> DEFINE f == Head(ntTodo[p])
             t == Tail(ntTodo[p])
             pc == IF Len(ntTodo[p]) = 1 THEN "idle" ELSE "prune"
  <2>1. ntPc' = [ntPc EXCEPT ![p] = pc] /\ ntTodo' = [ntTodo EXCEPT ![p] = t]
    BY <1>6 DEF NtPrune, NtNextItem, NtGoto
  <2>2. pc # "remove" /\ ntPc[p] = "prune" BY <1>6 DEF NtPrune
  <2>3. /\ ntHistory' = [ntHistory EXCEPT ![f] = 0]
        /\ ntWritten' = ntWritten /\ ntCurrent' = ntCurrent
        /\ ntPruned' = IF ntHistory[f] # 0 /\ Cardinality(NtAhead(ntHistory, f)) >= NtKeep
                       THEN ntPruned \cup {f} ELSE ntPruned
    BY <1>6 DEF NtPrune
  <2>4. ntTodo[p] \in Seq(NtFile) /\ ntTodo[p] # <<>>
    BY <1>0, <2>2 DEF NtShape, NtBusy, NtTypeOK
  <2>5. /\ f \in NtFile /\ f = ntTodo[p][1] /\ 1 \in 1..Len(ntTodo[p])
        /\ \A i \in 1..Len(t) : i + 1 \in 1..Len(ntTodo[p]) /\ t[i] = ntTodo[p][i + 1]
    BY <2>4, NtTails
  <2> HIDE DEF f, t, pc
  <2>6. /\ ntPc'[p] = pc /\ ntTodo'[p] = t
        /\ \A q \in NtProgram \ {p} : ntPc'[q] = ntPc[q] /\ ntTodo'[q] = ntTodo[q]
    BY <1>0, <2>1, NtOthers
  <2>7. f \in NtDoomed BY <2>2, <2>5 DEF NtDoomed
  <2>8. NtDoomed' \subseteq NtDoomed
    <3> SUFFICES ASSUME NEW g \in NtDoomed' PROVE g \in NtDoomed OBVIOUS
    <3>1. g \in NtFile BY DEF NtDoomed
    <3>2. PICK q \in NtProgram :
            ntPc'[q] = "prune" /\ \E i \in 1..Len(ntTodo'[q]) : ntTodo'[q][i] = g
      BY DEF NtDoomed
    <3>3. CASE q = p
      <4>1. PICK i \in 1..Len(t) : t[i] = g BY <2>6, <3>2, <3>3
      <4>2. i + 1 \in 1..Len(ntTodo[p]) /\ ntTodo[p][i + 1] = g BY <2>5, <4>1
      <4> QED BY <2>2, <3>1, <4>2 DEF NtDoomed
    <3>4. CASE q # p
      <4>1. ntPc'[q] = ntPc[q] /\ ntTodo'[q] = ntTodo[q] BY <2>6, <3>4
      <4> QED BY <3>1, <3>2, <4>1 DEF NtDoomed
    <3> QED BY <3>3, <3>4
  <2>9. CASE ntHistory[f] = 0
    <3>1. ntHistory' = ntHistory BY <1>t, <2>3, <2>9 DEF NtDirs
    <3>2. \A q \in NtProgram : ntPc'[q] = "remove" =>
            ntHistory[Head(ntTodo'[q])] # 0 \/ Head(ntTodo'[q]) \in ntPruned'
      BY <1>m, <2>2, <2>3, <2>6
    <3> QED BY <1>0, <2>3, <2>8, <3>1, <3>2, NtSafeSame
  <2>10. CASE ntHistory[f] # 0
    <3>1. ntPruned' = ntPruned \cup {f}
      <4>1. f \in NtIn(ntHistory) \cap NtDoomed BY <2>5, <2>7, <2>10 DEF NtIn
      <4> QED BY <1>0, <2>3, <2>10, <4>1, NtDoomedIsOld
    <3>2. \A g \in NtFile : ntHistory'[g] = IF g = f THEN 0 ELSE ntHistory[g]
      BY <1>t, <2>3 DEF NtDirs
    <3>3. NtIn(ntHistory') = NtIn(ntHistory) \ {f} BY <3>2 DEF NtIn
    <3>4. NtSpared \subseteq NtSpared' BY <2>7, <2>8, <3>3 DEF NtSpared
    <3>5. NtIn(ntHistory') \cap NtDoomed' \subseteq NtIn(ntHistory) \cap NtDoomed
      BY <2>8, <3>3
    <3>6. \A g \in NtIn(ntHistory) : g \in NtIn(ntHistory') => ntHistory'[g] = ntHistory[g]
      BY <3>2, <3>3 DEF NtIn
    <3>7. NtGuarded(ntHistory', NtDoomed') BY <1>0, <3>4, <3>5, <3>6, NtSparing
    <3>8. NtGuarded(ntHistory, NtDoomed)' BY <3>7
    <3>9. (ntWritten \subseteq NtIn(ntCurrent) \cup NtIn(ntHistory) \cup ntPruned)'
      <4>1. NtIn(ntCurrent)' = NtIn(ntCurrent) BY <2>3 DEF NtIn
      <4>2. NtIn(ntHistory)' = NtIn(ntHistory) \ {f} BY <3>3
      <4> QED BY <1>0, <2>3, <3>1, <4>1, <4>2
    <3>10. ASSUME NEW q \in NtProgram PROVE NtMoved(q)'
      <4> SUFFICES ASSUME ntPc'[q] = "remove"
                   PROVE  ntHistory'[Head(ntTodo'[q])] # 0 \/ Head(ntTodo'[q]) \in ntPruned'
        BY DEF NtMoved
      <4>1. ntPc[q] = "remove" /\ ntTodo'[q] = ntTodo[q] BY <2>2, <2>6
      <4>2. ntTodo[q] \in Seq(NtFile) /\ ntTodo[q] # <<>>
        BY <1>0, <4>1 DEF NtShape, NtBusy, NtTypeOK
      <4>3. Head(ntTodo[q]) \in NtFile BY <4>2, NtTails
      <4> QED BY <1>m, <3>1, <3>2, <4>1, <4>3
    <3> QED BY <3>8, <3>9, <3>10 DEF NtSafe
  <2> QED BY <2>9, <2>10
<1>7. ASSUME NEW p \in NtProgram, NtKilled(p) PROVE NtSafe'
  <2>1. ntPc' = [ntPc EXCEPT ![p] = "idle"] /\ ntTodo' = [ntTodo EXCEPT ![p] = <<>>]
    BY <1>7 DEF NtKilled, NtGoto
  <2>2. /\ ntPc'[p] = "idle"
        /\ \A q \in NtProgram \ {p} : ntPc'[q] = ntPc[q] /\ ntTodo'[q] = ntTodo[q]
    BY <1>0, <2>1, NtOthers
  <2>3. NtDoomed' \subseteq NtDoomed
    <3> SUFFICES ASSUME NEW g \in NtDoomed' PROVE g \in NtDoomed OBVIOUS
    <3>1. g \in NtFile BY DEF NtDoomed
    <3>2. PICK q \in NtProgram :
            ntPc'[q] = "prune" /\ \E i \in 1..Len(ntTodo'[q]) : ntTodo'[q][i] = g
      BY DEF NtDoomed
    <3>3. q # p BY <2>2, <3>2
    <3>4. ntPc'[q] = ntPc[q] /\ ntTodo'[q] = ntTodo[q] BY <2>2, <3>3
    <3> QED BY <3>1, <3>2, <3>4 DEF NtDoomed
  <2>4. /\ ntHistory' = ntHistory /\ ntCurrent' = ntCurrent /\ ntWritten' = ntWritten
        /\ ntPruned' = ntPruned
    BY <1>7 DEF NtKilled
  <2>5. \A q \in NtProgram : ntPc'[q] = "remove" =>
            ntHistory[Head(ntTodo'[q])] # 0 \/ Head(ntTodo'[q]) \in ntPruned'
    BY <1>m, <2>2, <2>4
  <2> QED BY <1>0, <2>3, <2>4, <2>5, NtSafeSame
<1>8. CASE NtTick \/ UNCHANGED ntVars
  <2>1. /\ ntHistory' = ntHistory /\ ntCurrent' = ntCurrent /\ ntWritten' = ntWritten
        /\ ntPc' = ntPc /\ ntTodo' = ntTodo /\ ntPruned' = ntPruned
    BY <1>8 DEF NtTick, ntVars
  <2>2. NtDoomed' \subseteq NtDoomed BY <2>1 DEF NtDoomed
  <2> QED BY <1>0, <1>m, <2>1, <2>2, NtSafeSame
<1> QED BY <1>1, <1>2, <1>3, <1>4, <1>5, <1>6, <1>7, <1>8 DEF NtNext, NtStep

\* A copy that failed and a listing that was outdated are not forgotten.
LEMMA NtExcused ==
    ASSUME NtTypeOK, [NtNext]_ntVars
    PROVE  (ntCopyFailed => ntCopyFailed') /\ (ntOutdated => ntOutdated')
BY Zenon DEF NtNext, NtStep, NtTick, NtNotification, NtList, NtCopy, NtRemove, NtListHistory,
   NtPrune, NtKilled, ntVars, NtTypeOK

(* Programs that work from each other's outdated listings and are killed at any step     *)
(* lose no notification (notifications.cc:77-96): one that is in neither directory was   *)
(* deleted from the history when NtKeep newer ones were there, for any number of         *)
(* programs, files and limits, unless a copy failed or a file came back under an         *)
(* outdated listing.                                                                     *)
THEOREM NtKeepsNotifications == NtSpec => [](NtTypeOK /\ NtNothingLost)
<1>1. NtInit => NtIInv
  <2> SUFFICES ASSUME NtInit PROVE NtIInv OBVIOUS
  <2>1. NtShape BY NtShapeInit
  <2>2. ntWritten \subseteq NtIn(ntHistory)
    <3>1. ntWritten = NtOld /\ ntHistory = [f \in NtFile |-> IF f \in NtOld THEN 1 ELSE 0]
      BY DEF NtInit
    <3> QED BY <3>1, NtAssumption DEF NtIn
  <2>3. NtGuarded(ntHistory, NtDoomed)
    <3>1. NtDoomed = {} BY DEF NtInit, NtDoomed
    <3> QED BY <3>1 DEF NtGuarded
  <2>4. \A p \in NtProgram : NtMoved(p) BY DEF NtInit, NtMoved
  <2> QED BY <2>1, <2>2, <2>3, <2>4 DEF NtIInv, NtSafe
<1>2. NtIInv /\ [NtNext]_ntVars => NtIInv'
  <2> SUFFICES ASSUME NtIInv, [NtNext]_ntVars PROVE NtIInv' OBVIOUS
  <2>1. NtShape /\ NtShape' BY NtShapeStep DEF NtIInv
  <2>2. ASSUME ~ntCopyFailed', ~ntOutdated' PROVE NtSafe'
    <3>1. ~ntCopyFailed /\ ~ntOutdated BY <2>1, <2>2, NtExcused DEF NtShape
    <3>2. NtSafe BY <3>1 DEF NtIInv
    <3> QED BY <2>1, <2>2, <3>2, NtSafeStep
  <2> QED BY <2>1, <2>2 DEF NtIInv
<1>3. NtIInv => NtTypeOK /\ NtNothingLost
  <2> SUFFICES ASSUME NtIInv PROVE NtTypeOK /\ NtNothingLost OBVIOUS
  <2> QED BY DEF NtIInv, NtShape, NtSafe, NtNothingLost
<1> QED BY <1>1, <1>2, <1>3, PTL DEF NtSpec
=============================================================================
