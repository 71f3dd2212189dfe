------------------------------- MODULE Logger -------------------------------
(***************************************************************************)
(* The logger of the C++ programs (src/lib/cutelogger/Logger.cpp and the   *)
(* appenders): threads stream a record into one LogDevice, whose semaphore *)
(* is taken when the record is begun and released by writeData when the    *)
(* stream is flushed.  Level, file and line of the record are kept in the  *)
(* device in between.                                                      *)
(*                                                                         *)
(* The main thread registers its appender before it starts others, as      *)
(* every program here does, so instance() finds the logger made.  A record *)
(* longer than the buffer of a text stream is flushed in two pieces, each  *)
(* of which calls writeData; a record with nothing in it is not flushed.   *)
(***************************************************************************)
EXTENDS Naturals, FiniteSets

CONSTANTS
    LgThread,
    LgRecords       \* bound: records of each thread

ASSUME LgAssumption == IsFiniteSet(LgThread) /\ LgRecords \in Nat

VARIABLES
    lgPc,           \* "idle", "create", "lock", "stream" or "end"
    lgDone,         \* records of each thread handed to the appenders
    lgSees,         \* the device a thread got from logDevice(), 0 for none
    lgPieces,       \* pieces of its record still to be flushed
    lgDevice,       \* m_logDevice, 0 for none
    lgMade,         \* devices created so far
    lgSem,          \* per device: free places of the semaphore
    lgContext,      \* per device: whose level, file and line it holds
    lgWrong,        \* records appended with the context of another thread
    lgSplit         \* history: a record was flushed in pieces

lgVars == <<lgPc, lgDone, lgSees, lgPieces, lgDevice, lgMade, lgSem, lgContext,
            lgWrong, lgSplit>>

LgDevices == 1..Cardinality(LgThread)

LgTypeOK ==
    /\ lgPc \in [LgThread -> {"idle", "create", "lock", "stream", "end"}]
    /\ lgDone \in [LgThread -> 0..LgRecords]
    /\ lgSees \in [LgThread -> {0} \cup LgDevices]
    /\ lgPieces \in [LgThread -> 0..2]
    /\ lgDevice \in {0} \cup LgDevices
    /\ lgMade \in {0} \cup LgDevices
    /\ lgSem \in [LgDevices -> Nat]
    /\ lgContext \in [LgDevices -> LgThread]
    /\ lgWrong \subseteq LgThread
    /\ lgSplit \in BOOLEAN

LgInit ==
    /\ lgPc = [t \in LgThread |-> "idle"]
    /\ lgDone = [t \in LgThread |-> 0]
    /\ lgSees = [t \in LgThread |-> 0]
    /\ lgPieces = [t \in LgThread |-> 0]
    /\ lgDevice = 0
    /\ lgMade = 0
    /\ lgSem = [d \in LgDevices |-> 1]
    /\ lgContext = [d \in LgDevices |-> CHOOSE t \in LgThread : TRUE]
    /\ lgWrong = {}
    /\ lgSplit = FALSE

-----------------------------------------------------------------------------
(* logDevice: the pointer is read under a read lock.                       *)
LgLogDevice(t) ==
    /\ lgPc[t] = "idle"
    /\ lgDone[t] < LgRecords
    /\ lgSees' = [lgSees EXCEPT ![t] = lgDevice]
    /\ lgPc' = [lgPc EXCEPT ![t] = IF lgDevice = 0 THEN "create" ELSE "lock"]
    /\ UNCHANGED <<lgDone, lgPieces, lgDevice, lgMade, lgSem, lgContext, lgWrong, lgSplit>>

(* A thread that saw none makes one under a write lock, without looking    *)
(* again.                                                                  *)
LgCreate(t) ==
    /\ lgPc[t] = "create"
    /\ lgMade' = lgMade + 1
    /\ lgDevice' = lgMade + 1
    /\ lgSees' = [lgSees EXCEPT ![t] = lgMade + 1]
    /\ lgPc' = [lgPc EXCEPT ![t] = "lock"]
    /\ UNCHANGED <<lgDone, lgPieces, lgSem, lgContext, lgWrong, lgSplit>>

LgLockMissing(t, pieces) ==
    LET d == lgSees[t] IN
    /\ lgPc[t] = "lock"
    /\ lgSem' = [lgSem EXCEPT ![d] = IF @ = 0 THEN 0 ELSE @ - 1]
    /\ lgContext' = [lgContext EXCEPT ![d] = t]
    /\ lgPieces' = [lgPieces EXCEPT ![t] = pieces]
    /\ lgSplit' = (lgSplit \/ pieces > 1)
    /\ lgPc' = [lgPc EXCEPT ![t] = "stream"]
    /\ UNCHANGED <<lgDone, lgSees, lgDevice, lgMade, lgWrong>>

(* LogDevice::lock, then the record is streamed into the buffer.           *)
LgLock(t, pieces) ==
    LET d == lgSees[t] IN
    /\ lgPc[t] = "lock"
    /\ lgSem[d] > 0
    /\ lgSem' = [lgSem EXCEPT ![d] = @ - 1]
    /\ lgContext' = [lgContext EXCEPT ![d] = t]
    /\ lgPieces' = [lgPieces EXCEPT ![t] = pieces]
    /\ lgSplit' = (lgSplit \/ pieces > 1)
    /\ lgPc' = [lgPc EXCEPT ![t] = "stream"]
    /\ UNCHANGED <<lgDone, lgSees, lgDevice, lgMade, lgWrong>>

(* A record with nothing streamed never reaches writeData, and keeps the   *)
(* semaphore.                                                              *)
LgEmpty(t) ==
    LET d == lgSees[t] IN
    /\ lgPc[t] = "lock"
    /\ lgSem[d] > 0
    /\ lgSem' = [lgSem EXCEPT ![d] = @ - 1]
    /\ lgContext' = [lgContext EXCEPT ![d] = t]
    /\ lgDone' = [lgDone EXCEPT ![t] = @ + 1]
    /\ lgPc' = [lgPc EXCEPT ![t] = "idle"]
    /\ UNCHANGED <<lgSees, lgPieces, lgDevice, lgMade, lgWrong, lgSplit>>

(* writeData: the appenders get the piece with the device's context, then  *)
(* the semaphore is released.                                              *)
LgWriteData(t) ==
    LET d == lgSees[t]
        last == lgPieces[t] = 1
    IN
    /\ lgPc[t] = "stream"
    /\ lgWrong' = IF lgContext[d] = t THEN lgWrong ELSE lgWrong \cup {t}
    /\ lgSem' = [lgSem EXCEPT ![d] = @ + 1]
    /\ lgPieces' = [lgPieces EXCEPT ![t] = @ - 1]
    /\ lgDone' = [lgDone EXCEPT ![t] = IF last THEN @ + 1 ELSE @]
    /\ lgPc' = [lgPc EXCEPT ![t] = IF last THEN "idle" ELSE "stream"]
    /\ UNCHANGED <<lgSees, lgDevice, lgMade, lgContext, lgSplit>>

(* A fatal record: abort() ends the program from within the appenders,     *)
(* semaphore and locks held.                                               *)
LgFatal(t) ==
    /\ lgPc[t] = "stream"
    /\ lgPieces[t] = 1
    /\ lgPc' = [u \in LgThread |-> "end"]
    /\ UNCHANGED <<lgDone, lgSees, lgPieces, lgDevice, lgMade, lgSem, lgContext,
                   lgWrong, lgSplit>>

LgNext ==
    \E t \in LgThread :
        \/ LgLogDevice(t) \/ LgCreate(t) \/ LgEmpty(t) \/ LgWriteData(t) \/ LgFatal(t)
        \/ \E pieces \in 1..2 : LgLock(t, pieces)

LgSpec == LgInit /\ [][LgNext]_lgVars

-----------------------------------------------------------------------------
(* A record carries the level, file and line of the thread that wrote it,  *)
(* and a thread that is writing has its device to itself, two devices from *)
(* a race of logDevice() included, for as long as no record was flushed in *)
(* pieces.                                                                 *)
LgRightContext ==
    lgSplit \/
        /\ lgWrong = {}
        /\ \A t \in LgThread :
                lgPc[t] = "stream" =>
                    /\ lgContext[lgSees[t]] = t
                    /\ \A u \in LgThread \ {t} :
                            lgPc[u] = "stream" => lgSees[u] # lgSees[t]
=============================================================================
