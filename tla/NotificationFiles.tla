-------------------------- MODULE NotificationFiles --------------------------
(***************************************************************************)
(* The notification files of a service (src/lib/notifications/             *)
(* notifications.cc): several programs write notifications into one        *)
(* directory; whoever writes one then moves the oldest into the history    *)
(* directory and deletes the oldest of those.  Programs are killed at any  *)
(* step and work from listings that others have outdated.                  *)
(*                                                                         *)
(* A file is named by a hash of its message and the second (or minute) it  *)
(* was written in, so the same file may be written again.  `history' (the  *)
(* in-memory map) is only ever read, so its branch is never taken.         *)
(***************************************************************************)
EXTENDS Integers, FiniteSets, Sequences

CONSTANTS
    NtProgram,
    NtFile,         \* a set of numbers: names, in the order of their text
    NtOld,          \* the files in the history directory from earlier programs
    NtShown,        \* NOTIFICATIONS_LAST_SHOWN
    NtKeep,         \* NOTIFICATIONS_HISTORY_KEEP_UPTO
    NtTicks,        \* bound: how far the clock of the file system runs
    NtCalls         \* bound: calls of notification(), a function of the program

ASSUME NtAssumption ==
    /\ NtFile \subseteq Nat /\ IsFiniteSet(NtFile) /\ NtOld \subseteq NtFile
    /\ NtShown \in Nat /\ NtKeep \in Nat /\ NtTicks \in Nat \ {0}
    /\ NtCalls \in [NtProgram -> Nat]

VARIABLES
    ntCurrent,      \* modification time of the current files, 0 for no file
    ntHistory,      \* the same of the history directory
    ntClock,
    ntPc,           \* "idle", "list", "copy", "remove", "listHistory" or "prune"
    ntTodo,         \* the files its loop has still to treat
    ntLeft,         \* calls each program may still make
    ntWritten,      \* history: files ever written
    ntPruned,       \* history: files deleted from the history directory, after they
                    \* were last written, with NtKeep newer ones beside them
    ntCopyFailed,   \* history: a copy failed for want of space
    ntOutdated      \* history: a file came into a directory while a program that
                    \* had listed it there was about to delete it

ntVars == <<ntCurrent, ntHistory, ntClock, ntPc, ntTodo, ntLeft, ntWritten,
            ntPruned, ntCopyFailed, ntOutdated>>

NtTimes == 0..NtTicks

NtTypeOK ==
    /\ ntCurrent \in [NtFile -> NtTimes]
    /\ ntHistory \in [NtFile -> NtTimes]
    /\ ntClock \in 1..NtTicks
    /\ ntPc \in [NtProgram -> {"idle", "list", "copy", "remove", "listHistory", "prune"}]
    /\ ntTodo \in [NtProgram -> Seq(NtFile)]
    /\ ntLeft \in [NtProgram -> Nat] /\ \A p \in NtProgram : ntLeft[p] <= NtCalls[p]
    /\ ntWritten \subseteq NtFile /\ ntPruned \subseteq NtFile
    /\ ntCopyFailed \in BOOLEAN
    /\ ntOutdated \in BOOLEAN

NtInit ==
    /\ ntCurrent = [f \in NtFile |-> 0]
    /\ ntHistory = [f \in NtFile |-> IF f \in NtOld THEN 1 ELSE 0]
    /\ ntClock = 1
    /\ ntPc = [p \in NtProgram |-> "idle"]
    /\ ntTodo = [p \in NtProgram |-> <<>>]
    /\ ntLeft = NtCalls
    /\ ntWritten = NtOld
    /\ ntPruned = {}
    /\ ntCopyFailed = FALSE
    /\ ntOutdated = FALSE

NtIn(dir) == {f \in NtFile : dir[f] # 0}

(* entryList(Files, Time): newest first, equal times by name (external).  A  *)
(* file's place, from 0, is the number of those ahead of it.                 *)
NtNewer(dir, f, g) == dir[f] > dir[g] \/ (dir[f] = dir[g] /\ f < g)
NtAhead(dir, f) == {g \in NtIn(dir) : NtNewer(dir, g, f)}
NtEntry(dir, i) == CHOOSE f \in NtIn(dir) : Cardinality(NtAhead(dir, f)) = i

(* The loops go from the last index down to limit + 1, and never to 0. *)
NtBeyond(dir, limit) ==
    LET n == Cardinality(NtIn(dir))
    IN  [i \in 1..(n - (limit + 1)) |-> NtEntry(dir, n - i)]

(* What is about to be deleted from the history. *)
NtDoomed ==
    {f \in NtFile : \E p \in NtProgram :
        ntPc[p] = "prune" /\ \E i \in 1..Len(ntTodo[p]) : ntTodo[p][i] = f}

(* What is about to be removed from the current files with no copy of it. *)
NtUncopied(f) ==
    ntHistory[f] = 0 /\ \E p \in NtProgram : ntPc[p] = "remove" /\ Head(ntTodo[p]) = f

NtGoto(p, pc) == ntPc' = [ntPc EXCEPT ![p] = pc]

(* notification: a timestamp, a hash, the directories, writeToFile. *)
NtNotification(p, f) ==
    /\ ntPc[p] = "idle" /\ ntLeft[p] > 0
    /\ ntLeft' = [ntLeft EXCEPT ![p] = @ - 1]
    /\ ntCurrent' = [ntCurrent EXCEPT ![f] = ntClock]
    /\ ntWritten' = ntWritten \cup {f}
    /\ ntPruned' = ntPruned \ {f}
    /\ ntOutdated' = (ntOutdated \/ NtUncopied(f))
    /\ NtGoto(p, "list")
    /\ UNCHANGED <<ntHistory, ntClock, ntTodo, ntCopyFailed>>

(* moveOldNotificationsToHistoryAndCleanHistory, step by step. *)
NtList(p) ==
    /\ ntPc[p] = "list"
    /\ ntTodo' = [ntTodo EXCEPT ![p] = NtBeyond(ntCurrent, NtShown)]
    /\ NtGoto(p, IF ntTodo'[p] = <<>> THEN "listHistory" ELSE "copy")
    /\ UNCHANGED <<ntCurrent, ntHistory, ntClock, ntLeft, ntWritten, ntPruned, ntCopyFailed,
                   ntOutdated>>

(* QFile::copy refuses a destination that exists and a source that does not; *)
(* it may fail for want of space.  Nobody looks at its result.                *)
NtCopy(p) ==
    LET f == Head(ntTodo[p]) IN
    /\ ntPc[p] = "copy"
    /\ NtGoto(p, "remove")
    /\ IF ntCurrent[f] # 0 /\ ntHistory[f] = 0
       THEN \/ /\ ntHistory' = [ntHistory EXCEPT ![f] = ntClock]
               /\ ntOutdated' = (ntOutdated \/ f \in NtDoomed)
               /\ UNCHANGED ntCopyFailed
            \/ /\ ntCopyFailed' = TRUE
               /\ UNCHANGED <<ntHistory, ntOutdated>>
       ELSE UNCHANGED <<ntHistory, ntCopyFailed, ntOutdated>>
    /\ UNCHANGED <<ntCurrent, ntClock, ntTodo, ntLeft, ntWritten, ntPruned>>

NtNextItem(p, pc) ==
    /\ ntTodo' = [ntTodo EXCEPT ![p] = Tail(@)]
    /\ NtGoto(p, pc)

NtRemove(p) ==
    /\ ntPc[p] = "remove"
    /\ ntCurrent' = [ntCurrent EXCEPT ![Head(ntTodo[p])] = 0]
    /\ NtNextItem(p, IF Len(ntTodo[p]) = 1 THEN "listHistory" ELSE "copy")
    /\ UNCHANGED <<ntHistory, ntClock, ntLeft, ntWritten, ntPruned, ntCopyFailed, ntOutdated>>

NtListHistoryByName(p) ==
    /\ ntPc[p] = "listHistory"
    /\ ntTodo' = [ntTodo EXCEPT ![p] =
                    NtBeyond([f \in NtFile |-> IF ntHistory[f] = 0 THEN 0 ELSE 1], NtKeep)]
    /\ NtGoto(p, IF ntTodo'[p] = <<>> THEN "idle" ELSE "prune")
    /\ UNCHANGED <<ntCurrent, ntHistory, ntClock, ntLeft, ntWritten, ntPruned, ntCopyFailed,
                   ntOutdated>>

NtListHistory(p) ==
    /\ ntPc[p] = "listHistory"
    /\ ntTodo' = [ntTodo EXCEPT ![p] = NtBeyond(ntHistory, NtKeep)]
    /\ NtGoto(p, IF ntTodo'[p] = <<>> THEN "idle" ELSE "prune")
    /\ UNCHANGED <<ntCurrent, ntHistory, ntClock, ntLeft, ntWritten, ntPruned, ntCopyFailed,
                   ntOutdated>>

NtPrune(p) ==
    LET f == Head(ntTodo[p]) IN
    /\ ntPc[p] = "prune"
    /\ ntHistory' = [ntHistory EXCEPT ![f] = 0]
    /\ ntPruned' = IF ntHistory[f] # 0 /\ Cardinality(NtAhead(ntHistory, f)) >= NtKeep
                   THEN ntPruned \cup {f} ELSE ntPruned
    /\ NtNextItem(p, IF Len(ntTodo[p]) = 1 THEN "idle" ELSE "prune")
    /\ UNCHANGED <<ntCurrent, ntClock, ntLeft, ntWritten, ntCopyFailed, ntOutdated>>

NtKilled(p) ==
    /\ ntPc[p] # "idle"
    /\ NtGoto(p, "idle")
    /\ ntTodo' = [ntTodo EXCEPT ![p] = <<>>]
    /\ UNCHANGED <<ntCurrent, ntHistory, ntClock, ntLeft, ntWritten, ntPruned, ntCopyFailed,
                   ntOutdated>>

NtTick ==
    /\ ntClock < NtTicks
    /\ ntClock' = ntClock + 1
    /\ UNCHANGED <<ntCurrent, ntHistory, ntPc, ntTodo, ntLeft, ntWritten, ntPruned,
                   ntCopyFailed, ntOutdated>>

NtStep(p) ==
    NtList(p) \/ NtCopy(p) \/ NtRemove(p) \/ NtListHistory(p) \/ NtPrune(p)

NtNext ==
    \/ NtTick
    \/ \E p \in NtProgram :
        \/ \E f \in NtFile : NtNotification(p, f)
        \/ NtStep(p)
        \/ NtKilled(p)

NtSpec == NtInit /\ [][NtNext]_ntVars

-----------------------------------------------------------------------------
(* Programs that work from outdated listings, copy over each other and die   *)
(* between copy and remove lose no notification: one that is in neither      *)
(* directory was deleted from the history when NtKeep newer ones were there   *)
(* (notifications.cc:77-96; the history keeps one file more than globals.h:14 *)
(* says, by `i > NOTIFICATIONS_HISTORY_KEEP_UPTO').  Three things are         *)
(* excepted.  The result of a copy is ignored, so its source is removed when  *)
(* it failed.  And a program deletes what its listing names: a file that was  *)
(* pruned by another program since and came back, because a copy of it from   *)
(* the current directory was still to be made, is deleted again although it   *)
(* may be among the newest by then; and one that was pruned between copy and  *)
(* remove and written once more just then is removed.                         *)
NtNothingLost ==
    \/ ntCopyFailed
    \/ ntOutdated
    \/ ntWritten \subseteq NtIn(ntCurrent) \cup NtIn(ntHistory) \cup ntPruned
=============================================================================
