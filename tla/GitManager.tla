----------------------------- MODULE GitManager -----------------------------
(***************************************************************************)
(* The git manager of an account (svd.user/.../managers/SvdGitManager.scala *)
(* and GitCore.init): repositories are records in the account's database   *)
(* and bare directories on disk.  The actor treats one request at a time;  *)
(* the svd it lives in may be killed between the two halves of a request.   *)
(*                                                                         *)
(* An exception restarts the actor: preRestart runs postStop, which closes *)
(* the database client the restarted actor is given again.                 *)
(***************************************************************************)
EXTENDS Naturals, Sequences, FiniteSets

CONSTANTS
    GmUuid,         \* the uuids randomUUID hands out
    GmName,         \* names of repositories
    GmKey,          \* access keys
    GmNone

ASSUME GmAssumption == GmNone \notin GmUuid \cup GmName

VARIABLES
    gmRepo,         \* the records: uuid to name, GmNone for no record
    gmKeys,         \* authorizedKeys of the records
    gmDirs,         \* directories on disk, by name
    gmPc,           \* "ready", "made", "forgotten" or "down"
    gmJob,          \* the name being created or removed
    gmDbOpen,       \* the database client is open
    gmReplies,      \* what the last request was answered
    gmDid,          \* history: whether it changed anything; "open" while it runs
    gmByHand        \* history: the user deleted a directory

gmVars == <<gmRepo, gmKeys, gmDirs, gmPc, gmJob, gmDbOpen, gmReplies, gmDid, gmByHand>>

GmTypeOK ==
    /\ gmRepo \in [GmUuid -> GmName \cup {GmNone}]
    /\ gmKeys \in [GmUuid -> SUBSET GmKey]
    /\ gmDirs \subseteq GmName
    /\ gmPc \in {"ready", "made", "forgotten", "down"}
    /\ gmJob \in GmName \cup {GmNone}
    /\ gmDbOpen \in BOOLEAN
    /\ \A i \in 1..Len(gmReplies) :
          gmReplies[i] \in {"success", "repository", "exists", "missing"}
    /\ gmDid \in {"open", "changed", "refused", "thrown"}
    /\ gmByHand \in BOOLEAN

GmInit ==
    /\ gmRepo = [u \in GmUuid |-> GmNone]
    /\ gmKeys = [u \in GmUuid |-> {}]
    /\ gmDirs = {}
    /\ gmPc = "ready"
    /\ gmJob = GmNone
    /\ gmDbOpen = TRUE
    /\ gmReplies = <<>>
    /\ gmDid = "refused"
    /\ gmByHand = FALSE

GmAnswer(replies, did) == gmReplies' = replies /\ gmDid' = did

(* The handler throws: no answer, and a restart on a closed client. *)
GmThrow ==
    /\ GmAnswer(<<>>, "thrown")
    /\ gmDbOpen' = FALSE
    /\ UNCHANGED <<gmRepo, gmKeys, gmDirs, gmPc, gmJob>>

(* CreateRepository.  GitCore.init makes the directory, or throws because    *)
(* there is one: JGit refuses to make a bare repository again.                *)
GmCreate(name) ==
    /\ gmPc = "ready"
    /\ CASE ~gmDbOpen -> GmThrow
         [] gmDbOpen /\ \E u \in GmUuid : gmRepo[u] = name ->
              /\ GmAnswer(<<"exists">>, "refused")
              /\ UNCHANGED <<gmRepo, gmKeys, gmDirs, gmPc, gmJob, gmDbOpen>>
         [] OTHER ->
              \/ name \in gmDirs /\ GmThrow
              \/ /\ name \notin gmDirs
                 /\ gmDirs' = gmDirs \cup {name}
                 /\ gmPc' = "made"
                 /\ gmJob' = name
                 /\ GmAnswer(<<>>, "open")
                 /\ UNCHANGED <<gmRepo, gmKeys, gmDbOpen>>
    /\ UNCHANGED gmByHand

(* ... and db << repo, sender ! repo. *)
GmCreated(u) ==
    /\ gmPc = "made"
    /\ gmRepo[u] = GmNone
    /\ gmRepo' = [gmRepo EXCEPT ![u] = gmJob]
    /\ gmKeys' = [gmKeys EXCEPT ![u] = {}]
    /\ gmPc' = "ready"
    /\ gmJob' = GmNone
    /\ GmAnswer(<<"repository">>, "changed")
    /\ UNCHANGED <<gmDirs, gmDbOpen, gmByHand>>

GmRemoveDirectoryFirst(u) ==
    /\ gmPc = "ready"
    /\ IF ~gmDbOpen THEN GmThrow
       ELSE IF gmRepo[u] = GmNone \/ gmRepo[u] \notin gmDirs
       THEN /\ GmAnswer(<<"missing">>, "refused")
            /\ UNCHANGED <<gmRepo, gmKeys, gmDirs, gmPc, gmJob, gmDbOpen>>
       ELSE /\ gmDirs' = gmDirs \ {gmRepo[u]}
            /\ gmPc' = "forgotten"
            /\ gmJob' = gmRepo[u]
            /\ GmAnswer(<<>>, "open")
            /\ UNCHANGED <<gmRepo, gmKeys, gmDbOpen>>
    /\ UNCHANGED gmByHand

(* RemoveRepository: withRepo answers once more when its body is done. *)
GmRemove(u) ==
    /\ gmPc = "ready"
    /\ IF ~gmDbOpen THEN GmThrow
       ELSE IF gmRepo[u] = GmNone
       THEN /\ GmAnswer(<<"missing">>, "refused")
            /\ UNCHANGED <<gmRepo, gmKeys, gmDirs, gmPc, gmJob, gmDbOpen>>
       ELSE IF gmRepo[u] \notin gmDirs
       THEN /\ GmAnswer(<<"missing", "success">>, "refused")
            /\ UNCHANGED <<gmRepo, gmKeys, gmDirs, gmPc, gmJob, gmDbOpen>>
       ELSE /\ gmRepo' = [gmRepo EXCEPT ![u] = GmNone]
            /\ gmPc' = "forgotten"
            /\ gmJob' = gmRepo[u]
            /\ GmAnswer(<<>>, "open")
            /\ UNCHANGED <<gmKeys, gmDirs, gmDbOpen>>
    /\ UNCHANGED gmByHand

(* ... and rm_r(repoLocation). *)
GmRemoved ==
    /\ gmPc = "forgotten"
    /\ gmDirs' = gmDirs \ {gmJob}
    /\ gmPc' = "ready"
    /\ gmJob' = GmNone
    /\ GmAnswer(<<"success", "success">>, "changed")
    /\ UNCHANGED <<gmRepo, gmKeys, gmDbOpen, gmByHand>>

(* AddAuthorizedKey and RemoveAuthorizedKey with the resulting set of keys: *)
(* withRepo answers, then the handler answers ApiSuccess, whatever it said.  *)
GmStoreKeys(u, keys) ==
    /\ gmPc = "ready"
    /\ IF ~gmDbOpen THEN GmThrow
       ELSE /\ IF gmRepo[u] = GmNone
               THEN /\ GmAnswer(<<"missing", "success">>, "refused")
                    /\ UNCHANGED gmKeys
               ELSE /\ gmKeys' = [gmKeys EXCEPT ![u] = keys]
                    /\ GmAnswer(<<"success", "success">>, "changed")
            /\ UNCHANGED <<gmRepo, gmDirs, gmPc, gmJob, gmDbOpen>>
    /\ UNCHANGED gmByHand

GmAddKey(u, k) == GmStoreKeys(u, gmKeys[u] \cup {k})

GmRemoveKey(u, k) == GmStoreKeys(u, gmKeys[u] \ {k})

(* The svd is killed, and started again by its kick: a new client. *)
GmKilled ==
    /\ gmPc # "down"
    /\ gmPc' = "down"
    /\ gmJob' = GmNone
    /\ GmAnswer(<<>>, "thrown")
    /\ UNCHANGED <<gmRepo, gmKeys, gmDirs, gmDbOpen, gmByHand>>

GmPreStart ==
    /\ gmPc = "down"
    /\ gmPc' = "ready"
    /\ gmDbOpen' = TRUE
    /\ UNCHANGED <<gmRepo, gmKeys, gmDirs, gmJob, gmReplies, gmDid, gmByHand>>

(* The directories are the user's (external). *)
GmDeletedByHand(name) ==
    /\ name \in gmDirs
    /\ gmDirs' = gmDirs \ {name}
    /\ gmByHand' = TRUE
    /\ UNCHANGED <<gmRepo, gmKeys, gmPc, gmJob, gmDbOpen, gmReplies, gmDid>>

GmNext ==
    \/ \E name \in GmName : GmCreate(name) \/ GmDeletedByHand(name)
    \/ \E u \in GmUuid : GmCreated(u) \/ GmRemove(u)
    \/ \E u \in GmUuid, k \in GmKey : GmAddKey(u, k) \/ GmRemoveKey(u, k)
    \/ GmRemoved \/ GmKilled \/ GmPreStart

GmSpec == GmInit /\ [][GmNext]_gmVars

-----------------------------------------------------------------------------
(* Killed at any point, the manager leaves no record without its directory,  *)
(* and no two records of one name: creation makes the directory first and    *)
(* removal forgets the record first (SvdGitManager.scala:76-77, 89-90).      *)
(* The reverse happens: a directory without record blocks its name for ever, *)
(* because GitCore.init throws.                                                *)
GmRecordedOnDisk ==
    /\ gmByHand \/ \A u \in GmUuid : gmRepo[u] # GmNone => gmRepo[u] \in gmDirs
    /\ \A u, v \in GmUuid : gmRepo[u] = gmRepo[v] /\ gmRepo[u] # GmNone => u = v

(* Most requests are answered twice, and the second answer may deny the      *)
(* first.  Whoever asks takes the first one (`manager ? ...'), and that one   *)
(* is true: an error if and only if nothing was done.                          *)
GmFirstAnswerTrue ==
    gmReplies # <<>> =>
        (gmDid = "refused" <=> Head(gmReplies) \in {"exists", "missing"})

(* What the manager has on record and what it answers agree with the disk.   *)
GmConsistent == GmRecordedOnDisk /\ GmFirstAnswerTrue
=============================================================================
