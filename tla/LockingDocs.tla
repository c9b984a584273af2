---------------------------- MODULE LockingDocs ----------------------------
(***************************************************************************)
(* What inc/sysrepo.h and the comments of the code say of the locks, as    *)
(* properties of Locking.                                                  *)
(***************************************************************************)
EXTENDS MCLocking

VARIABLE granted   \* session -> module locks its user was granted and has not given back

\* Only lock and unlock requests for a module change the list of a session
\* between two idle states; an unlock of the datastore or the end of the
\* session gives everything back.
Granted ==
    granted' = [s \in Session |->
        IF pc[s] = "idle" /\ pc'[s] = "idle" THEN lockedFiles'[<<s, "user">>]
        ELSE IF pc'[s] \in {"unlock_ds", "stop", "closed"} THEN {}
        ELSE granted[s]]

DocSpec ==
    /\ Init /\ granted = [s \in Session |-> {}]
    /\ [][Next /\ Granted]_<<vars, granted>>

\* inc/sysrepo.h of sr_lock_module: the module stays locked until it is unlocked
\* or the session ends.  A failed dm_lock_datastore rolls back locks it did not take.
LockKept == \A s \in Session : granted[s] \subseteq lockedFiles[<<s, "user">>]

\* inc/sysrepo.h of sr_unlock_datastore: it unlocks the datastore the session is
\* tied to.  dm_unlock_datastore empties locked_files for every datastore.
UnlocksItsDatastore ==
    [][\A s \in Session : pc[s] = "unlock_ds" =>
          \A f \in lockedFiles[<<s, "user">>] \ lockedFiles'[<<s, "user">>] : f[2] = ds[s]]_vars

\* inc/sysrepo.h of sr_lock_datastore: a granted lock covers all data models of the
\* datastore.  dm_lock_datastore skips the models the user may not lock.
LocksAllModels ==
    [][\A s \in Session : (pc[s] = "lock_ds" /\ pc'[s] = "idle" /\ rc[s] = "ok") =>
          \A m \in Module \ NoData : FileOf(s, m) \in lockedFiles[<<s, "user">>]]_vars

\* Comment in dm_commit_load_modified_models: the second dm_lock_module checks
\* whether the committing session holds the lock.  It also acquires it.
RetryOnlyChecks ==
    [][\A s \in Session : pc[s] = "retry" /\ pc'[s] # "closed" =>
          lockedFiles'[<<s, "user">>] = lockedFiles[<<s, "user">>]]_vars
=============================================================================
