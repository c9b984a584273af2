----------------------------- MODULE CommitDocs -----------------------------
(***************************************************************************)
(* What the public header, and comments in the code, say of a commit, where *)
(* the code does something else.  A run refutes the first.                 *)
(***************************************************************************)
EXTENDS MCCommit

\* inc/sysrepo.h says of sr_commit: "Apply changes made in current session.",
\* "Error code (SR_ERR_OK on success)".  The thread that loses the race to complete the
\* verify phase still stores its own result in the context, and that of the last
\* acknowledgement (OK) is what the aborted commit answers after a timeout.
OkMeansWritten == answer = "ok" => written = "yes"

\* inc/sysrepo.h says of SR_EV_APPLY: "Occurs just after the changes have been
\* successfully committed to the datastore".  rp_dt_commit goes on to it after
\* dm_commit_write_files failed.
ApplyOnlyIfWritten == Notified("apply") => written = "yes"

\* rp_all_notifications_received releases the context with the comment "apply or abort
\* phase finished, release commit context".  The verify timer, never cancelled, does so
\* as soon as the notifications of that phase are sent.
ReleasedWhenFinished ==
    call["ftimer"].pc = "armed" /\ (\E e \in {"apply", "abort"}, s \in Sub : <<e, s>> \in inflight)
        => inTree

\* inc/sysrepo.h says of SR_SUBSCR_NO_ABORT_FOR_REFUSED_CFG: "The subscriber will not
\* receive ::SR_EV_ABORT if he returns an error in verify phase".  The list of those
\* subscribers goes to the first thread to complete the phase; another one, or one that
\* read the list before the refusal arrived, may be the one to resume the commit.
RefuserSpared ==
    [][\A s \in NoAbort :
          /\ state = "wait" /\ state' = "abort"
          /\ verdict[s] = "refuse" /\ <<"verify", s>> \in sent \ inflight
          => XpathOf[s] \in errXpaths']_vars

\* ... and "(if the commit is refused by other verifier ::SR_EV_ABORT will be
\* delivered)".  dm_should_skip_subscription tells subscribers apart by module name or
\* xpath only.
AbortReachesOthers ==
    state = "finished" /\ ev = "abort"
        => \A s \in Verifier : verdict[s] = "accept" => <<"abort", s>> \in sent

Quiescent == wpc = "done" /\ \A c \in Caller : call[c].pc \in {"off", "done"}

\* src/notification_processor.c says of np_ctx_t.commits: "Linked-list of ongoing
\* commits."  An abort that nobody is told of leaves its entry in the list.
OnlyOngoingCommits == Quiescent /\ inflight = {} => ~np.here

\* src/request_processor.h says of rp_wait_for_commits_to_finish: "Function waits until
\* commit is finished, it also blocks any further commits."  It also blocks the second
\* half of a commit that waits for its verifiers, whose context then stays.
ShutdownDrains == [](blockCtx => <>~inTree)
=============================================================================
