----------------------------- MODULE MCLocking -----------------------------
(***************************************************************************)
(* Locking for TLC.  Sessions s1 and s2 are served by the daemon, s3 by an *)
(* application in library mode.                                            *)
(***************************************************************************)
EXTENDS Locking

CONSTANTS daemon, app, s1, s2, s3, m1, m2

MCProcOf == [s \in Session |-> IF s = s3 THEN app ELSE daemon]

MCRank == [m \in Module |-> IF m = m1 THEN 1 ELSE 2]

\* The other order.
MCRankRev == [m \in Module |-> IF m = m1 THEN 2 ELSE 1]

\* s2 may not lock m2 in the running datastore.
MCDenied == {<<s2, <<m2, "running">>>>} \intersect (Session \X File)
=============================================================================
