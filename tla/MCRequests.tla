----------------------------- MODULE MCRequests -----------------------------
(* Instances of SessionRequests with two worker threads.                     *)
EXTENDS SessionRequests

CONSTANTS t1, t2

\* A request that waits for data of providers, whose late answers meet an RPC that
\* waits too, and one more in the queue.
MCData == <<"data", "rpc", "plain">>

\* A request that the session may not issue, after one of each other kind.
MCRefused == <<"rpc", "data", "plain", "denied">>
=============================================================================
