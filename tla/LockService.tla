---------------------------- MODULE LockService ----------------------------
(***************************************************************************)
(* What the locks promise to their users: a file has at most one owner, an *)
(* owner gives it up before another client can get it, and a client that   *)
(* disappears leaves nothing behind.                                       *)
(***************************************************************************)
CONSTANTS
    Client,
    Lockable,   \* what can be locked
    Nobody

VARIABLE owner  \* Lockable -> its owner

Init == owner = [f \in Lockable |-> Nobody]

Acquire(c, f) ==
    /\ owner[f] = Nobody
    /\ owner' = [owner EXCEPT ![f] = c]

Release(c, f) ==
    /\ owner[f] = c
    /\ owner' = [owner EXCEPT ![f] = Nobody]

\* The clients of a process that dies lose their locks together.
Abandon(C) ==
    owner' = [f \in Lockable |-> IF owner[f] \in C THEN Nobody ELSE owner[f]]

Next ==
    \/ \E c \in Client, f \in Lockable : Acquire(c, f) \/ Release(c, f)
    \/ \E C \in SUBSET Client : Abandon(C)

Spec == Init /\ [][Next]_owner
=============================================================================
