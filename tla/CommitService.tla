---------------------------- MODULE CommitService ----------------------------
(***************************************************************************)
(* What a commit promises its subscribers: every verifier votes at most    *)
(* once, one decision is taken, it is to write only if all of them have    *)
(* accepted, and whoever is told an outcome is told that one.              *)
(***************************************************************************)
CONSTANTS Subscriber, Voter

VARIABLES
    vote,      \* what each subscriber has answered
    decision,  \* "none", "write" or "abort"
    told       \* pairs of an outcome and a subscriber

votes == <<vote, decision, told>>

Begin ==
    /\ vote = [s \in Subscriber |-> "none"]
    /\ decision = "none"
    /\ told = {}

Vote(s, v) ==
    /\ vote[s] = "none"
    /\ vote' = [vote EXCEPT ![s] = v]
    /\ UNCHANGED <<decision, told>>

Decide(d) ==
    /\ decision = "none"
    /\ d = "write" => \A s \in Voter : vote[s] = "accept"
    /\ decision' = d
    /\ UNCHANGED <<vote, told>>

Tell(s) ==
    /\ decision # "none"
    /\ told' = told \union {<<decision, s>>}
    /\ UNCHANGED <<vote, decision>>

Change ==
    \/ \E s \in Voter, v \in {"accept", "refuse"} : Vote(s, v)
    \/ \E d \in {"write", "abort"} : Decide(d)
    \/ \E s \in Subscriber : Tell(s)

Service == Begin /\ [][Change]_votes
=============================================================================
