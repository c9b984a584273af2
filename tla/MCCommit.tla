------------------------------ MODULE MCCommit ------------------------------
(* Instances of CommitProtocol: two verifiers and one subscription that only *)
(* takes part in the apply phase.                                            *)
EXTENDS CommitProtocol

CONSTANTS sub1, sub2, sub3, xp1, xp2

\* All subscriptions have names of their own ...
MCOwnXpath == [s \in {sub1, sub2, sub3} |-> s]

\* ... or those of sub1 and sub2 share one: two subscribers of a module.
MCSharedXpath == [s \in {sub1, sub2, sub3} |-> IF s \in {sub1, sub2} THEN xp1 ELSE xp2]
=============================================================================
