---------------------------- MODULE MCPublishJobs ----------------------------
(* Small instances of PublishJobs for TLC.                                   *)
EXTENDS PublishJobsInvariant, TLC

CONSTANTS e1, e2, a1, a2, p1, p2

\* Rows for one article and one account: a row and its replacements.
OneTargetArticleOf == [j \in Jobs |-> p1]
OneTargetAccountOf == [j \in Jobs |-> a1]

\* Siblings: row 2 belongs to the second account.
TwoTargetsAccountOf == [j \in Jobs |-> IF j = 2 THEN a2 ELSE a1]

ExecutorSymmetry == Permutations(Executors)
=============================================================================
