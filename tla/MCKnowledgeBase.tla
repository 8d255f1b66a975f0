--------------------------- MODULE MCKnowledgeBase ---------------------------
(***************************************************************************)
(* Small instances of KnowledgeBase: a full scan and the analyses of two   *)
(* pushes, a merge and one that skips a commit, on one clone or on two.    *)
(***************************************************************************)
EXTENDS KnowledgeBase

CONSTANTS scan, p1, p2, mine, yours

\* The commit between the two pushes never came to a job.
Pushes == [j \in Jobs |-> CASE j = p1 -> 2 [] j = p2 -> 4 [] OTHER -> 1]
\* All on one clone, or the second push on another.
OneOrTwo == {[j \in Jobs |-> mine], [j \in Jobs |-> IF j = p2 THEN yours ELSE mine]}
=============================================================================
