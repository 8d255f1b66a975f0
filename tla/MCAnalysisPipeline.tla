------------------------- MODULE MCAnalysisPipeline -------------------------
(***************************************************************************)
(* A small instance of AnalysisPipeline: two evaluated quests, a proposed  *)
(* one and two milestones, alike among themselves.                         *)
(***************************************************************************)
EXTENDS AnalysisPipeline, TLC

CONSTANTS q1, q2, n1, m1, m2

\* The other job meets full scans only: normal analyses handle quests by the same
\* steps and have the milestones besides.
OtherMeetsFullScan == other # "waiting" => kind = "full"

Alike == Permutations({q1, q2}) \cup Permutations({m1, m2})
=============================================================================
