------------------------- MODULE MCAnalysisConsumer -------------------------
(***************************************************************************)
(* Small instances of AnalysisConsumer: a job whose message was sent twice *)
(* next to one whose row is missing; a job next to one whose input is      *)
(* invalid and a message that does not parse.                              *)
(***************************************************************************)
EXTENDS AnalysisConsumer, TLC

CONSTANTS j1, j2, m1, m2, m3, m4

\* j1 twice, and a second job.
TwoJobs == (m1 :> j1) @@ (m2 :> j1) @@ (m3 :> j2)

\* Two jobs and a message that does not parse.
Mixed == (m1 :> j1) @@ (m3 :> j2) @@ (m4 :> NoJob)

HandlerSymmetry == Permutations(Handlers)

\* Two failing calls, signals or crashes in all.
TwoTroubles == faults + stops <= 2
=============================================================================
