----------------------------- MODULE MCWorkspace -----------------------------
(***************************************************************************)
(* Small instances of Workspace: two normal analyses and a full scan of    *)
(* one repository.                                                         *)
(***************************************************************************)
EXTENDS Workspace, TLC

CONSTANTS a, b, c, repo1, inst1, commit1, commit2

OneRepo == [j \in Jobs |-> repo1]
OneInstallation == [r \in Repos |-> inst1]
\* a and b analyse a commit each, c the tip.
Commit == [j \in Jobs |-> CASE j = a -> commit1 [] j = b -> commit2 [] OTHER -> Tip]

\* The two normal analyses may change places, each with its commit.
SwapAnalyses ==
  {(a :> b) @@ (b :> a) @@ (commit1 :> commit2) @@ (commit2 :> commit1)}
=============================================================================
