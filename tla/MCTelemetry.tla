----------------------------- MODULE MCTelemetry -----------------------------
(***************************************************************************)
(* Two goroutines and files of two short lines.                            *)
(***************************************************************************)
EXTENDS Telemetry

CONSTANTS h1, h2

HandlerSymmetry == Permutations(Handlers)

FewTroubles == failures + crashes <= 2
==============================================================================
