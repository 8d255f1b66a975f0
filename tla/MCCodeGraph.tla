----------------------------- MODULE MCCodeGraph -----------------------------
(***************************************************************************)
(* A small instance of CodeGraph: files of a few lines of every form, and  *)
(* every graph of calls between three names.                               *)
(***************************************************************************)
EXTENDS CodeGraph

CONSTANTS n1, n2, n3

ThreeNames == {n1, n2, n3}
==============================================================================
