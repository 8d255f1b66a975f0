------------------------- MODULE MCContextGeneration -------------------------
(***************************************************************************)
(* A small instance of ContextGeneration: two chunks, and an overview that *)
(* is given two temporary files and one of the clone.                      *)
(***************************************************************************)
EXTENDS ContextGeneration

DetailsFile == <<"details", 0>>
MetricsFile == <<"metrics", 0>>
GraphFile == <<"graph", 0>>
OverviewFiles == {DetailsFile, MetricsFile}
CloneFiles == {GraphFile}
\* No details, unnamed ones, one of two modules left out, the order changed, a
\* module twice.
Lists == {<<>>, <<0, 0>>, <<2>>, <<3, 2>>, <<0, 3, 3>>}
Calls == 0..MaxChunks
Paths ==
  [r \in Calls |-> IF r = Overview THEN OverviewFiles \cup CloneFiles ELSE {ChunkFile(r)}]
=============================================================================
