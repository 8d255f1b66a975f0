-------------------------- MODULE CallGraphMetrics --------------------------
(***************************************************************************)
(* The recursive metrics of a call graph                                   *)
(* (src/artifact/projectContext/metrics.go): the search for cycles, with   *)
(* its colours and its stack, and the depth of the longest chain of calls. *)
(* Go ranges over a map in any order, and so does the search.              *)
(***************************************************************************)
EXTENDS Naturals, Sequences, FiniteSets, SequencesExt

CONSTANTS
  Names    \* node IDs and the names calls refer to

ASSUME MetricsAssumption == IsFiniteSet(Names) /\ Names # {}

VARIABLES
  calls,       \* callGraph: the callees of each name
  visited,     \* per name: "new", "stack" or "done"
  path,        \* calls of dfs under way: [node, left], the latest last
  cycles,      \* count
  searching    \* "no", "yes" or "finished"

metricVars == <<calls, visited, path, cycles, searching>>

NoCalls == [n \in Names |-> {}]

MetricsInit ==
  /\ calls = NoCalls
  /\ visited = [n \in Names |-> "new"] /\ path = <<>> /\ cycles = 0
  /\ searching = "no"

\* Only names that call something are keys of the map.
Callers == {n \in Names : calls[n] # {}}

\* buildCallGraph; the order of the callees is the order of the lines.
Measure(graph) ==
  /\ searching = "no" /\ searching' = "yes"
  /\ calls' = graph
  /\ UNCHANGED <<visited, path, cycles>>

Enter(n) == Append(path, [node |-> n, left |-> calls[n]])

SearchFrom(n) ==
  /\ searching = "yes" /\ path = <<>> /\ n \in Callers /\ visited[n] = "new"
  /\ path' = Enter(n)
  /\ visited' = [visited EXCEPT ![n] = "stack"]
  /\ UNCHANGED <<calls, cycles, searching>>

ClosesCycleMutant(n) == visited[n] # "new"
ClosesCycle(n) == visited[n] = "stack"

Follow(n) ==
  /\ path # <<>> /\ n \in Last(path).left
  /\ LET rest == [path EXCEPT ![Len(path)].left = @ \ {n}]
     IN IF visited[n] = "new"
        THEN /\ path' = Append(rest, [node |-> n, left |-> calls[n]])
             /\ visited' = [visited EXCEPT ![n] = "stack"]
             /\ UNCHANGED cycles
        ELSE /\ path' = rest
             /\ cycles' = IF ClosesCycle(n) THEN cycles + 1 ELSE cycles
             /\ UNCHANGED visited
  /\ UNCHANGED <<calls, searching>>

Leave ==
  /\ path # <<>> /\ Last(path).left = {}
  /\ visited' = [visited EXCEPT ![Last(path).node] = "done"]
  /\ path' = Front(path)
  /\ UNCHANGED <<calls, cycles, searching>>

SearchEnds ==
  /\ searching = "yes" /\ path = <<>>
  /\ \A n \in Callers : visited[n] # "new"
  /\ searching' = "finished"
  /\ UNCHANGED <<calls, visited, path, cycles>>

MetricsStep ==
  \/ \E n \in Names : SearchFrom(n) \/ Follow(n)
  \/ Leave \/ SearchEnds

(***************************************************************************)
(* calcMaxCallDepth: from every caller, without entering a name twice at a *)
(* time; visited is undone on the way back.                                *)
(***************************************************************************)
\* The mutant counts the step back into a name that is being visited.
DeepestMutant(graph) ==
  LET from[n \in Names, seen \in SUBSET Names] ==
        Max({0} \cup {IF m \in seen THEN 1 ELSE from[m, seen \cup {m}] + 1 : m \in graph[n]})
  IN Max({0} \cup {from[n, {n}] : n \in {m \in Names : graph[m] # {}}})

\* How deep it gets, per set of names being visited, from each name.
DepthFrom(graph) ==
  LET from[seen \in SUBSET Names] ==
        [n \in Names |-> Max({0} \cup {from[seen \cup {m}][m] + 1 : m \in graph[n] \ seen})]
  IN from

Deepest(graph) == Max({0} \cup {DepthFrom(graph)[{n}][n] : n \in {m \in Names : graph[m] # {}}})

-----------------------------------------------------------------------------
(***************************************************************************)
(* Reference definitions and properties.                                   *)
(***************************************************************************)
SimplePaths(graph) ==
  {p \in SeqOf(Names, Cardinality(Names)) :
     /\ p # <<>> /\ IsInjective(p)
     /\ \A i \in 1..Len(p) - 1 : p[i + 1] \in graph[p[i]]}

HasCycle(graph) == \E p \in SimplePaths(graph) : p[1] \in graph[Last(p)]

\* In whatever order the map is walked, cycles are counted exactly if there are
\* any: the names coloured "stack" are those of the path, and a name that is
\* done has no callee the search has not seen.
CyclesFound ==
  /\ {n \in Names : visited[n] = "stack"} = {path[i].node : i \in DOMAIN path}
  /\ \A n \in Names : visited[n] = "done" => \A m \in calls[n] : visited[m] # "new"
  /\ searching = "finished" => (cycles > 0 <=> HasCycle(calls))

\* The depth is the number of calls of the longest chain without repetition.
DepthIsLongestChain ==
  searching = "finished" =>
    /\ \E p \in SimplePaths(calls) : Len(p) = Deepest(calls) + 1
    /\ \A p \in SimplePaths(calls) : Len(p) <= Deepest(calls) + 1
=============================================================================
