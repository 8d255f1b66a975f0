------------------------------ MODULE CodeGraph ------------------------------
(***************************************************************************)
(* GenerateCodeGraph (src/artifact/codeGraph/codeGraph.go) and what        *)
(* CalculateMetrics makes of its result: the strategies of Go, Python and  *)
(* Java run one after the other over the files of a project, their graphs  *)
(* are merged, and the calls of the merged graph are measured.             *)
(***************************************************************************)
EXTENDS PythonStrategy, JavaStrategy, CallGraphMetrics

VARIABLES
  strategy,   \* where GenerateCodeGraph stands
  matched,    \* languages whose strategy ran
  units       \* languages that gave the merged graph a node

graphVars == <<strategy, matched, units>>
vars == <<pyVars, javaVars, metricVars, graphVars>>

Languages == {"go", "python", "java"}

Init ==
  /\ PyInit /\ JavaInit /\ MetricsInit
  /\ strategy = "go" /\ matched = {} /\ units = {}

After(lang) == CASE lang = "go" -> "python" [] lang = "python" -> "java"
                 [] lang = "java" -> "merge"

(***************************************************************************)
(* A project has files of a language or not; extSet counts files the       *)
(* strategy will pass over, such as those below vendor or with an          *)
(* extension in capitals, so that a matched strategy may find nothing.     *)
(***************************************************************************)
\* Analyze of a language has not begun to read a file.
Begins(lang) ==
  /\ strategy = lang
  /\ lang = "python" => pyLine = 0 /\ pyScan = "reading"
  /\ lang = "java" => javaLine = 0 /\ javaScan = "reading"

\* No file has an extension of the strategy.
Skip(lang) ==
  /\ Begins(lang)
  /\ strategy' = After(lang)
  /\ UNCHANGED <<matched, units, pyVars, javaVars, metricVars>>

\* filepath.Walk hands over an error (the tree is being deleted): all fails.
WalkFails(lang) ==
  /\ Begins(lang)
  /\ strategy' = "failed"
  /\ UNCHANGED <<matched, units, pyVars, javaVars, metricVars>>

\* All files of a language, none of which need hold a node: Go files that do
\* not parse are passed over.
Analyze(lang) ==
  /\ Begins(lang)
  /\ lang = "go" \/ matched # {}
  /\ matched' = matched \cup {lang}
  /\ \/ UNCHANGED units /\ strategy' = After(lang)
     \/ units' = units \cup {lang} /\ strategy' = After(lang)
     \/ lang = "python" /\ strategy' = "panic" /\ UNCHANGED units
  /\ UNCHANGED <<pyVars, javaVars, metricVars>>

(***************************************************************************)
(* The first file of a project is followed line by line; files share no    *)
(* state, so what Analyze draws for the others are the outcomes of this.   *)
(***************************************************************************)
ScanPython ==
  /\ strategy = "python" /\ matched = {} /\ PyNext
  /\ UNCHANGED <<graphVars, javaVars, metricVars>>

PythonDone ==
  /\ strategy = "python" /\ pyScan \in {"eof", "panic"}
  /\ matched' = matched \cup {"python"}
  /\ units' = IF pyNodes = {} THEN units ELSE units \cup {"python"}
  /\ strategy' = IF pyScan = "panic" THEN "panic" ELSE After("python")
  /\ PyReset
  /\ UNCHANGED <<javaVars, metricVars>>

ScanJava ==
  /\ strategy = "java" /\ matched = {} /\ JavaNext
  /\ UNCHANGED <<graphVars, pyVars, metricVars>>

JavaDone ==
  /\ strategy = "java" /\ javaScan = "eof"
  /\ matched' = matched \cup {"java"}
  /\ units' = IF javaNodes = {} THEN units ELSE units \cup {"java"}
  /\ strategy' = After("java")
  /\ JavaReset
  /\ UNCHANGED <<pyVars, metricVars>>

(***************************************************************************)
(* The merged graph.  Calls of a Python or Go file may refer to nodes of   *)
(* any other file, so any calls may meet in it.                            *)
(***************************************************************************)
Merge ==
  /\ strategy = "merge"
  /\ IF matched = {}
     THEN strategy' = "failed" /\ UNCHANGED metricVars
     ELSE /\ strategy' = "measure"
          /\ \E graph \in [Names -> SUBSET Names] :
               /\ units = {} => graph = NoCalls
               /\ Measure(graph)
  /\ UNCHANGED <<matched, units, pyVars, javaVars>>

MeasureCalls ==
  /\ strategy = "measure" /\ MetricsStep
  /\ UNCHANGED <<graphVars, pyVars, javaVars>>

Next ==
  \/ \E lang \in Languages : Skip(lang) \/ WalkFails(lang) \/ Analyze(lang)
  \/ ScanPython \/ PythonDone \/ ScanJava \/ JavaDone
  \/ Merge \/ MeasureCalls

Spec == Init /\ [][Next]_vars

==============================================================================
