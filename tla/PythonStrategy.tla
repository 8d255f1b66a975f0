--------------------------- MODULE PythonStrategy ---------------------------
(***************************************************************************)
(* The line scanner of Python files (parseFile in                          *)
(* src/artifact/codeGraph/strategy/pyStrategy.go).  It keeps a stack of    *)
(* classes and one of functions, pops them by indentation, and takes the   *)
(* top of each for the owner of a method and the caller of a call.  Beside *)
(* it the model keeps the blocks Python itself sees.                       *)
(***************************************************************************)
EXTENDS Naturals, Stacks

CONSTANTS
  PyForms,     \* the kinds of lines a file may have, a subset of PyAllForms
  MaxPyLines,  \* bound: lines of a file
  MaxIndent    \* bound: indentation

(***************************************************************************)
(* A line is what Python makes of it ("is": a header of a class, function  *)
(* or other block, a statement, or none of these: a blank line, a comment, *)
(* a line inside a string or a bracket) and the regular expression that    *)
(* matches first ("looks").  "async def" looks like a call.  A list of     *)
(* imported names that goes on after a comma ends in an empty name.  A     *)
(* line whose calls are all of builtins is plain.  The "implements" edges  *)
(* of a class to its parents are left out.                                 *)
(***************************************************************************)
PyForm(is, looks) == [is |-> is, looks |-> looks]

PyAllForms ==
  {PyForm("class", "class"), PyForm("def", "def"), PyForm("def", "call"),
   PyForm("block", "call"), PyForm("block", "plain"),
   PyForm("stmt", "call"), PyForm("stmt", "import"), PyForm("stmt", "names")}
  \cup {PyForm("text", looks) : looks \in {"blank", "plain", "call", "class", "def"}}

PyLines == {[is |-> f.is, looks |-> f.looks, indent |-> i] :
              f \in PyForms, i \in 0..MaxIndent}

ASSUME PyAssumption ==
  PyForms \subseteq PyAllForms /\ MaxPyLines \in Nat /\ MaxIndent \in Nat

VARIABLES
  pyLine,      \* lines read
  classStack,  \* frames of classes, outermost first
  funcStack,   \* frames of functions
  pyNodes,     \* nodes: line, indentation, receiver (0 for none), EndLine (0: later)
  pyEdges,     \* call edges: the line, and the line of the caller's header
  pyScan,      \* "reading", "eof" or "panic"
  blocks,      \* history: the blocks that are open, outermost first
  level,       \* history: indentation of the last line Python counts
  suite,       \* history: that line was a header, so a body must follow
  misled       \* history: a line looked like what it is not

pyVars == <<pyLine, classStack, funcStack, pyNodes, pyEdges, pyScan,
            blocks, level, suite, misled>>

PyInit ==
  /\ pyLine = 0 /\ classStack = <<>> /\ funcStack = <<>>
  /\ pyNodes = {} /\ pyEdges = {} /\ pyScan = "reading"
  /\ blocks = <<>> /\ level = 0 /\ suite = FALSE /\ misled = FALSE

(***************************************************************************)
(* The code's view: frames are popped while the line is not deeper.        *)
(***************************************************************************)
PoppedMutant(stack, indent) == Popping(stack, {i \in DOMAIN stack : stack[i].indent <= indent})
Popped(stack, indent) == Popping(stack, {i \in DOMAIN stack : stack[i].indent < indent})

Classes(l) == Popped(classStack, l.indent)
Functions(l) == Popped(funcStack, l.indent)
Frame(l) == [line |-> pyLine + 1, indent |-> l.indent]

\* findBlockEnd looks ahead for the first line that is not blank and not deeper
\* than the header; here that line, when it comes, ends the nodes before it.
EndsBlock(l, n) == n.end = 0 /\ l.looks # "blank" /\ l.indent <= n.indent
Ended(l) == {IF EndsBlock(l, n) THEN [n EXCEPT !.end = pyLine] ELSE n : n \in pyNodes}

\* "is" is history: the line of a node may be text that only read like a header.
NewNode(l, receiver) ==
  [line |-> pyLine + 1, indent |-> l.indent, receiver |-> receiver, end |-> 0, is |-> l.is]

(***************************************************************************)
(* Python's view: a header needs a deeper body, any other line stands at   *)
(* the indentation of an open block or of the line before.                 *)
(***************************************************************************)
Follows(l) ==
  \/ l.is = "text"
  \/ IF suite THEN l.indent > level
     ELSE l.indent = level \/ \E i \in DOMAIN blocks : blocks[i].indent = l.indent

Opens(l) == l.is \in {"class", "def", "block"}

\* What the scanner takes for something else: a blank line or a comment left of
\* an open header, a header it does not know, text that reads like a header.
Misleads(l) ==
  \/ l.is = "text" /\ l.looks \in {"class", "def"}
  \/ l.is = "text" /\ \E i \in DOMAIN blocks : l.indent <= blocks[i].indent
  \/ l.is = "def" /\ l.looks # "def"

PythonReads(l) ==
  /\ misled' = (misled \/ Misleads(l))
  /\ IF l.is = "text" THEN UNCHANGED <<blocks, level, suite>>
     ELSE /\ blocks' = LET open == Popping(blocks, {i \in DOMAIN blocks : blocks[i].indent < l.indent})
                       IN IF Opens(l)
                          THEN Append(open, [line |-> pyLine + 1, is |-> l.is, indent |-> l.indent])
                          ELSE open
          /\ level' = l.indent
          /\ suite' = Opens(l)

(***************************************************************************)
(* One line.  Both stacks are popped first, whatever the line is.          *)
(***************************************************************************)
ReadLine(l) ==
  /\ pyScan = "reading" /\ pyLine < MaxPyLines /\ Follows(l)
  /\ pyLine' = pyLine + 1
  /\ PythonReads(l)

\* An empty name panics: strings.Fields returns no field, and [0] is taken.
PyImport(l) ==
  /\ l.looks \in {"import", "names"} /\ ReadLine(l)
  /\ classStack' = Classes(l) /\ funcStack' = Functions(l)
  /\ pyNodes' = Ended(l)
  /\ pyScan' = IF l.looks = "names" THEN "panic" ELSE "reading"
  /\ UNCHANGED pyEdges

PyClass(l) ==
  /\ l.looks = "class" /\ ReadLine(l)
  /\ classStack' = Append(Classes(l), Frame(l)) /\ funcStack' = Functions(l)
  /\ pyNodes' = Ended(l) \cup {NewNode(l, 0)}
  /\ UNCHANGED <<pyEdges, pyScan>>

PyDef(l) ==
  /\ l.looks = "def" /\ ReadLine(l)
  /\ classStack' = Classes(l) /\ funcStack' = Append(Functions(l), Frame(l))
  /\ pyNodes' = Ended(l) \cup {NewNode(l, LineOfTop(Classes(l)))}
  /\ UNCHANGED <<pyEdges, pyScan>>

PyCall(l) ==
  /\ l.looks \in {"call", "plain", "blank"} /\ ReadLine(l)
  /\ classStack' = Classes(l) /\ funcStack' = Functions(l)
  /\ pyNodes' = Ended(l)
  /\ pyEdges' = IF l.looks = "call" /\ Functions(l) # <<>>
                THEN pyEdges \cup {[line |-> pyLine + 1, from |-> LineOfTop(Functions(l))]}
                ELSE pyEdges
  /\ UNCHANGED pyScan

PyEndOfFile ==
  /\ pyScan = "reading" /\ ~suite
  /\ pyScan' = "eof"
  /\ UNCHANGED <<pyLine, classStack, funcStack, pyNodes, pyEdges,
                 blocks, level, suite, misled>>

\* The locals of parseFile go with its return.
PyReset ==
  /\ pyLine' = 0 /\ classStack' = <<>> /\ funcStack' = <<>>
  /\ pyNodes' = {} /\ pyEdges' = {} /\ pyScan' = "reading"
  /\ blocks' = <<>> /\ level' = 0 /\ suite' = FALSE /\ misled' = FALSE

PyNext ==
  \/ \E l \in PyLines : PyImport(l) \/ PyClass(l) \/ PyDef(l) \/ PyCall(l)
  \/ PyEndOfFile

PySpec == PyInit /\ [][PyNext]_pyVars

-----------------------------------------------------------------------------
(***************************************************************************)
(* Properties.                                                             *)
(***************************************************************************)
OpenBlocks(is) == {blocks[i].line : i \in {k \in DOMAIN blocks : blocks[k].is = is}}
LinesOf(stack) == {stack[i].line : i \in DOMAIN stack}

FromText(line) == \E n \in pyNodes : n.line = line /\ n.is = "text"

\* A frame on a stack is that of a block that is still open, or of text that
\* read like a header; and as long as no line misled the scanner, its stacks
\* are exactly the open classes and functions.
PyStacksFollow ==
  /\ \A line \in LinesOf(classStack) : line \in OpenBlocks("class") \/ FromText(line)
  /\ \A line \in LinesOf(funcStack) : line \in OpenBlocks("def") \/ FromText(line)
  /\ ~misled => /\ LinesOf(classStack) = OpenBlocks("class")
                /\ LinesOf(funcStack) = OpenBlocks("def")

\* Owners and callers agree with the line ranges findBlockEnd computes on its
\* own: a call lies between the first and last line of its caller, and a method
\* between those of its class, whatever the file looks like.
Within(line, owner) ==
  \E n \in pyNodes :
    n.line = owner /\ owner < line /\ (n.end = 0 \/ line <= n.end)

PyOwnersEnclose ==
  /\ \A e \in pyEdges : Within(e.line, e.from)
  /\ \A n \in pyNodes : n.receiver # 0 => Within(n.line, n.receiver)
=============================================================================
