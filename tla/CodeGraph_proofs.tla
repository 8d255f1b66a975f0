--------------------------- MODULE CodeGraph_proofs ---------------------------
(***************************************************************************)
(* Theorems about CodeGraph: for files of any length and any graph of      *)
(* calls, what the line scanners make of Python and Java, and what the     *)
(* metrics of the call graph count.                                        *)
(***************************************************************************)
EXTENDS CodeGraph, FiniteSetTheorems, SequenceTheorems, WellFoundedInduction, TLAPS

-----------------------------------------------------------------------------
(***************************************************************************)
(* Stacks.                                                                 *)
(***************************************************************************)
\* A set of numbers up to some bound has a greatest, which is what Max returns.
LEMMA Greatest ==
  ASSUME NEW n \in Nat, NEW S \in SUBSET (0..n), S # {}
  PROVE  Max(S) \in S /\ \A x \in S : x <= Max(S)
<1> DEFINE T == {n - x : x \in S}
<1>0. \A x \in S : x \in 0..n /\ x \in Nat /\ n - x \in Nat
  OBVIOUS
<1>1. T \subseteq Nat /\ T # {}
  BY <1>0
<1>2. PICK m \in T : \A k \in T : <<k, m>> \notin OpToRel(<, Nat)
  BY <1>1, WFMin, NatLessThanWellFounded, Zenon
<1>3. \A k \in T : ~(k < m)
  BY <1>1, <1>2 DEF OpToRel
<1>4. PICK x \in S : m = n - x
  OBVIOUS
<1>5. \A y \in S : x >= y
  <2> SUFFICES ASSUME NEW y \in S PROVE x >= y
    OBVIOUS
  <2>1. n - y \in T
    OBVIOUS
  <2>2. QED
    BY <1>0, <1>3, <1>4, <2>1
<1>6. QED
  BY <1>0, <1>5 DEF Max

\* What is left of a stack is its lower part, up to the highest frame that stays.
LEMMA PoppingIs ==
  ASSUME NEW T, NEW s \in Seq(T), NEW stays \in SUBSET DOMAIN s
  PROVE  /\ Popping(s, stays) \in Seq(T)
         /\ Len(Popping(s, stays)) \in stays \cup {0} /\ Len(Popping(s, stays)) <= Len(s)
         /\ \A i \in 1..Len(Popping(s, stays)) : Popping(s, stays)[i] = s[i]
         /\ \A i \in stays : i \in 1..Len(Popping(s, stays))
<1> DEFINE m == Max({0} \cup stays)
<1>1. Len(s) \in Nat /\ DOMAIN s = 1..Len(s)
  OBVIOUS
<1>2. m \in {0} \cup stays /\ \A x \in {0} \cup stays : x <= m
  <2>1. \A i \in stays : i \in 0..Len(s)
    BY <1>1
  <2>2. {0} \cup stays \subseteq 0..Len(s) /\ {0} \cup stays # {}
    BY <1>1, <2>1
  <2>3. QED
    BY <1>1, <2>2, Greatest
<1>3. m \in 0..Len(s)
  BY <1>1, <1>2
<1>4. \A i \in 1..m : s[i] \in T
  BY <1>1, <1>3, ElementOfSeq
<1>5. /\ SubSeq(s, 1, m) \in Seq(T) /\ Len(SubSeq(s, 1, m)) = m
      /\ \A i \in 1..m : SubSeq(s, 1, m)[i] = s[i]
  <2> HIDE DEF m
  <2>1. m \in Int /\ 1 \in Int /\ (1 <= m => m - 1 + 1 = m) /\ (~(1 <= m) => m = 0)
    BY <1>3
  <2>2. QED
    BY <1>3, <1>4, <2>1, SubSeqProperties
<1>6. Popping(s, stays) = SubSeq(s, 1, m)
  BY DEF Popping
<1>7. \A i \in stays : i \in 1..m
  <2> HIDE DEF m
  <2>1. \A i \in stays : i \in 1..Len(s) /\ i <= m
    BY <1>1, <1>2
  <2>2. QED
    BY <1>1, <1>3, <2>1
<1>8. QED
  <2> HIDE DEF m
  <2>1. QED
    BY <1>2, <1>3, <1>5, <1>6, <1>7

\* The elements of a list, with one more at its end.
LEMMA Appended ==
  ASSUME NEW T, NEW s \in Seq(T), NEW x \in T
  PROVE  /\ Append(s, x) \in Seq(T) /\ Len(Append(s, x)) = Len(s) + 1
         /\ ToSet(Append(s, x)) = ToSet(s) \cup {x}
<1>1. /\ Append(s, x) \in Seq(T) /\ Len(Append(s, x)) = Len(s) + 1
      /\ \A i \in 1..Len(s) : Append(s, x)[i] = s[i]
      /\ Append(s, x)[Len(s) + 1] = x
  BY AppendProperties
<1>2. Len(s) \in Nat /\ DOMAIN s = 1..Len(s) /\ DOMAIN Append(s, x) = 1..(Len(s) + 1)
  BY <1>1
<1>3. \A i \in 1..(Len(s) + 1) : i \in 1..Len(s) \/ i = Len(s) + 1
  BY <1>2
<1>4. QED
  BY <1>1, <1>2, <1>3 DEF ToSet

\* The top of a stack that is not empty is one of its frames.
LEMMA TopIs ==
  ASSUME NEW T, NEW s \in Seq(T)
  PROVE  /\ s = <<>> => LineOfTop(s) = 0
         /\ s # <<>> => Last(s) = s[Len(s)] /\ Last(s) \in ToSet(s) /\ LineOfTop(s) = Last(s).line
<1>1. Len(s) \in Nat /\ DOMAIN s = 1..Len(s) /\ (s # <<>> => Len(s) \in 1..Len(s))
  BY EmptySeq
<1>2. QED
  BY <1>1 DEF LineOfTop, Last, ToSet

-----------------------------------------------------------------------------
(***************************************************************************)
(* Python.  Frames get deeper towards the top, so that popping leaves      *)
(* exactly those left of the line.                                         *)
(***************************************************************************)
PyFrames == [line : Nat, indent : Nat]
PyBlocks == [line : Nat, is : {"class", "def", "block"}, indent : Nat]

Deeper(s) == \A i, k \in 1..Len(s) : i < k => s[i].indent < s[k].indent

\* Popping a stack of frames that get deeper leaves those left of the line.
LEMMA PoppedIs ==
  ASSUME NEW T, \A f \in T : f.indent \in Nat, NEW s \in Seq(T), Deeper(s), NEW indent \in Nat,
         NEW p, p = Popping(s, {i \in DOMAIN s : s[i].indent < indent})
  PROVE  /\ p \in Seq(T) /\ Deeper(p)
         /\ ToSet(p) = {f \in ToSet(s) : f.indent < indent}
<1> DEFINE stays == {i \in DOMAIN s : s[i].indent < indent}
<1>1. Len(s) \in Nat /\ DOMAIN s = 1..Len(s) /\ \A i \in 1..Len(s) : s[i] \in T
  BY ElementOfSeq
<1>2. /\ p \in Seq(T) /\ Len(p) \in stays \cup {0} /\ Len(p) <= Len(s)
      /\ \A i \in 1..Len(p) : p[i] = s[i]
      /\ \A i \in stays : i \in 1..Len(p)
  BY PoppingIs
<1>3. Len(p) \in Nat /\ DOMAIN p = 1..Len(p) /\ 1..Len(p) \subseteq 1..Len(s)
  <2>1. Len(p) \in Nat /\ DOMAIN p = 1..Len(p)
    BY <1>2
  <2>2. Len(p) <= Len(s)
    BY <1>2
  <2>3. \A a, b \in Nat : a <= b => 1..a \subseteq 1..b
    OBVIOUS
  <2>4. QED
    BY <1>1, <2>1, <2>2, <2>3
<1>4. \A i \in 1..Len(p) : s[i].indent < indent
  <2> SUFFICES ASSUME NEW i \in 1..Len(p) PROVE s[i].indent < indent
    OBVIOUS
  <2>1. Len(p) \in 1..Len(s) /\ s[Len(p)].indent < indent
    BY <1>1, <1>2, <1>3
  <2>2. i = Len(p) \/ s[i].indent < s[Len(p)].indent
    BY <1>3, <2>1 DEF Deeper
  <2>3. s[i].indent \in Nat /\ s[Len(p)].indent \in Nat
    BY <1>1, <1>3, <2>1
  <2>4. QED
    BY <2>1, <2>2, <2>3
<1>5. Deeper(p)
  BY <1>2, <1>3 DEF Deeper
<1>6. ToSet(p) = {f \in ToSet(s) : f.indent < indent}
  BY <1>1, <1>2, <1>3, <1>4 DEF ToSet
<1>7. QED
  BY <1>2, <1>5, <1>6

\* A frame right of all others may be pushed.
LEMMA DeeperStill ==
  ASSUME NEW T, \A f \in T : f.indent \in Nat, NEW s \in Seq(T), Deeper(s), NEW x \in T,
         \A f \in ToSet(s) : f.indent < x.indent
  PROVE  Deeper(Append(s, x))
<1>1. Len(s) \in Nat /\ \A i \in 1..Len(s) : s[i] \in ToSet(s)
  BY DEF ToSet
<1>2. /\ Len(Append(s, x)) = Len(s) + 1 /\ Append(s, x)[Len(s) + 1] = x
      /\ \A i \in 1..Len(s) : Append(s, x)[i] = s[i]
  BY AppendProperties
<1>3. ASSUME NEW i \in 1..(Len(s) + 1), NEW k \in 1..(Len(s) + 1), i < k
      PROVE  Append(s, x)[i].indent < Append(s, x)[k].indent
  <2>1. i \in 1..Len(s) /\ (k \in 1..Len(s) \/ k = Len(s) + 1)
    BY <1>1, <1>3
  <2>2. CASE k \in 1..Len(s)
    BY <1>2, <1>3, <2>1, <2>2 DEF Deeper
  <2>3. CASE k = Len(s) + 1
    BY <1>1, <1>2, <2>1, <2>3
  <2>4. QED
    BY <2>1, <2>2, <2>3
<1>4. QED
  BY <1>2, <1>3 DEF Deeper

Kinds == {"class", "def", "block", "stmt", "text"}
PyNodes == [line : Nat, indent : Nat, receiver : Nat, end : Nat, is : Kinds]

PyTypes ==
  /\ pyLine \in Nat /\ misled \in BOOLEAN
  /\ classStack \in Seq(PyFrames) /\ Deeper(classStack)
  /\ funcStack \in Seq(PyFrames) /\ Deeper(funcStack)
  /\ blocks \in Seq(PyBlocks) /\ Deeper(blocks)
  /\ pyNodes \subseteq PyNodes

Same(f, b) == f.line = b.line /\ f.indent = b.indent
OpenAt(f, is) == \E b \in ToSet(blocks) : b.is = is /\ Same(f, b)

\* A frame knows its block by line and indentation, so that both leave together.
FollowInv ==
  /\ \A f \in ToSet(classStack) : OpenAt(f, "class") \/ FromText(f.line)
  /\ \A f \in ToSet(funcStack) : OpenAt(f, "def") \/ FromText(f.line)
  /\ ~misled =>
       /\ \A n \in pyNodes : n.is # "text"
       /\ \A b \in ToSet(blocks) :
            /\ b.is = "class" => \E f \in ToSet(classStack) : Same(f, b)
            /\ b.is = "def" => \E f \in ToSet(funcStack) : Same(f, b)

\* As long as a frame is on a stack, its node has not ended.
NodesInv ==
  /\ \A n \in pyNodes : n.line \in 1..pyLine
  /\ \A f \in ToSet(classStack) \cup ToSet(funcStack) : \E n \in pyNodes : Same(f, n) /\ n.end = 0
  /\ \A e \in pyEdges : e.line \in 1..pyLine
  /\ PyOwnersEnclose

PyInv == PyTypes /\ FollowInv /\ NodesInv

\* What a line does to the stacks, the nodes and the edges, whatever it is.
Pushed(stack, l, looks) ==
  IF l.looks = looks THEN Append(Popped(stack, l.indent), Frame(l)) ELSE Popped(stack, l.indent)

NewNodes(l) ==
  CASE l.looks = "class" -> {NewNode(l, 0)}
    [] l.looks = "def" -> {NewNode(l, LineOfTop(Classes(l)))}
    [] OTHER -> {}

PyReads(l) ==
  /\ ReadLine(l)
  /\ classStack' = Pushed(classStack, l, "class")
  /\ funcStack' = Pushed(funcStack, l, "def")
  /\ pyNodes' = Ended(l) \cup NewNodes(l)
  /\ \/ UNCHANGED pyEdges
     \/ /\ Functions(l) # <<>>
        /\ pyEdges' = pyEdges \cup {[line |-> pyLine + 1, from |-> LineOfTop(Functions(l))]}

PyRests == UNCHANGED <<pyLine, classStack, funcStack, pyNodes, pyEdges, blocks, level, suite, misled>>

\* A step of CodeGraph reads a line of Python, or begins a file, or leaves the
\* scanner alone.
LEMMA PyMoves ==
  ASSUME [Next]_vars
  PROVE  (\E l \in PyLines : PyReads(l)) \/ PyReset \/ PyRests
<1>1. CASE ScanPython
  <2>1. CASE PyEndOfFile
    BY <2>1 DEF PyEndOfFile, PyRests
  <2>2. ASSUME NEW l \in PyLines, PyImport(l) \/ PyClass(l) \/ PyDef(l) \/ PyCall(l)
        PROVE  PyReads(l)
    <3>1. CASE PyImport(l)
      BY <3>1 DEF PyImport, PyReads, Pushed, NewNodes, Classes, Functions
    <3>2. CASE PyClass(l)
      BY <3>2 DEF PyClass, PyReads, Pushed, NewNodes, Classes, Functions
    <3>3. CASE PyDef(l)
      BY <3>3 DEF PyDef, PyReads, Pushed, NewNodes, Classes, Functions
    <3>4. CASE PyCall(l)
      BY <3>4 DEF PyCall, PyReads, Pushed, NewNodes, Classes, Functions
    <3>5. QED
      BY <2>2, <3>1, <3>2, <3>3, <3>4
  <2>3. QED
    BY <1>1, <2>1, <2>2 DEF ScanPython, PyNext
<1>2. CASE PythonDone
  BY <1>2 DEF PythonDone
<1>3. CASE UNCHANGED pyVars
  BY <1>3 DEF pyVars, PyRests
<1>4. QED
  <2>1. CASE UNCHANGED vars
    BY <1>3, <2>1 DEF vars
  <2>2. CASE Next
    BY <1>1, <1>2, <1>3, <2>2 DEF Next, Skip, WalkFails, Analyze, ScanJava, JavaDone, Merge, MeasureCalls
  <2>3. QED
    BY <2>1, <2>2

\* What a line makes of the stacks and of the blocks, as sets of frames.
LEMMA PyStacks ==
  ASSUME PyTypes, NEW l \in PyLines, PyReads(l)
  PROVE  /\ PyTypes'
         /\ ToSet(classStack') = {f \in ToSet(classStack) : f.indent < l.indent}
                                   \cup (IF l.looks = "class" THEN {Frame(l)} ELSE {})
         /\ ToSet(funcStack') = {f \in ToSet(funcStack) : f.indent < l.indent}
                                  \cup (IF l.looks = "def" THEN {Frame(l)} ELSE {})
         /\ l.is = "text" => ToSet(blocks') = ToSet(blocks)
         /\ l.is # "text" =>
              ToSet(blocks') = {b \in ToSet(blocks) : b.indent < l.indent}
                 \cup (IF Opens(l) THEN {[line |-> pyLine + 1, is |-> l.is, indent |-> l.indent]} ELSE {})
         /\ ToSet(Functions(l)) \subseteq {f \in ToSet(funcStack) : f.indent < l.indent}
         /\ ToSet(Classes(l)) \subseteq {f \in ToSet(classStack) : f.indent < l.indent}
         /\ Functions(l) \in Seq(PyFrames) /\ Classes(l) \in Seq(PyFrames)
<1>1. l.indent \in Nat /\ l.is \in Kinds /\ pyLine + 1 \in Nat /\ Frame(l) \in PyFrames
      /\ Frame(l).indent = l.indent
  BY PyAssumption DEF PyLines, PyAllForms, PyForm, Kinds, PyTypes, Frame, PyFrames
<1>2. ASSUME NEW stack \in Seq(PyFrames), Deeper(stack), NEW looks
      PROVE  /\ Popped(stack, l.indent) \in Seq(PyFrames)
             /\ ToSet(Popped(stack, l.indent)) = {f \in ToSet(stack) : f.indent < l.indent}
             /\ Pushed(stack, l, looks) \in Seq(PyFrames) /\ Deeper(Pushed(stack, l, looks))
             /\ ToSet(Pushed(stack, l, looks)) = {f \in ToSet(stack) : f.indent < l.indent}
                                                   \cup (IF l.looks = looks THEN {Frame(l)} ELSE {})
  <2> DEFINE p == Popped(stack, l.indent)
  <2>1. \A f \in PyFrames : f.indent \in Nat
    BY DEF PyFrames
  <2>2. p = Popping(stack, {i \in DOMAIN stack : stack[i].indent < l.indent})
    BY DEF Popped
  <2>3. p \in Seq(PyFrames) /\ Deeper(p) /\ ToSet(p) = {f \in ToSet(stack) : f.indent < l.indent}
    <3> HIDE DEF p
    <3>1. QED
      BY <1>1, <1>2, <2>1, <2>2, PoppedIs
  <2>4. /\ Append(p, Frame(l)) \in Seq(PyFrames) /\ Deeper(Append(p, Frame(l)))
        /\ ToSet(Append(p, Frame(l))) = ToSet(p) \cup {Frame(l)}
    <3> HIDE DEF p
    <3>1. \A f \in ToSet(p) : f.indent < Frame(l).indent
      BY <1>1, <2>3
    <3>2. QED
      BY <1>1, <2>1, <2>3, <3>1, Appended, DeeperStill
  <2>5. QED
    BY <2>3, <2>4 DEF Pushed
<1>3. classStack' \in Seq(PyFrames) /\ Deeper(classStack') /\ funcStack' \in Seq(PyFrames) /\ Deeper(funcStack')
  BY <1>2 DEF PyTypes, PyReads
<1>4. /\ ToSet(classStack') = {f \in ToSet(classStack) : f.indent < l.indent}
                                \cup (IF l.looks = "class" THEN {Frame(l)} ELSE {})
      /\ ToSet(funcStack') = {f \in ToSet(funcStack) : f.indent < l.indent}
                               \cup (IF l.looks = "def" THEN {Frame(l)} ELSE {})
  BY <1>2 DEF PyTypes, PyReads
<1>5. /\ Functions(l) \in Seq(PyFrames) /\ Classes(l) \in Seq(PyFrames)
      /\ ToSet(Functions(l)) \subseteq {f \in ToSet(funcStack) : f.indent < l.indent}
      /\ ToSet(Classes(l)) \subseteq {f \in ToSet(classStack) : f.indent < l.indent}
  BY <1>2 DEF PyTypes, Functions, Classes
<1>6. /\ blocks' \in Seq(PyBlocks) /\ Deeper(blocks')
      /\ l.is = "text" => ToSet(blocks') = ToSet(blocks)
      /\ l.is # "text" =>
           ToSet(blocks') = {b \in ToSet(blocks) : b.indent < l.indent}
              \cup (IF Opens(l) THEN {[line |-> pyLine + 1, is |-> l.is, indent |-> l.indent]} ELSE {})
  <2>1. CASE l.is = "text"
    BY <2>1 DEF PyReads, ReadLine, PythonReads, PyTypes
  <2>2. CASE l.is # "text"
    <3> DEFINE p == Popping(blocks, {i \in DOMAIN blocks : blocks[i].indent < l.indent})
               new == [line |-> pyLine + 1, is |-> l.is, indent |-> l.indent]
    <3>1. blocks' = IF Opens(l) THEN Append(p, new) ELSE p
      BY <2>2 DEF PyReads, ReadLine, PythonReads
    <3>2. \A b \in PyBlocks : b.indent \in Nat
      BY DEF PyBlocks
    <3>3. p \in Seq(PyBlocks) /\ Deeper(p) /\ ToSet(p) = {b \in ToSet(blocks) : b.indent < l.indent}
      <4>1. p = Popping(blocks, {i \in DOMAIN blocks : blocks[i].indent < l.indent})
        OBVIOUS
      <4>2. blocks \in Seq(PyBlocks) /\ Deeper(blocks) /\ l.indent \in Nat
        BY <1>1 DEF PyTypes
      <4> HIDE DEF p
      <4>3. QED
        BY <3>2, <4>1, <4>2, PoppedIs
    <3>4. Opens(l) => new \in PyBlocks /\ new.indent = l.indent
      BY <1>1 DEF Opens, PyBlocks
    <3>5. Opens(l) => /\ Append(p, new) \in Seq(PyBlocks) /\ Deeper(Append(p, new))
                      /\ ToSet(Append(p, new)) = ToSet(p) \cup {new}
      <4> HIDE DEF p, new
      <4>1. Opens(l) => \A b \in ToSet(p) : b.indent < new.indent
        BY <3>3, <3>4
      <4>2. QED
        BY <3>2, <3>3, <3>4, <4>1, Appended, DeeperStill
    <3>6. QED
      BY <2>2, <3>1, <3>3, <3>5
  <2>3. QED
    BY <2>1, <2>2
<1>7. pyNodes' \subseteq PyNodes
  <2>1. Ended(l) \subseteq PyNodes
    BY DEF Ended, PyTypes, PyNodes
  <2>2. LineOfTop(Classes(l)) \in Nat
    <3>1. \A f \in ToSet(classStack) : f \in PyFrames
      BY DEF PyTypes, ToSet
    <3>2. QED
      BY <1>5, <3>1, TopIs DEF PyFrames
  <2>3. NewNodes(l) \subseteq PyNodes
    BY <1>1, <2>2 DEF NewNodes, NewNode, PyNodes
  <2>4. QED
    BY <2>1, <2>3 DEF PyReads
<1>8. pyLine' \in Nat /\ misled' \in BOOLEAN
  BY <1>1 DEF PyReads, ReadLine, PythonReads
<1>9. QED
  BY <1>3, <1>4, <1>5, <1>6, <1>7, <1>8 DEF PyTypes

\* Frames leave the stacks with their blocks, and as long as nothing misled the
\* scanner they come with them, too.
LEMMA FollowStep ==
  ASSUME PyTypes, FollowInv, NEW l \in PyLines, PyReads(l)
  PROVE  FollowInv'
<1> DEFINE new == [line |-> pyLine + 1, is |-> l.is, indent |-> l.indent]
           Open(f, is) == \E b \in ToSet(blocks') : b.is = is /\ Same(f, b)
           Text(f) == \E n \in pyNodes' : n.line = f.line /\ n.is = "text"
<1>1. /\ l.is \in Kinds /\ (l.looks = "class" => l.is \in {"class", "text"})
      /\ (l.looks = "def" => l.is \in {"def", "text"}) /\ (l.is = "class" => l.looks = "class")
  BY PyAssumption DEF PyLines, PyAllForms, PyForm, Kinds
<1>2. \A f \in ToSet(classStack) \cup ToSet(funcStack) : FromText(f.line) => Text(f)
  <2>1. \A n \in pyNodes : \E m \in pyNodes' : m.line = n.line /\ m.is = n.is
    <3> SUFFICES ASSUME NEW n \in pyNodes PROVE \E m \in Ended(l) : m.line = n.line /\ m.is = n.is
      BY DEF PyReads
    <3>1. n \in PyNodes
      BY DEF PyTypes
    <3>2. [n EXCEPT !.end = pyLine].line = n.line /\ [n EXCEPT !.end = pyLine].is = n.is
      BY <3>1 DEF PyNodes
    <3>3. QED
      BY <3>2 DEF Ended
  <2>2. QED
    BY <2>1 DEF FromText
<1>3. l.looks \in {"class", "def"} /\ l.is = "text" => Text(Frame(l))
  <2>1. \A r : NewNode(l, r).line = Frame(l).line /\ NewNode(l, r).is = l.is
    BY DEF NewNode, Frame
  <2>2. l.looks \in {"class", "def"} => \E n \in NewNodes(l) : n.line = Frame(l).line /\ n.is = l.is
    BY <2>1 DEF NewNodes
  <2>3. QED
    BY <2>2 DEF PyReads
<1>4. \A f, is : OpenAt(f, is) /\ f.indent < l.indent => Open(f, is)
  BY PyStacks DEF OpenAt, Same
<1>5. l.is = "text" => \A f, is : OpenAt(f, is) => Open(f, is)
  BY PyStacks DEF OpenAt
<1>6. Opens(l) => new \in ToSet(blocks')
  BY PyStacks DEF Opens
<1>7. l.is \in {"class", "def"} => Open(Frame(l), l.is)
  BY <1>6 DEF Opens, Frame, Same
<1>8. \A f \in ToSet(classStack') : Open(f, "class") \/ Text(f)
  <2> SUFFICES ASSUME NEW f \in ToSet(classStack') PROVE Open(f, "class") \/ Text(f)
    OBVIOUS
  <2>1. (f \in ToSet(classStack) /\ f.indent < l.indent) \/ (l.looks = "class" /\ f = Frame(l))
    BY PyStacks
  <2>2. CASE f \in ToSet(classStack) /\ f.indent < l.indent
    BY <1>2, <1>4, <2>2 DEF FollowInv
  <2>3. CASE l.looks = "class" /\ f = Frame(l)
    BY <1>1, <1>3, <1>7, <2>3
  <2>4. QED
    BY <2>1, <2>2, <2>3
<1>9. \A f \in ToSet(funcStack') : Open(f, "def") \/ Text(f)
  <2> SUFFICES ASSUME NEW f \in ToSet(funcStack') PROVE Open(f, "def") \/ Text(f)
    OBVIOUS
  <2>1. (f \in ToSet(funcStack) /\ f.indent < l.indent) \/ (l.looks = "def" /\ f = Frame(l))
    BY PyStacks
  <2>2. CASE f \in ToSet(funcStack) /\ f.indent < l.indent
    BY <1>2, <1>4, <2>2 DEF FollowInv
  <2>3. CASE l.looks = "def" /\ f = Frame(l)
    BY <1>1, <1>3, <1>7, <2>3
  <2>4. QED
    BY <2>1, <2>2, <2>3
<1>10. ASSUME ~misled'
       PROVE  /\ \A n \in pyNodes' : n.is # "text"
              /\ \A b \in ToSet(blocks') :
                   /\ b.is = "class" => \E f \in ToSet(classStack') : Same(f, b)
                   /\ b.is = "def" => \E f \in ToSet(funcStack') : Same(f, b)
  <2>1. ~misled /\ ~Misleads(l)
    BY <1>10 DEF PyReads, ReadLine, PythonReads, PyTypes
  <2>2. \A n \in pyNodes' : n.is # "text"
    <3>1. \A n \in Ended(l) : n.is # "text"
      <4>1. \A n \in pyNodes : n.is # "text" /\ [n EXCEPT !.end = pyLine].is = n.is
        BY <2>1 DEF FollowInv, PyTypes, PyNodes
      <4>2. QED
        BY <4>1 DEF Ended
    <3>2. \A n \in NewNodes(l) : n.is = l.is /\ l.looks \in {"class", "def"}
      BY DEF NewNodes, NewNode
    <3>3. QED
      BY <2>1, <3>1, <3>2 DEF PyReads, Misleads
  <2>3. ASSUME NEW b \in ToSet(blocks'), b.is \in {"class", "def"}
        PROVE  (b \in ToSet(blocks) /\ b.indent < l.indent) \/ (l.is \in {"class", "def"} /\ b = new)
    <3>1. CASE l.is = "text"
      <4>1. b \in ToSet(blocks)
        BY <3>1, <2>3, PyStacks
      <4>2. PICK i \in DOMAIN blocks : b = blocks[i]
        BY <4>1 DEF ToSet
      <4>3. ~(l.indent <= b.indent)
        BY <2>1, <3>1, <4>2 DEF Misleads
      <4>4. l.indent \in Nat /\ b.indent \in Nat
        <5>1. \A x \in PyBlocks : x.indent \in Nat
          BY DEF PyBlocks
        <5>2. blocks \in Seq(PyBlocks)
          BY DEF PyTypes
        <5>3. b \in PyBlocks
          BY <4>2, <5>2, ElementOfSeq
        <5>4. l.indent \in Nat
          BY PyAssumption DEF PyLines
        <5>5. QED
          BY <5>1, <5>3, <5>4
      <4>5. QED
        BY <4>1, <4>3, <4>4
    <3>2. CASE l.is # "text"
      BY <2>3, <3>2, PyStacks
    <3>3. QED
      BY <3>1, <3>2
  <2>4. ASSUME NEW b \in ToSet(blocks'), b.is = "class"
        PROVE  \E f \in ToSet(classStack') : Same(f, b)
    <3>1. CASE b \in ToSet(blocks) /\ b.indent < l.indent
      <4>1. PICK f \in ToSet(classStack) : Same(f, b)
        BY <2>1, <2>4, <3>1 DEF FollowInv
      <4>2. QED
        BY <3>1, <4>1, PyStacks DEF Same
    <3>2. CASE l.is \in {"class", "def"} /\ b = new
      <4>1. l.looks = "class" /\ Same(Frame(l), b)
        BY <1>1, <2>4, <3>2 DEF Same, Frame
      <4>2. QED
        BY <4>1, PyStacks
    <3>3. QED
      BY <2>3, <2>4, <3>1, <3>2
  <2>5. ASSUME NEW b \in ToSet(blocks'), b.is = "def"
        PROVE  \E f \in ToSet(funcStack') : Same(f, b)
    <3>1. CASE b \in ToSet(blocks) /\ b.indent < l.indent
      <4>1. PICK f \in ToSet(funcStack) : Same(f, b)
        BY <2>1, <2>5, <3>1 DEF FollowInv
      <4>2. QED
        BY <3>1, <4>1, PyStacks DEF Same
    <3>2. CASE l.is \in {"class", "def"} /\ b = new
      <4>1. l.looks = "def" /\ Same(Frame(l), b)
        BY <1>1, <2>1, <2>5, <3>2 DEF Same, Frame, Misleads
      <4>2. QED
        BY <4>1, PyStacks
    <3>3. QED
      BY <2>3, <2>5, <3>1, <3>2
  <2>6. QED
    BY <2>2, <2>4, <2>5
<1>11. QED
  BY <1>8, <1>9, <1>10 DEF FollowInv, OpenAt, FromText

\* The node of a frame that is left of the line does not end with it, and what
\* ended before the line is still as it was.
LEMMA NodesStep ==
  ASSUME PyTypes, NodesInv, NEW l \in PyLines, PyReads(l)
  PROVE  NodesInv'
<1> DEFINE Spans(line, owner) ==
             \E n \in pyNodes' : n.line = owner /\ owner < line /\ (n.end = 0 \/ line <= n.end)
<1>1. pyLine \in Nat /\ pyLine' = pyLine + 1 /\ l.indent \in Nat
  BY PyAssumption DEF PyTypes, PyReads, ReadLine, PyLines
<1>2. \A n \in pyNodes : n \in PyNodes /\ n.line \in 1..pyLine
  BY DEF PyTypes, NodesInv
<1>3. ASSUME NEW n \in pyNodes
      PROVE  \E m \in pyNodes' : /\ m.line = n.line /\ m.indent = n.indent
                                 /\ m.end = n.end \/ (n.end = 0 /\ m.end = pyLine /\ ~(n.indent < l.indent))
  <2> DEFINE m == IF EndsBlock(l, n) THEN [n EXCEPT !.end = pyLine] ELSE n
  <2>1. m \in pyNodes'
    BY DEF PyReads, Ended
  <2>2. m.line = n.line /\ m.indent = n.indent /\ m.end = IF EndsBlock(l, n) THEN pyLine ELSE n.end
    BY <1>2 DEF PyNodes
  <2>3. EndsBlock(l, n) => n.end = 0 /\ ~(n.indent < l.indent)
    BY <1>1, <1>2 DEF EndsBlock, PyNodes
  <2>4. QED
    BY <2>1, <2>2, <2>3
<1>4. \A line, owner : Within(line, owner) /\ line \in 1..pyLine => Spans(line, owner)
  <2> SUFFICES ASSUME NEW line \in 1..pyLine, NEW owner, Within(line, owner) PROVE Spans(line, owner)
    OBVIOUS
  <2>1. PICK n \in pyNodes : n.line = owner /\ owner < line /\ (n.end = 0 \/ line <= n.end)
    BY DEF Within
  <2>2. PICK m \in pyNodes' : /\ m.line = n.line /\ m.indent = n.indent
                              /\ m.end = n.end \/ (n.end = 0 /\ m.end = pyLine /\ ~(n.indent < l.indent))
    BY <1>3
  <2>3. line <= pyLine
    BY <1>1
  <2>4. QED
    BY <2>1, <2>2, <2>3 DEF Within
<1>5. ASSUME NEW f \in ToSet(classStack) \cup ToSet(funcStack), f.indent < l.indent
      PROVE  \E n \in pyNodes' : Same(f, n) /\ n.end = 0
  BY <1>3, <1>5 DEF NodesInv, Same
<1>6. ASSUME NEW f \in ToSet(classStack) \cup ToSet(funcStack), f.indent < l.indent
      PROVE  Spans(pyLine + 1, f.line)
  <2>1. PICK n \in pyNodes' : Same(f, n) /\ n.end = 0
    BY <1>5, <1>6
  <2>2. PICK k \in pyNodes : Same(f, k)
    BY DEF NodesInv
  <2>3. f.line < pyLine + 1
    BY <1>1, <1>2, <2>2 DEF Same
  <2>4. QED
    BY <1>1, <2>1, <2>3 DEF Within, Same
<1>7. \A n \in pyNodes' : n.line \in 1..pyLine'
  <2>1. \A n \in Ended(l) : n.line \in 1..pyLine
    BY <1>2 DEF Ended, PyNodes
  <2>2. \A n \in NewNodes(l) : n.line = pyLine + 1
    BY DEF NewNodes, NewNode
  <2>3. QED
    BY <1>1, <2>1, <2>2 DEF PyReads
<1>8. \A f \in ToSet(classStack') \cup ToSet(funcStack') : \E n \in pyNodes' : Same(f, n) /\ n.end = 0
  <2> SUFFICES ASSUME NEW f \in ToSet(classStack') \cup ToSet(funcStack')
               PROVE  \E n \in pyNodes' : Same(f, n) /\ n.end = 0
    OBVIOUS
  <2>1. \/ f \in ToSet(classStack) \cup ToSet(funcStack) /\ f.indent < l.indent
        \/ f = Frame(l) /\ l.looks \in {"class", "def"}
    BY PyStacks
  <2>2. CASE f = Frame(l) /\ l.looks \in {"class", "def"}
    <3>1. \A r : Same(Frame(l), NewNode(l, r)) /\ NewNode(l, r).end = 0
      BY DEF Same, Frame, NewNode
    <3>2. QED
      BY <2>2, <3>1 DEF PyReads, NewNodes
  <2>3. QED
    BY <1>5, <2>1, <2>2
<1>9. \A e \in pyEdges' : e.line \in 1..pyLine' /\ Spans(e.line, e.from)
  <2> SUFFICES ASSUME NEW e \in pyEdges' PROVE e.line \in 1..pyLine' /\ Spans(e.line, e.from)
    OBVIOUS
  <2>1. CASE e \in pyEdges
    <3>1. e.line \in 1..pyLine /\ Within(e.line, e.from)
      BY <2>1 DEF NodesInv, PyOwnersEnclose
    <3>2. QED
      BY <1>1, <1>4, <3>1
  <2>2. CASE Functions(l) # <<>> /\ e = [line |-> pyLine + 1, from |-> LineOfTop(Functions(l))]
    <3>1. PICK f \in ToSet(funcStack) : f.indent < l.indent /\ LineOfTop(Functions(l)) = f.line
      BY <2>2, PyStacks, TopIs
    <3>2. QED
      BY <1>1, <1>6, <2>2, <3>1
  <2>3. QED
    BY <2>1, <2>2 DEF PyReads
<1>10. \A n \in pyNodes' : n.receiver # 0 => Spans(n.line, n.receiver)
  <2> SUFFICES ASSUME NEW n \in pyNodes', n.receiver # 0 PROVE Spans(n.line, n.receiver)
    OBVIOUS
  <2>1. CASE n \in Ended(l)
    <3>1. PICK m \in pyNodes : n.line = m.line /\ n.receiver = m.receiver
      BY <1>2, <2>1 DEF Ended, PyNodes
    <3>2. Within(m.line, m.receiver) /\ m.line \in 1..pyLine
      BY <1>2, <3>1 DEF NodesInv, PyOwnersEnclose
    <3>3. QED
      BY <1>4, <3>1, <3>2
  <2>2. CASE n \in NewNodes(l)
    <3>1. n.line = pyLine + 1 /\ n.receiver = LineOfTop(Classes(l)) /\ Classes(l) # <<>>
      BY <2>2, PyStacks, TopIs DEF NewNodes, NewNode
    <3>2. PICK f \in ToSet(classStack) : f.indent < l.indent /\ LineOfTop(Classes(l)) = f.line
      BY <3>1, PyStacks, TopIs
    <3>3. QED
      BY <1>6, <3>1, <3>2
  <2>3. QED
    BY <2>1, <2>2 DEF PyReads
<1>11. PyOwnersEnclose'
  BY <1>9, <1>10 DEF PyOwnersEnclose, Within
<1>12. QED
  BY <1>7, <1>8, <1>9, <1>11 DEF NodesInv

\* The invariant of the Python scanner, for files of any length.
LEMMA PyInvariant == Spec => []PyInv
<1>1. ToSet(<<>>) = {} /\ Deeper(<<>>) /\ \A T : <<>> \in Seq(T)
  BY EmptySeq DEF ToSet, Deeper
<1>2. PyInit => PyInv
  <2> SUFFICES ASSUME PyInit PROVE PyInv
    OBVIOUS
  <2>1. /\ pyLine = 0 /\ misled = FALSE /\ classStack = <<>> /\ funcStack = <<>> /\ blocks = <<>>
        /\ pyNodes = {} /\ pyEdges = {}
    BY DEF PyInit
  <2>2. PyTypes
    BY <1>1, <2>1 DEF PyTypes
  <2>3. FollowInv
    BY <1>1, <2>1 DEF FollowInv
  <2>4. NodesInv
    BY <1>1, <2>1 DEF NodesInv, PyOwnersEnclose
  <2>5. QED
    BY <2>2, <2>3, <2>4 DEF PyInv
<1>3. Init => PyInv
  BY <1>2 DEF Init
<1>4. ASSUME PyInv, [Next]_vars PROVE PyInv'
  <2>1. ASSUME NEW l \in PyLines, PyReads(l) PROVE PyInv'
    BY <1>4, <2>1, PyStacks, FollowStep, NodesStep DEF PyInv
  <2>2. CASE PyReset
    <3>1. /\ pyLine' = 0 /\ misled' = FALSE /\ classStack' = <<>> /\ funcStack' = <<>> /\ blocks' = <<>>
          /\ pyNodes' = {} /\ pyEdges' = {}
      BY <2>2 DEF PyReset
    <3>2. PyTypes'
      BY <1>1, <3>1 DEF PyTypes
    <3>3. FollowInv'
      BY <1>1, <3>1 DEF FollowInv
    <3>4. NodesInv'
      BY <1>1, <3>1 DEF NodesInv, PyOwnersEnclose
    <3>5. QED
      BY <3>2, <3>3, <3>4 DEF PyInv
  <2>3. CASE PyRests
    BY <1>4, <2>3 DEF PyRests, PyInv, PyTypes, FollowInv, NodesInv, PyOwnersEnclose, Deeper, OpenAt, FromText, Within
  <2>4. QED
    BY <1>4, <2>1, <2>2, <2>3, PyMoves
<1>5. QED
  BY <1>3, <1>4, PTL DEF Spec

-----------------------------------------------------------------------------
(***************************************************************************)
(* Theorems about the scanner of Python.                                   *)
(***************************************************************************)
\* The stacks of the Python scanner hold open blocks, or text that read like a
\* header; and exactly the open classes and functions until a line misleads it.
THEOREM PyStacksCorrect == Spec => []PyStacksFollow
<1>1. ASSUME PyInv PROVE PyStacksFollow
  <2>1. /\ LinesOf(classStack) = {f.line : f \in ToSet(classStack)}
        /\ LinesOf(funcStack) = {f.line : f \in ToSet(funcStack)}
    BY DEF LinesOf, ToSet
  <2>2. \A is : OpenBlocks(is) = {b.line : b \in {x \in ToSet(blocks) : x.is = is}}
    BY DEF OpenBlocks, ToSet
  <2>3. /\ \A line \in LinesOf(classStack) : line \in OpenBlocks("class") \/ FromText(line)
        /\ \A line \in LinesOf(funcStack) : line \in OpenBlocks("def") \/ FromText(line)
    BY <1>1, <2>1, <2>2 DEF PyInv, FollowInv, OpenAt, Same
  <2>4. ASSUME ~misled
        PROVE  LinesOf(classStack) = OpenBlocks("class") /\ LinesOf(funcStack) = OpenBlocks("def")
    <3>1. \A line : ~FromText(line)
      BY <1>1, <2>4 DEF PyInv, FollowInv, FromText
    <3>2. OpenBlocks("class") \subseteq LinesOf(classStack) /\ OpenBlocks("def") \subseteq LinesOf(funcStack)
      BY <1>1, <2>1, <2>2, <2>4 DEF PyInv, FollowInv, Same
    <3>3. QED
      BY <2>3, <3>1, <3>2
  <2>5. QED
    BY <2>3, <2>4 DEF PyStacksFollow
<1>2. QED
  BY <1>1, PyInvariant, PTL

\* A call lies in the lines of its caller and a method in those of its class,
\* as findBlockEnd computes them, whatever the file looks like.
THEOREM PyOwnersCorrect == Spec => []PyOwnersEnclose
<1>1. PyInv => PyOwnersEnclose
  BY DEF PyInv, NodesInv
<1>2. QED
  BY <1>1, PyInvariant, PTL

-----------------------------------------------------------------------------
(***************************************************************************)
(* Java.  As long as braces are counted right the depth is that of the     *)
(* nest, and the depths kept with classes and methods are places in it.    *)
(***************************************************************************)
NestFrames == [is : {"class", "method", "block"}, line : Nat]
ClassFrames == [line : Nat, bodyDepth : Int]

JavaTypes ==
  /\ javaLine \in Nat /\ depth \in Int
  /\ javaStack \in Seq(ClassFrames)
  /\ currentMethod \in Nat /\ currentMethodDepth \in Int
  /\ nest \in Seq(NestFrames) /\ header \in Seq([is : {"class", "method"}, line : Nat])
  /\ inBlockComment \in BOOLEAN /\ commented \in BOOLEAN

\* The code is in a block comment when the file is.
CommentInv == Misread \cap odd = {} => inBlockComment = commented

KnowsClass(line, d) == \E f \in ToSet(javaStack) : f.line = line /\ f.bodyDepth <= d

\* An open class has a frame that is not popped before its body ends.
CountedInv ==
  Misread \cap odd = {} =>
    /\ depth = Len(nest)
    /\ \A i \in 1..Len(nest) : nest[i].is = "class" => KnowsClass(nest[i].line, i)
    /\ header # <<>> /\ Last(header).is = "class" => KnowsClass(Last(header).line, Len(nest))

Rising(stack) ==
  \A i, k \in 1..Len(stack) : i < k => stack[i].bodyDepth < stack[k].bodyDepth

\* The depth of a frame is the place of its class in the nest.
FiledInv ==
  odd \subseteq {OneLineMethod, NextLineMethod, NextLineBrace} =>
    /\ Rising(javaStack)
    /\ \A k \in 1..Len(javaStack) :
         /\ javaStack[k].bodyDepth \in 1..Len(nest)
         /\ nest[javaStack[k].bodyDepth] = [is |-> "class", line |-> javaStack[k].line]
    /\ \A i \in 1..Len(nest) :
         nest[i].is = "class" => \E k \in 1..Len(javaStack) : javaStack[k].bodyDepth = i
    /\ header # <<>> => Last(header).is = "method"
    /\ \A n \in javaNodes : n.owner = n.within

\* So is the depth of the current method.
MethodInv ==
  ({OneLineMethod} \cup Misread) \cap odd = {} =>
    /\ currentMethod # 0 =>
         /\ currentMethodDepth \in 1..Len(nest)
         /\ nest[currentMethodDepth] = [is |-> "method", line |-> currentMethod]
    /\ \A e \in javaEdges : e.from \in e.within

JavaInv == JavaTypes /\ CommentInv /\ CountedInv /\ FiledInv /\ MethodInv

\* What a line does to the stack, the nodes, the method and the edges.
JavaReadsLine(l) ==
  /\ JavaLine(l)
  /\ javaStack' = IF l.looks = "class"
                  THEN Append(ClassesLeft(l), [line |-> javaLine + 1, bodyDepth |-> DepthAfter(l)])
                  ELSE ClassesLeft(l)
  /\ \/ UNCHANGED javaNodes
     \/ /\ l.looks \in {"class", "method"}
        /\ javaNodes' = javaNodes \cup {NewUnit(l, LineOfTop(ClassesLeft(l)))}
  /\ \/ currentMethod' = MethodLeft(l) /\ currentMethodDepth' = MethodDepthLeft(l)
     \/ /\ l.looks = "method" /\ HasBrace(l)
        /\ currentMethod' = javaLine + 1 /\ currentMethodDepth' = DepthAfter(l)
  /\ \/ UNCHANGED javaEdges
     \/ /\ MethodLeft(l) # 0
        /\ javaEdges' = javaEdges \cup {[line |-> javaLine + 1, from |-> MethodLeft(l),
                                         within |-> Around("method")]}

JavaRests == UNCHANGED <<javaLine, inBlockComment, scanVars, nestVars>>

\* A step of CodeGraph reads or skips a line of Java, or begins a file, or
\* leaves the scanner alone.
LEMMA JavaMoves ==
  ASSUME [Next]_vars
  PROVE  (\E l \in JavaForms : JavaReadsLine(l) \/ JavaSkipped(l)) \/ JavaReset \/ JavaRests
<1>1. CASE ScanJava
  <2>1. CASE JavaEndOfFile
    BY <2>1 DEF JavaEndOfFile, JavaRests
  <2>2. ASSUME NEW l \in JavaForms, JavaClass(l) \/ JavaMethod(l) \/ JavaCall(l)
        PROVE  JavaReadsLine(l)
    <3>1. CASE JavaClass(l)
      BY <3>1 DEF JavaClass, JavaReadsLine
    <3>2. CASE JavaMethod(l)
      BY <3>2 DEF JavaMethod, JavaReadsLine
    <3>3. CASE JavaCall(l)
      BY <3>3 DEF JavaCall, JavaReadsLine
    <3>4. QED
      BY <2>2, <3>1, <3>2, <3>3
  <2>3. QED
    BY <1>1, <2>1, <2>2 DEF ScanJava, JavaNext
<1>2. CASE JavaDone
  BY <1>2 DEF JavaDone
<1>3. CASE UNCHANGED javaVars
  BY <1>3 DEF javaVars, JavaRests
<1>4. QED
  <2>1. CASE UNCHANGED vars
    BY <1>3, <2>1 DEF vars
  <2>2. CASE Next
    BY <1>1, <1>2, <1>3, <2>2 DEF Next, Skip, WalkFails, Analyze, ScanPython, PythonDone, Merge, MeasureCalls
  <2>3. QED
    BY <2>1, <2>2

\* A line the code should skip.
Hidden(l) == l.looks = "comment" \/ l.comment \in {"inside", "closes"}

\* What the forms of lines have in common.
LEMMA JavaLines ==
  ASSUME NEW l \in JavaForms
  PROVE  /\ l.adds \in {-1, 0, 1}
         /\ l.shape \in {"opens", "closes", "reopens", "flat", "whole"}
         /\ l.shape = "opens" => l.is \in {"class", "method", "block", "brace"}
         /\ l.shape = "opens" /\ l \notin Misread => l.adds = 1
         /\ l.shape = "closes" => l.adds = -1 /\ l.is = "end" /\ l.looks = "plain"
         /\ l.shape = "reopens" => l.adds = 0 /\ l.is = "block" /\ l.looks = "call"
         /\ l.shape \in {"flat", "whole"} /\ l \notin Misread /\ ~Hidden(l) => l.adds = 0
         /\ l.is = "brace" => l.looks = "plain" /\ l.shape = "opens" /\ l.adds = 1
         /\ l.is = "text" => l.shape = "flat"
         /\ l.is = "class" => l.looks = "class"
         /\ l.looks \in {"class", "method"} => l.adds \in {0, 1}
         /\ l.looks = "method" /\ HasBrace(l) /\ l # OneLineMethod => l.is = "method" /\ l.shape = "opens"
         /\ l.looks = "class" /\ ~Hidden(l) /\ l \notin {OneLineClass, NextLineClass, ClassInText} =>
              l.is = "class" /\ l.shape = "opens" /\ l.adds = 1
         /\ l \notin Misread =>
              /\ Hidden(l) => l.is = "text"
              /\ l.comment = "opens" <=> l.marks = "/*"
              /\ l.comment \in {"inside", "closes"} => (l.comment = "closes" <=> l.marks = "*/")
<1>1. l \in JavaAllForms
  BY JavaAssumption
<1> USE DEF Hidden, HasBrace, JavaForm, MarkedForm
<1>2. CASE l \in JavaPlainForms
  <2>1. /\ l.adds \in {-1, 0, 1}
        /\ l.shape \in {"opens", "closes", "reopens", "flat", "whole"}
        /\ l.shape = "opens" => l.is \in {"class", "method", "block", "brace"} /\ l.adds = 1
        /\ l.shape = "closes" => l.adds = -1 /\ l.is = "end" /\ l.looks = "plain"
        /\ l.shape = "reopens" => l.adds = 0 /\ l.is = "block" /\ l.looks = "call"
        /\ l.shape \in {"flat", "whole"} /\ ~Hidden(l) => l.adds = 0
    BY <1>2 DEF JavaPlainForms
  <2>2. /\ l.is # "brace" /\ (l.is = "text" => l.shape = "flat") /\ (l.is = "class" => l.looks = "class")
        /\ l.looks \in {"class", "method"} => l.adds \in {0, 1}
        /\ l.looks = "method" /\ HasBrace(l) => l.is = "method" /\ l.shape = "opens"
        /\ l.looks = "class" /\ ~Hidden(l) => l.is = "class" /\ l.shape = "opens" /\ l.adds = 1
    BY <1>2 DEF JavaPlainForms
  <2>3. /\ Hidden(l) => l.is = "text"
        /\ l.comment = "opens" <=> l.marks = "/*"
        /\ l.comment \in {"inside", "closes"} => (l.comment = "closes" <=> l.marks = "*/")
    BY <1>2 DEF JavaPlainForms
  <2>4. QED
    BY <2>1, <2>2, <2>3
<1>3. CASE l \in {OneLineMethod, NextLineMethod, NextLineBrace, OneLineClass, NextLineClass, ClassInText}
  BY <1>3 DEF OneLineMethod, NextLineMethod, NextLineBrace, OneLineClass, NextLineClass, ClassInText
<1>4. CASE l \in Misread
  <2>1. /\ l.adds \in {-1, 0, 1}
        /\ l.shape \in {"opens", "closes", "reopens", "flat", "whole"}
        /\ l.shape = "opens" => l.is \in {"class", "method", "block", "brace"}
        /\ l.shape = "closes" => l.adds = -1 /\ l.is = "end" /\ l.looks = "plain"
        /\ l.shape # "reopens"
    BY <1>4 DEF Misread, Miscounted, Mistaken
  <2>2. /\ l.is \notin {"brace", "class"} /\ (l.is = "text" => l.shape = "flat")
        /\ l.looks \notin {"class", "method"}
    BY <1>4 DEF Misread, Miscounted, Mistaken
  <2>3. QED
    BY <1>4, <2>1, <2>2
<1>5. QED
  BY <1>1, <1>2, <1>3, <1>4 DEF JavaAllForms, JavaOtherForms

\* As long as no line is misread the code skips what it should.
LEMMA CommentStep ==
  ASSUME JavaTypes, CommentInv, NEW l \in JavaForms, JavaAnyLine(l)
  PROVE  /\ CommentInv'
         /\ Misread \cap odd' = {} => Misread \cap odd = {} /\ l \notin Misread /\ (Skips(l) <=> Hidden(l))
         /\ inBlockComment' \in BOOLEAN /\ commented' \in BOOLEAN
<1>1. /\ inBlockComment' = InBlockCommentAfter(l)
      /\ commented' = (l.comment = "opens" \/ (commented /\ l.comment # "closes"))
      /\ odd' = IF l \in JavaOtherForms THEN odd \cup {l} ELSE odd
      /\ (l.comment \in {"inside", "closes"}) = commented
  BY DEF JavaAnyLine, JavaReads, Allowed
<1>2. inBlockComment \in BOOLEAN /\ commented \in BOOLEAN
  BY DEF JavaTypes
<1>3. ASSUME Misread \cap odd' = {} PROVE Misread \cap odd = {} /\ l \notin Misread
  <2>1. Misread \subseteq JavaOtherForms
    BY DEF JavaOtherForms
  <2>2. QED
    BY <1>1, <1>3, <2>1
<1>4. ASSUME Misread \cap odd' = {} PROVE inBlockComment = commented /\ (Skips(l) <=> Hidden(l))
  <2>1. inBlockComment = commented
    BY <1>3, <1>4 DEF CommentInv
  <2>2. QED
    BY <1>1, <1>2, <2>1 DEF Skips, Hidden
<1>5. ASSUME Misread \cap odd' = {} PROVE inBlockComment' = commented'
  <2>1. l.comment = "opens" <=> l.marks = "/*"
    BY <1>3, <1>5, JavaLines
  <2>2. l.comment \in {"inside", "closes"} => (l.comment = "closes" <=> l.marks = "*/")
    BY <1>3, <1>5, JavaLines
  <2>3. CASE commented
    BY <1>1, <1>2, <1>4, <1>5, <2>2, <2>3 DEF InBlockCommentAfter
  <2>4. CASE ~commented
    BY <1>1, <1>2, <1>4, <1>5, <2>1, <2>4 DEF InBlockCommentAfter
  <2>5. QED
    BY <1>2, <2>3, <2>4
<1>6. inBlockComment' \in BOOLEAN
  BY <1>1 DEF InBlockCommentAfter
<1>7. QED
  BY <1>1, <1>3, <1>4, <1>5, <1>6 DEF CommentInv

\* What a line does to the nest: at most its innermost place is another one.
LEMMA NestStep ==
  ASSUME JavaTypes, NEW l \in JavaForms, JavaAnyLine(l)
  PROVE  /\ nest' \in Seq(NestFrames) /\ header' \in Seq([is : {"class", "method"}, line : Nat])
         /\ l \notin Misread /\ ~Hidden(l) => Len(nest') = Len(nest) + l.adds
         /\ l.is = "text" => UNCHANGED <<nest, header>>
         /\ l.shape \in {"opens", "reopens"} =>
              /\ Len(nest') \in 1..Len(nest') /\ nest'[Len(nest')] = Opened(l)
              /\ l.is # "brace" => Opened(l) = [is |-> l.is, line |-> javaLine + 1]
              /\ l.is = "brace" => header # <<>> /\ Opened(l) = Last(header)
         /\ l.shape = "reopens" => nest[Len(nest)].is = "block"
         /\ \A i \in 1..Len(nest') : \/ i \in 1..Len(nest) /\ nest'[i] = nest[i]
                                     \/ l.shape \in {"opens", "reopens"} /\ i = Len(nest')
         /\ \A i \in 1..Len(nest) : \/ ~(i <= Len(nest'))
                                    \/ i \in 1..Len(nest') /\ nest'[i] = nest[i]
                                    \/ l.shape = "reopens" /\ i = Len(nest)
<1> DEFINE n == Len(nest)
           Headers == [is : {"class", "method"}, line : Nat]
<1>1. n \in Nat /\ nest \in Seq(NestFrames) /\ header \in Seq(Headers) /\ javaLine + 1 \in Nat
  BY DEF JavaTypes
<1>2. Allowed(l) /\ JavaReads(l)
  BY DEF JavaAnyLine
<1>3. l.is = "brace" => header # <<>>
  BY <1>2 DEF Allowed
<1>4. /\ l.is # "brace" => Opened(l) = [is |-> l.is, line |-> javaLine + 1]
      /\ l.is = "brace" => header # <<>> /\ Opened(l) = Last(header)
  BY <1>3 DEF Opened
<1>5. l.shape \in {"opens", "reopens"} => Opened(l) \in NestFrames
  <2>1. l.is = "brace" => Last(header) \in Headers
    <3>1. header # <<>> => Len(header) \in 1..Len(header)
      BY <1>1, EmptySeq
    <3>2. QED
      BY <1>1, <1>3, <3>1, ElementOfSeq DEF Last
  <2>2. l.is # "brace" /\ l.shape \in {"opens", "reopens"} => l.is \in {"class", "method", "block"}
    BY JavaLines
  <2>3. QED
    BY <1>1, <1>4, <2>1, <2>2 DEF NestFrames
<1>6. header' \in Seq(Headers)
  <2>1. header' = <<>> \/ header' = header \/ (l.is \in {"class", "method"} /\ header' = <<[is |-> l.is, line |-> javaLine + 1]>>)
    BY <1>2 DEF JavaReads
  <2>2. \A x \in Headers : <<x>> \in Seq(Headers)
    OBVIOUS
  <2>3. l.is \in {"class", "method"} => [is |-> l.is, line |-> javaLine + 1] \in Headers
    BY <1>1
  <2>4. QED
    BY <1>1, <2>1, <2>2, <2>3, EmptySeq
<1>7. l.shape \in {"closes", "reopens"} => nest # <<>> /\ n \in 1..n
  <2>1. l.shape \in {"closes", "reopens"} => nest # <<>>
    BY <1>2, JavaLines DEF Allowed, Inside
  <2>2. QED
    BY <1>1, <2>1, EmptySeq
<1>8. n \in 1..n => /\ Front(nest) \in Seq(NestFrames) /\ Len(Front(nest)) = n - 1
                    /\ \A i \in 1..(n - 1) : Front(nest)[i] = nest[i]
  <2> SUFFICES ASSUME n \in 1..n
               PROVE  /\ Front(nest) \in Seq(NestFrames) /\ Len(Front(nest)) = n - 1
                      /\ \A i \in 1..(n - 1) : Front(nest)[i] = nest[i]
    OBVIOUS
  <2>1. n - 1 \in Nat /\ \A i \in 1..(n - 1) : i \in 1..n
    BY <1>1
  <2>2. \A i \in 1..(n - 1) : nest[i] \in NestFrames
    BY <1>1, <2>1, ElementOfSeq
  <2>3. Front(nest) = SubSeq(nest, 1, n - 1)
    BY DEF Front
  <2> HIDE DEF n
  <2>4. n - 1 \in Int /\ 1 \in Int /\ (1 <= n - 1 => n - 1 - 1 + 1 = n - 1) /\ (~(1 <= n - 1) => n - 1 = 0)
    BY <2>1
  <2>5. QED
    BY <1>1, <2>1, <2>2, <2>3, <2>4, SubSeqProperties
<1>9. CASE l.shape = "opens"
  <2>1. nest' = Append(nest, Opened(l))
    BY <1>2, <1>9 DEF JavaReads
  <2>2. /\ nest' \in Seq(NestFrames) /\ Len(nest') = n + 1 /\ nest'[n + 1] = Opened(l)
        /\ \A i \in 1..n : nest'[i] = nest[i]
    BY <1>1, <1>5, <1>9, <2>1, AppendProperties
  <2>3. (\A i \in 1..(n + 1) : i \in 1..n \/ i = n + 1) /\ \A i \in 1..n : i \in 1..(n + 1)
    BY <1>1
  <2>4. (l \notin Misread => l.adds = 1) /\ n + 1 \in 1..(n + 1) /\ l.is # "text"
    BY <1>1, <1>9, JavaLines
  <2>5. QED
    BY <1>4, <1>6, <1>9, <2>2, <2>3, <2>4
<1>10. CASE l.shape = "closes"
  <2>1. nest' = Front(nest)
    BY <1>2, <1>10 DEF JavaReads
  <2>2. l.adds = -1 /\ n + (-1) = n - 1 /\ l.is # "text"
    BY <1>1, <1>10, JavaLines
  <2>3. \A i \in 1..n : i <= n - 1 => i \in 1..(n - 1)
    BY <1>1
  <2>4. \A i \in 1..(n - 1) : i \in 1..n
    BY <1>1
  <2>5. QED
    BY <1>6, <1>7, <1>8, <1>10, <2>1, <2>2, <2>3, <2>4
<1>11. CASE l.shape = "reopens"
  <2>1. nest' = Append(Front(nest), Opened(l))
    BY <1>2, <1>11 DEF JavaReads
  <2>2. /\ nest' \in Seq(NestFrames) /\ Len(nest') = n - 1 + 1 /\ nest'[n - 1 + 1] = Opened(l)
        /\ \A i \in 1..(n - 1) : nest'[i] = Front(nest)[i]
    BY <1>5, <1>7, <1>8, <1>11, <2>1, AppendProperties
  <2>3. n - 1 + 1 = n /\ l.adds = 0 /\ n + 0 = n /\ l.is # "text"
    BY <1>1, <1>11, JavaLines
  <2>4. \A i \in 1..n : i \in 1..(n - 1) \/ i = n
    BY <1>1
  <2>5. nest[n].is = "block"
    BY <1>2, <1>11, JavaLines DEF Allowed, Inside, Last
  <2>6. QED
    BY <1>4, <1>6, <1>7, <1>8, <1>11, <2>2, <2>3, <2>4, <2>5
<1>12. CASE l.shape \in {"flat", "whole"}
  <2>1. nest' = nest
    BY <1>2, <1>12 DEF JavaReads
  <2>2. l \notin Misread /\ ~Hidden(l) => n + l.adds = n
    BY <1>1, <1>12, JavaLines
  <2>3. l.is = "text" => UNCHANGED <<nest, header>>
    BY <1>2, <2>1 DEF JavaReads
  <2>4. QED
    BY <1>1, <1>6, <1>12, <2>1, <2>2, <2>3
<1>13. QED
  BY <1>9, <1>10, <1>11, <1>12, JavaLines

\* What is left of the stack of classes, before a class of the line is pushed.
LEMMA ClassesLeftIs ==
  ASSUME JavaTypes, NEW l
  PROVE  /\ ClassesLeft(l) \in Seq(ClassFrames)
         /\ Len(ClassesLeft(l)) \in 0..Len(javaStack)
         /\ \A i \in 1..Len(ClassesLeft(l)) : i \in 1..Len(javaStack) /\ ClassesLeft(l)[i] = javaStack[i]
         /\ \A i \in 1..Len(javaStack) : javaStack[i].bodyDepth <= DepthAfter(l) => i \in 1..Len(ClassesLeft(l))
         /\ Len(ClassesLeft(l)) # 0 => javaStack[Len(ClassesLeft(l))].bodyDepth <= DepthAfter(l)
<1> DEFINE stays == {i \in DOMAIN javaStack : InBody(javaStack[i].bodyDepth, DepthAfter(l))}
<1>1. javaStack \in Seq(ClassFrames) /\ Len(javaStack) \in Nat /\ DOMAIN javaStack = 1..Len(javaStack)
  BY DEF JavaTypes
<1>2. /\ Popping(javaStack, stays) \in Seq(ClassFrames)
      /\ Len(Popping(javaStack, stays)) \in stays \cup {0} /\ Len(Popping(javaStack, stays)) <= Len(javaStack)
      /\ \A i \in 1..Len(Popping(javaStack, stays)) : Popping(javaStack, stays)[i] = javaStack[i]
      /\ \A i \in stays : i \in 1..Len(Popping(javaStack, stays))
  <2>1. stays \in SUBSET DOMAIN javaStack
    OBVIOUS
  <2> HIDE DEF stays
  <2>2. QED
    BY <1>1, <2>1, PoppingIs
<1>3. ClassesLeft(l) = Popping(javaStack, stays)
  BY DEF ClassesLeft
<1>4. \A a, b \in Nat : a <= b => a \in 0..b /\ \A i \in 1..a : i \in 1..b
  OBVIOUS
<1>5. Len(ClassesLeft(l)) \in Nat
  BY <1>2, <1>3
<1>6. QED
  BY <1>1, <1>2, <1>3, <1>4, <1>5 DEF InBody

\* The forms that are misread are none of the others.
LEMMA Apart ==
  /\ {OneLineMethod, NextLineMethod, NextLineBrace, OneLineClass, NextLineClass, ClassInText} \cap Misread = {}
  /\ {OneLineMethod, NextLineMethod, NextLineBrace} \cap {OneLineClass, NextLineClass, ClassInText} = {}
BY DEF OneLineMethod, NextLineMethod, NextLineBrace, OneLineClass, NextLineClass, ClassInText,
       Misread, Miscounted, Mistaken, JavaForm, MarkedForm

\* The types of the Java scanner's variables are kept.
LEMMA JavaTypesStep ==
  ASSUME JavaTypes, CommentInv, NEW l \in JavaForms, JavaReadsLine(l)
  PROVE  JavaTypes'
<1>1. JavaLine(l) /\ JavaAnyLine(l) /\ l.adds \in Int
  BY JavaLines DEF JavaReadsLine, JavaLine
<1>2. javaLine' \in Nat /\ javaLine + 1 \in Nat /\ depth' \in Int /\ DepthAfter(l) \in Int
  BY <1>1 DEF JavaTypes, JavaLine, JavaAnyLine, DepthAfter
<1>3. javaStack' \in Seq(ClassFrames)
  <2>1. ClassesLeft(l) \in Seq(ClassFrames)
    BY ClassesLeftIs
  <2>2. [line |-> javaLine + 1, bodyDepth |-> DepthAfter(l)] \in ClassFrames
    BY <1>2 DEF ClassFrames
  <2>3. QED
    BY <2>1, <2>2, AppendProperties DEF JavaReadsLine
<1>4. currentMethod' \in Nat /\ currentMethodDepth' \in Int
  BY <1>2 DEF JavaTypes, JavaReadsLine, MethodLeft, MethodDepthLeft
<1>5. nest' \in Seq(NestFrames) /\ header' \in Seq([is : {"class", "method"}, line : Nat])
  BY <1>1, NestStep
<1>6. inBlockComment' \in BOOLEAN /\ commented' \in BOOLEAN
  BY <1>1, CommentStep
<1>7. QED
  BY <1>2, <1>3, <1>4, <1>5, <1>6 DEF JavaTypes

\* A line that is skipped changes nothing that counts, unless one was misread.
LEMMA SkippedStep ==
  ASSUME JavaInv, NEW l \in JavaForms, JavaSkipped(l)
  PROVE  JavaInv'
<1>1. JavaAnyLine(l) /\ UNCHANGED scanVars /\ Skips(l)
  BY DEF JavaSkipped
<1>2. JavaTypes'
  <2>1. javaLine' \in Nat
    BY <1>1 DEF JavaInv, JavaTypes, JavaAnyLine
  <2>2. nest' \in Seq(NestFrames) /\ header' \in Seq([is : {"class", "method"}, line : Nat])
    BY <1>1, NestStep DEF JavaInv
  <2>3. inBlockComment' \in BOOLEAN /\ commented' \in BOOLEAN
    BY <1>1, CommentStep DEF JavaInv
  <2>4. QED
    BY <1>1, <2>1, <2>2, <2>3 DEF JavaInv, JavaTypes, scanVars
<1>3. CommentInv'
  BY <1>1, CommentStep DEF JavaInv
<1>4. ASSUME Misread \cap odd' = {}
      PROVE  UNCHANGED <<nest, header>> /\ Misread \cap odd = {}
  <2>1. Misread \cap odd = {} /\ l \notin Misread /\ Hidden(l)
    BY <1>1, <1>4, CommentStep DEF JavaInv
  <2>2. l.is = "text"
    BY <2>1, JavaLines
  <2>3. QED
    BY <1>1, <2>1, <2>2, NestStep DEF JavaInv
<1>5. CountedInv'
  <2> SUFFICES ASSUME Misread \cap odd' = {} PROVE CountedInv'
    BY DEF CountedInv
  <2>1. QED
    BY <1>1, <1>4 DEF JavaInv, CountedInv, KnowsClass, scanVars
<1>6. odd \subseteq odd'
  BY <1>1 DEF JavaAnyLine, JavaReads
<1>7. FiledInv'
  <2> SUFFICES ASSUME odd' \subseteq {OneLineMethod, NextLineMethod, NextLineBrace} PROVE FiledInv'
    BY DEF FiledInv
  <2>1. Misread \cap odd' = {}
    BY Apart
  <2>2. odd \subseteq {OneLineMethod, NextLineMethod, NextLineBrace}
    BY <1>6
  <2>3. QED
    BY <1>1, <1>4, <2>1, <2>2 DEF JavaInv, FiledInv, Rising, scanVars
<1>8. MethodInv'
  <2> SUFFICES ASSUME ({OneLineMethod} \cup Misread) \cap odd' = {} PROVE MethodInv'
    BY DEF MethodInv
  <2>1. ({OneLineMethod} \cup Misread) \cap odd = {}
    BY <1>6
  <2>2. QED
    BY <1>1, <1>4, <2>1 DEF JavaInv, MethodInv, scanVars
<1>9. QED
  BY <1>2, <1>3, <1>5, <1>7, <1>8 DEF JavaInv

\* A form that is not plain is remembered.
LEMMA OddStep ==
  ASSUME NEW l \in JavaForms, JavaReadsLine(l), NEW x \in JavaOtherForms, x \notin odd'
  PROVE  x \notin odd /\ l # x
<1>1. odd' = IF l \in JavaOtherForms THEN odd \cup {l} ELSE odd
  BY DEF JavaReadsLine, JavaLine, JavaAnyLine, JavaReads
<1>2. QED
  BY <1>1

\* A line that is read is not hidden and not misread, if none is.
LEMMA ReadRight ==
  ASSUME JavaTypes, CommentInv, NEW l \in JavaForms, JavaReadsLine(l), Misread \cap odd' = {}
  PROVE  Misread \cap odd = {} /\ l \notin Misread /\ ~Hidden(l)
<1>1. JavaAnyLine(l) /\ ~Skips(l)
  BY DEF JavaReadsLine, JavaLine
<1>2. QED
  BY <1>1, CommentStep

\* Frames stay on the stack until the depth is below that of their class.
LEMMA CountedStep ==
  ASSUME JavaTypes, CommentInv, CountedInv, NEW l \in JavaForms, JavaReadsLine(l)
  PROVE  CountedInv'
<1> DEFINE Knows(line, d) == \E f \in ToSet(javaStack') : f.line = line /\ f.bodyDepth <= d
<1> SUFFICES ASSUME Misread \cap odd' = {}
             PROVE  /\ depth' = Len(nest')
                    /\ \A i \in 1..Len(nest') : nest'[i].is = "class" => Knows(nest'[i].line, i)
                    /\ header' # <<>> /\ Last(header').is = "class" => Knows(Last(header').line, Len(nest'))
  BY DEF CountedInv, KnowsClass
<1>1. Misread \cap odd = {} /\ l \notin Misread /\ ~Hidden(l)
  BY ReadRight
<1>2. /\ depth = Len(nest)
      /\ \A i \in 1..Len(nest) : nest[i].is = "class" => KnowsClass(nest[i].line, i)
      /\ header # <<>> /\ Last(header).is = "class" => KnowsClass(Last(header).line, Len(nest))
  BY <1>1 DEF CountedInv
<1>3. JavaLine(l) /\ JavaAnyLine(l) /\ Len(nest) \in Nat /\ Len(nest') \in Nat
  BY NestStep DEF JavaReadsLine, JavaLine, JavaTypes
<1>4. depth' = Len(nest') /\ DepthAfter(l) = Len(nest') /\ Len(nest') = Len(nest) + l.adds
  BY <1>1, <1>2, <1>3, NestStep DEF JavaLine, DepthAfter
<1>5. \A f \in ToSet(javaStack) : f \in ClassFrames
  BY DEF JavaTypes, ToSet
<1>6. ASSUME NEW line, NEW d \in Nat, KnowsClass(line, d), NEW e \in Nat, d <= e, e <= Len(nest')
      PROVE  Knows(line, e)
  <2>1. PICK i \in 1..Len(javaStack) : javaStack[i].line = line /\ javaStack[i].bodyDepth <= d
    <3>1. DOMAIN javaStack = 1..Len(javaStack)
      BY DEF JavaTypes
    <3>2. PICK f \in ToSet(javaStack) : f.line = line /\ f.bodyDepth <= d
      BY <1>6 DEF KnowsClass
    <3>3. QED
      BY <3>1, <3>2 DEF ToSet
  <2>2. javaStack[i].bodyDepth \in Int
    <3>1. javaStack[i] \in ClassFrames
      BY <2>1, ElementOfSeq DEF JavaTypes
    <3>2. QED
      BY <3>1 DEF ClassFrames
  <2>3. javaStack[i].bodyDepth <= e /\ javaStack[i].bodyDepth <= DepthAfter(l)
    BY <1>3, <1>4, <1>6, <2>1, <2>2
  <2>4. /\ i \in 1..Len(ClassesLeft(l)) /\ ClassesLeft(l)[i] = javaStack[i]
        /\ ClassesLeft(l) \in Seq(ClassFrames)
    BY <2>1, <2>3, ClassesLeftIs
  <2>5. javaStack[i] \in ToSet(ClassesLeft(l))
    BY <2>4 DEF ToSet
  <2>6. ToSet(ClassesLeft(l)) \subseteq ToSet(javaStack')
    <3>1. \A x \in ClassFrames : ToSet(Append(ClassesLeft(l), x)) = ToSet(ClassesLeft(l)) \cup {x}
      BY <2>4, Appended
    <3>2. [line |-> javaLine + 1, bodyDepth |-> DepthAfter(l)] \in ClassFrames
      BY <1>3, <1>4 DEF ClassFrames, JavaTypes
    <3>3. QED
      BY <3>1, <3>2 DEF JavaReadsLine
  <2>7. QED
    BY <2>1, <2>3, <2>5, <2>6
<1>7. l.looks = "class" => Knows(javaLine + 1, Len(nest'))
  <2> DEFINE x == [line |-> javaLine + 1, bodyDepth |-> DepthAfter(l)]
  <2>1. x \in ClassFrames /\ x.line = javaLine + 1 /\ x.bodyDepth <= Len(nest')
    BY <1>3, <1>4 DEF ClassFrames, JavaTypes
  <2>2. l.looks = "class" => javaStack' = Append(ClassesLeft(l), x)
    BY DEF JavaReadsLine
  <2> HIDE DEF x
  <2>3. ClassesLeft(l) \in Seq(ClassFrames)
    BY ClassesLeftIs
  <2>4. l.looks = "class" => x \in ToSet(javaStack')
    <3>1. ToSet(Append(ClassesLeft(l), x)) = ToSet(ClassesLeft(l)) \cup {x}
      BY <2>1, <2>3, Appended
    <3>2. QED
      BY <2>2, <3>1
  <2>5. QED
    BY <2>1, <2>4
<1> HIDE DEF Knows
<1>8. ASSUME NEW i \in 1..Len(nest'), nest'[i].is = "class" PROVE Knows(nest'[i].line, i)
  <2>1. i \in Nat /\ i <= i /\ i <= Len(nest')
    BY <1>3
  <2>2. CASE i \in 1..Len(nest) /\ nest'[i] = nest[i]
    BY <1>2, <1>6, <1>8, <2>1, <2>2
  <2>3. CASE l.shape \in {"opens", "reopens"} /\ i = Len(nest')
    <3>1. CASE l.is = "brace"
      <4>1. KnowsClass(nest'[i].line, Len(nest))
        BY <1>2, <1>3, <1>8, <2>3, <3>1, NestStep
      <4>2. Len(nest) <= Len(nest')
        BY <1>3, <1>4, <3>1, JavaLines
      <4>3. QED
        BY <1>3, <1>6, <2>1, <2>3, <4>1, <4>2
    <3>2. CASE l.is # "brace"
      <4>1. nest'[i] = [is |-> l.is, line |-> javaLine + 1]
        BY <1>3, <2>3, <3>2, NestStep
      <4>2. QED
        BY <1>7, <1>8, <2>3, <4>1, JavaLines
    <3>3. QED
      BY <3>1, <3>2
  <2>4. QED
    BY <1>3, <2>2, <2>3, NestStep
<1>9. ASSUME header' # <<>>, Last(header').is = "class" PROVE Knows(Last(header').line, Len(nest'))
  <2>1. \/ header' = <<[is |-> l.is, line |-> javaLine + 1]>> /\ l.is \in {"class", "method"}
        \/ header' = header /\ l.is = "text"
    BY <1>3, <1>9 DEF JavaAnyLine, JavaReads
  <2>2. CASE header' = <<[is |-> l.is, line |-> javaLine + 1]>> /\ l.is \in {"class", "method"}
    <3>1. Last(header') = [is |-> l.is, line |-> javaLine + 1]
      BY <2>2 DEF Last
    <3>2. QED
      BY <1>7, <1>9, <3>1, JavaLines
  <2>3. CASE header' = header /\ l.is = "text"
    <3>1. KnowsClass(Last(header').line, Len(nest))
      BY <1>2, <1>9, <2>3
    <3>2. Len(nest') = Len(nest)
      BY <1>3, <2>3, NestStep
    <3>3. QED
      BY <1>3, <1>6, <3>1, <3>2
  <2>4. QED
    BY <2>1, <2>2, <2>3
<1>10. QED
  BY <1>4, <1>8, <1>9

\* As long as every class opens on its own line, the stack is the open classes.
LEMMA FiledStep ==
  ASSUME JavaTypes, CommentInv, CountedInv, FiledInv, NEW l \in JavaForms, JavaReadsLine(l)
  PROVE  FiledInv'
<1> SUFFICES ASSUME odd' \subseteq {OneLineMethod, NextLineMethod, NextLineBrace}
             PROVE  /\ Rising(javaStack')
                    /\ \A k \in 1..Len(javaStack') :
                         /\ javaStack'[k].bodyDepth \in 1..Len(nest')
                         /\ nest'[javaStack'[k].bodyDepth] = [is |-> "class", line |-> javaStack'[k].line]
                    /\ \A i \in 1..Len(nest') :
                         nest'[i].is = "class" => \E k \in 1..Len(javaStack') : javaStack'[k].bodyDepth = i
                    /\ header' # <<>> => Last(header').is = "method"
                    /\ \A n \in javaNodes' : n.owner = n.within
  BY DEF FiledInv
<1> DEFINE left == ClassesLeft(l)
           m == Len(left)
           n == Len(nest)
           top == [line |-> javaLine + 1, bodyDepth |-> DepthAfter(l)]
<1>1. /\ odd \subseteq {OneLineMethod, NextLineMethod, NextLineBrace}
      /\ Misread \cap odd = {} /\ l \notin Misread /\ ~Hidden(l)
      /\ l.looks = "class" => l.is = "class" /\ l.shape = "opens" /\ l.adds = 1
  <2>1. odd' = IF l \in JavaOtherForms THEN odd \cup {l} ELSE odd
    BY DEF JavaReadsLine, JavaLine, JavaAnyLine, JavaReads
  <2>2. Misread \cap odd' = {} /\ {OneLineClass, NextLineClass, ClassInText} \cap odd' = {}
    BY Apart
  <2>3. Misread \cap odd = {} /\ l \notin Misread /\ ~Hidden(l)
    BY <2>2, ReadRight
  <2>4. l \notin {OneLineClass, NextLineClass, ClassInText}
    BY <2>1, <2>2 DEF JavaOtherForms
  <2>5. QED
    BY <2>1, <2>3, <2>4, JavaLines
<1>2. /\ Rising(javaStack)
      /\ \A k \in 1..Len(javaStack) :
           /\ javaStack[k].bodyDepth \in 1..n
           /\ nest[javaStack[k].bodyDepth] = [is |-> "class", line |-> javaStack[k].line]
      /\ \A i \in 1..n : nest[i].is = "class" => \E k \in 1..Len(javaStack) : javaStack[k].bodyDepth = i
      /\ header # <<>> => Last(header).is = "method"
      /\ \A x \in javaNodes : x.owner = x.within
  BY <1>1 DEF FiledInv
<1>3. JavaLine(l) /\ JavaAnyLine(l) /\ n \in Nat /\ Len(nest') \in Nat /\ Len(javaStack) \in Nat
  BY NestStep DEF JavaReadsLine, JavaLine, JavaTypes
<1>4. DepthAfter(l) = Len(nest') /\ Len(nest') = n + l.adds /\ depth = n
  BY <1>1, <1>3, NestStep DEF JavaLine, DepthAfter, CountedInv
<1>5. /\ left \in Seq(ClassFrames) /\ m \in 0..Len(javaStack)
      /\ \A k \in 1..m : k \in 1..Len(javaStack) /\ left[k] = javaStack[k]
      /\ \A k \in 1..Len(javaStack) : javaStack[k].bodyDepth <= Len(nest') => k \in 1..m
      /\ m # 0 => m \in 1..Len(javaStack) /\ javaStack[m].bodyDepth <= Len(nest')
  <2>1. /\ left \in Seq(ClassFrames) /\ m \in 0..Len(javaStack)
        /\ \A k \in 1..m : k \in 1..Len(javaStack) /\ left[k] = javaStack[k]
        /\ \A k \in 1..Len(javaStack) : javaStack[k].bodyDepth <= DepthAfter(l) => k \in 1..m
        /\ m # 0 => javaStack[m].bodyDepth <= DepthAfter(l)
    BY ClassesLeftIs
  <2>2. m # 0 => m \in 1..Len(javaStack)
    BY <1>3, <2>1
  <2>3. QED
    BY <1>4, <2>1, <2>2
<1> HIDE DEF left, m
<1>6. \A k \in 1..m : javaStack[k].bodyDepth \in 1..n /\ javaStack[k].bodyDepth <= Len(nest')
  <2> SUFFICES ASSUME NEW k \in 1..m PROVE javaStack[k].bodyDepth \in 1..n /\ javaStack[k].bodyDepth <= Len(nest')
    OBVIOUS
  <2>1. m \in 1..Len(javaStack) /\ k \in 1..Len(javaStack) /\ m # 0 /\ k <= m
    BY <1>3, <1>5
  <2>2. javaStack[k].bodyDepth \in 1..n /\ javaStack[m].bodyDepth \in 1..n /\ javaStack[m].bodyDepth <= Len(nest')
    BY <1>2, <1>5, <2>1
  <2>3. k = m \/ javaStack[k].bodyDepth < javaStack[m].bodyDepth
    BY <1>2, <1>3, <2>1 DEF Rising
  <2>4. QED
    BY <1>3, <2>2, <2>3
<1>7. Rising(left)
  BY <1>2, <1>5 DEF Rising, m
<1>8. \A k \in 1..m : /\ left[k].bodyDepth \in 1..Len(nest')
                      /\ nest'[left[k].bodyDepth] = [is |-> "class", line |-> left[k].line]
  <2> SUFFICES ASSUME NEW k \in 1..m
               PROVE  /\ left[k].bodyDepth \in 1..Len(nest')
                      /\ nest'[left[k].bodyDepth] = [is |-> "class", line |-> left[k].line]
    OBVIOUS
  <2> DEFINE b == left[k].bodyDepth
  <2>1. k \in 1..Len(javaStack) /\ left[k] = javaStack[k] /\ b \in 1..n /\ b <= Len(nest')
    BY <1>5, <1>6
  <2>2. nest[b] = [is |-> "class", line |-> left[k].line]
    BY <1>2, <2>1
  <2>3. b \in 1..Len(nest')
    BY <1>3, <2>1
  <2>4. ~(l.shape = "reopens" /\ b = n)
    BY <1>3, <2>2, NestStep
  <2>5. nest'[b] = nest[b]
    BY <1>3, <2>1, <2>4, NestStep
  <2>6. QED
    BY <2>2, <2>3, <2>5
<1>9. top \in ClassFrames
  BY <1>3, <1>4 DEF ClassFrames, JavaTypes
<1>10. ASSUME l.looks = "class"
       PROVE  /\ javaStack' = Append(left, top) /\ Len(javaStack') = m + 1 /\ javaStack'[m + 1] = top
              /\ \A k \in 1..m : javaStack'[k] = left[k]
              /\ top.bodyDepth = Len(nest') /\ Len(nest') = n + 1
              /\ nest'[Len(nest')] = [is |-> "class", line |-> top.line]
  <2>1. javaStack' = Append(left, top)
    BY <1>10 DEF JavaReadsLine, left
  <2>2. Len(Append(left, top)) = m + 1 /\ Append(left, top)[m + 1] = top
        /\ \A k \in 1..m : Append(left, top)[k] = left[k]
    <3> HIDE DEF top
    <3>1. QED
      BY <1>5, <1>9, AppendProperties DEF m
  <2>3. l.is = "class" /\ l.shape = "opens" /\ l.adds = 1
    BY <1>1, <1>10
  <2>4. nest'[Len(nest')] = [is |-> "class", line |-> javaLine + 1]
    BY <1>3, <2>3, NestStep
  <2>5. QED
    BY <1>4, <2>1, <2>2, <2>3, <2>4
<1>11. l.looks # "class" => javaStack' = left
  BY DEF JavaReadsLine, left
<1>12. Rising(javaStack')
  <2>1. CASE l.looks = "class"
    <3> SUFFICES ASSUME NEW i \in 1..(m + 1), NEW k \in 1..(m + 1), i < k
                 PROVE  javaStack'[i].bodyDepth < javaStack'[k].bodyDepth
      BY <1>10, <2>1 DEF Rising
    <3>0. m \in Nat
      BY <1>5
    <3>1. m \in Nat /\ i \in 1..m /\ (k \in 1..m \/ k = m + 1)
      BY <3>0
    <3>2. CASE k \in 1..m
      BY <1>7, <1>10, <2>1, <3>1, <3>2 DEF Rising, m
    <3>3. CASE k = m + 1
      <4>1. javaStack'[i].bodyDepth \in 1..n /\ javaStack'[k].bodyDepth = n + 1
        BY <1>5, <1>6, <1>10, <2>1, <3>1, <3>3
      <4>2. QED
        BY <1>3, <4>1
    <3>4. QED
      BY <3>1, <3>2, <3>3
  <2>2. QED
    BY <1>7, <1>11, <2>1
<1>13. ASSUME NEW k \in 1..Len(javaStack')
       PROVE  /\ javaStack'[k].bodyDepth \in 1..Len(nest')
              /\ nest'[javaStack'[k].bodyDepth] = [is |-> "class", line |-> javaStack'[k].line]
  <2>1. CASE l.looks = "class"
    <3>1. k \in 1..m \/ k = m + 1
      BY <1>3, <1>5, <1>10, <2>1
    <3>2. n + 1 \in 1..(n + 1)
      BY <1>3
    <3>3. CASE k = m + 1
      BY <1>10, <2>1, <3>2, <3>3
    <3>4. CASE k \in 1..m
      BY <1>8, <1>10, <2>1, <3>4
    <3>5. QED
      BY <3>1, <3>3, <3>4
  <2>2. CASE l.looks # "class"
    BY <1>8, <1>11, <1>13, <2>2 DEF m
  <2>3. QED
    BY <2>1, <2>2
<1>14. ASSUME NEW i \in 1..Len(nest'), nest'[i].is = "class"
       PROVE  \E k \in 1..Len(javaStack') : javaStack'[k].bodyDepth = i
  <2>1. CASE i \in 1..n /\ nest'[i] = nest[i]
    <3>1. PICK k \in 1..Len(javaStack) : javaStack[k].bodyDepth = i
      BY <1>2, <1>14, <2>1
    <3>2. k \in 1..m /\ left[k].bodyDepth = i
      BY <1>3, <1>5, <3>1
    <3>3. m \in Nat /\ k \in 1..(m + 1)
      BY <1>5, <3>2
    <3>4. QED
      BY <1>10, <1>11, <3>2, <3>3 DEF m
  <2>2. CASE l.shape \in {"opens", "reopens"} /\ i = Len(nest')
    <3>1. nest'[i] = [is |-> l.is, line |-> javaLine + 1] \/ (header # <<>> /\ nest'[i] = Last(header))
      BY <1>3, <2>2, NestStep
    <3>2. l.is = "class"
      BY <1>2, <1>14, <3>1
    <3>3. l.looks = "class" /\ m + 1 \in 1..(m + 1)
      BY <1>3, <1>5, <3>2, JavaLines
    <3>4. QED
      BY <1>10, <2>2, <3>3
  <2>3. QED
    BY <1>3, <2>1, <2>2, NestStep
<1>15. header' # <<>> => Last(header').is = "method"
  <2>1. \/ header' = <<>> \/ header' = header
        \/ /\ header' = <<[is |-> l.is, line |-> javaLine + 1]>>
           /\ l.is \in {"class", "method"} /\ l.shape = "flat"
    BY <1>3 DEF JavaAnyLine, JavaReads
  <2>2. l.is = "class" => l.shape = "opens"
    BY <1>1, JavaLines
  <2>3. ASSUME header' = <<[is |-> l.is, line |-> javaLine + 1]>>,
               l.is \in {"class", "method"}, l.shape = "flat"
        PROVE  Last(header').is = "method"
    <3>1. Last(header') = [is |-> l.is, line |-> javaLine + 1]
      BY <2>3 DEF Last
    <3>2. l.is = "method"
      BY <2>2, <2>3
    <3>3. QED
      BY <3>1, <3>2
  <2>4. QED
    BY <1>2, <2>1, <2>3
<1>16. ASSUME l.looks \in {"class", "method"} PROVE LineOfTop(left) = InnermostClass
  <2> DEFINE classes == {i \in DOMAIN nest : nest[i].is = "class"}
             inner == Popping(nest, classes)
             d == Len(inner)
  <2>1. nest \in Seq(NestFrames) /\ DOMAIN nest = 1..n
    BY DEF JavaTypes
  <2>2. /\ inner \in Seq(NestFrames) /\ d \in classes \cup {0}
        /\ \A i \in 1..d : inner[i] = nest[i]
        /\ \A i \in classes : i \in 1..d
    <3>1. classes \in SUBSET DOMAIN nest
      OBVIOUS
    <3> HIDE DEF classes
    <3>2. QED
      BY <2>1, <3>1, PoppingIs
  <2>3. InnermostClass = LineOfTop(inner)
    BY DEF InnermostClass
  <2>4. d \in Nat /\ (d # 0 => d \in 1..n /\ d \in 1..d /\ nest[d].is = "class")
    BY <1>3, <2>1, <2>2
  <2>5. \A k \in 1..Len(javaStack) : k \in 1..m /\ javaStack[k].bodyDepth \in classes
    <3>1. n <= Len(nest')
      BY <1>3, <1>4, <1>16, JavaLines
    <3>2. \A b \in 1..n : b <= Len(nest')
      BY <1>3, <3>1
    <3>3. \A k \in 1..Len(javaStack) : nest[javaStack[k].bodyDepth].is = "class"
      <4>1. \A r, line : r = [is |-> "class", line |-> line] => r.is = "class"
        OBVIOUS
      <4>2. QED
        BY <1>2, <4>1
    <3>4. \A k \in 1..Len(javaStack) : javaStack[k].bodyDepth \in classes
      BY <1>2, <2>1, <3>3
    <3> HIDE DEF classes
    <3>5. QED
      BY <1>2, <1>5, <3>2, <3>4
  <2> HIDE DEF classes, inner, d
  <2>6. CASE d = 0
    <3>1. classes = {}
      BY <2>2, <2>6
    <3>2. m = 0
      BY <1>5, <2>5, <3>1
    <3>3. left = <<>> /\ inner = <<>>
      BY <1>5, <2>2, <2>6, <3>2, EmptySeq DEF m, d
    <3>4. QED
      BY <2>3, <3>3 DEF LineOfTop
  <2>7. CASE d # 0
    <3>1. PICK k \in 1..Len(javaStack) : javaStack[k].bodyDepth = d
      BY <1>2, <2>4, <2>7
    <3>2. m \in 1..Len(javaStack) /\ m # 0 /\ k \in 1..m
      BY <1>3, <1>5, <2>5, <3>1
    <3>3. javaStack[m].bodyDepth \in 1..d /\ m \in 1..m
      BY <2>2, <2>5, <3>2
    <3>4. k = m
      <4>1. k < m => javaStack[k].bodyDepth < javaStack[m].bodyDepth
        BY <1>2, <3>1, <3>2 DEF Rising
      <4>2. QED
        BY <1>3, <2>4, <3>1, <3>2, <3>3, <4>1
    <3>5. left # <<>> /\ inner # <<>>
      BY <1>5, <2>7, <3>2, EmptySeq DEF m, d
    <3>6. LineOfTop(left) = left[m].line /\ LineOfTop(inner) = inner[d].line
      BY <3>5 DEF LineOfTop, Last, m, d
    <3>7. left[m] = javaStack[m] /\ inner[d] = nest[d] /\ nest[d].line = javaStack[k].line
      <4>1. nest[d] = [is |-> "class", line |-> javaStack[k].line]
        BY <1>2, <3>1
      <4>2. left[m] = javaStack[m]
        BY <1>5, <3>3
      <4>3. inner[d] = nest[d]
        BY <2>2, <2>4, <2>7
      <4>4. QED
        BY <4>1, <4>2, <4>3
    <3>8. QED
      BY <2>3, <3>4, <3>6, <3>7
  <2>8. QED
    BY <2>6, <2>7
<1>17. \A x \in javaNodes' : x.owner = x.within
  <2>1. \/ javaNodes' = javaNodes
        \/ /\ l.looks \in {"class", "method"}
           /\ javaNodes' = javaNodes \cup {NewUnit(l, LineOfTop(left))}
    BY DEF JavaReadsLine, left
  <2>2. \A o : NewUnit(l, o).owner = o /\ NewUnit(l, o).within = InnermostClass
    BY DEF NewUnit
  <2>3. QED
    BY <1>2, <1>16, <2>1, <2>2
<1>18. QED
  BY <1>12, <1>13, <1>14, <1>15, <1>17

\* The current method is one whose body is open, at the depth kept with it.
LEMMA MethodStep ==
  ASSUME JavaTypes, CommentInv, CountedInv, MethodInv, NEW l \in JavaForms, JavaReadsLine(l)
  PROVE  MethodInv'
<1> SUFFICES ASSUME ({OneLineMethod} \cup Misread) \cap odd' = {}
             PROVE  /\ currentMethod' # 0 =>
                         /\ currentMethodDepth' \in 1..Len(nest')
                         /\ nest'[currentMethodDepth'] = [is |-> "method", line |-> currentMethod']
                    /\ \A e \in javaEdges' : e.from \in e.within
  BY DEF MethodInv
<1>1. /\ OneLineMethod \notin odd /\ l # OneLineMethod
      /\ Misread \cap odd = {} /\ l \notin Misread /\ ~Hidden(l)
  <2>1. OneLineMethod \notin odd /\ l # OneLineMethod
    BY OddStep DEF JavaOtherForms
  <2>2. QED
    BY <2>1, ReadRight
<1>2. /\ currentMethod # 0 =>
           /\ currentMethodDepth \in 1..Len(nest)
           /\ nest[currentMethodDepth] = [is |-> "method", line |-> currentMethod]
      /\ \A e \in javaEdges : e.from \in e.within
  BY <1>1 DEF MethodInv
<1>3. JavaLine(l) /\ JavaAnyLine(l) /\ Len(nest) \in Nat /\ Len(nest') \in Nat /\ DOMAIN nest = 1..Len(nest)
  BY NestStep DEF JavaReadsLine, JavaLine, JavaTypes
<1>4. DepthAfter(l) = Len(nest')
  BY <1>1, <1>3, NestStep DEF DepthAfter, CountedInv
<1>5. MethodLeft(l) # 0 =>
        /\ MethodLeft(l) = currentMethod /\ currentMethod # 0 /\ MethodDepthLeft(l) = currentMethodDepth
        /\ currentMethodDepth \in 1..Len(nest) /\ currentMethodDepth < Len(nest')
  BY <1>2, <1>3, <1>4 DEF MethodLeft, MethodDepthLeft, MethodEnds
<1>6. MethodLeft(l) # 0 =>
        /\ currentMethodDepth \in 1..Len(nest')
        /\ nest'[currentMethodDepth] = [is |-> "method", line |-> currentMethod]
  <2> SUFFICES ASSUME MethodLeft(l) # 0
               PROVE  /\ currentMethodDepth \in 1..Len(nest')
                      /\ nest'[currentMethodDepth] = [is |-> "method", line |-> currentMethod]
    OBVIOUS
  <2>1. /\ currentMethodDepth \in 1..Len(nest) /\ currentMethodDepth <= Len(nest')
        /\ currentMethodDepth \in 1..Len(nest')
    BY <1>3, <1>5
  <2>2. nest[currentMethodDepth] = [is |-> "method", line |-> currentMethod]
    BY <1>2, <1>5
  <2>3. ~(l.shape = "reopens" /\ currentMethodDepth = Len(nest))
    <3>1. nest[currentMethodDepth].is = "method"
      BY <2>2
    <3>2. l.shape = "reopens" => nest[Len(nest)].is = "block"
      BY <1>3, NestStep
    <3>3. QED
      BY <3>1, <3>2
  <2>4. nest'[currentMethodDepth] = nest[currentMethodDepth]
    BY <1>3, <2>1, <2>3, NestStep
  <2>5. QED
    BY <2>1, <2>2, <2>4
<1>7. ASSUME currentMethod' # 0
      PROVE  /\ currentMethodDepth' \in 1..Len(nest')
             /\ nest'[currentMethodDepth'] = [is |-> "method", line |-> currentMethod']
  <2>1. CASE currentMethod' = MethodLeft(l) /\ currentMethodDepth' = MethodDepthLeft(l)
    BY <1>5, <1>6, <1>7, <2>1
  <2>2. CASE /\ l.looks = "method" /\ HasBrace(l)
             /\ currentMethod' = javaLine + 1 /\ currentMethodDepth' = DepthAfter(l)
    <3>1. l.is = "method" /\ l.shape = "opens"
      BY <1>1, <2>2, JavaLines
    <3>2. Len(nest') \in 1..Len(nest') /\ nest'[Len(nest')] = [is |-> l.is, line |-> javaLine + 1]
      BY <1>3, <3>1, NestStep
    <3>3. QED
      BY <1>4, <2>2, <3>1, <3>2
  <2>3. QED
    BY <2>1, <2>2 DEF JavaReadsLine
<1>8. MethodLeft(l) # 0 => MethodLeft(l) \in Around("method")
  <2>1. ASSUME MethodLeft(l) # 0 PROVE nest[currentMethodDepth] = [is |-> "method", line |-> MethodLeft(l)]
                                       /\ currentMethodDepth \in DOMAIN nest
    BY <1>2, <1>3, <1>5, <2>1
  <2>2. ASSUME NEW i \in DOMAIN nest, nest[i].is = "method" PROVE nest[i].line \in Around("method")
    BY <2>2 DEF Around
  <2>3. QED
    BY <2>1, <2>2
<1>9. \A e \in javaEdges' : e.from \in e.within
  <2>1. \/ javaEdges' = javaEdges
        \/ /\ MethodLeft(l) # 0
           /\ javaEdges' = javaEdges \cup {[line |-> javaLine + 1, from |-> MethodLeft(l),
                                            within |-> Around("method")]}
    BY DEF JavaReadsLine
  <2>2. QED
    BY <1>2, <1>8, <2>1
<1>10. QED
  BY <1>7, <1>9

\* The invariant of the Java scanner, for files of any length and any depth.
LEMMA JavaInvariant == Spec => []JavaInv
<1>1. /\ Len(<<>>) = 0 /\ Rising(<<>>) /\ (\A T : <<>> \in Seq(T)) /\ \A k : k \notin 1..0
  BY EmptySeq DEF Rising
<1>2. JavaInit => JavaInv
  <2> SUFFICES ASSUME JavaInit PROVE JavaInv
    OBVIOUS
  <2>1. /\ javaLine = 0 /\ depth = 0 /\ javaStack = <<>> /\ currentMethod = 0 /\ currentMethodDepth = -1
        /\ javaNodes = {} /\ javaEdges = {} /\ nest = <<>> /\ header = <<>>
        /\ inBlockComment = FALSE /\ commented = FALSE
    BY DEF JavaInit
  <2>2. JavaTypes
    <3>1. inBlockComment \in BOOLEAN /\ commented \in BOOLEAN
      BY <2>1, Zenon
    <3>2. QED
      BY <1>1, <2>1, <3>1 DEF JavaTypes
  <2>3. CountedInv
    BY <1>1, <2>1 DEF CountedInv
  <2>4. FiledInv
    BY <1>1, <2>1 DEF FiledInv
  <2>5. MethodInv
    BY <1>1, <2>1 DEF MethodInv
  <2>6. QED
    BY <2>1, <2>2, <2>3, <2>4, <2>5 DEF JavaInv, CommentInv
<1>3. Init => JavaInv
  BY <1>2 DEF Init
<1>4. ASSUME JavaInv, [Next]_vars PROVE JavaInv'
  <2>1. ASSUME NEW l \in JavaForms, JavaReadsLine(l) PROVE JavaInv'
    <3>1. JavaAnyLine(l)
      BY <2>1 DEF JavaReadsLine, JavaLine
    <3>2. CommentInv'
      BY <1>4, <3>1, CommentStep DEF JavaInv
    <3>3. QED
      BY <1>4, <2>1, <3>2, JavaTypesStep, CountedStep, FiledStep, MethodStep DEF JavaInv
  <2>2. CASE JavaReset
    <3>1. /\ javaLine' = 0 /\ depth' = 0 /\ javaStack' = <<>>
          /\ currentMethod' = 0 /\ currentMethodDepth' = -1
          /\ javaNodes' = {} /\ javaEdges' = {} /\ nest' = <<>> /\ header' = <<>>
          /\ inBlockComment' = FALSE /\ commented' = FALSE
      BY <2>2 DEF JavaReset
    <3>2. JavaTypes'
      <4>1. inBlockComment' \in BOOLEAN /\ commented' \in BOOLEAN
        BY <3>1, Zenon
      <4>2. QED
        BY <1>1, <3>1, <4>1 DEF JavaTypes
    <3>3. CountedInv'
      BY <1>1, <3>1 DEF CountedInv
    <3>4. FiledInv'
      BY <1>1, <3>1 DEF FiledInv
    <3>5. MethodInv'
      BY <1>1, <3>1 DEF MethodInv
    <3>6. QED
      BY <3>1, <3>2, <3>3, <3>4, <3>5 DEF JavaInv, CommentInv
  <2>3. CASE JavaRests
    BY <1>4, <2>3 DEF JavaRests, scanVars, nestVars, JavaInv, JavaTypes, CommentInv, CountedInv,
                      KnowsClass, FiledInv, Rising, MethodInv
  <2>4. QED
    BY <1>4, <2>1, <2>2, <2>3, JavaMoves, SkippedStep
<1>5. QED
  BY <1>3, <1>4, PTL DEF Spec

-----------------------------------------------------------------------------
(***************************************************************************)
(* Theorems about the scanner of Java.                                     *)
(***************************************************************************)
\* An open class is on the stack, whatever block comments hide, unless a line
\* was misread; and the stack is the open classes, under which classes and
\* methods are filed, if every class opens on its own line and closes on
\* another one.
THEOREM JavaClassesCorrect == Spec => []JavaClassesFollow
<1>1. ASSUME JavaInv PROVE JavaClassesFollow
  <2>1. DOMAIN nest = 1..Len(nest) /\ DOMAIN javaStack = 1..Len(javaStack)
    BY <1>1 DEF JavaInv, JavaTypes
  <2>2. Frames = {f.line : f \in ToSet(javaStack)}
    BY DEF Frames, ToSet
  <2>3. Around("class") = {nest[i].line : i \in {k \in 1..Len(nest) : nest[k].is = "class"}}
    BY <2>1 DEF Around
  <2>4. Misread \cap odd = {} => Around("class") \subseteq Frames
    BY <1>1, <2>2, <2>3 DEF JavaInv, CountedInv, KnowsClass
  <2>5. ASSUME odd \subseteq {OneLineMethod, NextLineMethod, NextLineBrace}
        PROVE  Frames = Around("class") /\ \A n \in javaNodes : n.owner = n.within
    <3>1. Misread \cap odd = {}
      BY <2>5, Apart
    <3>2. \A k \in 1..Len(javaStack) : javaStack[k].line \in Around("class")
      <4> SUFFICES ASSUME NEW k \in 1..Len(javaStack) PROVE javaStack[k].line \in Around("class")
        OBVIOUS
      <4>1. /\ javaStack[k].bodyDepth \in 1..Len(nest)
            /\ nest[javaStack[k].bodyDepth] = [is |-> "class", line |-> javaStack[k].line]
        BY <1>1, <2>5 DEF JavaInv, FiledInv
      <4>2. QED
        BY <2>3, <4>1
    <3>3. Frames \subseteq Around("class")
      BY <2>1, <3>2 DEF Frames
    <3>4. \A n \in javaNodes : n.owner = n.within
      BY <1>1, <2>5 DEF JavaInv, FiledInv
    <3>5. QED
      BY <2>4, <3>1, <3>3, <3>4
  <2>6. QED
    BY <2>4, <2>5 DEF JavaClassesFollow
<1>2. QED
  BY <1>1, JavaInvariant, PTL

\* The caller of a recorded call is a method around it, unless a method took
\* one line or a line was misread: a brace counted that is none or hidden by
\* quotes, or a mark of a comment taken for one that is none or overlooked.
THEOREM JavaCallersCorrect == Spec => []JavaCallersEnclose
<1>1. JavaInv => JavaCallersEnclose
  BY DEF JavaInv, MethodInv, JavaCallersEnclose
<1>2. QED
  BY <1>1, JavaInvariant, PTL

-----------------------------------------------------------------------------
(***************************************************************************)
(* The search for cycles.  The path is a chain of calls without a name     *)
(* twice; and until a cycle is counted, every callee the search is through *)
(* with is done, so that no cycle lies among the names that are done.      *)
(***************************************************************************)
Colours == {"new", "stack", "done"}
PathFrames == [node : Names, left : SUBSET Names]

SearchTypes ==
  /\ calls \in [Names -> SUBSET Names] /\ visited \in [Names -> Colours]
  /\ path \in Seq(PathFrames) /\ cycles \in Nat
  /\ searching \in {"no", "yes", "finished"}
  /\ searching = "no" => cycles = 0 /\ path = <<>> /\ \A n \in Names : visited[n] = "new"
  /\ searching = "finished" => path = <<>> /\ \A n \in Callers : visited[n] # "new"

PathInv ==
  /\ \A n \in Names : visited[n] = "stack" <=> \E i \in 1..Len(path) : path[i].node = n
  /\ \A i, k \in 1..Len(path) : path[i].node = path[k].node => i = k
  /\ \A i \in 1..Len(path) : i + 1 \in 1..Len(path) => path[i + 1].node \in calls[path[i].node]
  /\ \A i \in 1..Len(path) : path[i].left \subseteq calls[path[i].node]

SeenInv ==
  /\ \A n \in Names : visited[n] = "done" => \A m \in calls[n] : visited[m] # "new"
  /\ \A i \in 1..Len(path) : \A m \in calls[path[i].node] \ path[i].left : visited[m] # "new"

Through(m, i) == visited[m] = "done" \/ (i + 1 \in 1..Len(path) /\ m = path[i + 1].node)

NoneYet ==
  /\ \A n \in Names : visited[n] = "done" => \A m \in calls[n] : visited[m] = "done"
  /\ \A i \in 1..Len(path) : \A m \in calls[path[i].node] \ path[i].left : Through(m, i)
  /\ \A p \in SimplePaths(calls) :
       (\A j \in 1..Len(p) : visited[p[j]] = "done") => p[1] \notin calls[Last(p)]

CountInv ==
  /\ cycles > 0 => HasCycle(calls)
  /\ cycles = 0 => NoneYet

SearchInv == SearchTypes /\ PathInv /\ SeenInv /\ CountInv

\* A name is entered: from a caller or from the last name of the path.
Enters(n) ==
  /\ searching = "yes" /\ visited[n] = "new" /\ visited' = [visited EXCEPT ![n] = "stack"]
  /\ path' \in Seq(PathFrames) /\ Len(path') = Len(path) + 1
  /\ path'[Len(path) + 1].node = n /\ path'[Len(path) + 1].left = calls[n]
  /\ \A i \in 1..Len(path) :
       /\ path'[i].node = path[i].node
       /\ path'[i].left = IF i = Len(path) THEN path[i].left \ {n} ELSE path[i].left
  /\ Len(path) # 0 => n \in path[Len(path)].left
  /\ UNCHANGED <<calls, cycles, searching>>

\* A callee that is not new is looked at, and counted if it is on the path.
Returns(n) ==
  /\ searching = "yes" /\ visited[n] # "new" /\ n \in path[Len(path)].left
  /\ path' \in Seq(PathFrames) /\ Len(path') = Len(path) /\ Len(path) \in 1..Len(path)
  /\ \A i \in 1..Len(path) :
       /\ path'[i].node = path[i].node
       /\ path'[i].left = IF i = Len(path) THEN path[i].left \ {n} ELSE path[i].left
  /\ cycles' = IF visited[n] = "stack" THEN cycles + 1 ELSE cycles
  /\ UNCHANGED <<calls, visited, searching>>

\* The last name of the path is done.
Leaves ==
  /\ searching = "yes" /\ Len(path) \in 1..Len(path)
  /\ path[Len(path)].left = {} /\ path[Len(path)].node \in Names
  /\ visited' = [visited EXCEPT ![path[Len(path)].node] = "done"]
  /\ path' \in Seq(PathFrames) /\ Len(path') = Len(path) - 1
  /\ \A i \in 1..(Len(path) - 1) : path'[i] = path[i]
  /\ UNCHANGED <<calls, cycles, searching>>

\* A step of CodeGraph is one of the search's, or leaves it alone.
LEMMA SearchMoves ==
  ASSUME [Next]_vars
  PROVE  \/ \E graph \in [Names -> SUBSET Names] : Measure(graph)
         \/ \E n \in Names : SearchFrom(n) \/ Follow(n)
         \/ Leave \/ SearchEnds \/ UNCHANGED metricVars
<1>1. CASE UNCHANGED vars
  BY <1>1 DEF vars
<1>2. CASE Next
  <2>1. CASE Merge
    BY <2>1 DEF Merge
  <2>2. CASE MeasureCalls
    BY <2>2 DEF MeasureCalls, MetricsStep
  <2>3. QED
    BY <1>2, <2>1, <2>2 DEF Next, Skip, WalkFails, Analyze, ScanPython, PythonDone, ScanJava, JavaDone
<1>3. QED
  BY <1>1, <1>2

\* The search moves along the path, at its end.
LEMMA PathMoves ==
  ASSUME SearchTypes, NEW n \in Names, SearchFrom(n) \/ Follow(n)
  PROVE  Enters(n) \/ Returns(n)
<1> DEFINE k == Len(path)
           new == [node |-> n, left |-> calls[n]]
           rest == [path EXCEPT ![k].left = @ \ {n}]
<1>1. k \in Nat /\ path \in Seq(PathFrames) /\ new \in PathFrames
      /\ (path # <<>> => k \in 1..k) /\ (path = <<>> => k = 0)
  BY EmptySeq DEF SearchTypes, PathFrames
<1>2. path # <<>> => searching = "yes"
  BY DEF SearchTypes
<1>3. path # <<>> =>
        /\ rest \in Seq(PathFrames) /\ Len(rest) = k
        /\ \A i \in 1..k : /\ rest[i].node = path[i].node
                           /\ rest[i].left = IF i = k THEN path[i].left \ {n} ELSE path[i].left
  <2> SUFFICES ASSUME path # <<>>
               PROVE  /\ rest \in Seq(PathFrames) /\ Len(rest) = k
                      /\ \A i \in 1..k : /\ rest[i].node = path[i].node
                                         /\ rest[i].left = IF i = k THEN path[i].left \ {n} ELSE path[i].left
    OBVIOUS
  <2> DEFINE e == [path[k] EXCEPT !.left = @ \ {n}]
  <2>1. path[k] \in PathFrames
    BY <1>1, ElementOfSeq
  <2>2. e \in PathFrames /\ e.node = path[k].node /\ e.left = path[k].left \ {n}
    BY <2>1 DEF PathFrames
  <2>3. rest = [path EXCEPT ![k] = e]
    OBVIOUS
  <2> HIDE DEF e, rest
  <2>4. /\ rest \in Seq(PathFrames) /\ Len(rest) = k
        /\ \A i \in 1..k : rest[i] = IF i = k THEN e ELSE path[i]
    <3> HIDE DEF k
    <3>1. k = Len(path)
      BY DEF k
    <3>2. QED
      BY <1>1, <2>2, <2>3, <3>1, ExceptSeq
  <2>5. QED
    BY <2>2, <2>4
<1>4. CASE SearchFrom(n)
  <2>1. /\ searching = "yes" /\ path = <<>> /\ visited[n] = "new" /\ path' = Append(path, new)
        /\ visited' = [visited EXCEPT ![n] = "stack"] /\ UNCHANGED <<calls, cycles, searching>>
    BY <1>4 DEF SearchFrom, Enter
  <2>2. Append(path, new) \in Seq(PathFrames) /\ Len(Append(path, new)) = k + 1
        /\ Append(path, new)[k + 1] = new
    <3> HIDE DEF new
    <3>1. QED
      BY <1>1, AppendProperties
  <2>3. k = 0 /\ \A i \in 1..0 : FALSE
    BY <1>1, <2>1
  <2>4. QED
    BY <2>1, <2>2, <2>3 DEF Enters
<1>5. CASE Follow(n)
  <2>1. path # <<>> /\ n \in path[k].left /\ UNCHANGED <<calls, searching>>
    BY <1>5 DEF Follow, Last
  <2>2. CASE visited[n] = "new"
    <3>1. path' = Append(rest, new) /\ visited' = [visited EXCEPT ![n] = "stack"] /\ cycles' = cycles
      BY <1>5, <2>2 DEF Follow
    <3>2. /\ Append(rest, new) \in Seq(PathFrames) /\ Len(Append(rest, new)) = k + 1
          /\ Append(rest, new)[k + 1] = new
          /\ \A i \in 1..k : Append(rest, new)[i] = rest[i]
      <4> HIDE DEF new, rest
      <4>1. QED
        BY <1>1, <1>3, <2>1, AppendProperties
    <3>3. new.node = n /\ new.left = calls[n]
      OBVIOUS
    <3> HIDE DEF new, rest
    <3>4. QED
      BY <1>2, <1>3, <2>1, <2>2, <3>1, <3>2, <3>3 DEF Enters
  <2>3. CASE visited[n] # "new"
    <3>1. path' = rest /\ visited' = visited /\ cycles' = IF visited[n] = "stack" THEN cycles + 1 ELSE cycles
      BY <1>5, <2>3 DEF Follow, ClosesCycle
    <3>2. QED
      BY <1>1, <1>2, <1>3, <2>1, <2>3, <3>1 DEF Returns
  <2>4. QED
    BY <2>2, <2>3
<1>6. QED
  BY <1>4, <1>5

\* So it does when a name is left.
LEMMA LeaveMoves ==
  ASSUME SearchTypes, Leave
  PROVE  Leaves
<1> DEFINE k == Len(path)
<1>1. path # <<>> /\ path[k].left = {} /\ visited' = [visited EXCEPT ![path[k].node] = "done"]
      /\ path' = SubSeq(path, 1, k - 1) /\ UNCHANGED <<calls, cycles, searching>>
  BY DEF Leave, Last, Front
<1>2. k \in 1..k /\ k \in Nat /\ searching = "yes"
  BY <1>1, EmptySeq DEF SearchTypes
<1>3. path[k] \in PathFrames
  BY <1>2, ElementOfSeq DEF SearchTypes
<1>4. /\ SubSeq(path, 1, k - 1) \in Seq(PathFrames) /\ Len(SubSeq(path, 1, k - 1)) = k - 1
      /\ \A i \in 1..(k - 1) : SubSeq(path, 1, k - 1)[i] = path[i]
  <2>1. k - 1 \in Nat /\ \A i \in 1..(k - 1) : i \in 1..k
    BY <1>2
  <2>2. \A i \in 1..(k - 1) : path[i] \in PathFrames
    BY <2>1, ElementOfSeq DEF SearchTypes
  <2>3. k - 1 \in Int /\ 1 \in Int /\ (1 <= k - 1 => k - 1 - 1 + 1 = k - 1) /\ (~(1 <= k - 1) => k - 1 = 0)
    BY <1>2
  <2>4. path \in Seq(PathFrames)
    BY DEF SearchTypes
  <2> HIDE DEF k
  <2>5. QED
    BY <2>1, <2>2, <2>3, <2>4, SubSeqProperties
<1>5. QED
  BY <1>1, <1>2, <1>3, <1>4 DEF Leaves, PathFrames

\* The types of the search are kept, and it is over when all callers are seen.
LEMMA SearchTypesStep ==
  ASSUME SearchTypes, NEW n \in Names, Enters(n) \/ Returns(n) \/ Leaves
  PROVE  SearchTypes'
<1>1. calls' = calls /\ searching' = "yes"
  BY DEF Enters, Returns, Leaves
<1>2. visited' \in [Names -> Colours]
  BY DEF SearchTypes, Enters, Returns, Leaves, Colours
<1>3. path' \in Seq(PathFrames)
  BY DEF Enters, Returns, Leaves
<1>4. cycles' \in Nat
  BY DEF SearchTypes, Enters, Returns, Leaves
<1>5. QED
  BY <1>1, <1>2, <1>3, <1>4 DEF SearchTypes

\* Names on the path are those coloured "stack", and a chain of calls.
LEMMA PathStep ==
  ASSUME SearchTypes, PathInv, NEW n \in Names, Enters(n) \/ Returns(n) \/ Leaves
  PROVE  PathInv'
<1> DEFINE k == Len(path)
<1>1. k \in Nat /\ \A i \in 1..k : path[i] \in PathFrames
  BY ElementOfSeq DEF SearchTypes
<1>2. \A i \in 1..k : path[i].node \in Names /\ path[i].left \subseteq calls[path[i].node]
  BY <1>1 DEF PathFrames, PathInv
<1>3. /\ \A x \in Names : visited[x] = "stack" <=> \E i \in 1..k : path[i].node = x
      /\ \A i, j \in 1..k : path[i].node = path[j].node => i = j
      /\ \A i \in 1..k : i + 1 \in 1..k => path[i + 1].node \in calls[path[i].node]
  BY DEF PathInv
<1>4. visited \in [Names -> Colours] /\ calls \in [Names -> SUBSET Names]
  BY DEF SearchTypes
<1>5. CASE Enters(n)
  <2>1. /\ visited[n] = "new" /\ visited' = [visited EXCEPT ![n] = "stack"] /\ calls' = calls
        /\ Len(path') = k + 1 /\ path'[k + 1].node = n /\ path'[k + 1].left = calls[n]
        /\ \A i \in 1..k : path'[i].node = path[i].node /\ path'[i].left \subseteq path[i].left
        /\ k # 0 => n \in path[k].left
    BY <1>5 DEF Enters
  <2>2. (\A i \in 1..(k + 1) : i \in 1..k \/ i = k + 1) /\ (\A i \in 1..k : i \in 1..(k + 1)) /\ k + 1 \in 1..(k + 1)
    BY <1>1
  <2>3. \A i \in 1..k : path[i].node # n
    BY <1>3, <2>1
  <2>4. \A x \in Names : visited'[x] = "stack" <=> \E i \in 1..(k + 1) : path'[i].node = x
    <3> SUFFICES ASSUME NEW x \in Names
                 PROVE  visited'[x] = "stack" <=> \E i \in 1..(k + 1) : path'[i].node = x
      OBVIOUS
    <3>1. CASE x = n
      BY <1>4, <2>1, <2>2, <3>1
    <3>2. CASE x # n
      BY <1>3, <1>4, <2>1, <2>2, <3>2
    <3>3. QED
      BY <3>1, <3>2
  <2>5. \A i, j \in 1..(k + 1) : path'[i].node = path'[j].node => i = j
    BY <1>3, <2>1, <2>2, <2>3
  <2>6. \A i \in 1..(k + 1) : i + 1 \in 1..(k + 1) => path'[i + 1].node \in calls[path'[i].node]
    <3> SUFFICES ASSUME NEW i \in 1..(k + 1), i + 1 \in 1..(k + 1)
                 PROVE  path'[i + 1].node \in calls[path'[i].node]
      OBVIOUS
    <3>1. i \in 1..k /\ (i + 1 \in 1..k \/ i = k)
      BY <1>1
    <3>2. CASE i + 1 \in 1..k
      BY <1>3, <2>1, <3>1, <3>2
    <3>3. CASE i = k
      BY <1>1, <1>2, <2>1, <3>1, <3>3
    <3>4. QED
      BY <3>1, <3>2, <3>3
  <2>7. \A i \in 1..(k + 1) : path'[i].left \subseteq calls[path'[i].node]
    <3> SUFFICES ASSUME NEW i \in 1..(k + 1) PROVE path'[i].left \subseteq calls[path'[i].node]
      OBVIOUS
    <3>1. CASE i \in 1..k
      BY <1>2, <2>1, <3>1
    <3>2. CASE i = k + 1
      BY <2>1, <3>2
    <3>3. QED
      BY <2>2, <3>1, <3>2
  <2>8. QED
    BY <2>1, <2>4, <2>5, <2>6, <2>7 DEF PathInv
<1>6. CASE Returns(n)
  <2>1. /\ visited' = visited /\ calls' = calls /\ Len(path') = k
        /\ \A i \in 1..k : path'[i].node = path[i].node /\ path'[i].left \subseteq path[i].left
    BY <1>6 DEF Returns
  <2>2. \A i \in 1..k : path'[i].left \subseteq calls[path'[i].node]
    <3> SUFFICES ASSUME NEW i \in 1..k PROVE path'[i].left \subseteq calls[path'[i].node]
      OBVIOUS
    <3>1. QED
      BY <1>2, <2>1
  <2>3. QED
    BY <1>3, <2>1, <2>2 DEF PathInv
<1>7. CASE Leaves
  <2> DEFINE u == path[k].node
  <2>1. /\ k \in 1..k /\ u \in Names /\ visited' = [visited EXCEPT ![u] = "done"] /\ calls' = calls
        /\ Len(path') = k - 1 /\ \A i \in 1..(k - 1) : path'[i] = path[i]
    BY <1>7 DEF Leaves
  <2>2. (\A i \in 1..k : i \in 1..(k - 1) \/ i = k) /\ \A i \in 1..(k - 1) : i \in 1..k /\ i # k
    BY <1>1
  <2>3. \A x \in Names : visited'[x] = "stack" <=> \E i \in 1..(k - 1) : path'[i].node = x
    <3> SUFFICES ASSUME NEW x \in Names
                 PROVE  visited'[x] = "stack" <=> \E i \in 1..(k - 1) : path'[i].node = x
      OBVIOUS
    <3>1. CASE x = u
      BY <1>3, <1>4, <2>1, <2>2, <3>1
    <3>2. CASE x # u
      <4>1. visited'[x] = visited[x]
        BY <1>4, <2>1, <3>2
      <4>2. \A i \in 1..k : path[i].node = x => i \in 1..(k - 1) /\ path'[i].node = x
        BY <2>1, <2>2, <3>2
      <4>3. \A i \in 1..(k - 1) : path'[i].node = x => i \in 1..k /\ path[i].node = x
        BY <2>1, <2>2
      <4>4. QED
        BY <1>3, <4>1, <4>2, <4>3
    <3>3. QED
      BY <3>1, <3>2
  <2>4. \A i, j \in 1..(k - 1) : path'[i].node = path'[j].node => i = j
    BY <1>3, <2>1, <2>2
  <2>5. \A i \in 1..(k - 1) : i + 1 \in 1..(k - 1) => path'[i + 1].node \in calls[path'[i].node]
    BY <1>3, <2>1, <2>2
  <2>6. \A i \in 1..(k - 1) : path'[i].left \subseteq calls[path'[i].node]
    BY <1>2, <2>1, <2>2
  <2>7. QED
    BY <2>1, <2>3, <2>4, <2>5, <2>6 DEF PathInv
<1>8. QED
  BY <1>5, <1>6, <1>7

\* The search looks at every callee before it is through with a name.
LEMMA SeenStep ==
  ASSUME SearchTypes, PathInv, SeenInv, NEW n \in Names, Enters(n) \/ Returns(n) \/ Leaves
  PROVE  SeenInv'
<1> DEFINE k == Len(path)
<1>1. /\ k \in Nat /\ visited \in [Names -> Colours] /\ calls \in [Names -> SUBSET Names]
      /\ \A i \in 1..k : path[i] \in PathFrames
  BY ElementOfSeq DEF SearchTypes
<1>2. \A i \in 1..k : path[i].node \in Names
  BY <1>1 DEF PathFrames
<1>3. \A x \in Names : visited'[x] = "new" => visited[x] = "new"
  BY <1>1 DEF Enters, Returns, Leaves
<1>4. calls' = calls
  BY DEF Enters, Returns, Leaves
<1>5. \A x \in Names : visited[x] = "done" => \A m \in calls[x] : visited[m] # "new"
  BY DEF SeenInv
<1>6. \A i \in 1..k : \A m \in calls[path[i].node] \ path[i].left : visited[m] # "new"
  BY DEF SeenInv
<1>7. \A x \in Names : visited'[x] = "done" => \A m \in calls[x] : visited'[m] # "new"
  <2> SUFFICES ASSUME NEW x \in Names, visited'[x] = "done", NEW m \in calls[x]
               PROVE  visited[m] # "new" /\ m \in Names
    BY <1>3
  <2>1. visited[x] = "done" \/ (Leaves /\ x = path[k].node)
    BY <1>1 DEF Enters, Returns, Leaves
  <2>2. CASE visited[x] = "done"
    BY <1>1, <1>5, <2>2
  <2>3. CASE Leaves /\ x = path[k].node
    <3>1. k \in 1..k /\ path[k].left = {}
      BY <2>3 DEF Leaves
    <3>2. QED
      BY <1>1, <1>2, <1>6, <2>3, <3>1
  <2>4. QED
    BY <2>1, <2>2, <2>3
<1>8. \A i \in 1..Len(path') : \A m \in calls[path'[i].node] \ path'[i].left : visited'[m] # "new"
  <2> SUFFICES ASSUME NEW i \in 1..Len(path'), NEW m \in calls[path'[i].node] \ path'[i].left
               PROVE  visited'[m] # "new"
    OBVIOUS
  <2>1. CASE Enters(n)
    <3>1. visited'[n] = "stack" /\ (i \in 1..k \/ (i = k + 1 /\ path'[i].left = calls[path'[i].node]))
      BY <1>1, <2>1 DEF Enters
    <3>2. i \in 1..k => path'[i].node = path[i].node /\ (m \notin path[i].left \/ m = n)
      BY <2>1 DEF Enters
    <3>3. i \in 1..k => m \in Names
      BY <1>1, <1>2, <3>2
    <3>4. QED
      BY <1>3, <1>6, <3>1, <3>2, <3>3
  <2>2. CASE Returns(n)
    <3>1. i \in 1..k /\ path'[i].node = path[i].node /\ (m \notin path[i].left \/ m = n) /\ visited[n] # "new"
      BY <2>2 DEF Returns
    <3>2. m \in Names
      BY <1>1, <1>2, <3>1
    <3>3. QED
      BY <1>3, <1>6, <3>1, <3>2
  <2>3. CASE Leaves
    <3>1. i \in 1..(k - 1) /\ path'[i] = path[i]
      BY <2>3 DEF Leaves
    <3>2. i \in 1..k
      BY <1>1, <3>1
    <3>3. m \in Names
      BY <1>1, <1>2, <3>1, <3>2
    <3>4. QED
      BY <1>3, <1>6, <3>1, <3>2, <3>3
  <2>4. QED
    BY <2>1, <2>2, <2>3
<1>9. QED
  BY <1>4, <1>7, <1>8 DEF SeenInv

\* A chain of calls without a name twice is a simple path: it is not longer
\* than there are names.
LEMMA SimplePathIs ==
  ASSUME NEW graph \in [Names -> SUBSET Names], NEW m \in Nat \ {0}, NEW p \in [1..m -> Names],
         \A i, j \in 1..m : p[i] = p[j] => i = j,
         \A i \in 1..(m - 1) : p[i + 1] \in graph[p[i]]
  PROVE  p \in SimplePaths(graph) /\ Len(p) = m /\ Last(p) = p[m]
<1>1. p \in Seq(Names) /\ Len(p) = m /\ DOMAIN p = 1..m
  OBVIOUS
<1>2. IsInjective(p) /\ p \in Injection(1..m, Names)
  BY <1>1 DEF IsInjective, Injection
<1>3. Cardinality(Names) \in Nat /\ m <= Cardinality(Names)
  <2>1. Cardinality(1..m) = m
    <3>1. m \in Int /\ 1 \in Int /\ ~(1 > m) /\ m - 1 + 1 = m
      OBVIOUS
    <3>2. Cardinality(1..m) = m - 1 + 1
      BY <3>1, FS_Interval
    <3>3. QED
      BY <3>1, <3>2
  <2>2. Cardinality(1..m) <= Cardinality(Names)
    BY <1>2, MetricsAssumption, FS_Injection
  <2>3. QED
    BY <2>1, <2>2, MetricsAssumption, FS_CardinalityType
<1>4. p \in SeqOf(Names, Cardinality(Names))
  BY <1>3 DEF SeqOf
<1>5. p # <<>>
  BY <1>1
<1>6. QED
  BY <1>1, <1>2, <1>4, <1>5 DEF SimplePaths, Last

\* And a simple path is such a chain.
LEMMA SimplePathHas ==
  ASSUME NEW graph \in [Names -> SUBSET Names], NEW p \in SimplePaths(graph)
  PROVE  /\ p \in Seq(Names) /\ Len(p) \in 1..Cardinality(Names) /\ Len(p) \in 1..Len(p)
         /\ \A i \in 1..Len(p) : p[i] \in Names
         /\ \A i, j \in 1..Len(p) : p[i] = p[j] => i = j
         /\ \A i \in 1..(Len(p) - 1) : p[i + 1] \in graph[p[i]]
         /\ Last(p) = p[Len(p)] /\ p[1] \in Names
<1>1. PICK m \in 0..Cardinality(Names) : p \in [1..m -> Names]
  BY DEF SimplePaths, SeqOf
<1>2. Cardinality(Names) \in Nat /\ m \in Nat
  BY MetricsAssumption, FS_CardinalityType, <1>1
<1>3. p \in Seq(Names) /\ Len(p) = m /\ DOMAIN p = 1..m /\ p # <<>>
  BY <1>1, <1>2 DEF SimplePaths
<1>4. m # 0
  BY <1>3, EmptySeq
<1>5. \A i \in 1..m : p[i] \in Names
  BY <1>1
<1>6. \A i, j \in 1..m : p[i] = p[j] => i = j
  BY <1>3 DEF SimplePaths, IsInjective
<1>7. \A i \in 1..(m - 1) : p[i + 1] \in graph[p[i]]
  BY <1>3 DEF SimplePaths
<1>8. m \in 1..Cardinality(Names) /\ m \in 1..m /\ 1 \in 1..m
  BY <1>1, <1>2, <1>4
<1>9. QED
  BY <1>3, <1>5, <1>6, <1>7, <1>8 DEF Last

\* A callee on the path closes a cycle: the path from it on.
LEMMA CycleIs ==
  ASSUME SearchTypes, PathInv, NEW n \in Names, visited[n] = "stack",
         Len(path) \in 1..Len(path), n \in path[Len(path)].left
  PROVE  HasCycle(calls)
<1> DEFINE k == Len(path)
<1>1. k \in Nat /\ calls \in [Names -> SUBSET Names] /\ \A j \in 1..k : path[j] \in PathFrames
  BY ElementOfSeq DEF SearchTypes
<1>2. PICK i \in 1..k : path[i].node = n
  BY DEF PathInv
<1> DEFINE m == k - i + 1
           p == [j \in 1..m |-> path[i + j - 1].node]
<1>3. m \in Nat \ {0} /\ i + m - 1 = k /\ i + 1 - 1 = i /\ 1 \in 1..m /\ m \in 1..m
  BY <1>1
<1>4. \A j \in 1..m : i + j - 1 \in 1..k
  BY <1>1
<1>5. p \in [1..m -> Names]
  BY <1>1, <1>4 DEF PathFrames
<1>6. \A a, b \in 1..m : p[a] = p[b] => a = b
  <2>1. \A a, b \in 1..m : i + a - 1 = i + b - 1 => a = b
    BY <1>1
  <2>2. \A a, b \in 1..k : path[a].node = path[b].node => a = b
    BY DEF PathInv
  <2>3. QED
    BY <1>4, <2>1, <2>2
<1>7. \A a \in 1..(m - 1) : p[a + 1] \in calls[p[a]]
  <2> SUFFICES ASSUME NEW a \in 1..(m - 1) PROVE p[a + 1] \in calls[p[a]]
    OBVIOUS
  <2>1. a \in 1..m /\ a + 1 \in 1..m /\ i + (a + 1) - 1 = i + a - 1 + 1
    BY <1>3
  <2>2. i + a - 1 \in 1..k /\ i + a - 1 + 1 \in 1..k
    BY <1>4, <2>1
  <2>3. path[i + a - 1 + 1].node \in calls[path[i + a - 1].node]
    BY <2>2 DEF PathInv
  <2>4. QED
    BY <2>1, <2>3
<1>8. p[1] = n /\ p[m] = path[k].node
  BY <1>2, <1>3
<1>9. n \in calls[path[k].node]
  BY DEF PathInv
<1> HIDE DEF p, m
<1>10. p \in SimplePaths(calls) /\ Last(p) = p[m]
  <2>1. m \in Nat \ {0} /\ calls \in [Names -> SUBSET Names]
    BY <1>1, <1>3
  <2>2. QED
    BY <1>5, <1>6, <1>7, <2>1, SimplePathIs, Zenon
<1>11. QED
  BY <1>8, <1>9, <1>10 DEF HasCycle

\* As long as no callee was met on the path, what is left is done with all it
\* calls, and lies on no cycle with what is done.
LEMMA CountStep ==
  ASSUME SearchTypes, PathInv, CountInv, NEW n \in Names, Enters(n) \/ Returns(n) \/ Leaves
  PROVE  CountInv'
<1> DEFINE k == Len(path)
<1>1. /\ k \in Nat /\ visited \in [Names -> Colours] /\ calls \in [Names -> SUBSET Names]
      /\ cycles \in Nat /\ \A i \in 1..k : path[i] \in PathFrames
  BY ElementOfSeq DEF SearchTypes
<1>2. \A i \in 1..k : path[i].node \in Names
  BY <1>1 DEF PathFrames
<1>3. calls' = calls
  BY DEF Enters, Returns, Leaves
<1>4. cycles' > 0 => HasCycle(calls)
  <2>1. cycles' = cycles \/ (Returns(n) /\ visited[n] = "stack")
    BY DEF Enters, Returns, Leaves
  <2>2. CASE cycles' = cycles
    BY <2>2 DEF CountInv
  <2>3. CASE Returns(n) /\ visited[n] = "stack"
    BY <2>3, CycleIs DEF Returns
  <2>4. QED
    BY <2>1, <2>2, <2>3
<1>5. ASSUME cycles' = 0 PROVE NoneYet'
  <2>1. cycles = 0 /\ (Returns(n) => visited[n] = "done")
    <3>1. Returns(n) => visited[n] # "stack" /\ visited[n] # "new" /\ visited[n] \in Colours
      BY <1>1, <1>5 DEF Returns
    <3>2. QED
      BY <1>1, <1>5, <3>1 DEF Enters, Returns, Leaves, Colours
  <2>2. /\ \A x \in Names : visited[x] = "done" => \A m \in calls[x] : visited[m] = "done"
        /\ \A i \in 1..k : \A m \in calls[path[i].node] \ path[i].left :
             visited[m] = "done" \/ (i + 1 \in 1..k /\ m = path[i + 1].node)
        /\ \A p \in SimplePaths(calls) :
             (\A j \in 1..Len(p) : visited[p[j]] = "done") => p[1] \notin calls[Last(p)]
    BY <2>1 DEF CountInv, NoneYet, Through
  <2>3. CASE Enters(n)
    <3>1. /\ visited[n] = "new" /\ visited' = [visited EXCEPT ![n] = "stack"]
          /\ Len(path') = k + 1 /\ path'[k + 1].node = n /\ path'[k + 1].left = calls[n]
          /\ \A i \in 1..k : /\ path'[i].node = path[i].node
                             /\ path'[i].left = IF i = k THEN path[i].left \ {n} ELSE path[i].left
      BY <2>3 DEF Enters
    <3>2. \A x \in Names : visited'[x] = "done" <=> visited[x] = "done"
      BY <1>1, <3>1
    <3>3. \A x \in Names : visited'[x] = "done" => \A m \in calls[x] : visited'[m] = "done"
      BY <1>1, <2>2, <3>2
    <3>4. ASSUME NEW i \in 1..(k + 1), NEW m \in calls[path'[i].node] \ path'[i].left
          PROVE  visited'[m] = "done" \/ (i + 1 \in 1..(k + 1) /\ m = path'[i + 1].node)
      <4>1. i \in 1..k
        BY <1>1, <3>1, <3>4
      <4>2. path'[i].node = path[i].node /\ m \in Names
        BY <1>1, <1>2, <3>1, <3>4, <4>1
      <4>3. CASE m \in path[i].left
        <5>1. i = k /\ m = n
          BY <3>1, <3>4, <4>1, <4>3
        <5>2. k + 1 \in 1..(k + 1)
          BY <1>1
        <5>3. QED
          BY <3>1, <5>1, <5>2
      <4>4. CASE m \notin path[i].left
        <5>1. visited[m] = "done" \/ (i + 1 \in 1..k /\ m = path[i + 1].node)
          BY <2>2, <3>4, <4>1, <4>2, <4>4
        <5>2. \A j \in 1..k : j \in 1..(k + 1)
          BY <1>1
        <5>3. QED
          BY <3>1, <3>2, <4>2, <5>1, <5>2
      <4>5. QED
        BY <4>3, <4>4
    <3>5. ASSUME NEW p \in SimplePaths(calls), \A j \in 1..Len(p) : visited'[p[j]] = "done"
          PROVE  p[1] \notin calls[Last(p)]
      <4>1. \A j \in 1..Len(p) : visited[p[j]] = "done"
        BY <1>1, <3>2, <3>5, SimplePathHas
      <4>2. QED
        BY <2>2, <4>1
    <3>6. QED
      BY <1>3, <3>1, <3>3, <3>4, <3>5 DEF NoneYet, Through
  <2>4. CASE Returns(n)
    <3>1. /\ visited' = visited /\ Len(path') = k /\ visited[n] = "done"
          /\ \A i \in 1..k : /\ path'[i].node = path[i].node
                             /\ path'[i].left = IF i = k THEN path[i].left \ {n} ELSE path[i].left
      BY <2>1, <2>4 DEF Returns
    <3>2. ASSUME NEW i \in 1..k, NEW m \in calls[path'[i].node] \ path'[i].left
          PROVE  visited'[m] = "done" \/ (i + 1 \in 1..k /\ m = path'[i + 1].node)
      <4>1. m = n \/ m \in calls[path[i].node] \ path[i].left
        BY <3>1, <3>2
      <4>2. QED
        BY <2>2, <3>1, <4>1
    <3>3. QED
      BY <1>3, <2>2, <3>1, <3>2 DEF NoneYet, Through
  <2>5. CASE Leaves
    <3> DEFINE u == path[k].node
    <3>1. /\ k \in 1..k /\ u \in Names /\ path[k].left = {}
          /\ visited' = [visited EXCEPT ![u] = "done"]
          /\ Len(path') = k - 1 /\ \A i \in 1..(k - 1) : path'[i] = path[i]
      BY <2>5 DEF Leaves
    <3>2. visited[u] = "stack"
      BY <3>1 DEF PathInv
    <3>3. \A x \in Names : visited'[x] = "done" <=> visited[x] = "done" \/ x = u
      BY <1>1, <3>1
    <3>4. \A m \in calls[u] : m \in Names /\ visited[m] = "done"
      <4>1. k + 1 \notin 1..k
        BY <1>1
      <4>2. QED
        BY <1>1, <2>2, <3>1, <4>1
    <3>5. \A x \in Names : visited'[x] = "done" => \A m \in calls[x] : visited'[m] = "done"
      <4> SUFFICES ASSUME NEW x \in Names, visited'[x] = "done", NEW m \in calls[x]
                   PROVE  visited'[m] = "done"
        OBVIOUS
      <4>1. m \in Names
        BY <1>1
      <4>2. QED
        BY <2>2, <3>3, <3>4, <4>1
    <3>6. ASSUME NEW i \in 1..(k - 1), NEW m \in calls[path'[i].node] \ path'[i].left
          PROVE  visited'[m] = "done" \/ (i + 1 \in 1..(k - 1) /\ m = path'[i + 1].node)
      <4>1. i \in 1..k /\ path'[i] = path[i]
        BY <1>1, <3>1
      <4>2. m \in Names
        BY <1>1, <1>2, <3>6, <4>1
      <4>3. visited[m] = "done" \/ (i + 1 \in 1..k /\ m = path[i + 1].node)
        BY <2>2, <3>6, <4>1
      <4>4. i + 1 \in 1..k => i + 1 \in 1..(k - 1) \/ i + 1 = k
        BY <1>1
      <4>5. QED
        BY <3>1, <3>3, <4>2, <4>3, <4>4
    <3>7. ASSUME NEW p \in SimplePaths(calls), \A j \in 1..Len(p) : visited'[p[j]] = "done",
                 p[1] \in calls[Last(p)]
          PROVE  FALSE
      <4> DEFINE m == Len(p)
      <4>1. /\ m \in Nat /\ m \in 1..m /\ \A i \in 1..m : p[i] \in Names
            /\ \A i, j \in 1..m : p[i] = p[j] => i = j
            /\ \A i \in 1..(m - 1) : p[i + 1] \in calls[p[i]]
            /\ Last(p) = p[m]
        BY <1>1, SimplePathHas
      <4>2. PICK j \in 1..m : p[j] = u
        BY <2>2, <3>3, <3>7, <4>1
      <4>3. PICK i \in 1..m : u \in calls[p[i]] /\ (i = j => m = 1)
        <5>1. CASE j = 1
          BY <3>7, <4>1, <4>2, <5>1
        <5>2. CASE j # 1
          <6>1. j - 1 \in 1..(m - 1) /\ j - 1 \in 1..m /\ j - 1 + 1 = j /\ j - 1 # j
            BY <4>1, <5>2
          <6>2. u \in calls[p[j - 1]]
            BY <4>1, <4>2, <6>1
          <6>3. QED
            BY <6>1, <6>2
        <5>3. QED
          BY <5>1, <5>2
      <4>4. CASE p[i] = u
        BY <3>2, <3>4, <4>3, <4>4
      <4>5. CASE p[i] # u
        <5>1. visited[p[i]] = "done"
          BY <3>3, <3>7, <4>1, <4>3, <4>5
        <5>2. visited[u] = "done"
          BY <2>2, <4>1, <4>3, <5>1
        <5>3. QED
          BY <3>2, <5>2
      <4>6. QED
        BY <4>4, <4>5
    <3>8. QED
      BY <1>3, <3>1, <3>5, <3>6, <3>7 DEF NoneYet, Through
  <2>6. QED
    BY <2>3, <2>4, <2>5
<1>6. QED
  BY <1>3, <1>4, <1>5 DEF CountInv

\* The invariant of the search, for any number of names and any calls.
LEMMA SearchInvariant == Spec => []SearchInv
<1>1. Init => SearchInv
  <2> SUFFICES ASSUME Init PROVE SearchInv
    OBVIOUS
  <2>1. /\ calls = NoCalls /\ visited = [n \in Names |-> "new"] /\ path = <<>> /\ cycles = 0
        /\ searching = "no"
    BY DEF Init, MetricsInit
  <2>2. Len(path) = 0 /\ path \in Seq(PathFrames) /\ \A i : i \notin 1..0
    BY <2>1, EmptySeq
  <2>3. calls \in [Names -> SUBSET Names] /\ visited \in [Names -> Colours] /\ \A n \in Names : visited[n] = "new"
    BY <2>1 DEF NoCalls, Colours
  <2>4. SearchTypes
    BY <2>1, <2>2, <2>3 DEF SearchTypes
  <2>5. PathInv /\ SeenInv
    BY <2>2, <2>3 DEF PathInv, SeenInv
  <2>6. CountInv
    <3>1. ASSUME NEW p \in SimplePaths(calls) PROVE ~ \A j \in 1..Len(p) : visited[p[j]] = "done"
      <4>1. Len(p) \in 1..Len(p) /\ p[Len(p)] \in Names
        BY <2>3, SimplePathHas
      <4>2. QED
        BY <2>3, <4>1
    <3>2. QED
      BY <2>1, <2>2, <2>3, <3>1 DEF CountInv, NoneYet
  <2>7. QED
    BY <2>4, <2>5, <2>6 DEF SearchInv
<1>2. ASSUME SearchInv, [Next]_vars PROVE SearchInv'
  <2>1. SearchTypes /\ PathInv /\ SeenInv /\ CountInv
    BY <1>2 DEF SearchInv
  <2>2. ASSUME NEW n \in Names, Enters(n) \/ Returns(n) \/ Leaves PROVE SearchInv'
    BY <2>1, <2>2, SearchTypesStep, PathStep, SeenStep, CountStep DEF SearchInv
  <2>3. ASSUME NEW n \in Names, SearchFrom(n) \/ Follow(n) PROVE SearchInv'
    BY <2>1, <2>2, <2>3, PathMoves
  <2>4. CASE Leave
    BY <2>1, <2>2, <2>4, LeaveMoves, MetricsAssumption
  <2>5. ASSUME NEW graph \in [Names -> SUBSET Names], Measure(graph) PROVE SearchInv'
    <3>1. /\ searching = "no" /\ searching' = "yes" /\ calls' = graph
          /\ visited' = visited /\ path' = path /\ cycles' = cycles
      BY <2>5 DEF Measure
    <3>2. cycles = 0 /\ path = <<>> /\ \A n \in Names : visited[n] = "new"
      BY <2>1, <3>1 DEF SearchTypes
    <3>3. Len(path) = 0 /\ \A i : i \notin 1..0
      BY <3>2, EmptySeq
    <3>4. SearchTypes'
      BY <2>1, <3>1 DEF SearchTypes
    <3>5. PathInv' /\ SeenInv'
      BY <3>1, <3>2, <3>3 DEF PathInv, SeenInv
    <3>6. CountInv'
      <4>1. ASSUME NEW p \in SimplePaths(graph) PROVE ~ \A j \in 1..Len(p) : visited[p[j]] = "done"
        <5>1. Len(p) \in 1..Len(p) /\ p[Len(p)] \in Names
          BY SimplePathHas
        <5>2. QED
          BY <3>2, <5>1
      <4>2. QED
        BY <3>1, <3>2, <3>3, <4>1 DEF CountInv, NoneYet
    <3>7. QED
      BY <3>4, <3>5, <3>6 DEF SearchInv
  <2>6. CASE SearchEnds
    <3>1. /\ path = <<>> /\ searching' = "finished" /\ \A n \in Callers : visited[n] # "new"
          /\ calls' = calls /\ visited' = visited /\ path' = path /\ cycles' = cycles
      BY <2>6 DEF SearchEnds
    <3>2. SearchTypes'
      BY <2>1, <3>1 DEF SearchTypes, Callers
    <3>3. PathInv' /\ SeenInv' /\ CountInv'
      BY <2>1, <3>1 DEF PathInv, SeenInv, CountInv, NoneYet, Through
    <3>4. QED
      BY <3>2, <3>3 DEF SearchInv
  <2>7. CASE UNCHANGED metricVars
    BY <2>1, <2>7 DEF metricVars, SearchInv, SearchTypes, Callers, PathInv, SeenInv, CountInv, NoneYet, Through
  <2>8. QED
    BY <1>2, <2>3, <2>4, <2>5, <2>6, <2>7, SearchMoves
<1>3. QED
  BY <1>1, <1>2, PTL DEF Spec

\* In whatever order the names are walked, cycles are counted exactly if there
\* are any, and a name that is done has no callee the search has not seen.
THEOREM CyclesCorrect == Spec => []CyclesFound
<1>1. ASSUME SearchInv PROVE CyclesFound
  <2>1. DOMAIN path = 1..Len(path) /\ \A i \in 1..Len(path) : path[i].node \in Names
    <3>1. path \in Seq(PathFrames)
      BY <1>1 DEF SearchInv, SearchTypes
    <3>2. \A i \in 1..Len(path) : path[i] \in PathFrames
      BY <3>1, ElementOfSeq
    <3>3. QED
      BY <3>1, <3>2 DEF PathFrames
  <2>2. {n \in Names : visited[n] = "stack"} = {path[i].node : i \in DOMAIN path}
    BY <1>1, <2>1 DEF SearchInv, PathInv
  <2>3. \A n \in Names : visited[n] = "done" => \A m \in calls[n] : visited[m] # "new"
    BY <1>1 DEF SearchInv, SeenInv
  <2>4. ASSUME searching = "finished", HasCycle(calls) PROVE cycles > 0
    <3>1. calls \in [Names -> SUBSET Names] /\ visited \in [Names -> Colours] /\ cycles \in Nat
      BY <1>1 DEF SearchInv, SearchTypes
    <3>2. path = <<>> /\ \A n \in Callers : visited[n] # "new"
      BY <1>1, <2>4 DEF SearchInv, SearchTypes
    <3>3. \A n \in Names : visited[n] # "stack"
      <4>1. \A i : i \notin 1..0
        OBVIOUS
      <4>2. QED
        BY <1>1, <3>2, <4>1, EmptySeq DEF SearchInv, PathInv
    <3>4. PICK p \in SimplePaths(calls) : p[1] \in calls[Last(p)]
      BY <2>4 DEF HasCycle
    <3>5. \A j \in 1..Len(p) : p[j] \in Callers
      <4> SUFFICES ASSUME NEW j \in 1..Len(p) PROVE calls[p[j]] # {} /\ p[j] \in Names
        BY DEF Callers
      <4>1. /\ Len(p) \in Nat /\ Last(p) = p[Len(p)] /\ p[j] \in Names
            /\ \A i \in 1..(Len(p) - 1) : p[i + 1] \in calls[p[i]]
        BY <3>1, SimplePathHas
      <4>2. j = Len(p) \/ j \in 1..(Len(p) - 1)
        BY <4>1
      <4>3. QED
        BY <3>4, <4>1, <4>2
    <3>6. \A j \in 1..Len(p) : visited[p[j]] = "done"
      BY <3>1, <3>2, <3>3, <3>5 DEF Callers, Colours
    <3>7. cycles # 0
      BY <1>1, <3>4, <3>6 DEF SearchInv, CountInv, NoneYet
    <3>8. QED
      BY <3>1, <3>7
  <2>5. cycles > 0 => HasCycle(calls)
    BY <1>1 DEF SearchInv, CountInv
  <2>6. QED
    BY <2>2, <2>3, <2>4, <2>5 DEF CyclesFound
<1>2. QED
  BY <1>1, SearchInvariant, PTL

-----------------------------------------------------------------------------
(***************************************************************************)
(* The depth of calls.  The longest chain from a name, past the names that *)
(* are being visited, is one call longer than the longest from a callee:   *)
(* this is the equation DepthFrom is chosen to solve, and as a chain can   *)
(* only get as long as there are names, it has no other solution.          *)
(***************************************************************************)
Deepens(f, graph) ==
  f = [seen \in SUBSET Names |->
         [n \in Names |-> Max({0} \cup {f[seen \cup {m}][m] + 1 : m \in graph[n] \ seen})]]

\* Chains of calls from a name that enter names once, and none that are seen.
Chains(graph, n, seen) ==
  {p \in Seq(Names) :
     /\ Len(p) # 0 /\ p[1] = n
     /\ \A i \in 1..(Len(p) - 1) : p[i + 1] \in graph[p[i]]
     /\ \A i \in 2..Len(p) : p[i] \notin seen
     /\ \A i, k \in 2..Len(p) : p[i] = p[k] => i = k}

Depths(graph, n, seen) == {Len(p) - 1 : p \in Chains(graph, n, seen)}
Longest(graph, n, seen) == Max(Depths(graph, n, seen))
Onward(graph, n, seen) == {Longest(graph, m, seen \cup {m}) + 1 : m \in graph[n] \ seen}

\* What the recursive function is, to the provers.
LEMMA DepthChosen ==
  ASSUME NEW graph
  PROVE  DepthFrom(graph) = CHOOSE f : Deepens(f, graph)
<1>1. QED
  BY DEF DepthFrom, Deepens

\* A chain is no longer than there are names, but for its first one.
LEMMA ChainBound ==
  ASSUME NEW graph, NEW n, NEW seen, NEW p \in Chains(graph, n, seen)
  PROVE  Len(p) - 1 \in 0..Cardinality(Names) /\ Len(p) \in Nat \ {0}
<1> DEFINE m == Len(p) - 1
           f == [i \in 1..m |-> p[i + 1]]
<1>1. p \in Seq(Names) /\ Len(p) \in Nat \ {0} /\ m \in Nat
  BY DEF Chains
<1>2. \A i \in 1..m : i + 1 \in 2..Len(p) /\ i + 1 \in 1..Len(p)
  BY <1>1
<1>3. \A i \in 1..m : p[i + 1] \in Names
  BY <1>1, <1>2, ElementOfSeq
<1>4. \A i, k \in 1..m : p[i + 1] = p[k + 1] => i + 1 = k + 1
  BY <1>2 DEF Chains
<1>5. f \in Injection(1..m, Names)
  <2>1. \A i, k \in 1..m : i + 1 = k + 1 => i = k
    BY <1>1
  <2>2. \A i, k \in DOMAIN f : f[i] = f[k] => i = k
    BY <1>4, <2>1
  <2>3. f \in [1..m -> Names]
    BY <1>3
  <2>4. QED
    BY <2>2, <2>3 DEF Injection, IsInjective
<1> HIDE DEF f, m
<1>6. Cardinality(1..m) <= Cardinality(Names)
  BY <1>5, MetricsAssumption, FS_Injection
<1>7. Cardinality(1..m) = m
  <2>1. m \in Int /\ 1 \in Int /\ m - 1 + 1 = m /\ (1 > m => m = 0)
    BY <1>1
  <2>2. Cardinality(1..m) = IF 1 > m THEN 0 ELSE m - 1 + 1
    BY <2>1, FS_Interval
  <2>3. QED
    BY <2>1, <2>2
<1>8. Cardinality(Names) \in Nat
  BY MetricsAssumption, FS_CardinalityType
<1>9. QED
  BY <1>1, <1>6, <1>7, <1>8 DEF m

\* So there is a longest one.
LEMMA LongestIs ==
  ASSUME NEW graph, NEW n \in Names, NEW seen
  PROVE  /\ Depths(graph, n, seen) \subseteq 0..Cardinality(Names) /\ 0 \in Depths(graph, n, seen)
         /\ Longest(graph, n, seen) \in Depths(graph, n, seen)
         /\ \A d \in Depths(graph, n, seen) : d <= Longest(graph, n, seen)
<1>1. Depths(graph, n, seen) \subseteq 0..Cardinality(Names)
  BY ChainBound DEF Depths
<1>2. 0 \in Depths(graph, n, seen)
  <2> DEFINE p == <<n>>
  <2>1. p \in Seq(Names) /\ Len(p) = 1 /\ p[1] = n /\ Len(p) # 0
    OBVIOUS
  <2> HIDE DEF p
  <2>2. \A i : i \notin 1..(Len(p) - 1) /\ i \notin 2..Len(p)
    BY <2>1
  <2>3. p \in Chains(graph, n, seen)
    BY <2>1, <2>2 DEF Chains
  <2>4. Len(p) - 1 = 0
    BY <2>1
  <2>5. QED
    BY <2>3, <2>4 DEF Depths
<1>3. Cardinality(Names) \in Nat
  BY MetricsAssumption, FS_CardinalityType
<1>4. QED
  BY <1>1, <1>2, <1>3, Greatest DEF Longest

\* A chain goes on from a callee.
LEMMA ChainGoesOn ==
  ASSUME NEW graph, NEW n, NEW seen, NEW d \in Depths(graph, n, seen), d # 0
  PROVE  \E m \in graph[n] \ seen : m \in Names /\ d - 1 \in Depths(graph, m, seen \cup {m})
<1>1. PICK p \in Chains(graph, n, seen) : d = Len(p) - 1
  BY DEF Depths
<1>2. /\ p \in Seq(Names) /\ p[1] = n
      /\ \A i \in 1..(Len(p) - 1) : p[i + 1] \in graph[p[i]]
      /\ \A i \in 2..Len(p) : p[i] \notin seen
      /\ \A i, k \in 2..Len(p) : p[i] = p[k] => i = k
  BY DEF Chains
<1>3. Len(p) \in Nat /\ d \in Nat /\ Len(p) = d + 1 /\ 1 \in 1..d /\ 2 \in 2..Len(p) /\ 2 \in 1..Len(p)
  <2>1. d \in 0..Cardinality(Names) /\ Len(p) \in Nat
    BY <1>1, ChainBound
  <2>2. QED
    BY <1>1, <2>1
<1> DEFINE m == p[2]
           q == [i \in 1..d |-> p[i + 1]]
<1>4. m \in graph[n] \ seen /\ m \in Names
  <2>1. p[1 + 1] \in graph[p[1]]
    BY <1>1, <1>2, <1>3
  <2>2. QED
    BY <1>2, <1>3, <2>1, ElementOfSeq
<1>5. \A i \in 1..d : i + 1 \in 2..Len(p) /\ i + 1 \in 1..Len(p)
  BY <1>3
<1>6. \A i \in 1..d : p[i + 1] \in Names
  BY <1>2, <1>5, ElementOfSeq
<1>7. q \in [1..d -> Names]
  BY <1>6
<1>8. q \in Seq(Names) /\ Len(q) = d
  <2> HIDE DEF q
  <2>1. QED
    BY <1>3, <1>7
<1>9. \A i \in 1..d : q[i] = p[i + 1]
  OBVIOUS
<1> HIDE DEF q
<1>10. q[1] = m
  BY <1>3, <1>9
<1>11. \A i \in 1..(d - 1) : q[i + 1] \in graph[q[i]]
  <2> SUFFICES ASSUME NEW i \in 1..(d - 1) PROVE q[i + 1] \in graph[q[i]]
    OBVIOUS
  <2>1. i \in 1..d /\ i + 1 \in 1..d /\ i + 1 \in 1..(Len(p) - 1)
    BY <1>3
  <2>2. QED
    BY <1>2, <1>9, <2>1
<1>12. \A i \in 2..d : q[i] \notin seen \cup {m}
  <2> SUFFICES ASSUME NEW i \in 2..d PROVE q[i] \notin seen \cup {m}
    OBVIOUS
  <2>1. i \in 1..d /\ i + 1 \in 2..Len(p) /\ i + 1 # 2
    BY <1>3
  <2>2. QED
    BY <1>2, <1>3, <1>9, <2>1
<1>13. \A i, k \in 2..d : q[i] = q[k] => i = k
  <2> SUFFICES ASSUME NEW i \in 2..d, NEW k \in 2..d, q[i] = q[k] PROVE i = k
    OBVIOUS
  <2>1. i \in 1..d /\ k \in 1..d /\ i + 1 \in 2..Len(p) /\ k + 1 \in 2..Len(p)
    BY <1>3
  <2>2. i + 1 = k + 1
    BY <1>2, <1>9, <2>1
  <2>3. QED
    BY <1>3, <2>2
<1>14. q \in Chains(graph, m, seen \cup {m})
  BY <1>3, <1>8, <1>10, <1>11, <1>12, <1>13 DEF Chains
<1>15. d - 1 \in Depths(graph, m, seen \cup {m})
  BY <1>8, <1>14 DEF Depths
<1>16. QED
  BY <1>4, <1>15

\* And a chain from a callee is the rest of one.
LEMMA ChainComesFrom ==
  ASSUME NEW graph, NEW n \in Names, NEW seen, NEW m \in graph[n] \ seen,
         NEW d \in Depths(graph, m, seen \cup {m})
  PROVE  d + 1 \in Depths(graph, n, seen)
<1>1. PICK q \in Chains(graph, m, seen \cup {m}) : d = Len(q) - 1
  BY DEF Depths
<1>2. /\ q \in Seq(Names) /\ q[1] = m
      /\ \A i \in 1..(Len(q) - 1) : q[i + 1] \in graph[q[i]]
      /\ \A i \in 2..Len(q) : q[i] \notin seen /\ q[i] # m
      /\ \A i, k \in 2..Len(q) : q[i] = q[k] => i = k
  BY DEF Chains
<1> DEFINE len == Len(q)
           p == [i \in 1..(len + 1) |-> IF i = 1 THEN n ELSE q[i - 1]]
<1>3. len \in Nat \ {0} /\ d = len - 1
  BY <1>1, ChainBound
<1>4. \A i \in 2..(len + 1) : i - 1 \in 1..len /\ i \in 1..(len + 1)
  BY <1>3
<1>5. \A i \in 1..len : q[i] \in Names
  BY <1>2, ElementOfSeq
<1>6. p \in [1..(len + 1) -> Names]
  <2>1. \A i \in 1..(len + 1) : i = 1 \/ i - 1 \in 1..len
    BY <1>3
  <2>2. QED
    BY <1>5, <2>1
<1>7. p[1] = n /\ \A i \in 2..(len + 1) : p[i] = q[i - 1]
  <2>1. 1 \in 1..(len + 1) /\ \A i \in 2..(len + 1) : i # 1
    BY <1>3
  <2>2. QED
    BY <1>4, <2>1
<1>8. p \in Seq(Names) /\ Len(p) = len + 1
  <2> HIDE DEF p
  <2>1. len + 1 \in Nat
    BY <1>3
  <2>2. QED
    BY <1>6, <2>1
<1> HIDE DEF p
<1>9. \A i \in 1..len : p[i + 1] \in graph[p[i]]
  <2> SUFFICES ASSUME NEW i \in 1..len PROVE p[i + 1] \in graph[p[i]]
    OBVIOUS
  <2>1. i + 1 \in 2..(len + 1) /\ i + 1 - 1 = i
    BY <1>3
  <2>2. p[i + 1] = q[i]
    BY <1>7, <2>1
  <2>3. CASE i = 1
    BY <1>2, <1>7, <2>2, <2>3
  <2>4. CASE i # 1
    <3>1. i \in 2..(len + 1) /\ i - 1 \in 1..(len - 1) /\ i - 1 + 1 = i
      BY <1>3, <2>4
    <3>2. q[i - 1 + 1] \in graph[q[i - 1]] /\ p[i] = q[i - 1]
      BY <1>2, <1>7, <3>1
    <3>3. QED
      BY <2>2, <3>1, <3>2
  <2>5. QED
    BY <2>3, <2>4
<1>10. \A i \in 2..(len + 1) : i - 1 = 1 \/ i - 1 \in 2..len
  BY <1>3
<1>11. \A i \in 2..(len + 1) : p[i] \notin seen
  BY <1>2, <1>7, <1>10
<1>12. \A i, k \in 2..(len + 1) : p[i] = p[k] => i = k
  <2> SUFFICES ASSUME NEW i \in 2..(len + 1), NEW k \in 2..(len + 1), p[i] = p[k] PROVE i = k
    OBVIOUS
  <2>1. q[i - 1] = q[k - 1]
    BY <1>7
  <2>2. i - 1 = k - 1
    BY <1>2, <1>10, <2>1
  <2>3. QED
    BY <1>3, <2>2
<1>13. p \in Chains(graph, n, seen)
  <2>1. len + 1 - 1 = len /\ len + 1 # 0
    BY <1>3
  <2>2. QED
    BY <1>7, <1>8, <1>9, <1>11, <1>12, <2>1 DEF Chains
<1>14. d + 1 = Len(p) - 1
  BY <1>3, <1>8
<1>15. QED
  BY <1>13, <1>14 DEF Depths

\* The longest chain solves the equation.
LEMMA LongestDeepens ==
  ASSUME NEW graph \in [Names -> SUBSET Names], NEW n \in Names, NEW seen
  PROVE  Longest(graph, n, seen) = Max({0} \cup Onward(graph, n, seen))
<1> DEFINE D == Depths(graph, n, seen)
           L(m) == Longest(graph, m, seen \cup {m})
           T == {0} \cup {L(m) + 1 : m \in graph[n] \ seen}
<1>1. Cardinality(Names) \in Nat
  BY MetricsAssumption, FS_CardinalityType
<1>2. /\ D \subseteq 0..Cardinality(Names) /\ 0 \in D
      /\ Longest(graph, n, seen) \in D /\ \A d \in D : d <= Longest(graph, n, seen)
  BY LongestIs
<1>3. \A m \in graph[n] \ seen :
        /\ L(m) \in Depths(graph, m, seen \cup {m})
        /\ \A d \in Depths(graph, m, seen \cup {m}) : d <= L(m)
        /\ Depths(graph, m, seen \cup {m}) \subseteq 0..Cardinality(Names)
  <2>1. \A m \in graph[n] \ seen : m \in Names
    OBVIOUS
  <2>2. QED
    BY <2>1, LongestIs
<1>4. \A m \in graph[n] \ seen : L(m) + 1 \in D
  BY <1>3, ChainComesFrom
<1> HIDE DEF D, L
<1>5. T \subseteq D
  BY <1>2, <1>4
<1>6. T \in SUBSET (0..Cardinality(Names)) /\ T # {}
  BY <1>2, <1>5
<1>7. Max(T) \in T /\ \A x \in T : x <= Max(T)
  <2> HIDE DEF T
  <2>1. QED
    BY <1>1, <1>6, Greatest
<1>8. Max(T) <= Longest(graph, n, seen)
  BY <1>2, <1>5, <1>7
<1>9. Longest(graph, n, seen) <= Max(T)
  <2> DEFINE d == Longest(graph, n, seen)
  <2>1. CASE d = 0
    <3>1. 0 \in T
      OBVIOUS
    <3>2. QED
      BY <1>7, <2>1, <3>1
  <2>2. CASE d # 0
    <3>1. PICK m \in graph[n] \ seen : d - 1 \in Depths(graph, m, seen \cup {m})
      BY <1>2, <2>2, ChainGoesOn DEF D
    <3>2. d - 1 <= L(m) /\ L(m) \in 0..Cardinality(Names)
      BY <1>3, <3>1
    <3>3. L(m) + 1 \in T
      BY <3>1
    <3>4. L(m) + 1 <= Max(T)
      BY <1>7, <3>3
    <3>5. d \in 0..Cardinality(Names) /\ Max(T) \in 0..Cardinality(Names)
      BY <1>2, <1>6, <1>7
    <3> HIDE DEF d, T
    <3>6. QED
      BY <1>1, <3>2, <3>4, <3>5 DEF d
  <2>3. QED
    BY <2>1, <2>2
<1>10. Longest(graph, n, seen) \in 0..Cardinality(Names) /\ Max(T) \in 0..Cardinality(Names)
  BY <1>2, <1>6, <1>7
<1>11. Longest(graph, n, seen) = Max(T)
  <2> HIDE DEF T
  <2>1. QED
    BY <1>1, <1>8, <1>9, <1>10
<1>12. QED
  BY <1>11 DEF T, L, Onward

\* It is the only solution, hence the depth from a name.
LEMMA DepthIs ==
  ASSUME NEW graph \in [Names -> SUBSET Names], NEW n \in Names, NEW seen \in SUBSET Names
  PROVE  DepthFrom(graph)[seen][n] = Longest(graph, n, seen)
<1> DEFINE f == DepthFrom(graph)
           g == [s \in SUBSET Names |-> [x \in Names |-> Longest(graph, x, s)]]
           Next1(h, x, s) == Max({0} \cup {h[s \cup {m}][m] + 1 : m \in graph[x] \ s})
<1>1. \A x \in Names : \A s \in SUBSET Names : \A m \in graph[x] \ s : m \in Names /\ s \cup {m} \in SUBSET Names
  OBVIOUS
<1>2. \A x \in Names : \A s \in SUBSET Names : g[s][x] = Longest(graph, x, s)
  OBVIOUS
<1>3. Deepens(g, graph)
  <2>1. ASSUME NEW x \in Names, NEW s \in SUBSET Names
        PROVE  Longest(graph, x, s) = Next1(g, x, s)
    <3> HIDE DEF g
    <3>1. \A m \in graph[x] \ s : g[s \cup {m}][m] = Longest(graph, m, s \cup {m})
      BY <1>1, <1>2
    <3> DEFINE A == {g[s \cup {m}][m] + 1 : m \in graph[x] \ s}
               B == Onward(graph, x, s)
    <3>2. A = B
      BY <3>1 DEF Onward
    <3>3. Next1(g, x, s) = Max({0} \cup A)
      OBVIOUS
    <3>4. Longest(graph, x, s) = Max({0} \cup B)
      BY LongestDeepens
    <3> HIDE DEF A, B, Next1
    <3>5. QED
      BY <3>2, <3>3, <3>4
  <2>2. g = [s \in SUBSET Names |-> [x \in Names |-> Next1(g, x, s)]]
    <3> HIDE DEF Next1
    <3>1. QED
      BY <2>1
  <2>3. QED
    BY <2>2 DEF Deepens
<1>4. Deepens(f, graph)
  BY <1>3, DepthChosen
<1>5. \A x \in Names : \A s \in SUBSET Names : f[s][x] = Next1(f, x, s)
  <2> HIDE DEF f
  <2>1. f = [s \in SUBSET Names |-> [x \in Names |-> Next1(f, x, s)]]
    BY <1>4 DEF Deepens
  <2> HIDE DEF Next1
  <2>2. QED
    BY <2>1
<1> DEFINE Rest(s) == Cardinality(Names \ s)
           Wrong == {Rest(s) : s \in {r \in SUBSET Names : \E x \in Names : f[r][x] # Longest(graph, x, r)}}
<1>6. \A s \in SUBSET Names : Rest(s) \in Nat /\ IsFiniteSet(Names \ s)
  <2> SUFFICES ASSUME NEW s \in SUBSET Names PROVE Rest(s) \in Nat /\ IsFiniteSet(Names \ s)
    OBVIOUS
  <2>1. IsFiniteSet(Names \ s)
    BY MetricsAssumption, FS_Difference
  <2>2. QED
    BY <2>1, FS_CardinalityType
<1> HIDE DEF f, g
<1>7. ASSUME Wrong # {} PROVE FALSE
  <2>1. Wrong \subseteq Nat
    BY <1>6
  <2>2. PICK w \in Wrong : \A v \in Wrong : <<v, w>> \notin OpToRel(<, Nat)
    BY <1>7, <2>1, WFMin, NatLessThanWellFounded, Zenon
  <2>3. \A v \in Wrong : ~(v < w)
    BY <2>1, <2>2 DEF OpToRel
  <2>4. PICK s \in SUBSET Names, x \in Names : w = Rest(s) /\ f[s][x] # Longest(graph, x, s)
    OBVIOUS
  <2>5. \A m \in graph[x] \ s : f[s \cup {m}][m] = Longest(graph, m, s \cup {m})
    <3> SUFFICES ASSUME NEW m \in graph[x] \ s PROVE f[s \cup {m}][m] = Longest(graph, m, s \cup {m})
      OBVIOUS
    <3>1. m \in Names /\ s \cup {m} \in SUBSET Names /\ m \in Names \ s
      BY <1>1
    <3>2. Names \ (s \cup {m}) = (Names \ s) \ {m}
      OBVIOUS
    <3>3. Rest(s \cup {m}) = Rest(s) - 1
      <4> DEFINE S == Names \ s
      <4>1. IsFiniteSet(S) /\ m \in S
        BY <1>6, <3>1
      <4> HIDE DEF S
      <4>2. Cardinality(S \ {m}) = Cardinality(S) - 1
        BY <4>1, FS_RemoveElement
      <4>3. QED
        BY <3>2, <4>2 DEF S
    <3>4. Rest(s \cup {m}) < w
      BY <1>6, <2>4, <3>3
    <3>5. Rest(s \cup {m}) \notin Wrong
      BY <2>3, <3>4
    <3>6. QED
      BY <3>1, <3>5
  <2> DEFINE A == {f[s \cup {m}][m] + 1 : m \in graph[x] \ s}
             B == Onward(graph, x, s)
  <2>6. A = B
    BY <2>5 DEF Onward
  <2>7. f[s][x] = Max({0} \cup A)
    BY <1>5
  <2>8. Longest(graph, x, s) = Max({0} \cup B)
    BY LongestDeepens
  <2> HIDE DEF A, B
  <2>9. QED
    BY <2>4, <2>6, <2>7, <2>8
<1>8. QED
  <2>1. Rest(seen) \notin Wrong
    BY <1>7
  <2>2. QED
    BY <2>1 DEF f

\* A simple path from a name is a chain that has seen that name.
LEMMA SimpleChains ==
  ASSUME NEW graph \in [Names -> SUBSET Names], NEW n \in Names
  PROVE  /\ \A p \in Chains(graph, n, {n}) : p \in SimplePaths(graph)
         /\ \A p \in SimplePaths(graph) : p[1] = n => p \in Chains(graph, n, {n})
<1>1. ASSUME NEW p \in Chains(graph, n, {n}) PROVE p \in SimplePaths(graph)
  <2> DEFINE m == Len(p)
  <2>1. /\ p \in Seq(Names) /\ p[1] = n
        /\ \A i \in 1..(m - 1) : p[i + 1] \in graph[p[i]]
        /\ \A i \in 2..m : p[i] # n
        /\ \A i, k \in 2..m : p[i] = p[k] => i = k
    BY DEF Chains
  <2>2. m \in Nat \ {0} /\ p \in [1..m -> Names]
    BY <2>1, ChainBound, LenProperties
  <2>3. \A i \in 1..m : i = 1 \/ i \in 2..m
    BY <2>2
  <2>4. \A i, k \in 1..m : p[i] = p[k] => i = k
    BY <2>1, <2>3
  <2> HIDE DEF m
  <2>5. QED
    BY <2>1, <2>2, <2>4, SimplePathIs, Zenon
<1>2. ASSUME NEW p \in SimplePaths(graph), p[1] = n PROVE p \in Chains(graph, n, {n})
  <2>1. /\ p \in Seq(Names) /\ Len(p) \in 1..Len(p) /\ Len(p) \in Nat
        /\ \A i, k \in 1..Len(p) : p[i] = p[k] => i = k
        /\ \A i \in 1..(Len(p) - 1) : p[i + 1] \in graph[p[i]]
    BY SimplePathHas
  <2>2. \A i \in 2..Len(p) : i \in 1..Len(p) /\ 1 \in 1..Len(p) /\ i # 1
    BY <2>1
  <2>3. Len(p) # 0
    BY <2>1
  <2>4. QED
    BY <1>2, <2>1, <2>2, <2>3 DEF Chains
<1>3. QED
  BY <1>1, <1>2

\* The depth of calls is the number of calls of the longest chain without
\* repetition, in every graph.
LEMMA DeepestIs ==
  ASSUME NEW graph \in [Names -> SUBSET Names]
  PROVE  /\ \E p \in SimplePaths(graph) : Len(p) = Deepest(graph) + 1
         /\ \A p \in SimplePaths(graph) : Len(p) <= Deepest(graph) + 1
<1> DEFINE From == {n \in Names : graph[n] # {}}
           L(n) == Longest(graph, n, {n})
           T == {0} \cup {L(n) : n \in From}
<1>1. Cardinality(Names) \in Nat
  BY MetricsAssumption, FS_CardinalityType
<1>2. \A n \in Names : /\ L(n) \in 0..Cardinality(Names)
                       /\ \E p \in Chains(graph, n, {n}) : L(n) = Len(p) - 1
                       /\ \A p \in Chains(graph, n, {n}) : Len(p) - 1 <= L(n)
  <2> SUFFICES ASSUME NEW n \in Names
               PROVE  /\ L(n) \in 0..Cardinality(Names)
                      /\ \E p \in Chains(graph, n, {n}) : L(n) = Len(p) - 1
                      /\ \A p \in Chains(graph, n, {n}) : Len(p) - 1 <= L(n)
    OBVIOUS
  <2>1. /\ Depths(graph, n, {n}) \subseteq 0..Cardinality(Names) /\ L(n) \in Depths(graph, n, {n})
        /\ \A d \in Depths(graph, n, {n}) : d <= L(n)
    BY LongestIs
  <2> HIDE DEF L
  <2>2. QED
    BY <2>1 DEF Depths
<1>3. Deepest(graph) = Max(T)
  <2>1. \A n \in Names : DepthFrom(graph)[{n}][n] = L(n)
    BY DepthIs
  <2> HIDE DEF L
  <2>2. {DepthFrom(graph)[{n}][n] : n \in From} = {L(n) : n \in From}
    BY <2>1
  <2>3. Deepest(graph) = Max({0} \cup {DepthFrom(graph)[{n}][n] : n \in From})
    BY DEF Deepest
  <2>4. QED
    BY <2>2, <2>3
<1> HIDE DEF L
<1>4. /\ 0 \in T /\ (\A n \in From : n \in Names /\ L(n) \in T)
      /\ \A x \in T : x = 0 \/ \E n \in From : n \in Names /\ x = L(n)
  OBVIOUS
<1> HIDE DEF T, From
<1>5. Max(T) \in T /\ (\A x \in T : x <= Max(T)) /\ Max(T) \in Nat
  <2>1. \A x \in T : x \in 0..Cardinality(Names)
    <3>1. 0 \in 0..Cardinality(Names)
      BY <1>1
    <3>2. QED
      BY <1>2, <1>4, <3>1, Zenon
  <2>2. T \in SUBSET (0..Cardinality(Names)) /\ T # {}
    BY <1>4, <2>1
  <2>3. Max(T) \in T /\ \A x \in T : x <= Max(T)
    BY <1>1, <2>2, Greatest
  <2>4. QED
    BY <2>1, <2>3
<1>6. \E p \in SimplePaths(graph) : Len(p) = Max(T) + 1
  <2>1. PICK n \in Names : Max(T) = L(n) \/ Max(T) = 0
    BY <1>4, <1>5, MetricsAssumption
  <2>2. CASE Max(T) = L(n)
    <3>1. PICK p \in Chains(graph, n, {n}) : L(n) = Len(p) - 1
      BY <1>2
    <3>2. p \in SimplePaths(graph) /\ Len(p) \in Nat
      BY SimpleChains, ChainBound
    <3>3. QED
      BY <2>2, <3>1, <3>2
  <2>3. CASE Max(T) = 0
    <3> DEFINE m == 1
               p == [i \in 1..m |-> n]
    <3>1. p \in [1..m -> Names] /\ m \in Nat \ {0}
      OBVIOUS
    <3>2. (\A i \in 1..(m - 1) : FALSE) /\ \A i \in 1..m : i = 1
      OBVIOUS
    <3>3. m = Max(T) + 1
      BY <2>3
    <3> HIDE DEF p, m
    <3>4. /\ \A i, j \in 1..m : p[i] = p[j] => i = j
          /\ \A i \in 1..(m - 1) : p[i + 1] \in graph[p[i]]
      BY <3>2
    <3>5. p \in SimplePaths(graph) /\ Len(p) = m
      BY <3>1, <3>4, SimplePathIs, Zenon
    <3>6. QED
      BY <3>3, <3>5
  <2>4. QED
    BY <2>1, <2>2, <2>3
<1>7. ASSUME NEW p \in SimplePaths(graph) PROVE Len(p) <= Max(T) + 1
  <2>1. /\ p[1] \in Names /\ Len(p) \in Nat /\ Len(p) \in 1..Len(p)
        /\ \A i \in 1..(Len(p) - 1) : p[i + 1] \in graph[p[i]]
    BY SimplePathHas
  <2>2. p \in Chains(graph, p[1], {p[1]})
    BY <2>1, SimpleChains
  <2>3. Len(p) - 1 <= L(p[1]) /\ L(p[1]) \in 0..Cardinality(Names)
    BY <1>2, <2>1, <2>2
  <2>4. CASE p[1] \in From
    <3>1. L(p[1]) \in T
      BY <1>4, <2>4
    <3>2. L(p[1]) <= Max(T)
      BY <1>5, <3>1
    <3>3. QED
      BY <1>1, <1>5, <2>1, <2>3, <3>2
  <2>5. CASE p[1] \notin From
    <3>1. 1 \notin 1..(Len(p) - 1)
      BY <2>1, <2>5 DEF From
    <3>2. Len(p) = 1
      <4>1. \A k \in Nat : k \in 1..k /\ 1 \notin 1..(k - 1) => k = 1
        OBVIOUS
      <4>2. QED
        BY <2>1, <3>1, <4>1
    <3>3. QED
      BY <1>5, <3>2
  <2>6. QED
    BY <2>4, <2>5
<1>8. QED
  BY <1>3, <1>6, <1>7

\* Whatever is called, the depth is that of the longest chain of calls.
THEOREM DepthCorrect == Spec => []DepthIsLongestChain
<1>1. ASSUME SearchInv PROVE DepthIsLongestChain
  <2>1. calls \in [Names -> SUBSET Names]
    BY <1>1 DEF SearchInv, SearchTypes
  <2>2. QED
    BY <2>1, DeepestIs DEF DepthIsLongestChain
<1>2. QED
  BY <1>1, SearchInvariant, PTL
===============================================================================
