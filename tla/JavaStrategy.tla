---------------------------- MODULE JavaStrategy ----------------------------
(***************************************************************************)
(* The line scanner of Java files (parseFile in                            *)
(* src/artifact/codeGraph/strategy/javaStrategy.go).  It counts braces,    *)
(* keeps a stack of classes with the depth of their bodies and one current *)
(* method.  Beside it the model keeps the braces that are really open.     *)
(***************************************************************************)
EXTENDS Integers, Stacks

CONSTANTS
  JavaForms,     \* the kinds of lines a file may have, a subset of JavaAllForms
  MaxJavaLines,  \* bound: lines of a file
  MaxDepth       \* bound: braces open at once

(***************************************************************************)
(* A line is what Java makes of it ("is"), the regular expression that     *)
(* matches ("looks"), what its braces do ("shape"), and what the counting  *)
(* loop adds for them ("adds").  "reopens" is "} else {", "whole" a body on *)
(* one line; a header whose brace comes on the next line is "flat", as is   *)
(* a method without a body ("decl").  "text" is a comment.  What the line   *)
(* does to a block comment ("comment") and the marks the code finds in it   *)
(* ("marks") are two things: the code does not ask where a mark stands.     *)
(***************************************************************************)
MarkedForm(is, looks, shape, adds, comment, marks) ==
  [is |-> is, looks |-> looks, shape |-> shape, adds |-> adds,
   comment |-> comment, marks |-> marks]
JavaForm(is, looks, shape, adds) == MarkedForm(is, looks, shape, adds, "none", "none")

JavaPlainForms ==
  {JavaForm("class", "class", "opens", 1), JavaForm("method", "method", "opens", 1),
   JavaForm("decl", "method", "flat", 0),
   JavaForm("block", "call", "opens", 1), JavaForm("block", "call", "reopens", 0),
   JavaForm("stmt", "call", "flat", 0), JavaForm("end", "plain", "closes", -1),
   JavaForm("text", "comment", "flat", 1), MarkedForm("stmt", "call", "flat", 0, "none", "*/"),
   MarkedForm("text", "call", "flat", 0, "opens", "/*"),
   MarkedForm("text", "class", "flat", 1, "inside", "none"),
   MarkedForm("text", "plain", "flat", -1, "closes", "*/")}

OneLineMethod == JavaForm("method", "method", "whole", 0)
NextLineMethod == JavaForm("method", "method", "flat", 0)
NextLineBrace == JavaForm("brace", "plain", "opens", 1)
OneLineClass == JavaForm("class", "class", "whole", 0)
NextLineClass == JavaForm("class", "class", "flat", 0)
ClassInText == JavaForm("stmt", "class", "flat", 0)

\* A brace in a comment behind a statement, and one in a text or a brace of a
\* block that quotes before it hide, as "\"" and '"' do: each quote toggles.
Miscounted ==
  {JavaForm("stmt", "call", "flat", 1), JavaForm("stmt", "call", "flat", -1),
   JavaForm("block", "call", "opens", 0)}

\* A mark in a text, such as "/api/**", or behind "//"; a comment that opens
\* where another one closes; code where a comment closes.
Mistaken ==
  {MarkedForm("stmt", "call", "flat", 0, "none", "/*"),
   MarkedForm("text", "comment", "flat", 1, "none", "/*"),
   MarkedForm("text", "call", "flat", 0, "opens", "*/"),
   MarkedForm("end", "plain", "closes", -1, "closes", "*/")}

Misread == Miscounted \cup Mistaken

JavaOtherForms ==
  {OneLineMethod, NextLineMethod, NextLineBrace, OneLineClass, NextLineClass,
   ClassInText} \cup Misread

JavaAllForms == JavaPlainForms \cup JavaOtherForms

ASSUME JavaAssumption ==
  JavaForms \subseteq JavaAllForms /\ MaxJavaLines \in Nat /\ MaxDepth \in Nat

VARIABLES
  javaLine,            \* lines read
  inBlockComment,
  depth,               \* braces counted
  javaStack,           \* classStack: frames [line, bodyDepth], outermost first
  currentMethod,       \* line of the current method's header, 0 for none
  currentMethodDepth,
  javaNodes,           \* nodes: line, owner's line, and the class it is really in
  javaEdges,           \* call edges: the line, its caller, and the methods around it
  javaScan,            \* "reading" or "eof"
  nest,                \* history: what is open: [is, line], outermost first
  header,              \* history: a header that waits for its brace
  commented,           \* history: a block comment is open
  odd                  \* history: the forms of JavaOtherForms met so far

scanVars == <<depth, javaStack, currentMethod, currentMethodDepth, javaNodes, javaEdges>>
nestVars == <<nest, header, commented, odd>>
javaVars == <<javaLine, inBlockComment, scanVars, javaScan, nestVars>>

JavaInit ==
  /\ javaLine = 0 /\ depth = 0 /\ javaStack = <<>>
  /\ currentMethod = 0 /\ currentMethodDepth = -1
  /\ javaNodes = {} /\ javaEdges = {} /\ javaScan = "reading"
  /\ nest = <<>> /\ header = <<>> /\ odd = {}
  /\ inBlockComment = FALSE /\ commented = FALSE

(***************************************************************************)
(* The code's view: everything is decided by the depth after the line,     *)
(* except whether a method stands directly in the body of a class.  Lines  *)
(* in a block comment are skipped, that with its end included, and lines   *)
(* that begin with "//", but for a mark in them.                           *)
(***************************************************************************)
Skips(l) == inBlockComment \/ l.looks = "comment"
InBlockCommentAfter(l) == IF inBlockComment THEN l.marks # "*/" ELSE l.marks = "/*"

DepthAfter(l) == depth + l.adds

\* Pop while depth < bodyDepth.
InBodyMutant(bodyDepth, d) == bodyDepth < d
InBody(bodyDepth, d) == bodyDepth <= d
ClassesLeft(l) ==
  Popping(javaStack, {i \in DOMAIN javaStack : InBody(javaStack[i].bodyDepth, DepthAfter(l))})

\* The current method ends with a line after which the depth is not above its own.
MethodEndsMutant(l) == FALSE
MethodEnds(l) == currentMethodDepth >= 0 /\ DepthAfter(l) <= currentMethodDepth
MethodLeft(l) == IF MethodEnds(l) THEN 0 ELSE currentMethod
MethodDepthLeft(l) == IF MethodEnds(l) THEN -1 ELSE currentMethodDepth

\* The depth before the line is that of the innermost class's body.
DirectlyInClass(l) ==
  ClassesLeft(l) # <<>> /\ depth = Last(ClassesLeft(l)).bodyDepth

HasBrace(l) == l.shape \in {"opens", "whole"}

(***************************************************************************)
(* Java's view: which lines may come next, and what they open and close.   *)
(***************************************************************************)
Inside(kinds) == nest # <<>> /\ Last(nest).is \in kinds

Allowed(l) ==
  /\ (l.comment \in {"inside", "closes"}) = commented
  /\ l.is # "text" => (header # <<>>) = (l.is = "brace")
  /\ CASE l.is = "class" -> TRUE
       [] l.is = "method" -> Inside({"class", "block"})
       [] l.is = "decl" -> Inside({"class"})
       [] l.is = "block" -> IF l.shape = "reopens" THEN Inside({"block"})
                            ELSE Inside({"method", "block"})
       [] l.is = "stmt" -> Inside({"class", "method", "block"})
       [] l.is = "end" -> nest # <<>>
       [] l.is \in {"brace", "text"} -> TRUE

Opened(l) == IF l.is = "brace" THEN Last(header)
             ELSE [is |-> l.is, line |-> javaLine + 1]

JavaReads(l) ==
  /\ nest' = CASE l.shape = "opens" -> Append(nest, Opened(l))
               [] l.shape = "closes" -> Front(nest)
               [] l.shape = "reopens" -> Append(Front(nest), Opened(l))
               [] OTHER -> nest
  /\ header' = CASE l.is \in {"class", "method"} /\ l.shape = "flat" ->
                      <<[is |-> l.is, line |-> javaLine + 1]>>
                 [] l.is = "text" -> header
                 [] OTHER -> <<>>
  /\ commented' = (l.comment = "opens" \/ (commented /\ l.comment # "closes"))
  /\ odd' = IF l \in JavaOtherForms THEN odd \cup {l} ELSE odd

Around(kind) == {nest[i].line : i \in {k \in DOMAIN nest : nest[k].is = kind}}
InnermostClass == LineOfTop(Popping(nest, {i \in DOMAIN nest : nest[i].is = "class"}))

(***************************************************************************)
(* One line.                                                               *)
(***************************************************************************)
JavaAnyLine(l) ==
  /\ javaScan = "reading" /\ javaLine < MaxJavaLines
  /\ Allowed(l) /\ Len(nest) <= MaxDepth
  /\ javaLine' = javaLine + 1
  /\ inBlockComment' = InBlockCommentAfter(l)
  /\ JavaReads(l)
  /\ UNCHANGED javaScan

JavaSkipped(l) == Skips(l) /\ JavaAnyLine(l) /\ UNCHANGED scanVars

JavaLine(l) == ~Skips(l) /\ JavaAnyLine(l) /\ depth' = DepthAfter(l)

NewUnit(l, owner) ==
  [line |-> javaLine + 1, owner |-> owner, within |-> InnermostClass, is |-> l.is]

JavaClass(l) ==
  /\ l.looks = "class" /\ JavaLine(l)
  /\ javaStack' = Append(ClassesLeft(l),
                         [line |-> javaLine + 1, bodyDepth |-> DepthAfter(l)])
  /\ javaNodes' = javaNodes \cup {NewUnit(l, LineOfTop(ClassesLeft(l)))}
  /\ currentMethod' = MethodLeft(l) /\ currentMethodDepth' = MethodDepthLeft(l)
  /\ UNCHANGED javaEdges

JavaMethod(l) ==
  /\ l.looks = "method" /\ DirectlyInClass(l) /\ JavaLine(l)
  /\ javaStack' = ClassesLeft(l)
  /\ javaNodes' = javaNodes \cup {NewUnit(l, LineOfTop(ClassesLeft(l)))}
  /\ IF HasBrace(l)
     THEN currentMethod' = javaLine + 1 /\ currentMethodDepth' = DepthAfter(l)
     ELSE currentMethod' = MethodLeft(l) /\ currentMethodDepth' = MethodDepthLeft(l)
  /\ UNCHANGED javaEdges

\* callCheck: a header of a method elsewhere reads like a call, too.
JavaCall(l) ==
  /\ l.looks \in {"call", "plain"} \/ (l.looks = "method" /\ ~DirectlyInClass(l))
  /\ JavaLine(l)
  /\ javaStack' = ClassesLeft(l)
  /\ currentMethod' = MethodLeft(l) /\ currentMethodDepth' = MethodDepthLeft(l)
  /\ javaEdges' = IF l.looks # "plain" /\ MethodLeft(l) # 0
                  THEN javaEdges \cup {[line |-> javaLine + 1, from |-> MethodLeft(l),
                                        within |-> Around("method")]}
                  ELSE javaEdges
  /\ UNCHANGED javaNodes

JavaEndOfFile ==
  /\ javaScan = "reading" /\ nest = <<>> /\ header = <<>> /\ ~commented
  /\ javaScan' = "eof"
  /\ UNCHANGED <<javaLine, inBlockComment, scanVars, nestVars>>

\* The locals of parseFile go with its return.
JavaReset ==
  /\ javaLine' = 0 /\ depth' = 0 /\ javaStack' = <<>>
  /\ currentMethod' = 0 /\ currentMethodDepth' = -1
  /\ javaNodes' = {} /\ javaEdges' = {} /\ javaScan' = "reading"
  /\ nest' = <<>> /\ header' = <<>> /\ odd' = {}
  /\ inBlockComment' = FALSE /\ commented' = FALSE

JavaNext ==
  \/ \E l \in JavaForms : JavaClass(l) \/ JavaMethod(l) \/ JavaCall(l) \/ JavaSkipped(l)
  \/ JavaEndOfFile

JavaSpec == JavaInit /\ [][JavaNext]_javaVars

-----------------------------------------------------------------------------
(***************************************************************************)
(* Properties.                                                             *)
(***************************************************************************)
Frames == {javaStack[i].line : i \in DOMAIN javaStack}

\* An open class is on the stack, whatever stands in block comments, as long as
\* no line was misread: braces are counted right and the marks of comments are
\* marks.  If moreover every class opens on its own line and closes on another
\* one, the stack is the open classes and each class and method is filed under
\* the one it is in.
JavaClassesFollow ==
  /\ Misread \cap odd = {} => Around("class") \subseteq Frames
  /\ odd \subseteq {OneLineMethod, NextLineMethod, NextLineBrace} =>
       /\ Frames = Around("class")
       /\ \A n \in javaNodes : n.owner = n.within

\* The caller of a recorded call is a method around it: a method that ended is
\* forgotten, through any nesting, unless it took one line or a line was
\* misread.
JavaCallersEnclose ==
  ({OneLineMethod} \cup Misread) \cap odd = {} =>
    \A e \in javaEdges : e.from \in e.within
=============================================================================
