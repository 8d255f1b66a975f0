-------------------------------- MODULE Stacks --------------------------------
(***************************************************************************)
(* The stacks of the line scanners of src/artifact/codeGraph/strategy:     *)
(* frames with the line of a header, outermost first.  Before a line is    *)
(* looked at, frames are popped off the top until one is met that stays.   *)
(***************************************************************************)
EXTENDS Naturals, Sequences, SequencesExt

\* What is left of a stack whose frames at the places "stays" stop the popping.
Popping(stack, stays) == SubSeq(stack, 1, Max({0} \cup stays))

\* The line of the top of a stack, 0 if it is empty.
LineOfTop(stack) == IF stack = <<>> THEN 0 ELSE Last(stack).line
===============================================================================
