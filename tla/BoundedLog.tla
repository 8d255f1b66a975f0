----------------------------- MODULE BoundedLog -----------------------------
(***************************************************************************)
(* What the files of a rotating log promise together, however they are     *)
(* split, renamed and removed and whatever fails meanwhile: read in order, *)
(* they hold the lines in the order they were written, and a line leaves   *)
(* only when it is too old, from the old end while there is too much, or   *)
(* in one stretch of older lines each time the names already given to      *)
(* files could not be read.                                                *)
(* LogRotation implements this specification.                              *)
(***************************************************************************)
EXTENDS Naturals, Sequences, SequencesExt

CONSTANTS MaxTotal, MaxAge

VARIABLES
  kept,    \* the lines in order
  today,
  unread   \* times the names of the files could not be read

SizeOf(lines) ==
  LET upTo[n \in 0..Len(lines)] == IF n = 0 THEN 0 ELSE upTo[n - 1] + lines[n].size
  IN upTo[Len(lines)]

Init == kept = <<>> /\ today = 0 /\ unread = 0

NewDay == today' = today + 1 /\ UNCHANGED <<kept, unread>>

Write ==
  /\ Len(kept') = Len(kept) + 1
  /\ Front(kept') = kept
  /\ Last(kept').day <= today
  /\ UNCHANGED <<today, unread>>

\* The lines from i to j leave.
Without(i, j) == kept' = SubSeq(kept, 1, i - 1) \o SubSeq(kept, j + 1, Len(kept))

Expire ==
  /\ \E i \in 1..Len(kept), j \in 1..Len(kept) :
       /\ i <= j
       /\ \A k \in i..j : today - kept[k].day > MaxAge
       /\ Without(i, j)
  /\ UNCHANGED <<today, unread>>

Trim ==
  /\ SizeOf(kept) > MaxTotal
  /\ \E n \in 1..Len(kept) : kept' = SubSeq(kept, n + 1, Len(kept))
  /\ UNCHANGED <<today, unread>>

\* The newest line is never among them.
Unread ==
  /\ unread' = unread + 1
  /\ \/ UNCHANGED kept
     \/ \E i \in 1..Len(kept), j \in 1..Len(kept) : i <= j /\ j < Len(kept) /\ Without(i, j)
  /\ UNCHANGED today

Next == NewDay \/ Write \/ Expire \/ Trim \/ Unread

Spec == Init /\ [][Next]_<<kept, today, unread>>
=============================================================================
