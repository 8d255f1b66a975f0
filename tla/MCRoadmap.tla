------------------------------ MODULE MCRoadmap ------------------------------
(***************************************************************************)
(* Small instances of Roadmap: plans of up to three phases and milestones  *)
(* with repeated, missing and already numbered keys.                       *)
(***************************************************************************)
EXTENDS Roadmap, TLC

CONSTANTS s1, s2, e1, e2

Free == Named("free")
None == Named("")
A == Named("a")
A3 == WithNumber(A, 3)

M(key, phase, status) == [key |-> key, phase |-> phase, status |-> status]

\* Plain and missing keys; repeated keys, one of which collides with an
\* earlier one when it is numbered; and the two ways a plan may be incomplete.
Plain == [phases |-> <<A, None>>, milestones |-> <<M(A, A, "?"), M(None, Free, "IN_PROGRESS")>>]
Collide == [phases |-> <<A3, A, A>>,
            milestones |-> <<M(A3, A, "COMPLETED"), M(A, A3, "FAILED"), M(A, Free, "ACHIEVED")>>]
\* A plan that is not tame: its third milestone is the first, twice numbered.
Twice == [phases |-> <<A>>,
          milestones |-> <<M(A, A, "?"), M(A, A, "?"),
                           M(WithNumber(WithNumber(A, 2), 2), A, "?")>>]
NoPhase == [phases |-> <<>>, milestones |-> <<M(A, A, "PENDING")>>]
NoMilestone == [phases |-> <<A>>, milestones |-> <<>>]

AllNames == {"", "phase", "milestone", "a", "free"}
AllWords == Statuses \cup {"?", "COMPLETED"}
AllPlans == {Plain, Collide, Twice, NoPhase, NoMilestone}

\* The two scans are alike, and so are the two analyses.
Alike == Permutations({s1, s2}) \cup Permutations({e1, e2})

\* Three of the four jobs at most have started: two scans with an analysis, or
\* two analyses with a scan.
ThreeStart == \E j \in Jobs : pc[j] = "new"
=============================================================================
