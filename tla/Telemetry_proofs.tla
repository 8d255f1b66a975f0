-------------------------- MODULE Telemetry_proofs --------------------------
(***************************************************************************)
(* Theorems about Telemetry and LogRotation: for any goroutines, limits,   *)
(* failures and crashes the gauge of analyses counts what it says, the log *)
(* loses one line or one archive per failure at most, takes bounded space, *)
(* and is the log of BoundedLog however its files are renamed and removed. *)
(***************************************************************************)
EXTENDS Telemetry, FiniteSetTheorems, SequenceTheorems, WellFoundedInduction, TLAPS

Entries == [text : Lines, size : 1..MaxLine, day : Nat]
Files == [day : Nat, index : Nat, lines : Seq(Entries)]

(***************************************************************************)
(* Induction, with a set in the place of a predicate.                      *)
(***************************************************************************)
\* A set that has 0, and with a number the next one, has them all.
LEMMA Induction ==
  ASSUME NEW S, 0 \in S, \A n \in Nat : n \in S => n + 1 \in S
  PROVE  \A n \in Nat : n \in S
<1> DEFINE T == Nat \ S
<1> SUFFICES ASSUME T # {} PROVE FALSE
  OBVIOUS
<1>1. PICK m \in T : \A n \in T : <<n, m>> \notin OpToRel(<, Nat)
  BY WFMin, NatLessThanWellFounded, Zenon
<1>2. \A n \in T : ~(n < m)
  BY <1>1 DEF OpToRel
<1>3. m - 1 \in Nat
  OBVIOUS
<1>4. m - 1 \in S
  BY <1>2, <1>3
<1>5. QED
  BY <1>3, <1>4

-----------------------------------------------------------------------------
(***************************************************************************)
(* The size of lines.                                                      *)
(***************************************************************************)
Sizes(s, N) == CHOOSE u : u = [n \in 0..N |-> IF n = 0 THEN 0 ELSE u[n - 1] + s[n].size]
SizeTo(s, N) == Sizes(s, N)[N]

\* The function of SizeOf exists.
LEMMA SizesExist ==
  ASSUME NEW s, NEW N \in Nat
  PROVE  Sizes(s, N) = [n \in 0..N |-> IF n = 0 THEN 0 ELSE Sizes(s, N)[n - 1] + s[n].size]
<1> DEFINE S == {k \in Nat : \E u : u = [n \in 0..k |-> IF n = 0 THEN 0 ELSE u[n - 1] + s[n].size]}
<1>1. 0 \in S
  <2> DEFINE u == [n \in 0..0 |-> 0]
  <2>1. u = [n \in 0..0 |-> IF n = 0 THEN 0 ELSE u[n - 1] + s[n].size]
    OBVIOUS
  <2>2. QED
    BY <2>1
<1>2. ASSUME NEW k \in Nat, k \in S PROVE k + 1 \in S
  <2>1. PICK u : u = [n \in 0..k |-> IF n = 0 THEN 0 ELSE u[n - 1] + s[n].size]
    BY <1>2
  <2> DEFINE v == [n \in 0..k + 1 |-> IF n = k + 1 THEN u[k] + s[n].size ELSE u[n]]
             w == [n \in 0..k + 1 |-> IF n = 0 THEN 0 ELSE v[n - 1] + s[n].size]
  <2>2. ASSUME NEW n \in 0..k + 1 PROVE v[n] = w[n]
    <3>1. CASE n = 0
      BY <2>1, <3>1
    <3>2. CASE n = k + 1
      BY <3>2
    <3>3. CASE n # 0 /\ n # k + 1
      <4>1. n \in 0..k /\ n - 1 \in 0..k + 1 /\ n - 1 # k + 1
        BY <3>3
      <4>2. v[n] = u[n] /\ v[n - 1] = u[n - 1]
        BY <3>3, <4>1
      <4>3. u[n] = u[n - 1] + s[n].size
        BY <2>1, <3>3, <4>1
      <4>4. QED
        BY <3>3, <4>2, <4>3
    <3>4. QED
      BY <3>1, <3>2, <3>3
  <2>3. v = w
    BY <2>2
  <2>4. \E x : x = [n \in 0..k + 1 |-> IF n = 0 THEN 0 ELSE x[n - 1] + s[n].size]
    <3> HIDE DEF v
    <3> QED
      BY <2>3
  <2>5. k + 1 \in Nat
    OBVIOUS
  <2>6. QED
    BY <2>4, <2>5
<1>3. N \in S
  <2> HIDE DEF S
  <2> QED
    BY <1>1, <1>2, Induction
<1>4. QED
  BY <1>3 DEF Sizes

\* What it has at n is the size of the first n lines, however far it goes.
LEMMA SizesAgree ==
  ASSUME NEW s, NEW N \in Nat
  PROVE  \A n \in 0..N : Sizes(s, N)[n] = SizeTo(s, n)
<1> DEFINE S == {n \in Nat : \A M \in Nat : n <= M => Sizes(s, M)[n] = SizeTo(s, n)}
<1>1. 0 \in S
  <2>1. \A M \in Nat : Sizes(s, M)[0] = 0
    BY SizesExist
  <2>2. QED
    BY <2>1 DEF SizeTo
<1>2. ASSUME NEW n \in Nat, n \in S PROVE n + 1 \in S
  <2>1. ASSUME NEW M \in Nat, n + 1 <= M
        PROVE  Sizes(s, M)[n + 1] = SizeTo(s, n) + s[n + 1].size
    <3>1. n + 1 \in 0..M /\ n + 1 # 0 /\ (n + 1) - 1 = n
      BY <2>1
    <3>2. Sizes(s, M)[n + 1] = Sizes(s, M)[(n + 1) - 1] + s[n + 1].size
      BY <3>1, SizesExist
    <3>3. QED
      BY <1>2, <2>1, <3>1, <3>2
  <2>2. n + 1 \in Nat /\ n + 1 <= n + 1
    OBVIOUS
  <2>3. SizeTo(s, n + 1) = SizeTo(s, n) + s[n + 1].size
    BY <2>1, <2>2 DEF SizeTo
  <2>4. QED
    BY <2>1, <2>2, <2>3
<1>3. \A n \in Nat : n \in S
  <2> HIDE DEF S
  <2> QED
    BY <1>1, <1>2, Induction
<1>4. QED
  BY <1>3

\* So the size grows line by line.
LEMMA SizeSteps ==
  ASSUME NEW s
  PROVE  SizeTo(s, 0) = 0 /\ \A n \in Nat : SizeTo(s, n + 1) = SizeTo(s, n) + s[n + 1].size
<1>1. SizeTo(s, 0) = 0
  BY SizesExist DEF SizeTo
<1>2. ASSUME NEW n \in Nat
      PROVE  SizeTo(s, n + 1) = SizeTo(s, n) + s[n + 1].size
  <2>1. n + 1 \in Nat /\ n + 1 \in 0..n + 1 /\ n \in 0..n + 1 /\ n + 1 # 0 /\ (n + 1) - 1 = n
    OBVIOUS
  <2>2. Sizes(s, n + 1)[n + 1] = Sizes(s, n + 1)[n] + s[n + 1].size
    BY <2>1, SizesExist
  <2>3. QED
    BY <2>1, <2>2, SizesAgree
<1>3. QED
  BY <1>1, <1>2

\* The size of a sequence is the last of its partial sums.
LEMMA SizeOfIs ==
  ASSUME NEW s
  PROVE  SizeOf(s) = SizeTo(s, Len(s))
BY DEF SizeOf, SizeTo, Sizes

\* A line in a file has a size.
LEMMA EntrySize ==
  ASSUME NEW s \in Seq(Entries), NEW n \in 1..Len(s)
  PROVE  s[n].size \in 1..MaxLine /\ s[n].size \in Nat
<1>1. s[n] \in Entries
  BY ElementOfSeq
<1>2. QED
  BY <1>1, TelemetryAssumption DEF Entries

\* Partial sums are numbers.
LEMMA SizeToNat ==
  ASSUME NEW s \in Seq(Entries)
  PROVE  \A n \in 0..Len(s) : SizeTo(s, n) \in Nat
<1> DEFINE S == {n \in Nat : n <= Len(s) => SizeTo(s, n) \in Nat}
<1>1. 0 \in S
  BY SizeSteps
<1>2. ASSUME NEW n \in Nat, n \in S PROVE n + 1 \in S
  <2> SUFFICES ASSUME n + 1 <= Len(s) PROVE SizeTo(s, n + 1) \in Nat
    OBVIOUS
  <2>1. s[n + 1].size \in Nat /\ SizeTo(s, n) \in Nat
    BY <1>2, EntrySize, LenProperties
  <2>2. SizeTo(s, n + 1) = SizeTo(s, n) + s[n + 1].size
    BY SizeSteps
  <2>3. QED
    BY <2>1, <2>2
<1>3. \A n \in Nat : n \in S
  <2> HIDE DEF S
  <2> QED
    BY <1>1, <1>2, Induction
<1>4. QED
  BY <1>3

\* The size of a file and another one is the sum of both.
LEMMA SizeOfConcat ==
  ASSUME NEW s \in Seq(Entries), NEW t \in Seq(Entries)
  PROVE  s \o t \in Seq(Entries) /\ SizeOf(s \o t) = SizeOf(s) + SizeOf(t)
<1> DEFINE u == s \o t
<1>1. /\ u \in Seq(Entries) /\ Len(u) = Len(s) + Len(t) /\ Len(s) \in Nat /\ Len(t) \in Nat
      /\ \A i \in 1..Len(u) : u[i] = IF i <= Len(s) THEN s[i] ELSE t[i - Len(s)]
  BY ConcatProperties, LenProperties
<1> DEFINE S == {n \in Nat : n <= Len(s) => SizeTo(u, n) = SizeTo(s, n)}
           T == {n \in Nat : n <= Len(t) => SizeTo(u, Len(s) + n) = SizeOf(s) + SizeTo(t, n)}
<1>2. \A n \in Nat : n \in S
  <2> HIDE DEF u
  <2>1. 0 \in S
    BY SizeSteps
  <2>2. ASSUME NEW n \in Nat, n \in S PROVE n + 1 \in S
    <3> SUFFICES ASSUME n + 1 <= Len(s) PROVE SizeTo(u, n + 1) = SizeTo(s, n + 1)
      OBVIOUS
    <3>1. u[n + 1] = s[n + 1] /\ SizeTo(u, n) = SizeTo(s, n)
      BY <1>1, <2>2
    <3>2. SizeTo(u, n + 1) = SizeTo(u, n) + u[n + 1].size
      BY SizeSteps
    <3>3. SizeTo(s, n + 1) = SizeTo(s, n) + s[n + 1].size
      BY SizeSteps
    <3>4. QED
      BY <3>1, <3>2, <3>3
  <2>3. QED
    <3> HIDE DEF S
    <3> QED
      BY <2>1, <2>2, Induction
<1>3. \A n \in Nat : n \in T
  <2> HIDE DEF u
  <2>1. 0 \in T
    <3>1. SizeTo(u, Len(s)) = SizeTo(s, Len(s))
      BY <1>1, <1>2
    <3>2. SizeOf(s) \in Nat /\ SizeOf(s) = SizeTo(s, Len(s))
      BY <1>1, SizeOfIs, SizeToNat
    <3>3. QED
      BY <1>1, <3>1, <3>2, SizeSteps
  <2>2. ASSUME NEW n \in Nat, n \in T PROVE n + 1 \in T
    <3> SUFFICES ASSUME n + 1 <= Len(t)
                 PROVE  SizeTo(u, Len(s) + (n + 1)) = SizeOf(s) + SizeTo(t, n + 1)
      OBVIOUS
    <3>1. u[(Len(s) + n) + 1] = t[n + 1]
      <4>1. (Len(s) + n) + 1 \in 1..Len(u) /\ ~((Len(s) + n) + 1 <= Len(s))
            /\ ((Len(s) + n) + 1) - Len(s) = n + 1
        BY <1>1
      <4>2. QED
        BY <1>1, <4>1
    <3>2. SizeTo(u, (Len(s) + n) + 1) = SizeTo(u, Len(s) + n) + u[(Len(s) + n) + 1].size
      <4>1. Len(s) + n \in Nat
        BY <1>1
      <4>2. QED
        BY <4>1, SizeSteps
    <3>3. SizeTo(t, n + 1) = SizeTo(t, n) + t[n + 1].size
      BY SizeSteps
    <3>4. SizeTo(u, Len(s) + n) = SizeOf(s) + SizeTo(t, n)
      BY <1>1, <2>2
    <3>5. SizeOf(s) \in Nat /\ SizeTo(t, n) \in Nat /\ t[n + 1].size \in Nat
      BY <1>1, SizeOfIs, SizeToNat, EntrySize
    <3>6. Len(s) + (n + 1) = (Len(s) + n) + 1
      BY <1>1
    <3>7. QED
      BY <3>1, <3>2, <3>3, <3>4, <3>5, <3>6
  <2>3. QED
    <3> HIDE DEF T
    <3> QED
      BY <2>1, <2>2, Induction
<1>4. SizeTo(u, Len(s) + Len(t)) = SizeOf(s) + SizeTo(t, Len(t))
  BY <1>1, <1>3
<1>5. QED
  <2> HIDE DEF u, S, T
  <2> SUFFICES u \in Seq(Entries) /\ SizeOf(u) = SizeOf(s) + SizeOf(t)
    BY DEF u
  <2> QED
    BY <1>1, <1>4, SizeOfIs

\* Sizes are numbers, and nothing has none.
LEMMA SizeOfNat ==
  ASSUME NEW s \in Seq(Entries)
  PROVE  SizeOf(s) \in Nat /\ (s = <<>> => SizeOf(s) = 0)
BY SizeOfIs, SizeToNat, SizeSteps, LenProperties

\* A line adds its size.
LEMMA SizeOfAppend ==
  ASSUME NEW s \in Seq(Entries), NEW e \in Entries
  PROVE  Append(s, e) \in Seq(Entries) /\ SizeOf(Append(s, e)) = SizeOf(s) + e.size
<1>1. Append(s, e) = s \o <<e>> /\ <<e>> \in Seq(Entries)
  BY AppendIsConcat
<1>2. SizeOf(<<e>>) = e.size
  <2>1. Len(<<e>>) = 1 /\ <<e>>[1] = e /\ e.size \in Nat
    BY TelemetryAssumption DEF Entries
  <2>2. SizeTo(<<e>>, 0 + 1) = SizeTo(<<e>>, 0) + <<e>>[0 + 1].size /\ SizeTo(<<e>>, 0) = 0
    BY SizeSteps
  <2>3. SizeTo(<<e>>, 1) = 0 + e.size
    BY <2>1, <2>2
  <2>4. SizeOf(<<e>>) = SizeTo(<<e>>, Len(<<e>>))
    BY SizeOfIs
  <2>5. QED
    BY <2>1, <2>3, <2>4
<1>3. QED
  BY <1>1, <1>2, SizeOfConcat

-----------------------------------------------------------------------------
(***************************************************************************)
(* The lines of the archives, one file after the other.                    *)
(***************************************************************************)
Joins(a, N) == CHOOSE u : u = [n \in 0..N |-> IF n = 0 THEN <<>> ELSE u[n - 1] \o a[n].lines]
JoinTo(a, N) == Joins(a, N)[N]
Join(a) == JoinTo(a, Len(a))

\* The function of Archived exists.
LEMMA JoinsExist ==
  ASSUME NEW a, NEW N \in Nat
  PROVE  Joins(a, N) = [n \in 0..N |-> IF n = 0 THEN <<>> ELSE Joins(a, N)[n - 1] \o a[n].lines]
<1> DEFINE S == {k \in Nat : \E u : u = [n \in 0..k |-> IF n = 0 THEN <<>> ELSE u[n - 1] \o a[n].lines]}
<1>1. 0 \in S
  <2> DEFINE u == [n \in 0..0 |-> <<>>]
  <2>1. u = [n \in 0..0 |-> IF n = 0 THEN <<>> ELSE u[n - 1] \o a[n].lines]
    OBVIOUS
  <2>2. QED
    BY <2>1
<1>2. ASSUME NEW k \in Nat, k \in S PROVE k + 1 \in S
  <2>1. PICK u : u = [n \in 0..k |-> IF n = 0 THEN <<>> ELSE u[n - 1] \o a[n].lines]
    BY <1>2
  <2> DEFINE v == [n \in 0..k + 1 |-> IF n = k + 1 THEN u[k] \o a[n].lines ELSE u[n]]
             w == [n \in 0..k + 1 |-> IF n = 0 THEN <<>> ELSE v[n - 1] \o a[n].lines]
  <2>2. ASSUME NEW n \in 0..k + 1 PROVE v[n] = w[n]
    <3>1. CASE n = 0
      BY <2>1, <3>1
    <3>2. CASE n = k + 1
      BY <3>2
    <3>3. CASE n # 0 /\ n # k + 1
      <4>1. n \in 0..k /\ n - 1 \in 0..k + 1 /\ n - 1 # k + 1
        BY <3>3
      <4>2. v[n] = u[n] /\ v[n - 1] = u[n - 1]
        BY <3>3, <4>1
      <4>3. u[n] = u[n - 1] \o a[n].lines
        BY <2>1, <3>3, <4>1
      <4>4. QED
        BY <3>3, <4>2, <4>3
    <3>4. QED
      BY <3>1, <3>2, <3>3
  <2>3. v = w
    BY <2>2
  <2>4. \E x : x = [n \in 0..k + 1 |-> IF n = 0 THEN <<>> ELSE x[n - 1] \o a[n].lines]
    <3> HIDE DEF v
    <3> QED
      BY <2>3
  <2>5. k + 1 \in Nat
    OBVIOUS
  <2>6. QED
    BY <2>4, <2>5
<1>3. N \in S
  <2> HIDE DEF S
  <2> QED
    BY <1>1, <1>2, Induction
<1>4. QED
  BY <1>3 DEF Joins

\* The recursive function satisfies its equation.
LEMMA JoinsAt ==
  ASSUME NEW a, NEW N \in Nat, NEW n \in 0..N
  PROVE  Joins(a, N)[n] = IF n = 0 THEN <<>> ELSE Joins(a, N)[n - 1] \o a[n].lines
<1>1. ASSUME NEW J, J = [k \in 0..N |-> IF k = 0 THEN <<>> ELSE J[k - 1] \o a[k].lines]
      PROVE  J[n] = IF n = 0 THEN <<>> ELSE J[n - 1] \o a[n].lines
  BY <1>1, Zenon
<1>2. QED
  BY <1>1, JoinsExist

\* What it has at n are the lines of the first n files, however far it goes.
LEMMA JoinsAgree ==
  ASSUME NEW a, NEW N \in Nat
  PROVE  \A n \in 0..N : Joins(a, N)[n] = JoinTo(a, n)
<1> DEFINE S == {n \in Nat : \A M \in Nat : n <= M => Joins(a, M)[n] = JoinTo(a, n)}
<1>1. 0 \in S
  <2>1. \A M \in Nat : 0 \in 0..M
    OBVIOUS
  <2>2. \A M \in Nat : Joins(a, M)[0] = <<>>
    BY <2>1, JoinsAt
  <2>3. QED
    BY <2>2 DEF JoinTo
<1>2. ASSUME NEW n \in Nat, n \in S PROVE n + 1 \in S
  <2>1. ASSUME NEW M \in Nat, n + 1 <= M
        PROVE  Joins(a, M)[n + 1] = JoinTo(a, n) \o a[n + 1].lines
    <3>1. n + 1 \in 0..M /\ n + 1 # 0 /\ (n + 1) - 1 = n
      BY <2>1
    <3>2. Joins(a, M)[n + 1] = Joins(a, M)[(n + 1) - 1] \o a[n + 1].lines
      BY <3>1, JoinsAt
    <3>3. Joins(a, M)[n] = JoinTo(a, n)
      BY <1>2, <2>1
    <3>4. QED
      BY <3>1, <3>2, <3>3
  <2>2. n + 1 \in Nat /\ n + 1 <= n + 1
    OBVIOUS
  <2>3. JoinTo(a, n + 1) = JoinTo(a, n) \o a[n + 1].lines
    BY <2>1, <2>2 DEF JoinTo
  <2>4. QED
    BY <2>1, <2>2, <2>3
<1>3. \A n \in Nat : n \in S
  <2> HIDE DEF S
  <2> QED
    BY <1>1, <1>2, Induction
<1>4. QED
  BY <1>3

\* The lines of one more file follow those of the files before.
LEMMA JoinSteps ==
  ASSUME NEW a
  PROVE  JoinTo(a, 0) = <<>> /\ \A n \in Nat : JoinTo(a, n + 1) = JoinTo(a, n) \o a[n + 1].lines
<1>1. JoinTo(a, 0) = <<>>
  BY JoinsAt DEF JoinTo
<1>2. ASSUME NEW n \in Nat
      PROVE  JoinTo(a, n + 1) = JoinTo(a, n) \o a[n + 1].lines
  <2>1. n + 1 \in Nat /\ n + 1 \in 0..n + 1 /\ n \in 0..n + 1 /\ n + 1 # 0 /\ (n + 1) - 1 = n
    OBVIOUS
  <2>2. Joins(a, n + 1)[n + 1] = Joins(a, n + 1)[n] \o a[n + 1].lines
    BY <2>1, JoinsAt
  <2>3. Joins(a, n + 1)[n + 1] = JoinTo(a, n + 1) /\ Joins(a, n + 1)[n] = JoinTo(a, n)
    BY <2>1, JoinsAgree
  <2>4. QED
    BY <2>2, <2>3
<1>3. QED
  BY <1>1, <1>2

\* Archived is a join, now and after a step.
LEMMA ArchivedIs == Archived = Join(archives) /\ Archived' = Join(archives')
BY DEF Archived, Join, JoinTo, Joins

\* A file holds lines.
LEMMA FileLines ==
  ASSUME NEW a \in Seq(Files), NEW n \in 1..Len(a)
  PROVE  a[n].lines \in Seq(Entries)
<1>1. a[n] \in Files
  BY ElementOfSeq
<1>2. QED
  BY <1>1 DEF Files

\* Joined files hold lines.
LEMMA JoinToSeq ==
  ASSUME NEW a \in Seq(Files)
  PROVE  \A n \in 0..Len(a) : JoinTo(a, n) \in Seq(Entries)
<1> DEFINE S == {n \in Nat : n <= Len(a) => JoinTo(a, n) \in Seq(Entries)}
<1>1. 0 \in S
  <2>1. JoinTo(a, 0) = <<>> /\ <<>> \in Seq(Entries)
    BY JoinSteps
  <2>2. QED
    BY <2>1
<1>2. ASSUME NEW n \in Nat, n \in S PROVE n + 1 \in S
  <2> SUFFICES ASSUME n + 1 <= Len(a) PROVE JoinTo(a, n + 1) \in Seq(Entries)
    OBVIOUS
  <2>1. a[n + 1].lines \in Seq(Entries) /\ JoinTo(a, n) \in Seq(Entries)
    BY <1>2, FileLines, LenProperties
  <2>2. JoinTo(a, n + 1) = JoinTo(a, n) \o a[n + 1].lines
    BY JoinSteps
  <2>3. QED
    BY <2>1, <2>2, ConcatProperties
<1>3. \A n \in Nat : n \in S
  <2> HIDE DEF S
  <2> QED
    BY <1>1, <1>2, Induction
<1>4. QED
  BY <1>3

\* The lines of two lots of files are those of the first and then the second.
LEMMA JoinConcat ==
  ASSUME NEW a \in Seq(Files), NEW b \in Seq(Files)
  PROVE  /\ a \o b \in Seq(Files) /\ Join(a \o b) = Join(a) \o Join(b)
         /\ Join(a) \in Seq(Entries)
<1> DEFINE u == a \o b
<1>1. /\ u \in Seq(Files) /\ Len(u) = Len(a) + Len(b) /\ Len(a) \in Nat /\ Len(b) \in Nat
      /\ \A i \in 1..Len(u) : u[i] = IF i <= Len(a) THEN a[i] ELSE b[i - Len(a)]
  BY ConcatProperties, LenProperties
<1>2. Join(a) \in Seq(Entries)
  BY <1>1, JoinToSeq DEF Join
<1> DEFINE S == {n \in Nat : n <= Len(a) => JoinTo(u, n) = JoinTo(a, n)}
           T == {n \in Nat : n <= Len(b) => JoinTo(u, Len(a) + n) = Join(a) \o JoinTo(b, n)}
<1>3. \A n \in Nat : n \in S
  <2> HIDE DEF u
  <2>1. 0 \in S
    BY JoinSteps
  <2>2. ASSUME NEW n \in Nat, n \in S PROVE n + 1 \in S
    <3> SUFFICES ASSUME n + 1 <= Len(a) PROVE JoinTo(u, n + 1) = JoinTo(a, n + 1)
      OBVIOUS
    <3>1. u[n + 1] = a[n + 1] /\ JoinTo(u, n) = JoinTo(a, n)
      BY <1>1, <2>2
    <3>2. JoinTo(u, n + 1) = JoinTo(u, n) \o u[n + 1].lines
      BY JoinSteps
    <3>3. JoinTo(a, n + 1) = JoinTo(a, n) \o a[n + 1].lines
      BY JoinSteps
    <3>4. QED
      BY <3>1, <3>2, <3>3
  <2>3. QED
    <3> HIDE DEF S
    <3> QED
      BY <2>1, <2>2, Induction
<1>4. \A n \in Nat : n \in T
  <2> HIDE DEF u
  <2>1. 0 \in T
    <3>1. JoinTo(u, Len(a)) = Join(a)
      BY <1>1, <1>3 DEF Join
    <3>2. Join(a) \o <<>> = Join(a)
      BY <1>2, ConcatEmptySeq
    <3>3. JoinTo(b, 0) = <<>> /\ Len(a) + 0 = Len(a)
      BY <1>1, JoinSteps
    <3>4. JoinTo(u, Len(a) + 0) = Join(a) \o JoinTo(b, 0)
      BY <3>1, <3>2, <3>3
    <3>5. QED
      BY <3>4
  <2>2. ASSUME NEW n \in Nat, n \in T PROVE n + 1 \in T
    <3> SUFFICES ASSUME n + 1 <= Len(b)
                 PROVE  JoinTo(u, Len(a) + (n + 1)) = Join(a) \o JoinTo(b, n + 1)
      OBVIOUS
    <3>1. u[(Len(a) + n) + 1] = b[n + 1]
      <4>1. (Len(a) + n) + 1 \in 1..Len(u) /\ ~((Len(a) + n) + 1 <= Len(a))
            /\ ((Len(a) + n) + 1) - Len(a) = n + 1
        BY <1>1
      <4>2. QED
        BY <1>1, <4>1
    <3>2. JoinTo(u, (Len(a) + n) + 1) = JoinTo(u, Len(a) + n) \o u[(Len(a) + n) + 1].lines
      <4>1. Len(a) + n \in Nat
        BY <1>1
      <4>2. QED
        BY <4>1, JoinSteps
    <3>3. JoinTo(b, n + 1) = JoinTo(b, n) \o b[n + 1].lines
      BY JoinSteps
    <3>4. JoinTo(u, Len(a) + n) = Join(a) \o JoinTo(b, n)
      BY <1>1, <2>2
    <3>5. JoinTo(b, n) \in Seq(Entries) /\ b[n + 1].lines \in Seq(Entries)
      BY <1>1, JoinToSeq, FileLines
    <3>6. (Join(a) \o JoinTo(b, n)) \o b[n + 1].lines = Join(a) \o (JoinTo(b, n) \o b[n + 1].lines)
      <4> DEFINE x == JoinTo(b, n)
                 y == b[n + 1].lines
      <4>1. x \in Seq(Entries) /\ y \in Seq(Entries)
        BY <3>5
      <4>2. (Join(a) \o x) \o y = Join(a) \o (x \o y)
        <5> HIDE DEF x, y
        <5> QED
          BY <1>2, <4>1, ConcatAssociative
      <4>3. QED
        BY <4>2
    <3>7. Len(a) + (n + 1) = (Len(a) + n) + 1
      BY <1>1
    <3>8. QED
      BY <3>1, <3>2, <3>3, <3>4, <3>6, <3>7
  <2>3. QED
    <3> HIDE DEF T
    <3> QED
      BY <2>1, <2>2, Induction
<1>5. JoinTo(u, Len(a) + Len(b)) = Join(a) \o JoinTo(b, Len(b))
  BY <1>1, <1>4
<1>6. QED
  <2> HIDE DEF u, S, T
  <2> SUFFICES u \in Seq(Files) /\ Join(u) = Join(a) \o Join(b)
    BY <1>2 DEF u
  <2> QED
    BY <1>1, <1>5 DEF Join

\* One file joins to its lines.
LEMMA JoinOne ==
  ASSUME NEW f \in Files
  PROVE  <<f>> \in Seq(Files) /\ Join(<<f>>) = f.lines
<1>1. Len(<<f>>) = 1 /\ <<f>>[1] = f /\ f.lines \in Seq(Entries)
  BY DEF Files
<1>2. JoinTo(<<f>>, 0 + 1) = JoinTo(<<f>>, 0) \o <<f>>[0 + 1].lines /\ JoinTo(<<f>>, 0) = <<>>
  BY JoinSteps
<1>3. JoinTo(<<f>>, 1) = <<>> \o f.lines
  <2>1. 0 + 1 = 1
    OBVIOUS
  <2>2. QED
    BY <1>1, <1>2, <2>1
<1>4. <<>> \o f.lines = f.lines
  BY <1>1, ConcatEmptySeq
<1>5. QED
  BY <1>1, <1>3, <1>4 DEF Join

\* A rename appends a file.
LEMMA JoinAppend ==
  ASSUME NEW a \in Seq(Files), NEW f \in Files
  PROVE  Append(a, f) \in Seq(Files) /\ Join(Append(a, f)) = Join(a) \o f.lines
<1>1. Append(a, f) = a \o <<f>>
  BY AppendIsConcat
<1>2. <<f>> \in Seq(Files) /\ Join(<<f>>) = f.lines
  BY JoinOne
<1>3. a \o <<f>> \in Seq(Files) /\ Join(a \o <<f>>) = Join(a) \o Join(<<f>>)
  BY <1>2, JoinConcat
<1>4. QED
  BY <1>1, <1>2, <1>3

\* Removing a file takes its lines out of the middle.
LEMMA JoinRemove ==
  ASSUME NEW a \in Seq(Files), NEW i \in 1..Len(a)
  PROVE  \E before, after \in Seq(Entries) :
           /\ Join(a) = before \o (a[i].lines \o after)
           /\ RemoveAt(a, i) \in Seq(Files) /\ Join(RemoveAt(a, i)) = before \o after
           /\ (i = 1 => before = <<>>)
<1> DEFINE b == SubSeq(a, 1, i - 1)
           c == SubSeq(a, i + 1, Len(a))
<1>1. Len(a) \in Nat /\ a[i] \in Files /\ <<a[i]>> \in Seq(Files)
  BY LenProperties, ElementOfSeq
<1>2. b \in Seq(Files) /\ c \in Seq(Files)
  <2>1. \A k \in 1..Len(a) : a[k] \in Files
    BY ElementOfSeq
  <2>2. \A k \in 1..(i - 1) : a[k] \in Files
    BY <1>1, <2>1
  <2>3. \A k \in (i + 1)..Len(a) : a[k] \in Files
    BY <1>1, <2>1
  <2>4. 1 \in Int /\ i - 1 \in Int /\ i + 1 \in Int /\ Len(a) \in Int
    BY <1>1
  <2>5. QED
    BY <2>2, <2>3, <2>4, SubSeqProperties
<1>3. a = b \o (<<a[i]>> \o c)
  <2>1. SubSeq(a, i, Len(a)) = <<a[i]>> \o c
    BY <1>1, SubSeqRecursiveFirst
  <2>2. SubSeq(a, 1, i - 1) \o SubSeq(a, (i - 1) + 1, Len(a)) = SubSeq(a, 1, Len(a))
    <3>1. 1 \in 1..(Len(a) + 1) /\ i - 1 \in (1 - 1)..Len(a) /\ Len(a) \in (i - 1)..Len(a)
      BY <1>1
    <3>2. QED
      BY <3>1, ConcatAdjacentSubSeq
  <2>3. (i - 1) + 1 = i
    BY <1>1
  <2>4. SubSeq(a, 1, Len(a)) = a
    BY SubSeqFull
  <2>5. QED
    BY <2>1, <2>2, <2>3, <2>4
<1>4. Join(a) = Join(b) \o (a[i].lines \o Join(c))
  <2> HIDE DEF b, c
  <2>1. <<a[i]>> \o c \in Seq(Files) /\ Join(<<a[i]>> \o c) = a[i].lines \o Join(c)
    BY <1>1, <1>2, JoinConcat, JoinOne
  <2>2. Join(b \o (<<a[i]>> \o c)) = Join(b) \o Join(<<a[i]>> \o c)
    BY <1>2, <2>1, JoinConcat
  <2>3. QED
    BY <1>3, <2>1, <2>2
<1>5. RemoveAt(a, i) = b \o c
  BY DEF RemoveAt
<1>6. i = 1 => Join(b) = <<>>
  <2> SUFFICES ASSUME i = 1 PROVE Join(b) = <<>>
    OBVIOUS
  <2>1. b = <<>> /\ Len(b) = 0
    BY SubSeqEmpty, EmptySeq
  <2>2. QED
    BY <2>1, JoinSteps DEF Join
<1>7. QED
  <2> HIDE DEF b, c
  <2>1. Join(b) \in Seq(Entries) /\ Join(c) \in Seq(Entries) /\ Join(b \o c) = Join(b) \o Join(c)
        /\ b \o c \in Seq(Files)
    BY <1>2, JoinConcat
  <2>2. QED
    BY <1>4, <1>5, <1>6, <2>1

-----------------------------------------------------------------------------
(***************************************************************************)
(* The invariant of the log.                                               *)
(***************************************************************************)
\* The sizes of the active file and of the archives.
Held == SizeOf(active)
Stored == SizeOf(Join(archives))

LogTypes ==
  /\ file \in {"nil", "open", "closed"} /\ size \in Nat /\ today \in Nat /\ step \in Steps
  /\ line \in Lines \cup {NoLine}
  /\ failures \in Nat /\ crashes \in Nat /\ lost \in Nat /\ closeFailed \in BOOLEAN
  /\ active \in Seq(Entries) /\ archives \in Seq(Files)

\* Only a start and its cleanup go without a line in hand; a rotation works on
\* a file it forgot, and the size of an open one is known.
StepInv ==
  /\ line = NoLine => step \in {"idle", "down", "expire", "trim"}
  /\ step \in {"idle", "down"} => line = NoLine
  /\ step \in {"open", "rename", "reopen"} => file = "nil"
  /\ file = "open" => size = Held

LostInv ==
  /\ unread \in Nat /\ replaced \in Nat
  /\ lost + unread <= failures + crashes /\ replaced <= unread
  /\ (file = "closed" => closeFailed)

\* The part of a bound that grows with the failures: a line, or a file with one.
LinesFor(n) == n * MaxLine
FilesFor(n) == n * (MaxFile + MaxLine)

Rotates == line # NoLine /\ step \in {"reopen", "expire", "trim"}
Fits == Held + line.size <= MaxFile

\* A line that does not fit goes into an empty file, unless the rename of the
\* full one failed.
ActiveInv ==
  /\ Held <= MaxFile + LinesFor(failures) + MaxLine
  /\ Rotates => Held <= MaxFile + LinesFor(failures)
  /\ failures = 0 => Held <= MaxFile \/ Len(active) = 1
  /\ failures = 0 /\ Rotates => active = <<>>
  /\ failures = 0 /\ step = "append" /\ file = "open" => Fits \/ active = <<>>

\* A file joins the archives only after they were trimmed, or that failed.
ArchiveInv ==
  /\ Stored + Held <= MaxTotal + FilesFor(failures) + MaxFile + MaxLine
  /\ step \in {"idle", "open", "close", "rename", "append"} =>
       Stored <= MaxTotal + FilesFor(failures)
  /\ step = "append" /\ file = "open" =>
       Fits \/ (Stored <= MaxTotal /\ Held <= MaxFile + LinesFor(failures))

\* Lines are in order within each file, so that the last one tells its age.
Sorted(s) == \A i, k \in 1..Len(s) : i <= k => s[i].day <= s[k].day

OrderInv ==
  /\ \A i \in 1..Len(archives) : archives[i].lines # <<>> /\ Sorted(archives[i].lines)
  /\ Sorted(active) /\ \A i \in 1..Len(active) : active[i].day <= today

LogInv == LogTypes /\ StepInv /\ LostInv /\ ActiveInv /\ ArchiveInv /\ OrderInv

LogMoves ==
  \/ UNCHANGED logVars
  \/ \E l \in Lines : Write(l)
  \/ LogStep \/ NewDay \/ LogCrash \/ LogRestart

-----------------------------------------------------------------------------
(***************************************************************************)
(* What the calls do to the files.                                         *)
(***************************************************************************)
\* The index of a new archive is above those that were seen.
LEMMA NextIndexNew ==
  ASSUME LogTypes, NEW X \in SUBSET IndexOnDay(today)
  PROVE  NextIndex(X) \in Nat /\ NextIndex(X) \notin X
<1>1. /\ Len(archives) \in Nat /\ DOMAIN archives = 1..Len(archives)
      /\ \A i \in 1..Len(archives) : archives[i].index \in Nat
  <2>1. archives \in Seq(Files)
    BY DEF LogTypes
  <2>2. \A i \in 1..Len(archives) : archives[i] \in Files
    BY <2>1, ElementOfSeq
  <2>3. QED
    BY <2>1, <2>2, LenProperties DEF Files
<1>2. X \subseteq Nat
  BY <1>1 DEF IndexOnDay
<1> DEFINE S == {n \in Nat : \E b \in Nat :
                   \A i \in 1..Len(archives) : i <= n => archives[i].index <= b}
<1>3. 0 \in S
  BY <1>1
<1>4. ASSUME NEW n \in Nat, n \in S PROVE n + 1 \in S
  <2>1. PICK b \in Nat : \A i \in 1..Len(archives) : i <= n => archives[i].index <= b
    BY <1>4
  <2>2. CASE n + 1 \in 1..Len(archives)
    <3>1. PICK c \in Nat : b <= c /\ archives[n + 1].index <= c
      <4>1. CASE b <= archives[n + 1].index
        BY <1>1, <2>2, <4>1
      <4>2. CASE archives[n + 1].index <= b
        BY <4>2
      <4>3. QED
        BY <1>1, <2>2, <4>1, <4>2
    <3>2. ASSUME NEW i \in 1..Len(archives), i <= n + 1
          PROVE  archives[i].index <= c
      <4>1. CASE i = n + 1
        BY <3>1, <4>1
      <4>2. CASE i <= n
        <5>1. archives[i].index <= b /\ archives[i].index \in Nat
          BY <1>1, <2>1, <4>2
        <5>2. QED
          BY <3>1, <5>1
      <4>3. i = n + 1 \/ i <= n
        BY <1>1, <3>2
      <4>4. QED
        BY <4>1, <4>2, <4>3
    <3>3. \E x \in Nat : \A i \in 1..Len(archives) : i <= n + 1 => archives[i].index <= x
      BY <3>2
    <3>4. n + 1 \in Nat
      OBVIOUS
    <3>5. QED
      BY <3>3, <3>4
  <2>3. CASE n + 1 \notin 1..Len(archives)
    <3>1. \A i \in 1..Len(archives) : i <= n + 1 => i <= n
      BY <1>1, <2>3
    <3>2. \A i \in 1..Len(archives) : i <= n + 1 => archives[i].index <= b
      BY <2>1, <3>1, Zenon
    <3>3. n + 1 \in Nat
      OBVIOUS
    <3>4. QED
      BY <3>2, <3>3
  <2>4. QED
    BY <2>2, <2>3
<1>5. \A n \in Nat : n \in S
  <2> HIDE DEF S
  <2> QED
    BY <1>3, <1>4, Induction
<1>6. PICK b \in Nat : \A i \in 1..Len(archives) : archives[i].index <= b
  <2>1. Len(archives) \in S
    BY <1>1, <1>5
  <2>2. \A i \in 1..Len(archives) : i <= Len(archives)
    BY <1>1
  <2>3. QED
    BY <2>1, <2>2
<1>7. \A k \in X : k <= b
  BY <1>1, <1>6 DEF IndexOnDay
<1>8. ASSUME X # {}
      PROVE  \E m \in X : \A k \in X : k <= m
  <2> DEFINE T == {n \in Nat : (\E k \in X : b <= k + n) =>
                                 \E m \in X : \A k \in X : k <= m}
  <2>1. X \subseteq Nat /\ \A k \in X : k <= b
    BY <1>2, <1>7
  <2>2. 0 \in T
    <3>1. ASSUME NEW k \in X, b <= k + 0
          PROVE  \A i \in X : i <= k
      BY <2>1, <3>1
    <3>2. QED
      BY <3>1
  <2>3. ASSUME NEW n \in Nat, n \in T PROVE n + 1 \in T
    <3> SUFFICES ASSUME NEW k \in X, b <= k + (n + 1)
                 PROVE  \E m \in X : \A i \in X : i <= m
      OBVIOUS
    <3>1. CASE \A i \in X : i <= k
      BY <3>1
    <3>2. CASE \E i \in X : ~(i <= k)
      <4>1. PICK i \in X : ~(i <= k)
        BY <3>2
      <4>2. b <= i + n
        BY <2>1, <4>1
      <4>3. QED
        BY <2>3, <4>2
    <3>3. QED
      BY <3>1, <3>2
  <2>4. \A n \in Nat : n \in T
    <3> HIDE DEF T
    <3> QED
      BY <2>2, <2>3, Induction
  <2>5. PICK k \in X : TRUE
    BY <1>8
  <2>6. b <= k + b
    BY <2>1
  <2>7. \E m \in X : \A i \in X : i <= m
    BY <2>4, <2>5, <2>6
  <2>8. QED
    BY <2>7
<1>9. CASE X = {}
  BY <1>9 DEF NextIndex
<1>10. CASE X # {}
  <2> DEFINE top == CHOOSE n \in X : \A k \in X : k <= n
  <2>1. top \in X /\ \A k \in X : k <= top
    BY <1>8, <1>10
  <2>2. NextIndex(X) = 1 + top
    BY <1>10 DEF NextIndex
  <2>3. QED
    <3> HIDE DEF top
    <3> QED
      BY <1>2, <2>1, <2>2
<1>11. QED
  BY <1>9, <1>10

\* Without one file there are the others, which are no larger.
LEMMA OthersStay ==
  ASSUME LogTypes, NEW i \in 1..Len(archives), NEW rest, rest = RemoveAt(archives, i)
  PROVE  /\ rest \in Seq(Files) /\ SizeOf(Join(rest)) <= Stored
         /\ \A k \in 1..Len(rest) : \E n \in 1..Len(archives) : rest[k] = archives[n]
<1>1. archives \in Seq(Files) /\ Len(archives) \in Nat
  BY LenProperties DEF LogTypes
<1>2. PICK before, after \in Seq(Entries) :
        /\ Join(archives) = before \o (archives[i].lines \o after)
        /\ RemoveAt(archives, i) \in Seq(Files) /\ Join(RemoveAt(archives, i)) = before \o after
  BY <1>1, JoinRemove
<1>3. SizeOf(Join(rest)) <= Stored
  <2> DEFINE l == archives[i].lines
  <2>1. l \in Seq(Entries)
    BY <1>1, FileLines
  <2> HIDE DEF l
  <2>2. l \o after \in Seq(Entries) /\ SizeOf(l \o after) = SizeOf(l) + SizeOf(after)
    BY <2>1, SizeOfConcat
  <2>3. SizeOf(before \o (l \o after)) = SizeOf(before) + SizeOf(l \o after)
    BY <2>2, SizeOfConcat
  <2>4. SizeOf(before \o after) = SizeOf(before) + SizeOf(after)
    BY SizeOfConcat
  <2>5. SizeOf(before) \in Nat /\ SizeOf(l) \in Nat /\ SizeOf(after) \in Nat
    BY <2>1, SizeOfNat
  <2>6. Stored = SizeOf(before \o (l \o after)) /\ SizeOf(Join(rest)) = SizeOf(before \o after)
    BY <1>2 DEF Stored, l
  <2>7. QED
    BY <2>2, <2>3, <2>4, <2>5, <2>6
<1>4. ASSUME NEW k \in 1..Len(rest)
      PROVE  \E n \in 1..Len(archives) : rest[k] = archives[n]
  <2> DEFINE b == SubSeq(archives, 1, i - 1)
             c == SubSeq(archives, i + 1, Len(archives))
  <2>1. \A n \in 1..Len(archives) : archives[n] \in Files
    BY <1>1, ElementOfSeq
  <2>2. /\ b \in Seq(Files) /\ Len(b) = i - 1
        /\ \A n \in 1..(i - 1) : b[n] = archives[n]
    <3>1. \A n \in 1..(i - 1) : archives[n] \in Files
      BY <1>1, <2>1
    <3>2. 1 \in Int /\ i - 1 \in Int
      BY <1>1
    <3>3. /\ b \in Seq(Files) /\ Len(b) = IF 1 <= i - 1 THEN (i - 1) - 1 + 1 ELSE 0
          /\ \A n \in 1..((i - 1) - 1 + 1) : b[n] = archives[1 + n - 1]
      BY <3>1, <3>2, SubSeqProperties
    <3>4. \A n \in 1..(i - 1) : 1 + n - 1 = n /\ n \in 1..((i - 1) - 1 + 1)
      BY <1>1
    <3>5. QED
      <4> HIDE DEF b
      <4> QED
        BY <1>1, <3>3, <3>4
  <2>3. /\ c \in Seq(Files) /\ Len(c) = Len(archives) - i
        /\ \A n \in 1..(Len(archives) - i) : c[n] = archives[i + n]
    <3>1. \A n \in (i + 1)..Len(archives) : archives[n] \in Files
      BY <1>1, <2>1
    <3>2. i + 1 \in Int /\ Len(archives) \in Int
      BY <1>1
    <3>3. /\ c \in Seq(Files)
          /\ Len(c) = IF i + 1 <= Len(archives) THEN Len(archives) - (i + 1) + 1 ELSE 0
          /\ \A n \in 1..(Len(archives) - (i + 1) + 1) : c[n] = archives[(i + 1) + n - 1]
      BY <3>1, <3>2, SubSeqProperties
    <3>4. \A n \in 1..(Len(archives) - i) : (i + 1) + n - 1 = i + n
                                            /\ n \in 1..(Len(archives) - (i + 1) + 1)
      BY <1>1
    <3>5. QED
      <4> HIDE DEF c
      <4> QED
        BY <1>1, <3>3, <3>4
  <2>4. rest = b \o c
    BY DEF RemoveAt
  <2> HIDE DEF b, c
  <2>5. /\ Len(rest) = Len(b) + Len(c)
        /\ rest[k] = IF k <= Len(b) THEN b[k] ELSE c[k - Len(b)]
    <3>1. /\ Len(b \o c) = Len(b) + Len(c)
          /\ \A n \in 1..(Len(b) + Len(c)) : (b \o c)[n] = IF n <= Len(b) THEN b[n] ELSE c[n - Len(b)]
      BY <2>2, <2>3, ConcatProperties
    <3>2. k \in 1..(Len(b) + Len(c))
      BY <1>4, <2>4, <3>1
    <3>3. QED
      BY <2>4, <3>1, <3>2
  <2>6. CASE k <= i - 1
    <3>1. k \in 1..(i - 1) /\ k \in 1..Len(archives)
      BY <1>1, <1>4, <2>2, <2>3, <2>5, <2>6
    <3>2. QED
      BY <2>2, <2>5, <2>6, <3>1
  <2>7. CASE ~(k <= i - 1)
    <3>1. k - (i - 1) \in 1..(Len(archives) - i) /\ i + (k - (i - 1)) \in 1..Len(archives)
      BY <1>1, <1>4, <2>2, <2>3, <2>5, <2>7
    <3>2. rest[k] = c[k - (i - 1)]
      BY <2>2, <2>5, <2>7
    <3>3. c[k - (i - 1)] = archives[i + (k - (i - 1))]
      BY <2>3, <3>1
    <3>4. QED
      BY <3>1, <3>2, <3>3
  <2>8. QED
    BY <2>6, <2>7
<1>5. QED
  BY <1>2, <1>3, <1>4

\* A removal takes the lines of one file out.
LEMMA RemoveTakes ==
  ASSUME LogTypes, NEW i \in 1..Len(archives), archives' = RemoveAt(archives, i)
  PROVE  /\ archives' \in Seq(Files) /\ Stored' <= Stored
         /\ \A k \in 1..Len(archives') : \E n \in 1..Len(archives) : archives'[k] = archives[n]
<1>1. Stored' = SizeOf(Join(archives'))
  BY DEF Stored
<1>2. QED
  BY <1>1, OthersStay

\* A rename moves the lines from the active file to the end of the archives,
\* and takes out the archive of that name if there is one.
LEMMA RenameToMoves ==
  ASSUME LogTypes, NEW n \in Nat, RenameTo(n)
  PROVE  \E rest \in Seq(Files) :
           /\ rest = archives \/ \E i \in 1..Len(archives) : rest = RemoveAt(archives, i)
           /\ (SameName(n) = {} => rest = archives)
           /\ archives' \in Seq(Files) /\ active' = <<>>
           /\ Join(archives') = Join(rest) \o active
           /\ Len(archives') = Len(rest) + 1
           /\ \A i \in 1..Len(rest) : archives'[i] = rest[i]
           /\ archives'[Len(rest) + 1].lines = active
<1> DEFINE f == [day |-> today, index |-> n, lines |-> active]
           rest == Others(n)
<1>1. f \in Files /\ f.lines = active /\ archives \in Seq(Files)
  BY DEF LogTypes, Files
<1>2. /\ rest = archives \/ \E i \in 1..Len(archives) : rest = RemoveAt(archives, i)
      /\ (SameName(n) = {} => rest = archives)
  <2>1. CASE SameName(n) = {}
    BY <2>1 DEF Others
  <2>2. CASE SameName(n) # {}
    <3> DEFINE i == CHOOSE k \in SameName(n) : TRUE
    <3>1. i \in SameName(n)
      BY <2>2
    <3>2. SameName(n) \subseteq 1..Len(archives)
      BY <1>1, LenProperties DEF SameName
    <3>3. rest = RemoveAt(archives, i)
      BY <2>2 DEF Others
    <3>4. QED
      <4> HIDE DEF i, rest
      <4> QED
        BY <2>2, <3>1, <3>2, <3>3
  <2>3. QED
    BY <2>1, <2>2
<1>3. rest \in Seq(Files)
  <2> HIDE DEF rest
  <2> QED
    BY <1>1, <1>2, OthersStay
<1>4. archives' = Append(rest, f) /\ active' = <<>>
  BY DEF RenameTo
<1>5. QED
  <2> HIDE DEF f, rest
  <2>1. archives' \in Seq(Files) /\ Join(archives') = Join(rest) \o f.lines
    BY <1>1, <1>3, <1>4, JoinAppend
  <2>2. /\ Len(archives') = Len(rest) + 1 /\ archives'[Len(rest) + 1] = f
        /\ \A i \in 1..Len(rest) : archives'[i] = rest[i]
    BY <1>1, <1>3, <1>4, AppendProperties
  <2>3. QED
    BY <1>1, <1>2, <1>3, <1>4, <2>1, <2>2

\* If all archives were seen, no other one has the name.
LEMMA NoSameName ==
  ASSUME LogTypes
  PROVE  /\ NextIndex(IndexOnDay(today)) \in Nat
         /\ SameName(NextIndex(IndexOnDay(today))) = {}
<1>1. /\ NextIndex(IndexOnDay(today)) \in Nat
      /\ NextIndex(IndexOnDay(today)) \notin IndexOnDay(today)
  BY NextIndexNew
<1>2. \A n : n \notin IndexOnDay(today) => SameName(n) = {}
  BY DEF IndexOnDay, SameName
<1>3. QED
  BY <1>1, <1>2

\* So the rename replaces nothing.
LEMMA RenameMoves ==
  ASSUME LogTypes, Rename
  PROVE  /\ archives' \in Seq(Files) /\ active' = <<>>
         /\ Join(archives') = Join(archives) \o active
         /\ Len(archives') = Len(archives) + 1
         /\ \A i \in 1..Len(archives) : archives'[i] = archives[i]
         /\ archives'[Len(archives) + 1].lines = active
<1> DEFINE n == NextIndex(IndexOnDay(today))
<1>1. n \in Nat /\ SameName(n) = {} /\ RenameTo(n)
  BY NoSameName DEF Rename
<1> HIDE DEF n
<1>2. QED
  BY <1>1, RenameToMoves

\* If they were not, it may take out one archive.
LEMMA UnreadMoves ==
  ASSUME LogTypes, RenameUnread
  PROVE  \E rest \in Seq(Files) :
           /\ rest = archives \/ \E i \in 1..Len(archives) : rest = RemoveAt(archives, i)
           /\ archives' \in Seq(Files) /\ active' = <<>>
           /\ Join(archives') = Join(rest) \o active
           /\ Len(archives') = Len(rest) + 1
           /\ \A i \in 1..Len(rest) : archives'[i] = rest[i]
           /\ archives'[Len(rest) + 1].lines = active
<1>1. PICK seen \in SUBSET IndexOnDay(today) : RenameTo(NextIndex(seen))
  BY DEF RenameUnread
<1> DEFINE n == NextIndex(seen)
<1>2. n \in Nat /\ RenameTo(n)
  BY <1>1, NextIndexNew
<1> HIDE DEF n
<1>3. QED
  BY <1>2, RenameToMoves

\* That leaves no more than the archives and the file that joins them, each of
\* which was there before.
LEMMA UnreadLeaves ==
  ASSUME LogTypes, RenameUnread
  PROVE  /\ archives' \in Seq(Files) /\ active' = <<>> /\ Held' = 0
         /\ Stored' \in Nat /\ Stored' <= Stored + Held
         /\ \A k \in 1..Len(archives') :
              \/ archives'[k].lines = active
              \/ \E n \in 1..Len(archives) : archives'[k] = archives[n]
<1>1. PICK rest \in Seq(Files) :
        /\ rest = archives \/ \E i \in 1..Len(archives) : rest = RemoveAt(archives, i)
        /\ archives' \in Seq(Files) /\ active' = <<>>
        /\ Join(archives') = Join(rest) \o active
        /\ Len(archives') = Len(rest) + 1
        /\ \A i \in 1..Len(rest) : archives'[i] = rest[i]
        /\ archives'[Len(rest) + 1].lines = active
  BY UnreadMoves
<1>2. /\ SizeOf(Join(rest)) <= Stored
      /\ \A k \in 1..Len(rest) : \E n \in 1..Len(archives) : rest[k] = archives[n]
  <2>1. CASE rest = archives
    <3>1. Stored \in Nat /\ Stored = SizeOf(Join(rest))
      BY <2>1, JoinConcat, SizeOfNat DEF Stored
    <3>2. QED
      BY <2>1, <3>1
  <2>2. CASE \E i \in 1..Len(archives) : rest = RemoveAt(archives, i)
    BY <2>2, OthersStay
  <2>3. QED
    BY <1>1, <2>1, <2>2
<1>3. Held' = 0
  BY <1>1, SizeOfNat, EmptySeq DEF Held
<1>4. Stored' \in Nat /\ Stored' <= Stored + Held
  <2>1. active \in Seq(Entries) /\ Join(rest) \in Seq(Entries) /\ Join(archives') \in Seq(Entries)
        /\ Join(archives) \in Seq(Entries)
    BY <1>1, JoinConcat DEF LogTypes
  <2>2. SizeOf(Join(rest) \o active) = SizeOf(Join(rest)) + Held
    BY <2>1, SizeOfConcat DEF Held
  <2>3. Stored' = SizeOf(Join(rest) \o active)
    BY <1>1 DEF Stored
  <2>4. /\ SizeOf(Join(rest)) \in Nat /\ Held \in Nat /\ Stored \in Nat
    BY <2>1, SizeOfNat DEF Held, Stored
  <2>5. QED
    BY <1>2, <2>2, <2>3, <2>4
<1>5. ASSUME NEW k \in 1..Len(archives')
      PROVE  \/ archives'[k].lines = active
             \/ \E n \in 1..Len(archives) : archives'[k] = archives[n]
  <2>1. Len(rest) \in Nat /\ k \in 1..(Len(rest) + 1)
    BY <1>1, LenProperties
  <2>2. k = Len(rest) + 1 \/ k \in 1..Len(rest)
    BY <2>1
  <2>3. QED
    BY <1>1, <1>2, <2>2
<1>6. QED
  BY <1>1, <1>3, <1>4, <1>5

\* Trimming removes the first file.
LEMMA TrimIsRemoval ==
  ASSUME LogTypes, TrimOldest
  PROVE  1 \in 1..Len(archives) /\ archives' = RemoveAt(archives, 1)
<1>1. archives \in Seq(Files) /\ Len(archives) \in Nat
  BY LenProperties DEF LogTypes
<1>2. archives # <<>>
  <2> SUFFICES ASSUME archives = <<>> PROVE FALSE
    OBVIOUS
  <2>1. Archived = <<>>
    <3>1. Len(archives) = 0
      BY EmptySeq
    <3>2. QED
      BY <3>1, ArchivedIs, JoinSteps DEF Join
  <2>2. ArchivedSize = 0 /\ ArchivedSize > MaxTotal
    BY <2>1, SizeOfNat, EmptySeq DEF ArchivedSize, TrimOldest
  <2>3. QED
    BY <2>2, LogAssumption
<1>3. 1 \in 1..Len(archives)
  BY <1>1, <1>2, EmptySeq
<1>4. Tail(archives) = SubSeq(archives, 2, Len(archives))
  BY <1>1, <1>2, TailIsSubSeq
<1>5. SubSeq(archives, 1, 1 - 1) = <<>> /\ 1 + 1 = 2
  BY SubSeqEmpty
<1>6. <<>> \o Tail(archives) = Tail(archives)
  <2>1. Tail(archives) \in Seq(Files)
    BY <1>1, <1>2, HeadTailProperties
  <2>2. QED
    BY <2>1, ConcatEmptySeq
<1>7. QED
  BY <1>3, <1>4, <1>5, <1>6 DEF RemoveAt, TrimOldest

-----------------------------------------------------------------------------
(***************************************************************************)
(* The steps of the log.                                                   *)
(***************************************************************************)
\* The steps that leave the files alone, those that change them, and Write.
Idles ==
  \/ UNCHANGED logVars
  \/ OpenActiveFile \/ Close \/ NothingToRename \/ Reopen \/ ExpiryEnds \/ TrimEnds
  \/ LogFails \/ NewDay \/ LogCrash \/ LogRestart
  \/ \E l \in Lines : Write(l)
Removes == RemoveExpired \/ TrimOldest

\* These are all the moves.
LEMMA MovesSplit ==
  LogMoves <=> Idles \/ Removes \/ Rename \/ RenameUnread \/ AppendLine
BY DEF LogMoves, LogStep, Idles, Removes

\* An idle move leaves all files as they are.
LEMMA IdlesKeep ==
  ASSUME Idles
  PROVE  active' = active /\ archives' = archives
<1>1. CASE LogFails
  BY <1>1 DEF LogFails, Fails, CloseFails, Deaf, disk
<1>2. CASE UNCHANGED logVars
  BY <1>2 DEF logVars, disk
<1>3. CASE OpenActiveFile \/ Close \/ NothingToRename \/ Reopen \/ ExpiryEnds \/ TrimEnds
  BY <1>3 DEF OpenActiveFile, Close, NothingToRename, Reopen, ExpiryEnds, TrimEnds, disk
<1>4. CASE NewDay \/ LogCrash \/ LogRestart
  BY <1>4 DEF NewDay, LogCrash, LogRestart, disk
<1>5. CASE \E l \in Lines : Write(l)
  BY <1>5 DEF Write, disk
<1>6. QED
  BY <1>1, <1>2, <1>3, <1>4, <1>5 DEF Idles

\* A removal takes out one file.
LEMMA RemovesTake ==
  ASSUME LogTypes, Removes
  PROVE  \E i \in 1..Len(archives) : archives' = RemoveAt(archives, i)
<1>1. CASE RemoveExpired
  <2>1. archives \in Seq(Files)
    BY DEF LogTypes
  <2>2. Expired \subseteq 1..Len(archives)
    BY <2>1, LenProperties DEF Expired
  <2>3. QED
    BY <1>1, <2>2 DEF RemoveExpired
<1>2. CASE TrimOldest
  BY <1>2, TrimIsRemoval
<1>3. QED
  BY <1>1, <1>2 DEF Removes

\* A line has a size up to the longest, and is a line.
LEMMA LineSizes ==
  ASSUME NEW l \in Lines
  PROVE  l.size \in Nat /\ l.size <= MaxLine /\ l.size \in 1..MaxLine /\ l # NoLine
BY TelemetryAssumption DEF Lines

\* An append adds the line in hand to the active file, with its size.
LEMMA AppendGrows ==
  ASSUME LogTypes, StepInv, AppendLine
  PROVE  \E e \in Entries :
           /\ line \in Lines /\ e.size = line.size /\ e.day = today
           /\ active' = Append(active, e) /\ active' \in Seq(Entries)
           /\ Held' = Held + line.size /\ archives' = archives
<1> DEFINE e == [text |-> line, size |-> line.size, day |-> today]
<1>1. line \in Lines
  BY DEF LogTypes, StepInv, AppendLine
<1>2. e \in Entries /\ e.size = line.size /\ e.day = today
  BY <1>1, LineSizes DEF Entries, LogTypes
<1>3. active' = Append(active, e) /\ archives' = archives /\ active \in Seq(Entries)
  BY DEF AppendLine, LogTypes
<1>4. QED
  <2> HIDE DEF e
  <2> QED
    BY <1>1, <1>2, <1>3, SizeOfAppend DEF Held

\* The sizes before and after a step.
LEMMA Volumes ==
  ASSUME LogTypes
  PROVE  Held \in Nat /\ Stored \in Nat /\ ArchivedSize = Stored /\ (active = <<>> => Held = 0)
<1>1. active \in Seq(Entries) /\ archives \in Seq(Files)
  BY DEF LogTypes
<1>2. Join(archives) \in Seq(Entries)
  BY <1>1, JoinConcat
<1>3. QED
  BY <1>1, <1>2, SizeOfNat, ArchivedIs DEF Held, Stored, ArchivedSize

\* Moves keep the types.
LEMMA LogTypesStep ==
  ASSUME LogTypes, StepInv, LogMoves
  PROVE  LogTypes'
<1>1. active' \in Seq(Entries) /\ archives' \in Seq(Files)
  <2>1. active \in Seq(Entries) /\ archives \in Seq(Files) /\ <<>> \in Seq(Entries)
    BY DEF LogTypes
  <2>2. CASE Idles
    BY <2>1, <2>2, IdlesKeep
  <2>3. CASE Removes
    <3>1. active' = active
      BY <2>3 DEF Removes, RemoveExpired, TrimOldest
    <3>2. QED
      BY <2>1, <2>3, <3>1, RemovesTake, RemoveTakes
  <2>4. CASE Rename
    BY <2>1, <2>4, RenameMoves
  <2>5. CASE AppendLine
    BY <2>1, <2>5, AppendGrows
  <2>6. CASE RenameUnread
    BY <2>1, <2>6, UnreadLeaves
  <2>7. QED
    BY <2>2, <2>3, <2>4, <2>5, <2>6, MovesSplit
<1>2. OpenedSize \in Nat
  BY SizeOfNat DEF LogTypes, OpenedSize
<1> DEFINE Rest == /\ file' \in {"nil", "open", "closed"} /\ size' \in Nat /\ today' \in Nat
                   /\ step' \in Steps /\ line' \in Lines \cup {NoLine}
                   /\ failures' \in Nat /\ crashes' \in Nat /\ lost' \in Nat
                   /\ closeFailed' \in BOOLEAN
<1>3. CASE UNCHANGED logVars
  BY <1>1, <1>3 DEF LogTypes, logVars, writer, disk, counts
<1>4. CASE \E l \in Lines : Write(l)
  <2>1. Rest
    BY <1>4 DEF LogTypes, Write, AfterOpen, Steps, writer, counts
  <2>2. QED
    BY <1>1, <2>1 DEF LogTypes
<1>5. CASE OpenActiveFile \/ Close \/ Reopen
  <2>1. Rest
    BY <1>2, <1>5 DEF LogTypes, OpenActiveFile, Close, AfterClose, Reopen, AfterOpen, Steps, counts
  <2>2. QED
    BY <1>1, <2>1 DEF LogTypes
<1>6. CASE Rename \/ RenameUnread \/ NothingToRename
  <2>1. /\ file' = file /\ size' = size /\ today' = today /\ line' = line /\ step' = "reopen"
        /\ crashes' = crashes /\ lost' = lost /\ closeFailed' = closeFailed
    BY <1>6 DEF Rename, RenameUnread, RenameTo, NothingToRename, writer
  <2>2. failures' = failures \/ failures' = failures + 1
    BY <1>6 DEF Rename, RenameUnread, NothingToRename, CallFails
  <2>3. Rest
    BY <2>1, <2>2 DEF LogTypes, Steps
  <2>4. QED
    BY <1>1, <2>3 DEF LogTypes
<1>7. CASE RemoveExpired \/ ExpiryEnds \/ TrimOldest \/ TrimEnds
  <2>1. Rest
    BY <1>7 DEF LogTypes, RemoveExpired, ExpiryEnds, TrimOldest, TrimEnds, Steps, writer, counts
  <2>2. QED
    BY <1>1, <2>1 DEF LogTypes
<1>8. CASE AppendLine
  <2>1. line \in Lines
    BY <1>8 DEF LogTypes, StepInv, AppendLine
  <2>2. Rest
    BY <1>8, <2>1, LineSizes DEF LogTypes, AppendLine, Steps, counts
  <2>3. QED
    BY <1>1, <2>2 DEF LogTypes
<1>9. CASE LogFails
  <2>1. GiveUp => step' \in Steps /\ line' = NoLine /\ lost' \in Nat
    BY DEF LogTypes, GiveUp, Steps
  <2>2. ASSUME NEW at \in Steps, Fails(at), UNCHANGED writer PROVE Rest
    BY <2>1, <2>2 DEF LogTypes, Fails, CallFails, writer
  <2>3. ASSUME CloseFails PROVE Rest
    BY <2>1, <2>3 DEF LogTypes, CloseFails, CallFails
  <2>4. ASSUME Deaf PROVE Rest
    BY <2>1, <2>4 DEF LogTypes, Deaf, writer
  <2>5. Rest
    BY <1>9, <2>2, <2>3, <2>4 DEF LogFails
  <2>6. QED
    BY <1>1, <2>5 DEF LogTypes
<1>10. CASE NewDay \/ LogRestart
  <2>1. Rest
    BY <1>2, <1>10 DEF LogTypes, NewDay, LogRestart, Steps, writer, counts
  <2>2. QED
    BY <1>1, <2>1 DEF LogTypes
<1>11. CASE LogCrash
  <2>1. lost' \in Nat /\ crashes' \in Nat
    BY <1>11 DEF LogTypes, LogCrash
  <2>2. Rest
    BY <1>11, <2>1 DEF LogTypes, LogCrash, Steps
  <2>3. QED
    BY <1>1, <2>2 DEF LogTypes
<1>12. QED
  BY <1>3, <1>4, <1>5, <1>6, <1>7, <1>8, <1>9, <1>10, <1>11 DEF LogMoves, LogStep

\* Moves keep the line in hand and the known size in step.
LEMMA StepStep ==
  ASSUME LogTypes, StepInv, LogMoves
  PROVE  StepInv'
<1>1. Held' = SizeOf(active') /\ OpenedSize = SizeOf(active)
  BY DEF Held, OpenedSize
<1>2. CASE UNCHANGED logVars
  BY <1>2 DEF StepInv, Held, logVars, writer, disk, counts
<1>3. CASE \E l \in Lines : Write(l)
  BY <1>3, LineSizes DEF StepInv, Held, Write, AfterOpen, writer, disk
<1>4. CASE OpenActiveFile \/ Close \/ Reopen
  BY <1>1, <1>4 DEF StepInv, OpenActiveFile, Close, AfterClose, Reopen, AfterOpen, disk
<1>5. CASE Rename \/ RenameUnread
  BY <1>5 DEF StepInv, Rename, RenameUnread, RenameTo, writer
<1>6. CASE NothingToRename
  BY <1>6 DEF StepInv, Held, NothingToRename, writer, disk
<1>7. CASE RemoveExpired \/ ExpiryEnds \/ TrimOldest \/ TrimEnds
  BY <1>7 DEF StepInv, Held, RemoveExpired, ExpiryEnds, TrimOldest, TrimEnds, writer, disk
<1>8. CASE AppendLine
  <2>1. Held' = Held + line.size
    BY <1>8, AppendGrows
  <2>2. QED
    BY <1>8, <2>1 DEF StepInv, AppendLine
<1>9. CASE LogFails
  <2>1. GiveUp => line' = NoLine /\ step' \in {"idle", "down"}
    BY DEF GiveUp
  <2>2. ASSUME NEW at \in Steps, Fails(at), UNCHANGED writer PROVE StepInv'
    BY <2>1, <2>2 DEF StepInv, Held, Fails, writer, disk
  <2>3. CASE CloseFails
    BY <2>1, <2>3 DEF StepInv, CloseFails
  <2>4. CASE Deaf
    BY <2>1, <2>4 DEF StepInv, Held, Deaf, writer, disk
  <2>5. QED
    BY <1>9, <2>2, <2>3, <2>4 DEF LogFails
<1>10. CASE NewDay \/ LogCrash \/ LogRestart
  BY <1>1, <1>10 DEF StepInv, Held, NewDay, LogCrash, LogRestart, writer, disk
<1>11. QED
  BY <1>2, <1>3, <1>4, <1>5, <1>6, <1>7, <1>8, <1>9, <1>10 DEF LogMoves, LogStep

\* A rename replaces an archive only if it could not see them all.
LEMMA ReplacedStep ==
  ASSUME LogTypes, LostInv, Rename \/ RenameUnread
  PROVE  /\ unread' \in Nat /\ replaced' \in Nat /\ replaced' <= unread'
         /\ \/ unread' = unread /\ failures' = failures
            \/ unread' = unread + 1 /\ failures' = failures + 1
<1>1. unread \in Nat /\ replaced \in Nat /\ replaced <= unread
  BY DEF LostInv
<1>2. CASE Rename
  <2>1. SameName(NextIndex(IndexOnDay(today))) = {}
    BY NoSameName
  <2>2. replaced' = replaced + 0 /\ unread' = unread /\ failures' = failures
    BY <1>2, <2>1 DEF Rename, RenameTo
  <2>3. QED
    BY <1>1, <2>2
<1>3. CASE RenameUnread
  <2>1. /\ replaced' = replaced + 0 \/ replaced' = replaced + 1
        /\ unread' = unread + 1 /\ failures' = failures + 1
    BY <1>3 DEF RenameUnread, RenameTo, CallFails
  <2>2. QED
    BY <1>1, <2>1
<1>4. QED
  BY <1>2, <1>3

\* A line or an archive is lost only with a failure or a crash, and the log deaf
\* only after Close failed.
LEMMA LostStep ==
  ASSUME LogTypes, LostInv, LogMoves
  PROVE  LostInv'
<1>1. /\ lost \in Nat /\ failures \in Nat /\ crashes \in Nat /\ unread \in Nat /\ replaced \in Nat
      /\ lost + unread <= failures + crashes /\ replaced <= unread
  BY DEF LogTypes, LostInv
\* A step that replaces nothing.
<1>2. ASSUME UNCHANGED replacements, file' = "closed" => closeFailed',
             \/ lost' = lost /\ failures' \in {failures, failures + 1} /\ crashes' = crashes
             \/ /\ lost' \in {lost, lost + 1}
                /\ \/ failures' = failures + 1 /\ crashes' = crashes
                   \/ failures' = failures /\ crashes' = crashes + 1
      PROVE  LostInv'
  <2>1. unread' = unread /\ replaced' = replaced
    BY <1>2 DEF replacements
  <2>2. lost' + unread' <= failures' + crashes'
    BY <1>1, <1>2, <2>1
  <2>3. QED
    BY <1>1, <1>2, <2>1, <2>2 DEF LostInv
<1>3. CASE LogFails
  <2>1. GiveUp => lost' = lost \/ (lost' = lost + 1 /\ ~closeFailed)
    BY <1>1 DEF GiveUp
  <2>2. ASSUME NEW at \in Steps, Fails(at), UNCHANGED writer PROVE LostInv'
    <3>1. failures' = failures + 1 /\ crashes' = crashes /\ lost' \in {lost, lost + 1}
          /\ UNCHANGED replacements
      BY <2>1, <2>2 DEF Fails, CallFails
    <3>2. file' = "closed" => closeFailed'
      BY <2>2 DEF LostInv, Fails, writer
    <3>3. QED
      BY <1>2, <3>1, <3>2
  <2>3. CASE CloseFails
    <3>1. /\ \/ failures' = failures + 1 /\ lost' \in {lost, lost + 1}
             \/ failures' = failures /\ lost' = lost
          /\ crashes' = crashes /\ closeFailed' /\ UNCHANGED replacements
      BY <2>1, <2>3 DEF CloseFails, CallFails, LostInv
    <3>2. QED
      BY <1>2, <3>1
  <2>4. CASE Deaf
    <3>1. closeFailed
      BY <2>4 DEF LostInv, Deaf
    <3>2. /\ lost' = lost /\ failures' = failures /\ crashes' = crashes
          /\ closeFailed' = closeFailed /\ UNCHANGED replacements
      BY <2>1, <2>4, <3>1 DEF Deaf
    <3>3. QED
      BY <1>2, <3>1, <3>2
  <2>5. QED
    BY <1>3, <2>2, <2>3, <2>4 DEF LogFails
<1>4. CASE LogCrash
  <2>1. lost' \in {lost, lost + 1} /\ crashes' = crashes + 1 /\ failures' = failures
        /\ file' = "nil" /\ UNCHANGED replacements
    BY <1>1, <1>4 DEF LogCrash
  <2>2. QED
    BY <1>2, <2>1
<1>5. CASE Rename \/ RenameUnread
  <2>1. lost' = lost /\ crashes' = crashes /\ closeFailed' = closeFailed /\ file' = file
    BY <1>5 DEF Rename, RenameUnread, RenameTo, writer
  <2>2. /\ unread' \in Nat /\ replaced' \in Nat /\ replaced' <= unread'
        /\ \/ unread' = unread /\ failures' = failures
           \/ unread' = unread + 1 /\ failures' = failures + 1
    BY <1>5, ReplacedStep
  <2>3. lost' + unread' <= failures' + crashes'
    BY <1>1, <2>1, <2>2
  <2>4. file' = "closed" => closeFailed'
    BY <2>1 DEF LostInv
  <2>5. QED
    BY <2>2, <2>3, <2>4 DEF LostInv
<1>6. CASE ~LogFails /\ ~LogCrash /\ ~Rename /\ ~RenameUnread
  <2>1. lost' = lost /\ crashes' = crashes /\ closeFailed' = closeFailed
        /\ failures' \in {failures, failures + 1} /\ UNCHANGED replacements
    BY <1>6 DEF LogMoves, LogStep, logVars, Write, OpenActiveFile, Close, NothingToRename,
                CallFails, Reopen, RemoveExpired, ExpiryEnds, TrimOldest, TrimEnds, AppendLine,
                NewDay, LogRestart, counts
  <2>2. file' = "closed" => file = "closed"
    BY <1>6 DEF LogMoves, LogStep, logVars, Write, OpenActiveFile, Close, AfterClose,
                NothingToRename, Reopen, RemoveExpired, ExpiryEnds, TrimOldest, TrimEnds,
                AppendLine, NewDay, LogRestart, writer
  <2>3. file' = "closed" => closeFailed'
    BY <2>1, <2>2 DEF LostInv
  <2>4. QED
    BY <1>2, <2>1, <2>3
<1>7. QED
  BY <1>3, <1>4, <1>5, <1>6

\* The bounds grow with each failure.
LEMMA BoundSteps ==
  ASSUME NEW n \in Nat
  PROVE  /\ LinesFor(n) \in Nat /\ FilesFor(n) \in Nat /\ LinesFor(n) <= FilesFor(n)
         /\ LinesFor(n + 1) = LinesFor(n) + MaxLine
         /\ FilesFor(n + 1) = FilesFor(n) + MaxFile + MaxLine
<1>1. MaxFile \in Nat /\ MaxLine \in Nat
  BY LogAssumption, TelemetryAssumption
<1>2. \A k, f, l \in Nat : k * l \in Nat /\ k * f \in Nat
  OBVIOUS
<1>3. \A k, f, l \in Nat : k * (f + l) = k * f + k * l
  OBVIOUS
<1>4. \A k, l \in Nat : (k + 1) * l = k * l + l
  OBVIOUS
<1>5. n * MaxLine \in Nat /\ n * MaxFile \in Nat
      /\ n * (MaxFile + MaxLine) = n * MaxFile + n * MaxLine
  BY <1>1, <1>2, <1>3
<1>6. n * (MaxFile + MaxLine) \in Nat /\ n * MaxLine <= n * (MaxFile + MaxLine)
  <2>1. \A x, y, z \in Nat : z = x + y => y <= z
    OBVIOUS
  <2>2. n * (MaxFile + MaxLine) \in Nat
    BY <1>1
  <2>3. QED
    BY <1>5, <2>1, <2>2
<1>7. (n + 1) * MaxLine = n * MaxLine + MaxLine
      /\ (n + 1) * (MaxFile + MaxLine) = n * (MaxFile + MaxLine) + (MaxFile + MaxLine)
  BY <1>1, <1>4
<1>8. n * (MaxFile + MaxLine) + (MaxFile + MaxLine) = n * (MaxFile + MaxLine) + MaxFile + MaxLine
  BY <1>1, <1>6
<1>9. QED
  BY <1>5, <1>6, <1>7, <1>8 DEF LinesFor, FilesFor

\* What a failing call does, in the terms of the bounds.
LEMMA FailsTells ==
  ASSUME LogTypes, StepInv, LogFails
  PROVE  /\ line' = NoLine /\ step' \in {"idle", "down"}
         /\ \/ failures' = failures + 1
            \/ failures' = failures /\ step \in {"close", "append"}
<1>1. GiveUp => line' = NoLine /\ step' \in {"idle", "down"}
  BY DEF GiveUp
<1>2. ASSUME NEW at \in Steps, Fails(at)
      PROVE  GiveUp /\ failures' = failures + 1
  BY <1>2 DEF Fails, CallFails
<1>3. CASE CloseFails
  BY <1>1, <1>3 DEF CloseFails, CallFails
<1>4. CASE Deaf
  BY <1>1, <1>4 DEF Deaf
<1>5. QED
  BY <1>1, <1>2, <1>3, <1>4 DEF LogFails

\* Moves keep the bound of the active file.
LEMMA ActiveStep ==
  ASSUME LogTypes, StepInv, ActiveInv, ArchiveInv, LogMoves
  PROVE  ActiveInv'
<1> DEFINE F == LinesFor(failures)
<1>1. /\ failures \in Nat /\ Held \in Nat /\ F \in Nat /\ MaxFile \in Nat /\ MaxLine \in Nat
      /\ LinesFor(failures + 1) = F + MaxLine
  BY Volumes, BoundSteps, LogAssumption, TelemetryAssumption DEF LogTypes
<1>2. /\ Held <= MaxFile + F + MaxLine /\ (Rotates => Held <= MaxFile + F)
      /\ (failures = 0 => Held <= MaxFile \/ Len(active) = 1)
      /\ (failures = 0 /\ Rotates => active = <<>>)
      /\ (failures = 0 /\ step = "append" /\ file = "open" => Fits \/ active = <<>>)
  BY DEF ActiveInv
<1>3. ASSUME active' = active
      PROVE  Held' = Held /\ Len(active') = Len(active)
  BY <1>3 DEF Held
\* A step that leaves the active file and starts no line.
<1>4. ASSUME active' = active, failures' = failures, ~Rotates' \/ Rotates,
             ~(step' = "append" /\ file' = "open")
      PROVE  ActiveInv'
  BY <1>2, <1>3, <1>4 DEF ActiveInv
<1>5. ASSUME active' = active, failures' = failures + 1, ~Rotates', step' # "append"
      PROVE  ActiveInv'
  <2>1. failures' # 0 /\ LinesFor(failures') = F + MaxLine
    BY <1>1, <1>5
  <2>2. Held' <= MaxFile + LinesFor(failures') + MaxLine
    BY <1>1, <1>2, <1>3, <1>5, <2>1
  <2>3. QED
    BY <1>5, <2>1, <2>2 DEF ActiveInv
<1>6. CASE UNCHANGED logVars
  <2>1. active' = active /\ failures' = failures /\ line' = line /\ step' = step /\ file' = file
    BY <1>6 DEF logVars, writer, disk, counts
  <2>2. QED
    BY <1>2, <1>3, <2>1 DEF ActiveInv, Rotates, Fits
<1>7. CASE \E l \in Lines : Write(l)
  <2>1. PICK l \in Lines : Write(l)
    BY <1>7
  <2>2. /\ active' = active /\ failures' = failures /\ file' = file /\ line' = l
        /\ step' \in {"open", "close", "append"} /\ step = "idle"
        /\ (step' = "append" => size + l.size <= MaxFile)
    <3>1. size \in Nat /\ l.size \in Nat
      BY LineSizes DEF LogTypes
    <3>2. QED
      BY <1>1, <2>1, <3>1 DEF Write, AfterOpen, writer, disk, counts
  <2>3. step' = "append" /\ file' = "open" => Fits'
    BY <1>3, <2>2 DEF StepInv, Fits
  <2>4. ~Rotates'
    BY <2>2 DEF Rotates
  <2>5. QED
    BY <1>2, <1>3, <2>2, <2>3, <2>4 DEF ActiveInv
<1>8. CASE OpenActiveFile
  <2>1. /\ active' = active /\ failures' = failures /\ line' = line /\ step' \in {"close", "append"}
        /\ (step' = "append" => Held + line.size <= MaxFile)
    <3>1. line.size \in Nat /\ OpenedSize = Held
      BY <1>8, LineSizes DEF LogTypes, StepInv, OpenActiveFile, OpenedSize, Held
    <3>2. QED
      BY <1>1, <1>8, <3>1 DEF OpenActiveFile, AfterOpen, disk, counts
  <2>2. (step' = "append" => Fits') /\ ~Rotates'
    BY <1>3, <2>1 DEF Fits, Rotates
  <2>3. QED
    BY <1>2, <1>3, <2>1, <2>2 DEF ActiveInv
<1>9. CASE Close \/ Reopen \/ RemoveExpired \/ ExpiryEnds \/ TrimOldest
  <2>1. /\ active' = active /\ failures' = failures /\ step' # "append"
        /\ (Rotates' => Rotates)
    BY <1>9 DEF Close, Reopen, RemoveExpired, ExpiryEnds, TrimOldest, Rotates, disk, counts
  <2>2. QED
    BY <1>4, <2>1
<1>10. CASE Rename
  <2>1. /\ active' = <<>> /\ failures' = failures /\ line' = line /\ step' = "reopen" /\ Len(active') = 0
    BY <1>10 DEF Rename, RenameTo
  <2>2. Held' = 0
    BY <2>1, SizeOfNat, EmptySeq DEF Held
  <2>3. QED
    BY <1>1, <2>1, <2>2 DEF ActiveInv
<1>18. CASE RenameUnread
  <2>1. failures' = failures + 1 /\ step' = "reopen" /\ Held' = 0
    BY <1>18, UnreadLeaves DEF RenameUnread, RenameTo, CallFails
  <2>2. failures' # 0 /\ LinesFor(failures') = F + MaxLine
    BY <1>1, <2>1
  <2>3. /\ Held' <= MaxFile + LinesFor(failures') + MaxLine
        /\ Held' <= MaxFile + LinesFor(failures')
    BY <1>1, <2>1, <2>2
  <2>4. QED
    BY <2>1, <2>2, <2>3 DEF ActiveInv
<1>11. CASE NothingToRename
  <2>1. active' = active /\ line' = line /\ step' = "reopen"
    BY <1>11 DEF NothingToRename, disk
  <2>2. CASE active = <<>> /\ failures' = failures
    <3>1. Held' = 0
      BY <1>3, <2>1, <2>2, Volumes
    <3>2. QED
      BY <1>1, <2>1, <2>2, <3>1 DEF ActiveInv
  <2>3. CASE failures' = failures + 1
    <3>1. failures' # 0 /\ LinesFor(failures') = F + MaxLine
      BY <1>1, <2>3
    <3>2. Held' <= MaxFile + LinesFor(failures') /\ Held' <= MaxFile + LinesFor(failures') + MaxLine
      BY <1>1, <1>2, <1>3, <2>1, <3>1
    <3>3. QED
      BY <2>1, <3>1, <3>2 DEF ActiveInv
  <2>4. QED
    BY <1>11, <2>2, <2>3 DEF NothingToRename, CallFails
<1>12. CASE TrimEnds
  <2>1. /\ active' = active /\ failures' = failures /\ line' = line /\ step = "trim"
        /\ step' \in {"idle", "append"} /\ (step' = "append" => Rotates)
    BY <1>12 DEF TrimEnds, Rotates, disk, counts
  <2>2. ~Rotates'
    BY <2>1 DEF Rotates
  <2>3. failures' = 0 /\ step' = "append" => active' = <<>>
    BY <1>2, <2>1
  <2>4. QED
    BY <1>2, <1>3, <2>1, <2>2, <2>3 DEF ActiveInv
<1>13. CASE AppendLine
  <2>1. /\ failures' = failures /\ step' = "idle" /\ step = "append" /\ file = "open"
    BY <1>13 DEF AppendLine, counts
  <2>2. PICK e \in Entries : /\ line \in Lines /\ active' = Append(active, e)
                             /\ Held' = Held + line.size
    BY <1>13, AppendGrows
  <2>3. line.size \in Nat /\ line.size <= MaxLine
    BY <2>2, LineSizes
  <2>4. Held' <= MaxFile + F + MaxLine
    <3>1. CASE Fits
      BY <1>1, <2>2, <2>3, <3>1 DEF Fits
    <3>2. CASE ~Fits
      <4>1. Held <= MaxFile + F
        BY <2>1, <3>2 DEF ArchiveInv
      <4>2. QED
        BY <1>1, <2>2, <2>3, <4>1
    <3>3. QED
      BY <3>1, <3>2
  <2>5. failures = 0 => Held' <= MaxFile \/ Len(active') = 1
    <3>1. CASE Fits
      BY <2>2, <3>1 DEF Fits
    <3>2. CASE active = <<>>
      BY <2>2, <3>2
    <3>3. QED
      BY <1>2, <2>1, <3>1, <3>2
  <2>6. QED
    BY <2>1, <2>4, <2>5 DEF ActiveInv, Rotates
<1>14. CASE LogFails
  <2>1. active' = active
    BY <1>14, IdlesKeep DEF Idles
  <2>2. line' = NoLine /\ step' \in {"idle", "down"}
        /\ (failures' = failures + 1 \/ failures' = failures)
    BY <1>14, FailsTells
  <2>3. ~Rotates' /\ step' # "append"
    BY <2>2 DEF Rotates
  <2>4. QED
    BY <1>4, <1>5, <2>1, <2>2, <2>3
<1>15. CASE LogCrash \/ LogRestart
  <2>1. active' = active /\ failures' = failures /\ line' = NoLine /\ step' # "append"
    BY <1>15 DEF LogCrash, LogRestart, StepInv, disk, counts
  <2>2. ~Rotates'
    BY <2>1 DEF Rotates
  <2>3. QED
    BY <1>4, <2>1, <2>2
<1>16. CASE NewDay
  <2>1. /\ active' = active /\ failures' = failures /\ line' = line /\ step' = step /\ file' = file
    BY <1>16 DEF NewDay, writer, disk, counts
  <2>2. QED
    BY <1>2, <1>3, <2>1 DEF ActiveInv, Rotates, Fits
<1>17. QED
  BY <1>6, <1>7, <1>8, <1>9, <1>10, <1>11, <1>12, <1>13, <1>14, <1>15, <1>16, <1>18
     DEF LogMoves, LogStep

\* The archives stay within their bound: what a trim left over, a file for each
\* failing call, and the file that a rotation adds.
LEMMA ArchiveStep ==
  ASSUME LogTypes, StepInv, ActiveInv, ArchiveInv, LogMoves
  PROVE  ArchiveInv'
<1> DEFINE F == LinesFor(failures)
           G == FilesFor(failures)
           Trimmed == {"idle", "open", "close", "rename", "append"}
<1>1. /\ failures \in Nat /\ Held \in Nat /\ Stored \in Nat /\ F \in Nat /\ G \in Nat
      /\ MaxFile \in Nat /\ MaxLine \in Nat /\ MaxTotal \in Nat
      /\ F <= G /\ FilesFor(failures + 1) = G + MaxFile + MaxLine
  BY Volumes, BoundSteps, LogAssumption, TelemetryAssumption DEF LogTypes
<1>2. /\ Stored + Held <= MaxTotal + G + MaxFile + MaxLine
      /\ (step \in Trimmed => Stored <= MaxTotal + G)
      /\ (step = "append" /\ file = "open" => Fits \/ (Stored <= MaxTotal /\ Held <= MaxFile + F))
  BY DEF ArchiveInv
<1>3. Idles => Held' = Held /\ Stored' = Stored
  BY IdlesKeep DEF Held, Stored
<1> DEFINE NextFits == step' = "append" /\ file' = "open" =>
                         Fits' \/ (Stored <= MaxTotal /\ Held <= MaxFile + F)
<1>4. ASSUME Held' = Held, Stored' = Stored, failures' = failures, NextFits,
             step' \in Trimmed => step \in Trimmed \/ Stored <= MaxTotal
      PROVE  ArchiveInv'
  <2>1. step' \in Trimmed => Stored' <= MaxTotal + G
    BY <1>1, <1>2, <1>4
  <2>2. QED
    BY <1>2, <1>4, <2>1 DEF ArchiveInv
<1>5. ASSUME Held' = Held, Stored' = Stored, failures' = failures + 1, step' # "append"
      PROVE  ArchiveInv'
  <2>1. FilesFor(failures') = G + MaxFile + MaxLine
    BY <1>1, <1>5
  <2>2. /\ Stored' + Held' <= MaxTotal + FilesFor(failures') + MaxFile + MaxLine
        /\ Stored' <= MaxTotal + FilesFor(failures')
    BY <1>1, <1>2, <1>5, <2>1
  <2>3. QED
    BY <1>5, <2>2 DEF ArchiveInv
<1>6. CASE UNCHANGED logVars
  <2>1. failures' = failures /\ line' = line /\ step' = step /\ file' = file
    BY <1>6 DEF logVars, writer, counts
  <2>2. Held' = Held /\ Stored' = Stored
    BY <1>3, <1>6 DEF Idles
  <2>3. NextFits
    BY <1>2, <2>1, <2>2 DEF Fits
  <2>4. QED
    BY <1>4, <2>1, <2>2, <2>3
<1>7. CASE \E l \in Lines : Write(l)
  <2>1. PICK l \in Lines : Write(l)
    BY <1>7
  <2>2. /\ failures' = failures /\ file' = file /\ line' = l /\ step = "idle"
        /\ (step' = "append" => size + l.size <= MaxFile)
    <3>1. size \in Nat /\ l.size \in Nat
      BY LineSizes DEF LogTypes
    <3>2. QED
      BY <1>1, <2>1, <3>1 DEF Write, AfterOpen, writer, counts
  <2>3. Held' = Held /\ Stored' = Stored
    BY <1>3, <1>7 DEF Idles
  <2>4. NextFits
    BY <2>2, <2>3 DEF StepInv, Fits
  <2>5. QED
    BY <1>4, <2>2, <2>3, <2>4
<1>8. CASE OpenActiveFile
  <2>1. Held' = Held /\ Stored' = Stored
    BY <1>3, <1>8 DEF Idles
  <2>2. /\ failures' = failures /\ line' = line /\ step = "open"
        /\ (step' = "append" => Held + line.size <= MaxFile)
    <3>1. line.size \in Nat /\ OpenedSize = Held
      BY <1>8, LineSizes DEF LogTypes, StepInv, OpenActiveFile, OpenedSize, Held
    <3>2. QED
      BY <1>1, <1>8, <3>1 DEF OpenActiveFile, AfterOpen, counts
  <2>3. NextFits
    BY <2>1, <2>2 DEF Fits
  <2>4. QED
    BY <1>4, <2>1, <2>2, <2>3
<1>9. CASE Close \/ Reopen \/ ExpiryEnds \/ LogCrash \/ LogRestart
  <2>1. Held' = Held /\ Stored' = Stored
    BY <1>3, <1>9 DEF Idles
  <2>2. /\ failures' = failures /\ step' # "append"
        /\ step' \in Trimmed => step \in Trimmed
    BY <1>9 DEF Close, Reopen, ExpiryEnds, LogCrash, LogRestart, counts
  <2>3. QED
    BY <1>4, <2>1, <2>2
<1>10. CASE NewDay
  <2>1. Held' = Held /\ Stored' = Stored
    BY <1>3, <1>10 DEF Idles
  <2>2. failures' = failures /\ line' = line /\ step' = step /\ file' = file
    BY <1>10 DEF NewDay, writer, counts
  <2>3. NextFits
    BY <1>2, <2>1, <2>2 DEF Fits
  <2>4. QED
    BY <1>4, <2>1, <2>2, <2>3
<1>11. CASE NothingToRename
  <2>1. Held' = Held /\ Stored' = Stored
    BY <1>3, <1>11 DEF Idles
  <2>2. step' = "reopen" /\ (failures' = failures \/ failures' = failures + 1)
    BY <1>11 DEF NothingToRename, CallFails
  <2>3. QED
    BY <1>4, <1>5, <2>1, <2>2
<1>12. CASE TrimEnds
  <2>1. Held' = Held /\ Stored' = Stored
    BY <1>3, <1>12 DEF Idles
  <2>2. /\ failures' = failures /\ step = "trim" /\ Stored <= MaxTotal
        /\ (step' = "append" => Rotates)
    BY <1>12, Volumes DEF TrimEnds, Rotates, counts
  <2>3. Rotates => Held <= MaxFile + F
    BY DEF ActiveInv
  <2>4. QED
    BY <1>4, <2>1, <2>2, <2>3
<1>13. CASE LogFails
  <2>1. Held' = Held /\ Stored' = Stored
    BY <1>3, <1>13 DEF Idles
  <2>2. /\ step' \in {"idle", "down"}
        /\ (failures' = failures + 1 \/ (failures' = failures /\ step \in {"close", "append"}))
    BY <1>13, FailsTells
  <2>3. QED
    BY <1>4, <1>5, <2>1, <2>2
<1>14. CASE Rename
  <2>1. failures' = failures /\ step' = "reopen"
    BY <1>14 DEF Rename, RenameTo
  <2>2. Held' = 0
    BY <1>14, RenameMoves, SizeOfNat, EmptySeq DEF Held
  <2>3. Stored' = Stored + Held
    <3>1. active \in Seq(Entries) /\ Join(archives) \in Seq(Entries)
      BY JoinConcat DEF LogTypes
    <3>2. QED
      BY <1>14, <3>1, RenameMoves, SizeOfConcat DEF Held, Stored
  <2>4. Stored' + Held' <= MaxTotal + G + MaxFile + MaxLine
    BY <1>1, <1>2, <2>2, <2>3
  <2>5. QED
    BY <2>1, <2>4 DEF ArchiveInv
<1>18. CASE RenameUnread
  <2>1. failures' = failures + 1 /\ step' = "reopen" /\ Held' = 0
        /\ Stored' \in Nat /\ Stored' <= Stored + Held
    BY <1>18, UnreadLeaves DEF RenameUnread, RenameTo, CallFails
  <2>2. FilesFor(failures') = G + MaxFile + MaxLine
    BY <1>1, <2>1
  <2>3. Stored' + Held' <= MaxTotal + FilesFor(failures') + MaxFile + MaxLine
    BY <1>1, <1>2, <2>1, <2>2
  <2>4. QED
    BY <2>1, <2>3 DEF ArchiveInv
<1>15. CASE Removes
  <2>1. active' = active /\ failures' = failures /\ step' = step /\ step \in {"expire", "trim"}
    BY <1>15 DEF Removes, RemoveExpired, TrimOldest, counts
  <2>2. Stored' \in Nat /\ Stored' <= Stored
    <3>1. archives' \in Seq(Files) /\ Stored' <= Stored
      BY <1>15, RemovesTake, RemoveTakes
    <3>2. QED
      BY <3>1, JoinConcat, SizeOfNat DEF Stored
  <2>3. Stored' + Held' <= MaxTotal + G + MaxFile + MaxLine
    BY <1>1, <1>2, <2>1, <2>2 DEF Held
  <2>4. QED
    BY <2>1, <2>3 DEF ArchiveInv
<1>16. CASE AppendLine
  <2>1. failures' = failures /\ step' = "idle" /\ step = "append" /\ file = "open"
    BY <1>16 DEF AppendLine, counts
  <2>2. line \in Lines /\ archives' = archives /\ Held' = Held + line.size
    BY <1>16, AppendGrows
  <2>3. Stored' = Stored
    BY <2>2 DEF Stored
  <2>4. line.size \in Nat /\ line.size <= MaxLine
    BY <2>2, LineSizes
  <2>5. Stored <= MaxTotal + G
    BY <1>2, <2>1
  <2>6. Stored' + Held' <= MaxTotal + G + MaxFile + MaxLine
    <3>1. CASE Fits
      BY <1>1, <2>2, <2>3, <2>4, <2>5, <3>1 DEF Fits
    <3>2. CASE Stored <= MaxTotal /\ Held <= MaxFile + F
      BY <1>1, <2>2, <2>3, <2>4, <3>2
    <3>3. QED
      BY <1>2, <2>1, <3>1, <3>2
  <2>7. QED
    BY <2>1, <2>3, <2>5, <2>6 DEF ArchiveInv
<1>17. QED
  BY <1>6, <1>7, <1>8, <1>9, <1>10, <1>11, <1>12, <1>13, <1>14, <1>15, <1>16, <1>18
     DEF LogMoves, LogStep, Removes

\* Days never go back, and neither do the lines of a file.
LEMMA OrderStep ==
  ASSUME LogTypes, StepInv, OrderInv, LogMoves
  PROVE  OrderInv'
<1>1. today \in Nat /\ active \in Seq(Entries) /\ Len(active) \in Nat /\ Len(archives) \in Nat
      /\ \A i \in 1..Len(active) : active[i].day \in Nat
  <2>1. \A i \in 1..Len(active) : active[i] \in Entries
    BY ElementOfSeq DEF LogTypes
  <2>2. QED
    BY <2>1, LenProperties DEF LogTypes, Entries
<1>2. /\ \A i \in 1..Len(archives) : archives[i].lines # <<>> /\ Sorted(archives[i].lines)
      /\ Sorted(active) /\ \A i \in 1..Len(active) : active[i].day <= today
  BY DEF OrderInv
<1>3. CASE Idles
  <2>1. active' = active /\ archives' = archives
    BY <1>3, IdlesKeep
  <2>2. today' = today \/ today' = today + 1
    BY <1>3 DEF Idles, logVars, OpenActiveFile, Close, NothingToRename, Reopen, ExpiryEnds, TrimEnds,
       LogFails, Fails, CloseFails, Deaf, NewDay, LogCrash, LogRestart, Write
  <2>3. \A i \in 1..Len(active) : active[i].day <= today'
    BY <1>1, <1>2, <2>2
  <2>4. QED
    BY <1>2, <2>1, <2>3 DEF OrderInv, Sorted
<1>4. CASE Removes
  <2>1. active' = active /\ today' = today
    BY <1>4 DEF Removes, RemoveExpired, TrimOldest
  <2>2. \A k \in 1..Len(archives') : \E n \in 1..Len(archives) : archives'[k] = archives[n]
    BY <1>4, RemovesTake, RemoveTakes
  <2>3. \A k \in 1..Len(archives') : archives'[k].lines # <<>> /\ Sorted(archives'[k].lines)
    BY <1>2, <2>2
  <2>4. QED
    BY <1>2, <2>1, <2>3 DEF OrderInv, Sorted
<1>5. CASE Rename
  <2>1. /\ active' = <<>> /\ Len(archives') = Len(archives) + 1
        /\ \A i \in 1..Len(archives) : archives'[i] = archives[i]
        /\ archives'[Len(archives) + 1].lines = active
    BY <1>5, RenameMoves
  <2>2. active # <<>>
    BY <1>5 DEF Rename, RenameTo
  <2>3. ASSUME NEW k \in 1..Len(archives')
        PROVE  archives'[k].lines # <<>> /\ Sorted(archives'[k].lines)
    <3>1. CASE k = Len(archives) + 1
      BY <1>2, <2>1, <2>2, <3>1
    <3>2. CASE k \in 1..Len(archives)
      BY <1>2, <2>1, <3>2
    <3>3. QED
      BY <1>1, <2>1, <3>1, <3>2
  <2>4. Len(active') = 0
    BY <2>1, EmptySeq
  <2>5. Sorted(active') /\ \A i \in 1..Len(active') : active'[i].day <= today'
    BY <2>4 DEF Sorted
  <2>6. QED
    BY <2>3, <2>5 DEF OrderInv, Sorted
<1>6. CASE AppendLine
  <2>1. PICK e \in Entries : e.day = today /\ active' = Append(active, e) /\ archives' = archives
    BY <1>6, AppendGrows
  <2>2. today' = today
    BY <1>6 DEF AppendLine
  <2>3. /\ Len(active') = Len(active) + 1 /\ active'[Len(active) + 1] = e
        /\ \A i \in 1..Len(active) : active'[i] = active[i]
    BY <1>1, <2>1, AppendProperties
  <2>4. \A i \in 1..Len(active') : active'[i].day <= today'
    BY <1>1, <1>2, <2>1, <2>2, <2>3
  <2>5. ASSUME NEW i \in 1..Len(active'), NEW k \in 1..Len(active'), i <= k
        PROVE  active'[i].day <= active'[k].day
    <3>1. CASE k = Len(active) + 1
      BY <2>1, <2>2, <2>3, <2>4, <3>1
    <3>2. CASE k \in 1..Len(active)
      <4>1. i \in 1..Len(active)
        BY <1>1, <2>3, <2>5, <3>2
      <4>2. active'[i] = active[i] /\ active'[k] = active[k]
        BY <2>3, <3>2, <4>1
      <4>3. QED
        BY <1>2, <2>5, <3>2, <4>1, <4>2 DEF Sorted
    <3>3. QED
      BY <1>1, <2>3, <3>1, <3>2
  <2>6. Sorted(active')
    BY <2>5 DEF Sorted
  <2>7. QED
    BY <1>2, <2>1, <2>4, <2>6 DEF OrderInv, Sorted
<1>7. CASE RenameUnread
  <2>1. /\ active' = <<>> /\ active # <<>>
        /\ \A k \in 1..Len(archives') :
             \/ archives'[k].lines = active
             \/ \E n \in 1..Len(archives) : archives'[k] = archives[n]
    BY <1>7, UnreadLeaves DEF RenameUnread, RenameTo
  <2>2. \A k \in 1..Len(archives') : archives'[k].lines # <<>> /\ Sorted(archives'[k].lines)
    BY <1>2, <2>1
  <2>3. Len(active') = 0
    BY <2>1, EmptySeq
  <2>4. Sorted(active') /\ \A i \in 1..Len(active') : active'[i].day <= today'
    BY <2>3 DEF Sorted
  <2>5. QED
    BY <2>2, <2>4 DEF OrderInv, Sorted
<1>8. QED
  BY <1>3, <1>4, <1>5, <1>6, <1>7, MovesSplit

-----------------------------------------------------------------------------
(***************************************************************************)
(* The invariant of the log, whatever writes to it.                        *)
(***************************************************************************)
\* The log starts with its invariant.
LEMMA LogInvInit ==
  ASSUME LogInit
  PROVE  LogInv
<1>1. /\ file = "open" /\ size = 0 /\ active = <<>> /\ archives = <<>> /\ today = 0
      /\ step = "idle" /\ line = NoLine /\ failures = 0 /\ crashes = 0
      /\ closeFailed = FALSE /\ lost = 0 /\ unread = 0 /\ replaced = 0
  BY DEF LogInit
<1>2. active \in Seq(Entries) /\ archives \in Seq(Files) /\ Len(active) = 0 /\ Len(archives) = 0
  BY <1>1, EmptySeq
<1>3. Held = 0
  BY <1>1, SizeOfNat, EmptySeq DEF Held
<1>4. Stored = 0
  <2>1. Join(archives) = <<>>
    BY <1>2, JoinSteps DEF Join
  <2>2. QED
    BY <2>1, SizeOfNat, EmptySeq DEF Stored
<1>5. LogTypes
  BY <1>1, <1>2 DEF LogTypes, Steps
<1>6. StepInv /\ LostInv
  BY <1>1, <1>3 DEF StepInv, LostInv
<1>7. /\ LinesFor(failures) \in Nat /\ FilesFor(failures) \in Nat
      /\ MaxFile \in Nat /\ MaxLine \in Nat /\ MaxTotal \in Nat
  BY <1>1, BoundSteps, LogAssumption, TelemetryAssumption
<1>8. ActiveInv
  BY <1>1, <1>3, <1>7 DEF ActiveInv, Rotates
<1>9. ArchiveInv
  BY <1>1, <1>3, <1>4, <1>7 DEF ArchiveInv
<1>10. OrderInv
  BY <1>1, <1>2 DEF OrderInv, Sorted
<1>11. QED
  BY <1>5, <1>6, <1>8, <1>9, <1>10 DEF LogInv

\* Every move keeps it.
LEMMA LogInvStep ==
  ASSUME LogInv, LogMoves
  PROVE  LogInv'
BY LogTypesStep, StepStep, LostStep, ActiveStep, ArchiveStep, OrderStep DEF LogInv

-----------------------------------------------------------------------------
(***************************************************************************)
(* The goroutines and the metrics.                                         *)
(***************************************************************************)
Busy(t) == {h \in Handlers : kind[h] = t /\ event[h] = "analysis.started"}

MetricTypes ==
  /\ event \in [Handlers -> Events \cup {"idle"}]
  /\ told \in [Handlers -> {"counted", "written"}]
  /\ kind \in [Handlers -> Labels]
  /\ inflight \in [Labels -> Nat] /\ skipped \in [Labels -> Nat]
  /\ total \in [Labels -> [Statuses -> Nat]]

\* There is a line to write only for an event.
ToldInv == \A h \in Handlers : told[h] = "counted" => event[h] \in Events

CountInv ==
  \A t \in Labels :
    /\ IsFiniteSet(Busy(t))
    /\ inflight[t] = Cardinality(Busy(t)) + skipped[t]
    /\ inflight[t] = total[t]["started"] - total[t]["completed"] - total[t]["failed"]

TelemetryInv == LogInv /\ MetricTypes /\ ToldInv /\ CountInv

\* What a goroutine hands to the log is a line.
LEMMA EventLine ==
  ASSUME LogTypes, MetricTypes, ToldInv, NEW h \in Handlers, LogEvent(h)
  PROVE  \E l \in Lines : Write(l)
<1> DEFINE l == [by |-> h, event |-> event[h], life |-> crashes, size |-> LineSize(event[h])]
<1>1. event[h] \in Events
  BY DEF LogEvent, ToldInv
<1>2. LineSize(event[h]) \in 1..MaxLine
  BY TelemetryAssumption DEF LineSize
<1>3. l \in Lines
  BY <1>1, <1>2 DEF Lines, LogTypes
<1>4. Write(l)
  BY DEF LogEvent
<1>5. QED
  BY <1>3, <1>4

\* For the log every step of the worker is one of its moves.
LEMMA NextMoves ==
  ASSUME LogTypes, MetricTypes, ToldInv, [Next]_vars
  PROVE  LogMoves
<1>1. CASE UNCHANGED vars
  BY <1>1 DEF vars, LogMoves
<1>2. ASSUME NEW h \in Handlers, LogEvent(h)
      PROVE  LogMoves
  BY <1>2, EventLine DEF LogMoves
<1>3. ASSUME NEW h \in Handlers,
             \/ Receive(h) \/ AnalysisStarted(h) \/ Undecodable(h) \/ LosesClaim(h)
             \/ \E status \in Statuses \ {"started"} : AnalysisFinished(h, status)
             \/ MessageFinished(h)
      PROVE  LogMoves
  BY <1>3 DEF Receive, AnalysisStarted, Undecodable, LosesClaim, AnalysisFinished,
     MessageFinished, Tell, LogMoves
<1>4. CASE (LogStep \/ NewDay) /\ UNCHANGED <<handlerVars, metricVars>>
  BY <1>4 DEF LogMoves
<1>5. CASE Crash \/ Restart
  BY <1>5 DEF Crash, Restart, LogMoves
<1>6. QED
  BY <1>1, <1>2, <1>3, <1>4, <1>5 DEF Next

\* An event is the next of one goroutine only.
LEMMA TellsOne ==
  ASSUME MetricTypes, ToldInv, NEW h \in Handlers, NEW e \in Events, Tell(h, e)
  PROVE  /\ event' \in [Handlers -> Events \cup {"idle"}]
         /\ told' \in [Handlers -> {"counted", "written"}]
         /\ event'[h] = e /\ \A g \in Handlers \ {h} : event'[g] = event[g]
         /\ ToldInv'
<1>1. event' = [event EXCEPT ![h] = e] /\ told' = [told EXCEPT ![h] = "counted"]
  BY DEF Tell
<1>2. event \in [Handlers -> Events \cup {"idle"}] /\ told \in [Handlers -> {"counted", "written"}]
  BY DEF MetricTypes
<1>3. event' \in [Handlers -> Events \cup {"idle"}] /\ told' \in [Handlers -> {"counted", "written"}]
  BY <1>1, <1>2
<1>4. /\ event'[h] = e /\ \A g \in Handlers \ {h} : event'[g] = event[g]
      /\ \A g \in Handlers \ {h} : told'[g] = told[g]
  BY <1>1, <1>2
<1>5. ToldInv'
  BY <1>4 DEF ToldInv
<1>6. QED
  BY <1>3, <1>4, <1>5

\* A counter of a vector goes up, and no other.
LEMMA CountsOne ==
  ASSUME MetricTypes, NEW t \in Labels, NEW s \in Statuses,
         total' = [total EXCEPT ![t][s] = @ + 1]
  PROVE  /\ total' \in [Labels -> [Statuses -> Nat]]
         /\ \A u \in Labels, q \in Statuses :
              total'[u][q] = IF u = t /\ q = s THEN total[u][q] + 1 ELSE total[u][q]
<1>1. total \in [Labels -> [Statuses -> Nat]]
  BY DEF MetricTypes
<1>2. total[t] \in [Statuses -> Nat] /\ total[t][s] \in Nat
  BY <1>1
<1> DEFINE row == [total[t] EXCEPT ![s] = @ + 1]
<1>3. row \in [Statuses -> Nat]
  BY <1>2
<1>4. total' = [total EXCEPT ![t] = row]
  OBVIOUS
<1>5. \A q \in Statuses : row[q] = IF q = s THEN total[t][q] + 1 ELSE total[t][q]
  BY <1>2
<1>6. QED
  <2> HIDE DEF row
  <2>1. total' \in [Labels -> [Statuses -> Nat]]
    BY <1>1, <1>3, <1>4
  <2>2. \A u \in Labels : total'[u] = IF u = t THEN row ELSE total[u]
    BY <1>1, <1>4
  <2>3. QED
    BY <1>5, <2>1, <2>2

\* The goroutines at work on a type, as one of them moves.
LEMMA BusyMoves ==
  ASSUME MetricTypes, CountInv, NEW h \in Handlers,
         \A g \in Handlers \ {h} : event'[g] = event[g] /\ kind'[g] = kind[g]
  PROVE  /\ \A t \in Labels : ~(kind[h] = t /\ event[h] = "analysis.started")
                              /\ ~(kind'[h] = t /\ event'[h] = "analysis.started")
              => Busy(t)' = Busy(t)
         /\ \A t \in Labels : ~(kind[h] = t /\ event[h] = "analysis.started")
                              /\ kind'[h] = t /\ event'[h] = "analysis.started"
              => /\ IsFiniteSet(Busy(t)') /\ Cardinality(Busy(t)') = Cardinality(Busy(t)) + 1
         /\ \A t \in Labels : kind[h] = t /\ event[h] = "analysis.started"
                              /\ ~(kind'[h] = t /\ event'[h] = "analysis.started")
              => /\ IsFiniteSet(Busy(t)') /\ Cardinality(Busy(t)') = Cardinality(Busy(t)) - 1
<1>1. \A t \in Labels : IsFiniteSet(Busy(t))
  BY DEF CountInv
<1>2. ASSUME NEW t \in Labels, ~(kind[h] = t /\ event[h] = "analysis.started"),
             ~(kind'[h] = t /\ event'[h] = "analysis.started")
      PROVE  Busy(t)' = Busy(t)
  BY <1>2 DEF Busy
<1>3. ASSUME NEW t \in Labels, ~(kind[h] = t /\ event[h] = "analysis.started"),
             kind'[h] = t, event'[h] = "analysis.started"
      PROVE  IsFiniteSet(Busy(t)') /\ Cardinality(Busy(t)') = Cardinality(Busy(t)) + 1
  <2>1. Busy(t)' = Busy(t) \cup {h} /\ h \notin Busy(t)
    BY <1>3 DEF Busy
  <2>2. QED
    BY <1>1, <2>1, FS_AddElement
<1>4. ASSUME NEW t \in Labels, kind[h] = t, event[h] = "analysis.started",
             ~(kind'[h] = t /\ event'[h] = "analysis.started")
      PROVE  IsFiniteSet(Busy(t)') /\ Cardinality(Busy(t)') = Cardinality(Busy(t)) - 1
  <2>1. Busy(t)' = Busy(t) \ {h} /\ h \in Busy(t)
    BY <1>4 DEF Busy
  <2>2. QED
    BY <1>1, <2>1, FS_RemoveElement
<1>5. QED
  BY <1>2, <1>3, <1>4

\* The steps of a goroutine that leave the metrics alone.
LEMMA QuietStep ==
  ASSUME MetricTypes, ToldInv, CountInv, NEW h \in Handlers, NEW e \in Events, Tell(h, e),
         e # "analysis.started", event[h] # "analysis.started", UNCHANGED metricVars,
         kind' \in [Handlers -> Labels], \A g \in Handlers \ {h} : kind'[g] = kind[g]
  PROVE  MetricTypes' /\ ToldInv' /\ CountInv'
<1>1. /\ event' \in [Handlers -> Events \cup {"idle"}] /\ told' \in [Handlers -> {"counted", "written"}]
      /\ event'[h] = e /\ (\A g \in Handlers \ {h} : event'[g] = event[g]) /\ ToldInv'
  BY TellsOne
<1>2. inflight' = inflight /\ total' = total /\ skipped' = skipped
  BY DEF metricVars
<1>3. MetricTypes'
  BY <1>1, <1>2 DEF MetricTypes
<1>4. \A t \in Labels : Busy(t)' = Busy(t)
  BY <1>1, BusyMoves
<1>5. CountInv'
  BY <1>2, <1>4 DEF CountInv
<1>6. QED
  BY <1>1, <1>3, <1>5

\* The start of an analysis is counted and puts it in flight.
LEMMA StartedStep ==
  ASSUME MetricTypes, ToldInv, CountInv, NEW h \in Handlers, AnalysisStarted(h)
  PROVE  MetricTypes' /\ ToldInv' /\ CountInv'
<1> DEFINE t == kind[h]
<1>1. /\ inflight' = [inflight EXCEPT ![t] = @ + 1]
      /\ total' = [total EXCEPT ![t]["started"] = @ + 1]
      /\ skipped' = skipped /\ kind' = kind /\ Tell(h, "analysis.started")
      /\ event[h] = "sqs.received"
  BY DEF AnalysisStarted, RecordAnalysisStarted
<1>2. t \in Labels /\ "started" \in Statuses /\ "analysis.started" \in Events
  BY DEF MetricTypes, Statuses, Events
<1>3. /\ event' \in [Handlers -> Events \cup {"idle"}] /\ told' \in [Handlers -> {"counted", "written"}]
      /\ event'[h] = "analysis.started" /\ (\A g \in Handlers \ {h} : event'[g] = event[g]) /\ ToldInv'
  BY <1>1, <1>2, TellsOne
<1>4. /\ inflight' \in [Labels -> Nat]
      /\ \A u \in Labels : inflight'[u] = IF u = t THEN inflight[u] + 1 ELSE inflight[u]
  BY <1>1, <1>2 DEF MetricTypes
<1>5. /\ total' \in [Labels -> [Statuses -> Nat]]
      /\ \A u \in Labels, q \in Statuses :
           total'[u][q] = IF u = t /\ q = "started" THEN total[u][q] + 1 ELSE total[u][q]
  <2> HIDE DEF t
  <2> QED
    BY <1>1, <1>2, CountsOne
<1>6. MetricTypes'
  BY <1>1, <1>3, <1>4, <1>5 DEF MetricTypes
<1>7. ASSUME NEW u \in Labels
      PROVE  /\ IsFiniteSet(Busy(u)')
             /\ inflight'[u] = Cardinality(Busy(u)') + skipped'[u]
             /\ inflight'[u] = total'[u]["started"] - total'[u]["completed"] - total'[u]["failed"]
  <2>1. /\ IsFiniteSet(Busy(u)) /\ inflight[u] = Cardinality(Busy(u)) + skipped[u]
        /\ inflight[u] = total[u]["started"] - total[u]["completed"] - total[u]["failed"]
    BY DEF CountInv
  <2>2. /\ inflight[u] \in Nat /\ skipped[u] \in Nat /\ total[u]["started"] \in Nat
        /\ total[u]["completed"] \in Nat /\ total[u]["failed"] \in Nat /\ Cardinality(Busy(u)) \in Nat
    BY <2>1, FS_CardinalityType DEF MetricTypes, Statuses
  <2>3. /\ total'[u]["started"] = IF u = t THEN total[u]["started"] + 1 ELSE total[u]["started"]
        /\ total'[u]["completed"] = total[u]["completed"] /\ total'[u]["failed"] = total[u]["failed"]
    BY <1>5 DEF Statuses
  <2>4. CASE u = t
    <3>1. IsFiniteSet(Busy(u)') /\ Cardinality(Busy(u)') = Cardinality(Busy(u)) + 1
      BY <1>1, <1>3, <2>4, BusyMoves
    <3>2. QED
      BY <1>1, <1>4, <2>1, <2>2, <2>3, <2>4, <3>1
  <2>5. CASE u # t
    <3>1. Busy(u)' = Busy(u)
      BY <1>1, <1>3, <2>5, BusyMoves
    <3>2. QED
      BY <1>1, <1>4, <2>1, <2>2, <2>3, <2>5, <3>1
  <2>6. QED
    BY <2>4, <2>5
<1>8. CountInv'
  BY <1>7 DEF CountInv
<1>9. QED
  BY <1>3, <1>6, <1>8

\* Losing the claim ends the work but leaves the analysis in flight.
LEMMA LosesStep ==
  ASSUME MetricTypes, ToldInv, CountInv, NEW h \in Handlers, LosesClaim(h)
  PROVE  MetricTypes' /\ ToldInv' /\ CountInv'
<1> DEFINE t == kind[h]
<1>1. /\ skipped' = [skipped EXCEPT ![t] = @ + 1]
      /\ inflight' = inflight /\ total' = total /\ kind' = kind /\ Tell(h, "sqs.processed")
      /\ event[h] = "analysis.started"
  BY DEF LosesClaim
<1>2. t \in Labels /\ "sqs.processed" \in Events
  BY DEF MetricTypes, Events
<1>3. /\ event' \in [Handlers -> Events \cup {"idle"}] /\ told' \in [Handlers -> {"counted", "written"}]
      /\ event'[h] = "sqs.processed" /\ (\A g \in Handlers \ {h} : event'[g] = event[g]) /\ ToldInv'
  BY <1>1, <1>2, TellsOne
<1>4. /\ skipped' \in [Labels -> Nat]
      /\ \A u \in Labels : skipped'[u] = IF u = t THEN skipped[u] + 1 ELSE skipped[u]
  BY <1>1, <1>2 DEF MetricTypes
<1>5. MetricTypes'
  BY <1>1, <1>3, <1>4 DEF MetricTypes
<1>6. ASSUME NEW u \in Labels
      PROVE  /\ IsFiniteSet(Busy(u)')
             /\ inflight'[u] = Cardinality(Busy(u)') + skipped'[u]
  <2>1. IsFiniteSet(Busy(u)) /\ inflight[u] = Cardinality(Busy(u)) + skipped[u]
    BY DEF CountInv
  <2>2. inflight[u] \in Nat /\ skipped[u] \in Nat /\ Cardinality(Busy(u)) \in Nat
    BY <2>1, FS_CardinalityType DEF MetricTypes
  <2>3. CASE u = t
    <3>1. IsFiniteSet(Busy(u)') /\ Cardinality(Busy(u)') = Cardinality(Busy(u)) - 1
      BY <1>1, <1>3, <2>3, BusyMoves
    <3>2. QED
      BY <1>1, <1>4, <2>1, <2>2, <2>3, <3>1
  <2>4. CASE u # t
    <3>1. Busy(u)' = Busy(u)
      BY <1>1, <1>3, <2>4, BusyMoves
    <3>2. QED
      BY <1>1, <1>4, <2>1, <2>4, <3>1
  <2>5. QED
    BY <2>3, <2>4
<1>7. CountInv'
  BY <1>1, <1>6 DEF CountInv
<1>8. QED
  BY <1>3, <1>5, <1>7

\* The end of an analysis is counted under the type of its start, which is in
\* flight, so that the floor of the gauge is not met.
LEMMA FinishedStep ==
  ASSUME MetricTypes, ToldInv, CountInv, NEW h \in Handlers,
         NEW status \in Statuses \ {"started"}, AnalysisFinished(h, status)
  PROVE  MetricTypes' /\ ToldInv' /\ CountInv'
<1> DEFINE t == kind[h]
           e == IF status = "failed" THEN "analysis.failed" ELSE "analysis.completed"
<1>1. /\ inflight' = [inflight EXCEPT ![t] = Floor(@ - 1)]
      /\ total' = [total EXCEPT ![t][status] = @ + 1]
      /\ skipped' = skipped /\ kind' = kind /\ Tell(h, e)
      /\ event[h] = "analysis.started"
  BY DEF AnalysisFinished, RecordAnalysisFinished, Label
<1>2. t \in Labels /\ e \in Events /\ e # "analysis.started"
  BY DEF MetricTypes, Events
<1>3. /\ event' \in [Handlers -> Events \cup {"idle"}] /\ told' \in [Handlers -> {"counted", "written"}]
      /\ event'[h] = e /\ (\A g \in Handlers \ {h} : event'[g] = event[g]) /\ ToldInv'
  <2> HIDE DEF e
  <2> QED
    BY <1>1, <1>2, TellsOne
<1>4. ASSUME NEW u \in Labels, u = t
      PROVE  IsFiniteSet(Busy(u)') /\ Cardinality(Busy(u)') = Cardinality(Busy(u)) - 1
  <2> HIDE DEF e
  <2> QED
    BY <1>1, <1>2, <1>3, <1>4, BusyMoves
<1>5. /\ inflight \in [Labels -> Nat] /\ inflight[t] \in Nat /\ inflight[t] > 0
  <2>1. IsFiniteSet(Busy(t)) /\ inflight[t] = Cardinality(Busy(t)) + skipped[t]
    BY <1>2 DEF CountInv
  <2>2. h \in Busy(t)
    BY <1>1 DEF Busy
  <2>3. Cardinality(Busy(t)) \in Nat /\ Cardinality(Busy(t)) # 0
    BY <2>1, <2>2, FS_CardinalityType, FS_EmptySet
  <2>4. skipped[t] \in Nat /\ inflight \in [Labels -> Nat] /\ inflight[t] \in Nat
    BY <1>2 DEF MetricTypes
  <2>5. QED
    BY <2>1, <2>3, <2>4
<1>6. /\ inflight' \in [Labels -> Nat]
      /\ \A u \in Labels : inflight'[u] = IF u = t THEN inflight[u] - 1 ELSE inflight[u]
  <2>1. Floor(inflight[t] - 1) = inflight[t] - 1 /\ inflight[t] - 1 \in Nat
    BY <1>5 DEF Floor
  <2>2. QED
    BY <1>1, <1>2, <1>5, <2>1
<1>7. /\ total' \in [Labels -> [Statuses -> Nat]]
      /\ \A u \in Labels, q \in Statuses :
           total'[u][q] = IF u = t /\ q = status THEN total[u][q] + 1 ELSE total[u][q]
  <2> HIDE DEF t
  <2> QED
    BY <1>1, <1>2, CountsOne
<1>8. MetricTypes'
  BY <1>1, <1>3, <1>6, <1>7 DEF MetricTypes
<1>9. ASSUME NEW u \in Labels
      PROVE  /\ IsFiniteSet(Busy(u)')
             /\ inflight'[u] = Cardinality(Busy(u)') + skipped'[u]
             /\ inflight'[u] = total'[u]["started"] - total'[u]["completed"] - total'[u]["failed"]
  <2>1. /\ IsFiniteSet(Busy(u)) /\ inflight[u] = Cardinality(Busy(u)) + skipped[u]
        /\ inflight[u] = total[u]["started"] - total[u]["completed"] - total[u]["failed"]
    BY DEF CountInv
  <2>2. /\ inflight[u] \in Nat /\ skipped[u] \in Nat /\ total[u]["started"] \in Nat
        /\ total[u]["completed"] \in Nat /\ total[u]["failed"] \in Nat /\ Cardinality(Busy(u)) \in Nat
    BY <2>1, FS_CardinalityType DEF MetricTypes, Statuses
  <2>3. CASE u = t
    <3>1. /\ inflight'[u] = inflight[u] - 1 /\ total'[u]["started"] = total[u]["started"]
          /\ \/ /\ total'[u]["completed"] = total[u]["completed"] + 1
                /\ total'[u]["failed"] = total[u]["failed"]
             \/ /\ total'[u]["completed"] = total[u]["completed"]
                /\ total'[u]["failed"] = total[u]["failed"] + 1
      BY <1>6, <1>7, <2>3 DEF Statuses
    <3>2. IsFiniteSet(Busy(u)') /\ Cardinality(Busy(u)') = Cardinality(Busy(u)) - 1
      BY <1>4, <2>3
    <3>3. QED
      BY <1>1, <2>1, <2>2, <3>1, <3>2
  <2>4. CASE u # t
    <3>1. Busy(u)' = Busy(u)
      BY <1>1, <1>3, <2>4, BusyMoves
    <3>2. /\ total'[u]["started"] = total[u]["started"] /\ total'[u]["failed"] = total[u]["failed"]
          /\ total'[u]["completed"] = total[u]["completed"] /\ inflight'[u] = inflight[u]
      BY <1>6, <1>7, <2>4 DEF Statuses
    <3>3. QED
      BY <1>1, <2>1, <3>1, <3>2
  <2>5. QED
    BY <2>3, <2>4
<1>10. CountInv'
  BY <1>9 DEF CountInv
<1>11. QED
  BY <1>3, <1>8, <1>10

\* Each step keeps the metrics in balance.
LEMMA MetricStep ==
  ASSUME LogTypes, MetricTypes, ToldInv, CountInv, [Next]_vars
  PROVE  MetricTypes' /\ ToldInv' /\ CountInv'
<1>1. ASSUME UNCHANGED <<handlerVars, metricVars>>
      PROVE  MetricTypes' /\ ToldInv' /\ CountInv'
  <2>1. /\ event' = event /\ told' = told /\ kind' = kind
        /\ inflight' = inflight /\ total' = total /\ skipped' = skipped
    BY <1>1 DEF handlerVars, metricVars
  <2>2. QED
    BY <2>1 DEF MetricTypes, ToldInv, CountInv, Busy
<1>2. ASSUME NEW h \in Handlers, Receive(h)
      PROVE  MetricTypes' /\ ToldInv' /\ CountInv'
  <2>1. PICK t \in Types : kind' = [kind EXCEPT ![h] = t]
    BY <1>2 DEF Receive
  <2>2. Tell(h, "sqs.received") /\ event[h] = "idle" /\ UNCHANGED metricVars
    BY <1>2 DEF Receive
  <2>3. kind' \in [Handlers -> Labels] /\ \A g \in Handlers \ {h} : kind'[g] = kind[g]
    BY <2>1 DEF MetricTypes, Labels
  <2>4. "sqs.received" \in Events
    BY DEF Events
  <2>5. QED
    BY <2>2, <2>3, <2>4, QuietStep
<1>3. ASSUME NEW h \in Handlers, Undecodable(h) \/ MessageFinished(h)
      PROVE  MetricTypes' /\ ToldInv' /\ CountInv'
  <2>1. PICK e \in Events : Tell(h, e) /\ e # "analysis.started"
    BY <1>3 DEF Undecodable, MessageFinished, Events
  <2>2. kind' = kind /\ UNCHANGED metricVars /\ event[h] # "analysis.started"
    BY <1>3 DEF Undecodable, MessageFinished
  <2>3. kind' \in [Handlers -> Labels]
    BY <2>2 DEF MetricTypes
  <2>4. QED
    BY <2>1, <2>2, <2>3, QuietStep
<1>4. ASSUME NEW h \in Handlers, LogEvent(h)
      PROVE  MetricTypes' /\ ToldInv' /\ CountInv'
  <2>1. /\ told' = [told EXCEPT ![h] = "written"] /\ event' = event /\ kind' = kind
        /\ inflight' = inflight /\ total' = total /\ skipped' = skipped
    BY <1>4 DEF LogEvent, metricVars
  <2>2. /\ told' \in [Handlers -> {"counted", "written"}]
        /\ \A g \in Handlers : told'[g] = "counted" => told[g] = "counted"
    BY <2>1 DEF MetricTypes
  <2>3. QED
    BY <2>1, <2>2 DEF MetricTypes, ToldInv, CountInv, Busy
<1>5. CASE Restart
  <2>1. /\ event' = [h \in Handlers |-> "idle"] /\ told' = [h \in Handlers |-> "written"]
        /\ kind' = [h \in Handlers |-> "unknown"] /\ inflight' = Zero /\ skipped' = Zero
        /\ total' = [t \in Labels |-> [s \in Statuses |-> 0]]
    BY <1>5 DEF Restart
  <2>2. MetricTypes' /\ ToldInv'
    BY <2>1 DEF MetricTypes, ToldInv, Labels, Zero
  <2>3. ASSUME NEW t \in Labels
        PROVE  /\ Busy(t)' = {} /\ inflight'[t] = 0 /\ skipped'[t] = 0
               /\ total'[t]["started"] = 0 /\ total'[t]["completed"] = 0 /\ total'[t]["failed"] = 0
    BY <2>1 DEF Busy, Zero, Statuses
  <2>4. ASSUME NEW t \in Labels
        PROVE  /\ IsFiniteSet(Busy(t)') /\ inflight'[t] = Cardinality(Busy(t)') + skipped'[t]
               /\ inflight'[t] = total'[t]["started"] - total'[t]["completed"] - total'[t]["failed"]
    <3>1. Cardinality(Busy(t)') = 0 /\ IsFiniteSet(Busy(t)')
      BY <2>3, FS_EmptySet
    <3>2. QED
      BY <2>3, <3>1
  <2>5. QED
    BY <2>2, <2>4 DEF CountInv
<1>6. CASE Crash
  BY <1>1, <1>6 DEF Crash
<1>7. CASE UNCHANGED vars
  BY <1>1, <1>7 DEF vars
<1>8. CASE (LogStep \/ NewDay) /\ UNCHANGED <<handlerVars, metricVars>>
  BY <1>1, <1>8
<1>9. QED
  BY <1>2, <1>3, <1>4, <1>5, <1>6, <1>7, <1>8, StartedStep, LosesStep, FinishedStep DEF Next

-----------------------------------------------------------------------------
(***************************************************************************)
(* The theorems.                                                           *)
(***************************************************************************)
\* Both invariants hold in every behaviour of the worker.
LEMMA TelemetryInvariant == Spec => []TelemetryInv
<1>1. Init => TelemetryInv
  <2> SUFFICES ASSUME Init PROVE TelemetryInv
    OBVIOUS
  <2>1. LogInv
    BY LogInvInit DEF Init
  <2>2. MetricTypes /\ ToldInv
    BY DEF Init, MetricTypes, ToldInv, Labels, Zero
  <2>3. ASSUME NEW t \in Labels
        PROVE  /\ Busy(t) = {} /\ inflight[t] = 0 /\ skipped[t] = 0
               /\ total[t]["started"] = 0 /\ total[t]["completed"] = 0 /\ total[t]["failed"] = 0
    BY DEF Init, Busy, Zero, Statuses
  <2>4. CountInv
    BY <2>3, FS_EmptySet DEF CountInv
  <2>5. QED
    BY <2>1, <2>2, <2>4 DEF TelemetryInv
<1>2. TelemetryInv /\ [Next]_vars => TelemetryInv'
  <2> SUFFICES ASSUME TelemetryInv, [Next]_vars PROVE TelemetryInv'
    OBVIOUS
  <2>1. LogInv /\ LogTypes /\ MetricTypes /\ ToldInv /\ CountInv
    BY DEF TelemetryInv, LogInv
  <2>2. LogInv'
    BY <2>1, NextMoves, LogInvStep
  <2>3. QED
    BY <2>1, <2>2, MetricStep DEF TelemetryInv
<1>3. QED
  BY <1>1, <1>2, PTL DEF Spec

\* The gauge of analyses in flight is what started less what finished, and
\* exceeds those at work only by the ones that lost their claim
\* (src/metrics/registry.go, Record...AnalysisStarted and ...Finished).
THEOREM InFlightCorrect == Spec => []InFlightCounts
<1>1. TelemetryInv => InFlightCounts
  BY DEF TelemetryInv, CountInv, InFlightCounts, Busy
<1>2. QED
  BY <1>1, TelemetryInvariant, PTL

\* A call that fails, or the death of the process in the middle of a rotation,
\* costs at most the line in hand; a reading of the archive directory that fails
\* costs at most one archive instead, and nothing else replaces one.  The log is
\* deaf only after a failing Close (rotating_writer.go, Write, rotate and
\* nextArchivePath).
THEOREM FailureCostCorrect == Spec => []FailureCostIsBounded
<1>1. TelemetryInv => FailureCostIsBounded
  BY DEF TelemetryInv, LogInv, LostInv, FailureCostIsBounded
<1>2. QED
  BY <1>1, TelemetryInvariant, PTL

\* Whatever fails, the log takes a bounded part of the disk: the limits, and a
\* file with a line more for each failing call (rotating_writer.go, rotate and
\* cleanupArchives).
THEOREM SpaceBoundedCorrect == Spec => []SpaceBounded
<1>1. TelemetryInv => SpaceBounded
  <2> SUFFICES ASSUME LogTypes, StepInv, ActiveInv, ArchiveInv PROVE SpaceBounded
    BY DEF TelemetryInv, LogInv
  <2>1. /\ failures \in Nat /\ Held \in Nat /\ Stored \in Nat /\ ArchivedSize = Stored
        /\ MaxFile \in Nat /\ MaxLine \in Nat /\ MaxTotal \in Nat
    BY Volumes, LogAssumption, TelemetryAssumption DEF LogTypes
  <2>2. /\ LinesFor(failures + 1) = LinesFor(failures) + MaxLine
        /\ FilesFor(failures + 1) = FilesFor(failures) + MaxFile + MaxLine
        /\ LinesFor(failures) \in Nat /\ FilesFor(failures) \in Nat
    BY <2>1, BoundSteps
  <2>3. failures = 0 => FilesFor(failures) = 0
    BY <2>1 DEF FilesFor
  <2>4. 1 + failures = failures + 1
    BY <2>1
  <2>5. SizeOf(active) <= MaxFile + (1 + failures) * MaxLine
    <3>1. Held <= MaxFile + LinesFor(failures + 1)
      BY <2>1, <2>2 DEF ActiveInv
    <3>2. QED
      BY <2>4, <3>1 DEF Held, LinesFor
  <2>6. ArchivedSize <= MaxTotal + (1 + failures) * (MaxFile + MaxLine)
    <3>1. Stored <= MaxTotal + FilesFor(failures + 1)
      BY <2>1, <2>2 DEF ArchiveInv
    <3>2. QED
      BY <2>1, <2>4, <3>1 DEF FilesFor
  <2>7. failures = 0 => SizeOf(active) <= MaxFile \/ Len(active) = 1
    BY DEF ActiveInv, Held
  <2>8. failures = 0 /\ step = "idle" => ArchivedSize <= MaxTotal
    BY <2>1, <2>3 DEF ArchiveInv
  <2>9. QED
    BY <2>5, <2>6, <2>7, <2>8 DEF SpaceBounded
<1>2. QED
  BY <1>1, TelemetryInvariant, PTL

-----------------------------------------------------------------------------
(***************************************************************************)
(* The files together are a bounded log.                                   *)
(***************************************************************************)
\* A sequence falls apart where it was put together.
LEMMA Pieces ==
  ASSUME NEW a \in Seq(Entries), NEW b \in Seq(Entries)
  PROVE  /\ SubSeq(a \o b, 1, Len(a)) = a
         /\ SubSeq(a \o b, Len(a) + 1, Len(a \o b)) = b
<1> DEFINE s == a \o b
<1>1. Len(a) \in Nat /\ Len(b) \in Nat
  BY LenProperties
<1>2. /\ s \in Seq(Entries) /\ Len(s) = Len(a) + Len(b)
      /\ \A i \in 1..(Len(a) + Len(b)) : s[i] = IF i <= Len(a) THEN a[i] ELSE b[i - Len(a)]
  BY ConcatProperties
<1> HIDE DEF s
<1>3. \A i \in 1..Len(s) : s[i] \in Entries
  BY <1>2, ElementOfSeq
<1>4. SubSeq(s, 1, Len(a)) = a
  <2> DEFINE u == SubSeq(s, 1, Len(a))
  <2>1. 1 \in Int /\ Len(a) \in Int /\ \A i \in 1..Len(a) : s[i] \in Entries
    BY <1>1, <1>2, <1>3
  <2>2. /\ u \in Seq(Entries) /\ Len(u) = IF 1 <= Len(a) THEN Len(a) - 1 + 1 ELSE 0
        /\ \A i \in 1..(Len(a) - 1 + 1) : u[i] = s[1 + i - 1]
    BY <2>1, SubSeqProperties
  <2> HIDE DEF u
  <2>3. Len(u) = Len(a)
    BY <1>1, <2>2
  <2>4. \A i \in 1..Len(a) : u[i] = a[i]
    <3> SUFFICES ASSUME NEW i \in 1..Len(a) PROVE u[i] = a[i]
      OBVIOUS
    <3>1. i \in 1..(Len(a) - 1 + 1) /\ 1 + i - 1 = i /\ i \in 1..(Len(a) + Len(b)) /\ i <= Len(a)
      BY <1>1
    <3>2. QED
      BY <1>2, <2>2, <3>1
  <2>5. u = a
    BY <2>2, <2>3, <2>4, SeqEqual
  <2>6. QED
    BY <2>5 DEF u
<1>5. SubSeq(s, Len(a) + 1, Len(s)) = b
  <2> DEFINE u == SubSeq(s, Len(a) + 1, Len(s))
  <2>1. Len(a) + 1 \in Int /\ Len(s) \in Int /\ \A i \in (Len(a) + 1)..Len(s) : s[i] \in Entries
    BY <1>1, <1>2, <1>3
  <2>2. /\ u \in Seq(Entries)
        /\ Len(u) = IF Len(a) + 1 <= Len(s) THEN Len(s) - (Len(a) + 1) + 1 ELSE 0
        /\ \A i \in 1..(Len(s) - (Len(a) + 1) + 1) : u[i] = s[(Len(a) + 1) + i - 1]
    BY <2>1, SubSeqProperties
  <2> HIDE DEF u
  <2>3. Len(u) = Len(b)
    BY <1>1, <1>2, <2>2
  <2>4. \A i \in 1..Len(b) : u[i] = b[i]
    <3> SUFFICES ASSUME NEW i \in 1..Len(b) PROVE u[i] = b[i]
      OBVIOUS
    <3>1. /\ i \in 1..(Len(s) - (Len(a) + 1) + 1) /\ (Len(a) + 1) + i - 1 = Len(a) + i
          /\ Len(a) + i \in 1..(Len(a) + Len(b)) /\ ~(Len(a) + i <= Len(a))
          /\ (Len(a) + i) - Len(a) = i
      BY <1>1, <1>2
    <3>2. QED
      BY <1>2, <2>2, <3>1
  <2>5. u = b
    BY <2>2, <2>3, <2>4, SeqEqual
  <2>6. QED
    BY <2>5 DEF u
<1>6. QED
  BY <1>4, <1>5 DEF s

\* A piece in the middle of a log, and what is left without it.
LEMMA Cut ==
  ASSUME NEW a \in Seq(Entries), NEW l \in Seq(Entries), NEW b \in Seq(Entries), l # <<>>
  PROVE  LET s == a \o (l \o b)
             i == Len(a) + 1
             j == Len(a) + Len(l)
         IN /\ i \in 1..Len(s) /\ j \in 1..Len(s) /\ i <= j
            /\ \A k \in i..j : k - Len(a) \in 1..Len(l) /\ s[k] = l[k - Len(a)]
            /\ SubSeq(s, 1, i - 1) \o SubSeq(s, j + 1, Len(s)) = a \o b
            /\ SubSeq(s, j + 1, Len(s)) = b
<1> DEFINE s == a \o (l \o b)
           i == Len(a) + 1
           j == Len(a) + Len(l)
<1>1. Len(a) \in Nat /\ Len(l) \in Nat \ {0} /\ Len(b) \in Nat
  BY LenProperties, EmptySeq
<1>2. /\ l \o b \in Seq(Entries) /\ Len(l \o b) = Len(l) + Len(b)
      /\ \A n \in 1..(Len(l) + Len(b)) : (l \o b)[n] = IF n <= Len(l) THEN l[n] ELSE b[n - Len(l)]
  BY ConcatProperties
<1>3. /\ Len(s) = Len(a) + Len(l \o b)
      /\ \A n \in 1..(Len(a) + Len(l \o b)) : s[n] = IF n <= Len(a) THEN a[n] ELSE (l \o b)[n - Len(a)]
  BY <1>2, ConcatProperties
<1>4. i \in 1..Len(s) /\ j \in 1..Len(s) /\ i <= j
  BY <1>1, <1>2, <1>3
<1>5. ASSUME NEW k \in i..j
      PROVE  k - Len(a) \in 1..Len(l) /\ s[k] = l[k - Len(a)]
  <2>1. /\ k - Len(a) \in 1..Len(l) /\ k - Len(a) \in 1..(Len(l) + Len(b)) /\ k - Len(a) <= Len(l)
        /\ k \in 1..(Len(a) + Len(l \o b)) /\ ~(k <= Len(a))
    BY <1>1, <1>2, <1>5
  <2>2. s[k] = (l \o b)[k - Len(a)]
    BY <1>3, <2>1
  <2>3. QED
    BY <1>2, <2>1, <2>2
<1>6. SubSeq(s, 1, i - 1) = a
  <2>1. i - 1 = Len(a)
    BY <1>1
  <2>2. QED
    BY <1>2, <2>1, Pieces
<1>7. SubSeq(s, j + 1, Len(s)) = b
  <2>1. a \o l \in Seq(Entries) /\ Len(a \o l) = j
    BY ConcatProperties
  <2>2. s = (a \o l) \o b
    BY ConcatAssociative
  <2>3. QED
    BY <2>1, <2>2, Pieces
<1>8. QED
  BY <1>4, <1>5, <1>6, <1>7

\* The lines of all files, before and after a step.
LEMMA KeptIs ==
  ASSUME LogTypes, LogTypes'
  PROVE  /\ Kept = Join(archives) \o active /\ Kept' = Join(archives') \o active'
         /\ Join(archives) \in Seq(Entries) /\ Join(archives') \in Seq(Entries)
         /\ active \in Seq(Entries) /\ active' \in Seq(Entries) /\ Kept \in Seq(Entries)
         /\ SizeOf(Kept) = Stored + Held
<1>1. /\ active \in Seq(Entries) /\ active' \in Seq(Entries)
      /\ archives \in Seq(Files) /\ archives' \in Seq(Files)
  BY DEF LogTypes
<1>2. Join(archives) \in Seq(Entries) /\ Join(archives') \in Seq(Entries)
  BY <1>1, JoinConcat
<1>3. Kept = Join(archives) \o active /\ Kept' = Join(archives') \o active'
  BY ArchivedIs DEF Kept
<1>4. Kept \in Seq(Entries) /\ SizeOf(Kept) = Stored + Held
  BY <1>1, <1>2, <1>3, SizeOfConcat, ConcatProperties DEF Stored, Held
<1>5. QED
  BY <1>1, <1>2, <1>3, <1>4

\* Without one file a stretch of the log is missing; for the first file, its start.
LEMMA FileCuts ==
  ASSUME LogTypes, NEW i \in 1..Len(archives), NEW rest, rest = RemoveAt(archives, i)
  PROVE  \E a \in Seq(Entries), b \in Seq(Entries) :
           /\ Join(archives) \o active = a \o (archives[i].lines \o b) /\ Join(rest) \o active = a \o b
           /\ archives[i].lines \in Seq(Entries) /\ (i = 1 => a = <<>>) /\ Len(active) <= Len(b)
<1>1. PICK before, after \in Seq(Entries) :
        /\ Join(archives) = before \o (archives[i].lines \o after)
        /\ Join(rest) = before \o after /\ (i = 1 => before = <<>>)
  BY JoinRemove DEF LogTypes
<1> DEFINE l == archives[i].lines
<1>2. l \in Seq(Entries) /\ active \in Seq(Entries)
  BY FileLines DEF LogTypes
<1>3. Join(archives) = before \o (l \o after) /\ Join(rest) = before \o after
  BY <1>1
<1> HIDE DEF l
<1>4. l \o after \in Seq(Entries) /\ after \o active \in Seq(Entries)
      /\ Len(active) <= Len(after \o active)
  BY <1>2, ConcatProperties, LenProperties
<1>5. \A x, y, z \in Seq(Entries) : (x \o y) \o z = x \o (y \o z)
  BY ConcatAssociative
<1>6. (before \o (l \o after)) \o active = before \o (l \o (after \o active))
  <2>1. (before \o (l \o after)) \o active = before \o ((l \o after) \o active)
    BY <1>2, <1>4, <1>5, Zenon
  <2>2. (l \o after) \o active = l \o (after \o active)
    BY <1>2, <1>5, Zenon
  <2>3. QED
    BY <2>1, <2>2
<1>7. (before \o after) \o active = before \o (after \o active)
  BY <1>2, <1>5, Zenon
<1>8. /\ Join(archives) \o active = before \o (l \o (after \o active))
      /\ Join(rest) \o active = before \o (after \o active)
  BY <1>3, <1>6, <1>7
<1>9. QED
  BY <1>1, <1>2, <1>4, <1>8 DEF l

\* Removing one file removes that stretch.
LEMMA RemovalCuts ==
  ASSUME LogTypes, LogTypes', NEW i \in 1..Len(archives), archives' = RemoveAt(archives, i),
         active' = active
  PROVE  \E a \in Seq(Entries), b \in Seq(Entries) :
           /\ Kept = a \o (archives[i].lines \o b) /\ Kept' = a \o b
           /\ archives[i].lines \in Seq(Entries) /\ (i = 1 => a = <<>>)
<1>1. Kept = Join(archives) \o active /\ Kept' = Join(archives') \o active
  BY KeptIs
<1>2. QED
  BY <1>1, FileCuts

\* The log's own measure is that of the promise.
LEMMA LogSizeIs == \A s : Log!SizeOf(s) = SizeOf(s)
BY DEF SizeOf, Log!SizeOf

\* An expired file takes only lines that are too old, since its last is the
\* youngest.
LEMMA ExpiredImplements ==
  ASSUME LogTypes, LogTypes', OrderInv, RemoveExpired
  PROVE  Log!Expire
<1>1. PICK i \in Expired : archives' = RemoveAt(archives, i)
  BY DEF RemoveExpired
<1> DEFINE l == archives[i].lines
<1>2. i \in 1..Len(archives) /\ today - l[Len(l)].day > MaxAge
  <2>1. DOMAIN archives = 1..Len(archives)
    BY LenProperties DEF LogTypes
  <2>2. QED
    BY <1>1, <2>1 DEF Expired, Last
<1>3. l # <<>> /\ Sorted(l)
  BY <1>2 DEF OrderInv
<1>4. PICK a \in Seq(Entries), b \in Seq(Entries) :
        Kept = a \o (l \o b) /\ Kept' = a \o b /\ l \in Seq(Entries)
  BY <1>1, <1>2, <1>3, RemovalCuts DEF RemoveExpired
<1> HIDE DEF l
<1>5. \A n \in 1..Len(l) : l[n].day \in Nat /\ l[n].day <= l[Len(l)].day
  <2>1. Len(l) \in Nat \ {0} /\ \A n \in 1..Len(l) : l[n] \in Entries
    BY <1>3, <1>4, EmptySeq, ElementOfSeq
  <2>2. Len(l) \in 1..Len(l) /\ \A n \in 1..Len(l) : n <= Len(l)
    BY <2>1
  <2>3. QED
    BY <1>3, <2>1, <2>2 DEF Sorted, Entries
<1> DEFINE p == Len(a) + 1
           q == Len(a) + Len(l)
<1>6. /\ p \in 1..Len(Kept) /\ q \in 1..Len(Kept) /\ p <= q
      /\ \A k \in p..q : k - Len(a) \in 1..Len(l) /\ Kept[k] = l[k - Len(a)]
      /\ Kept' = SubSeq(Kept, 1, p - 1) \o SubSeq(Kept, q + 1, Len(Kept))
  BY <1>3, <1>4, Cut
<1>7. \A k \in p..q : today - Kept[k].day > MaxAge
  <2> SUFFICES ASSUME NEW k \in p..q PROVE today - Kept[k].day > MaxAge
    OBVIOUS
  <2>1. Kept[k].day \in Nat /\ Kept[k].day <= l[Len(l)].day
    BY <1>5, <1>6
  <2>2. today \in Nat /\ l[Len(l)].day \in Nat /\ MaxAge \in Nat
    <3>1. Len(l) \in 1..Len(l)
      BY <1>3, <1>4, EmptySeq
    <3>2. QED
      BY <1>5, <3>1, LogAssumption DEF LogTypes
  <2>3. QED
    <3> HIDE DEF p, q
    <3> QED
      BY <1>2, <2>1, <2>2
<1>8. UNCHANGED <<today, unread>>
  BY DEF RemoveExpired, counts, replacements
<1>9. QED
  <2> HIDE DEF p, q
  <2> QED
    BY <1>6, <1>7, <1>8 DEF Log!Expire, Log!Without

\* Trimming takes the oldest lines, while there are too many.
LEMMA TrimImplements ==
  ASSUME LogTypes, LogTypes', OrderInv, TrimOldest
  PROVE  Log!Trim
<1> DEFINE l == archives[1].lines
<1>1. 1 \in 1..Len(archives) /\ archives' = RemoveAt(archives, 1)
  BY TrimIsRemoval
<1>2. l # <<>>
  BY <1>1 DEF OrderInv
<1>3. PICK a \in Seq(Entries), b \in Seq(Entries) :
        Kept = a \o (l \o b) /\ Kept' = a \o b /\ l \in Seq(Entries) /\ a = <<>>
  BY <1>1, <1>2, RemovalCuts DEF TrimOldest
<1> HIDE DEF l
<1> DEFINE n == Len(a) + Len(l)
<1>4. n \in 1..Len(Kept) /\ SubSeq(Kept, n + 1, Len(Kept)) = b
  BY <1>2, <1>3, Cut
<1>5. Kept' = b
  BY <1>3, ConcatEmptySeq
<1>6. Log!SizeOf(Kept) > MaxTotal
  <2>1. SizeOf(Kept) = Stored + Held /\ Stored \in Nat /\ Held \in Nat /\ Stored > MaxTotal
    BY KeptIs, Volumes DEF TrimOldest
  <2>2. QED
    BY <2>1, LogSizeIs, LogAssumption
<1>7. UNCHANGED <<today, unread>>
  BY DEF TrimOldest, counts, replacements
<1>8. QED
  <2> HIDE DEF n
  <2> QED
    BY <1>4, <1>5, <1>6, <1>7 DEF Log!Trim

\* A line joins the end, not before its day.
LEMMA AppendImplements ==
  ASSUME LogTypes, LogTypes', StepInv, AppendLine
  PROVE  Log!Write
<1>1. PICK e \in Entries : /\ e.day = today /\ active' = Append(active, e)
                           /\ archives' = archives
  BY AppendGrows
<1>2. /\ Kept = Join(archives) \o active /\ Kept' = Join(archives) \o active'
      /\ Join(archives) \in Seq(Entries) /\ active \in Seq(Entries) /\ Kept \in Seq(Entries)
  BY <1>1, KeptIs
<1>3. Kept' = Kept \o <<e>>
  <2>1. <<e>> \in Seq(Entries) /\ active' = active \o <<e>>
    BY <1>1, <1>2, AppendIsConcat
  <2>2. (Join(archives) \o active) \o <<e>> = Join(archives) \o (active \o <<e>>)
    BY <1>2, <2>1, ConcatAssociative
  <2>3. QED
    BY <1>2, <2>1, <2>2
<1>4. Kept' = Append(Kept, e)
  BY <1>2, <1>3, AppendIsConcat
<1>5. Len(Kept') = Len(Kept) + 1 /\ Len(Kept) \in Nat /\ Kept'[Len(Kept) + 1] = e
  BY <1>2, <1>4, AppendProperties, LenProperties
<1>6. Len(Kept') - 1 = Len(Kept)
  BY <1>5
<1>7. Front(Kept') = Kept
  <2>1. <<e>> \in Seq(Entries)
    OBVIOUS
  <2>2. SubSeq(Kept', 1, Len(Kept)) = Kept
    BY <1>2, <1>3, <2>1, Pieces
  <2>3. QED
    BY <1>6, <2>2 DEF Front
<1>8. Last(Kept').day <= today
  <2>1. Last(Kept') = e
    BY <1>5 DEF Last
  <2>2. QED
    BY <1>1, <2>1 DEF LogTypes
<1>9. UNCHANGED <<today, unread>>
  BY DEF AppendLine, counts, replacements
<1>10. QED
  BY <1>5, <1>7, <1>8, <1>9 DEF Log!Write, Log!Front, Log!Last, Front, Last

\* A rename that could not see all archives takes out one of them at most, which
\* is older than the file it moves.
LEMMA UnreadImplements ==
  ASSUME LogTypes, LogTypes', OrderInv, RenameUnread
  PROVE  Log!Unread
<1>1. PICK rest \in Seq(Files) :
        /\ rest = archives \/ \E i \in 1..Len(archives) : rest = RemoveAt(archives, i)
        /\ active' = <<>> /\ Join(archives') = Join(rest) \o active
  BY UnreadMoves
<1>2. active # <<>> /\ today' = today /\ unread' = unread + 1
  BY DEF RenameUnread, RenameTo
<1>3. Kept = Join(archives) \o active /\ Kept' = Join(rest) \o active
  <2>1. /\ Kept = Join(archives) \o active /\ Kept' = Join(archives') \o active'
        /\ Join(archives') \in Seq(Entries)
    BY KeptIs
  <2>2. Join(archives') \o <<>> = Join(archives')
    BY <2>1, ConcatEmptySeq
  <2>3. QED
    BY <1>1, <2>1, <2>2
<1>4. CASE rest = archives
  BY <1>2, <1>3, <1>4 DEF Log!Unread
<1>5. CASE \E i \in 1..Len(archives) : rest = RemoveAt(archives, i)
  <2>1. PICK i \in 1..Len(archives) : rest = RemoveAt(archives, i)
    BY <1>5
  <2> DEFINE l == archives[i].lines
  <2>2. l # <<>>
    BY DEF OrderInv
  <2>3. PICK a \in Seq(Entries), b \in Seq(Entries) :
          Kept = a \o (l \o b) /\ Kept' = a \o b /\ l \in Seq(Entries) /\ Len(active) <= Len(b)
    BY <1>3, <2>1, FileCuts
  <2> HIDE DEF l
  <2> DEFINE p == Len(a) + 1
             q == Len(a) + Len(l)
  <2>4. /\ p \in 1..Len(Kept) /\ q \in 1..Len(Kept) /\ p <= q
        /\ Kept' = SubSeq(Kept, 1, p - 1) \o SubSeq(Kept, q + 1, Len(Kept))
    BY <2>2, <2>3, Cut
  <2>5. q < Len(Kept)
    <3>1. Len(active) \in Nat \ {0} /\ Len(a) \in Nat /\ Len(l) \in Nat /\ Len(b) \in Nat
      BY <1>2, <2>3, EmptySeq, LenProperties DEF LogTypes
    <3>2. l \o b \in Seq(Entries) /\ Len(l \o b) = Len(l) + Len(b)
      BY <2>3, ConcatProperties
    <3>3. Len(Kept) = Len(a) + Len(l \o b)
      BY <2>3, <3>2, ConcatProperties
    <3>4. QED
      BY <2>3, <3>1, <3>2, <3>3
  <2>6. QED
    <3> HIDE DEF p, q
    <3> QED
      BY <1>2, <2>4, <2>5 DEF Log!Unread, Log!Without
<1>6. QED
  BY <1>1, <1>4, <1>5

\* Every other move leaves the lines where they are, a rename too.
LEMMA MovesImplement ==
  ASSUME LogInv, LogInv', LogMoves
  PROVE  [Log!Next]_<<Kept, today, unread>>
<1>1. LogTypes /\ LogTypes' /\ StepInv /\ OrderInv
  BY DEF LogInv
<1>2. CASE Removes
  BY <1>1, <1>2, ExpiredImplements, TrimImplements DEF Removes, Log!Next
<1>3. CASE AppendLine
  BY <1>1, <1>3, AppendImplements DEF Log!Next
<1>4. CASE Rename
  <2>1. active' = <<>> /\ Join(archives') = Join(archives) \o active /\ today' = today
        /\ unread' = unread
    BY <1>1, <1>4, RenameMoves DEF Rename, RenameTo
  <2>2. /\ Kept = Join(archives) \o active /\ Kept' = Join(archives') \o active'
        /\ Join(archives') \in Seq(Entries)
    BY <1>1, KeptIs
  <2>3. Join(archives') \o <<>> = Join(archives')
    BY <2>2, ConcatEmptySeq
  <2>4. QED
    BY <2>1, <2>2, <2>3
<1>5. CASE Idles
  <2>1. active' = active /\ archives' = archives
    BY <1>5, IdlesKeep
  <2>2. Kept' = Kept
    BY <1>1, <2>1, KeptIs
  <2>3. today' = today \/ today' = today + 1
    BY <1>5 DEF Idles, logVars, OpenActiveFile, Close, NothingToRename, Reopen, ExpiryEnds, TrimEnds,
       LogFails, Fails, CloseFails, Deaf, NewDay, LogCrash, LogRestart, Write
  <2>4. unread' = unread
    <3>1. UNCHANGED replacements
      BY <1>5 DEF Idles, logVars, counts, OpenActiveFile, Close, NothingToRename, Reopen, ExpiryEnds,
         TrimEnds, LogFails, Fails, CloseFails, Deaf, NewDay, LogCrash, LogRestart, Write
    <3>2. QED
      BY <3>1 DEF replacements
  <2>5. QED
    BY <2>2, <2>3, <2>4 DEF Log!Next, Log!NewDay
<1>6. CASE RenameUnread
  BY <1>1, <1>6, UnreadImplements DEF Log!Next
<1>7. QED
  BY <1>2, <1>3, <1>4, <1>5, <1>6, MovesSplit

\* The files are together a bounded log: rotation, cleanup, failing calls and
\* the death of the process at any of them never reorder the lines, and remove
\* none from the middle that is not too old, except one stretch of older lines
\* for each rename that could not read the archive directory (rotating_writer.go,
\* Write, rotate, nextArchivePath and cleanupArchives).
THEOREM LogCorrect == Spec => LogSpec
<1>1. Init => Log!Init
  <2> SUFFICES ASSUME Init PROVE Log!Init
    OBVIOUS
  <2>1. active = <<>> /\ archives = <<>> /\ today = 0 /\ unread = 0
    BY DEF Init, LogInit
  <2>2. Archived = <<>>
    <3>1. Len(archives) = 0
      BY <2>1, EmptySeq
    <3>2. QED
      BY <3>1, ArchivedIs, JoinSteps DEF Join
  <2>3. <<>> \o <<>> = <<>>
    <3>1. <<>> \in Seq(Entries)
      OBVIOUS
    <3>2. QED
      BY <3>1, ConcatEmptySeq
  <2>4. QED
    BY <2>1, <2>2, <2>3 DEF Log!Init, Kept
<1>2. TelemetryInv /\ TelemetryInv' /\ [Next]_vars => [Log!Next]_<<Kept, today, unread>>
  <2> SUFFICES ASSUME TelemetryInv, TelemetryInv', [Next]_vars
               PROVE  [Log!Next]_<<Kept, today, unread>>
    OBVIOUS
  <2>1. LogInv /\ LogInv' /\ LogMoves
    BY NextMoves DEF TelemetryInv, LogInv
  <2>2. QED
    BY <2>1, MovesImplement
<1>3. QED
  BY <1>1, <1>2, TelemetryInvariant, PTL DEF Spec, LogSpec, Log!Spec

=============================================================================
