--------------------------- MODULE Roadmap_proofs ---------------------------
(***************************************************************************)
(* Theorems about Roadmap: for any jobs, plans, answers and errors, what   *)
(* two normalisations make of the keys of a plan, which rows a replacement *)
(* leaves, and what the statuses of milestones may do.                     *)
(***************************************************************************)
EXTENDS Roadmap, FiniteSetTheorems, SequenceTheorems, WellFoundedInduction, TLAPS

-----------------------------------------------------------------------------
(***************************************************************************)
(* The recursion of UniqueKeys.                                            *)
(***************************************************************************)
\* A set of numbers that is not empty has a least one.
LEMMA Least ==
  ASSUME NEW T \in SUBSET Nat, T # {}
  PROVE  \E m \in T : \A n \in T : m <= n
<1>1. PICK m \in T : \A n \in T : <<n, m>> \notin OpToRel(<, Nat)
  BY WFMin, NatLessThanWellFounded, Zenon
<1>2. \A n \in T : ~(n < m)
  BY <1>1 DEF OpToRel
<1>3. QED
  BY <1>2

\* A set that has 0, and with a number the next one, has them all.
LEMMA Induction ==
  ASSUME NEW S, 0 \in S, \A n \in Nat : n \in S => n + 1 \in S
  PROVE  \A n \in Nat : n \in S
<1> DEFINE T == Nat \ S
<1> SUFFICES ASSUME T # {} PROVE FALSE
  OBVIOUS
<1>1. PICK m \in T : \A n \in T : m <= n
  BY Least
<1>2. m - 1 \in Nat /\ m - 1 \notin T
  BY <1>1
<1>3. QED
  BY <1>1, <1>2

\* What has a value of T wherever a list has an element is a list over T, and a
\* list has its elements from the set it is over.
LEMMA Listed ==
  ASSUME NEW S, NEW T, NEW s \in Seq(S), NEW f, f = [i \in DOMAIN s |-> f[i]],
         \A i \in DOMAIN s : f[i] \in T
  PROVE  f \in Seq(T) /\ DOMAIN f = DOMAIN s
<1>1. Len(s) \in Nat /\ DOMAIN s = 1..Len(s)
  OBVIOUS
<1>2. f \in [1..Len(s) -> T]
  BY <1>1
<1>3. QED
  BY <1>1, <1>2

\* The elements of a list.
LEMMA Elements ==
  ASSUME NEW S, NEW s \in Seq(S)
  PROVE  \A i \in DOMAIN s : s[i] \in S /\ i \in Nat
BY ElementOfSeq

\* The numbers of a key are a sequence, and a number more makes another key.
LEMMA Numbers ==
  ASSUME NEW key \in Key, NEW i \in Nat
  PROVE  /\ WithNumber(key, i) \in Key
         /\ WithNumber(key, i).name = key.name
         /\ WithNumber(key, i).numbers = Append(key.numbers, i)
         /\ Len(WithNumber(key, i).numbers) = Len(key.numbers) + 1
<1>1. key.name \in Names /\ key.numbers \in Seq(Nat)
  BY DEF Key
<1>2. Append(key.numbers, i) \in Seq(Nat) /\ Len(Append(key.numbers, i)) = Len(key.numbers) + 1
  BY <1>1
<1>3. WithNumber(key, i) = [name |-> key.name, numbers |-> Append(key.numbers, i)]
  BY DEF WithNumber
<1>4. WithNumber(key, i) \in Key
  BY <1>1, <1>2, <1>3 DEF Key
<1>5. QED
  BY <1>1, <1>2, <1>3, <1>4

\* A key that had a number appended tells which one, and which key it was.
LEMMA NumberedKeys ==
  ASSUME NEW a \in Key, NEW b \in Key, NEW i \in Nat, NEW k \in Nat,
         WithNumber(a, i) = WithNumber(b, k)
  PROVE  a = b /\ i = k
<1>1. a.numbers \in Seq(Nat) /\ b.numbers \in Seq(Nat) /\ a.name = b.name
  BY Numbers DEF Key
<1>2. Append(a.numbers, i) = Append(b.numbers, k)
  BY Numbers
<1>3. a.numbers = b.numbers /\ i = k
  <2>1. ASSUME NEW s \in Seq(Nat), NEW t \in Seq(Nat), Append(s, i) = Append(t, k)
        PROVE  s = t /\ i = k
    <3>1. Len(s) = Len(t)
      BY <2>1
    <3>2. i = k /\ \A n \in 1..Len(s) : s[n] = t[n]
      BY <2>1, <3>1
    <3>3. s = t
      BY <3>1, <3>2, SeqEqual
    <3>4. QED
      BY <3>2, <3>3
  <2>2. QED
    BY <1>1, <1>2, <2>1
<1>4. a = [name |-> a.name, numbers |-> a.numbers] /\ b = [name |-> b.name, numbers |-> b.numbers]
  BY DEF Key
<1>5. QED
  BY <1>1, <1>3, <1>4

\* It is another key than the one it was, and not an empty one.
LEMMA NumberedDiffers ==
  ASSUME NEW key \in Key, NEW i \in Nat
  PROVE  WithNumber(key, i) # key /\ \A name : WithNumber(key, i) # Named(name)
<1>1. key.numbers \in Seq(Nat) /\ Len(key.numbers) \in Nat
  BY DEF Key
<1>2. Len(WithNumber(key, i).numbers) = Len(key.numbers) + 1
  BY Numbers
<1>3. \A name : Len(Named(name).numbers) = 0
  BY DEF Named
<1>4. QED
  BY <1>1, <1>2, <1>3

\* The function of UniqueKeys exists.
LEMMA UniqueKeysIs ==
  ASSUME NEW raw \in Seq(Key)
  PROVE  /\ UniqueKeys(raw) \in Seq(Key) /\ DOMAIN UniqueKeys(raw) = DOMAIN raw
         /\ \A i \in DOMAIN raw :
              UniqueKeys(raw)[i] = IF \E k \in 1..(i - 1) : UniqueKeys(raw)[k] = raw[i]
                                   THEN WithNumber(raw[i], i) ELSE raw[i]
<1> DEFINE D == DOMAIN raw
           F(u) == [i \in D |-> IF \E k \in 1..(i - 1) : u[k] = raw[i]
                                THEN WithNumber(raw[i], i) ELSE raw[i]]
           S == {n \in Nat : \E u : \A i \in D : i <= n => u[i] = F(u)[i]}
<1>0. D = 1..Len(raw) /\ Len(raw) \in Nat
  OBVIOUS
<1>1. 0 \in S
  BY <1>0
<1>2. ASSUME NEW n \in Nat, n \in S PROVE n + 1 \in S
  <2>1. PICK u : \A i \in D : i <= n => u[i] = F(u)[i]
    BY <1>2
  <2> DEFINE v == [i \in D |-> IF i <= n THEN u[i] ELSE F(u)[i]]
  <2>2. ASSUME NEW i \in D, i <= n + 1 PROVE v[i] = F(v)[i]
    <3>1. \A k \in 1..(i - 1) : k \in D /\ k <= n
      BY <1>0, <2>2
    <3>2. \A k \in 1..(i - 1) : v[k] = u[k]
      BY <3>1
    <3>3. F(v)[i] = F(u)[i]
      <4> HIDE DEF v
      <4> QED
        BY <3>2
    <3>4. v[i] = F(u)[i]
      BY <2>1
    <3>5. QED
      BY <3>3, <3>4
  <2>3. \E x : \A i \in D : i <= n + 1 => x[i] = F(x)[i]
    <3> HIDE DEF v
    <3> QED
      BY <2>2
  <2>4. QED
    BY <2>3
<1>3. Len(raw) \in S
  <2> HIDE DEF S
  <2> QED
    BY <1>0, <1>1, <1>2, Induction
<1>4. PICK u : \A i \in D : u[i] = F(u)[i]
  BY <1>0, <1>3
<1>5. F(u) = F(F(u))
  <2>1. \A i \in D : \A k \in 1..(i - 1) : F(u)[k] = u[k]
    <3>1. \A i \in D : \A k \in 1..(i - 1) : k \in D
      BY <1>0
    <3> HIDE DEF F
    <3> QED
      BY <1>4, <3>1
  <2> DEFINE w == F(u)
  <2>2. \A i \in D : F(w)[i] = F(u)[i]
    <3> HIDE DEF w
    <3>1. \A i \in D : \A k \in 1..(i - 1) : w[k] = u[k]
      BY <2>1 DEF w
    <3> QED
      BY <3>1
  <2>3. QED
    BY <2>2
<1> DEFINE K == UniqueKeys(raw)
<1>6. K = F(K)
  <2>1. \E x : x = F(x)
    <3> HIDE DEF F
    <3> QED
      BY <1>5
  <2>2. K = CHOOSE x : x = F(x)
    BY DEF UniqueKeys
  <2> HIDE DEF F, K
  <2> QED
    BY <2>1, <2>2
<1>7. \A i \in D : F(K)[i] \in Key
  <2>1. \A i \in D : raw[i] \in Key /\ i \in Nat
    BY <1>0, ElementOfSeq
  <2> HIDE DEF K
  <2> QED
    BY <2>1, Numbers
<1>8. K \in [1..Len(raw) -> Key]
  <2>1. \A i \in D : K[i] \in Key
    <3> HIDE DEF K, F
    <3> QED
      BY <1>6, <1>7
  <2>2. K = [i \in D |-> K[i]]
    BY <1>6
  <2> HIDE DEF K, F
  <2> QED
    BY <1>0, <2>1, <2>2
<1>9. K \in Seq(Key)
  <2> HIDE DEF K, F
  <2> QED
    BY <1>0, <1>8
<1>10. \A i \in D : K[i] = IF \E k \in 1..(i - 1) : K[k] = raw[i] THEN WithNumber(raw[i], i) ELSE raw[i]
  <2> HIDE DEF K
  <2> QED
    BY <1>6
<1>11. QED
  <2> HIDE DEF K
  <2>1. DOMAIN K = D
    BY <1>0, <1>8
  <2> QED
    BY <1>9, <1>10, <2>1 DEF K

-----------------------------------------------------------------------------
(***************************************************************************)
(* What one and two normalisations make of keys.                           *)
(***************************************************************************)
Once(s) == \A i, k \in DOMAIN s : s[i] = s[k] => i = k

\* A key is kept, if not at its place then at an earlier one.
LEMMA KeysKept ==
  ASSUME NEW raw \in Seq(Key), NEW i \in DOMAIN raw
  PROVE  \E k \in DOMAIN raw : UniqueKeys(raw)[k] = raw[i]
<1>1. 1..(i - 1) \subseteq DOMAIN raw
  OBVIOUS
<1>2. CASE \E k \in 1..(i - 1) : UniqueKeys(raw)[k] = raw[i]
  BY <1>1, <1>2
<1>3. CASE ~\E k \in 1..(i - 1) : UniqueKeys(raw)[k] = raw[i]
  BY <1>3, UniqueKeysIs
<1>4. QED
  BY <1>2, <1>3

\* After the second normalisation no key is there twice.  A key that is
\* numbered then was numbered before: otherwise an earlier key was numbered only
\* now, and so on down to the first.
LEMMA SecondParts ==
  ASSUME NEW raw \in Seq(Key), Tame(raw)
  PROVE  Once(UniqueKeys(UniqueKeys(raw)))
<1> DEFINE o == UniqueKeys(raw)
           p == UniqueKeys(o)
           D == DOMAIN raw
           Late == {n \in D : p[n] # o[n] /\ o[n] = raw[n]}
<1>1. o \in Seq(Key) /\ DOMAIN o = D /\ p \in Seq(Key) /\ DOMAIN p = D /\ D \subseteq Nat
  BY UniqueKeysIs
<1>2. \A n \in D : raw[n] \in Key /\ o[n] \in Key /\ p[n] \in Key
  BY <1>1, ElementOfSeq
<1>3. \A n \in D : 1..(n - 1) \subseteq D
  OBVIOUS
<1>4. \A n \in D : IF \E k \in 1..(n - 1) : o[k] = raw[n]
                   THEN o[n] = WithNumber(raw[n], n) ELSE o[n] = raw[n]
  BY UniqueKeysIs
<1>5. \A n \in D : IF \E k \in 1..(n - 1) : p[k] = o[n]
                   THEN p[n] = WithNumber(o[n], n) ELSE p[n] = o[n]
  BY <1>1, UniqueKeysIs
<1>6. \A n \in D : WithNumber(raw[n], n) # raw[n] /\ WithNumber(o[n], n) # o[n]
  BY <1>1, <1>2, NumberedDiffers
<1> HIDE DEF o, p
<1>7. ASSUME NEW n \in Late PROVE \E y \in Late : y < n
  <2>1. PICK y \in 1..(n - 1) : p[y] = o[n]
    BY <1>5
  <2>2. y \in D /\ y < n
    BY <1>1, <1>3
  <2>3. o[y] # o[n]
    BY <1>4, <1>6
  <2>4. p[y] = WithNumber(o[y], y) /\ p[y] # o[y]
    BY <1>5, <2>1, <2>2, <2>3
  <2>5. o[y] = raw[y]
    BY <1>4, <2>1, <2>2, <2>4 DEF Tame
  <2>6. QED
    BY <2>2, <2>4, <2>5
<1>8. Late = {}
  <2> SUFFICES ASSUME Late # {} PROVE FALSE
    OBVIOUS
  <2>1. Late \in SUBSET Nat
    BY <1>1
  <2>2. PICK m \in Late : \A n \in Late : m <= n
    BY <2>1, Least
  <2>3. PICK y \in Late : y < m
    BY <1>7
  <2>4. QED
    BY <2>1, <2>2, <2>3
<1>9. ASSUME NEW l \in D, NEW m \in 1..(l - 1), p[l] = p[m] PROVE FALSE
  <2>1. m \in D /\ m \in Nat /\ l \in Nat /\ m # l
    BY <1>1, <1>3
  <2>2. p[l] = WithNumber(o[l], l) /\ p[l] # o[l]
    BY <1>5, <1>6, <1>9
  <2>3. o[l] = WithNumber(raw[l], l)
    BY <1>4, <1>8, <2>2
  <2>4. p[m] # WithNumber(o[m], m)
    BY <1>2, <1>9, <2>1, <2>2, NumberedKeys
  <2>5. o[m] = WithNumber(WithNumber(raw[l], l), l)
    BY <1>5, <1>9, <2>1, <2>2, <2>3, <2>4
  <2>6. o[m] # WithNumber(raw[m], m)
    BY <1>2, <2>1, <2>3, <2>5, NumberedKeys
  <2>7. QED
    BY <1>4, <2>1, <2>5, <2>6 DEF Tame
<1>10. \A i, k \in D : i < k => p[i] # p[k]
  <2>1. \A i, k \in D : i < k => i \in 1..(k - 1)
    OBVIOUS
  <2>2. QED
    BY <1>9, <2>1
<1>11. \A i, k \in D : i < k \/ k < i \/ i = k
  OBVIOUS
<1>12. QED
  BY <1>1, <1>10, <1>11 DEF Once, o, p

-----------------------------------------------------------------------------
(***************************************************************************)
(* Plans.                                                                  *)
(***************************************************************************)

NoBlanks(s) == \A i \in DOMAIN s : s[i] # Named("")

\* What Normalize makes of a plan.
Normal(n) ==
  /\ n \in Raw /\ WellFormed(n) /\ NoBlanks(n.phases) /\ NoBlanks(Keys(n))
  /\ \A i \in DOMAIN n.milestones :
       /\ n.milestones[i].phase \in ToSet(n.phases)
       /\ n.milestones[i].status \in Statuses

\* The empty keys get a name and a number.
LEMMA NumberedIs ==
  ASSUME NEW raw \in Seq(Key), NEW default \in Names
  PROVE  /\ Numbered(raw, default) \in Seq(Key) /\ DOMAIN Numbered(raw, default) = DOMAIN raw
         /\ NoBlanks(Numbered(raw, default))
         /\ NoBlanks(raw) => Numbered(raw, default) = raw
<1> DEFINE N == Numbered(raw, default)
<1>1. Named(default) \in Key
  BY DEF Named, Key
<1>2. \A i \in DOMAIN raw : raw[i] \in Key /\ i \in Nat
  BY ElementOfSeq
<1>3. \A i \in DOMAIN raw :
        WithNumber(Named(default), i) \in Key /\ WithNumber(Named(default), i) # Named("")
  BY <1>1, <1>2, Numbers, NumberedDiffers
<1>4. N = [i \in DOMAIN raw |-> IF raw[i] = Named("") THEN WithNumber(Named(default), i) ELSE raw[i]]
  BY DEF Numbered
<1>5. DOMAIN N = DOMAIN raw /\ \A i \in DOMAIN raw : N[i] \in Key /\ N[i] # Named("")
  BY <1>2, <1>3, <1>4
<1>6. N \in Seq(Key)
  <2>1. N = [i \in DOMAIN raw |-> N[i]]
    BY <1>4
  <2> HIDE DEF N
  <2>2. QED
    BY <1>5, <2>1, Listed
<1>7. NoBlanks(raw) => N = raw
  <2>1. raw = [i \in DOMAIN raw |-> raw[i]]
    OBVIOUS
  <2>2. QED
    BY <1>4, <2>1 DEF NoBlanks
<1>8. QED
  BY <1>5, <1>6, <1>7 DEF NoBlanks

\* Making keys unique makes none empty.
LEMMA UniqueNoBlanks ==
  ASSUME NEW raw \in Seq(Key), NoBlanks(raw)
  PROVE  NoBlanks(UniqueKeys(raw))
<1>1. \A i \in DOMAIN raw : raw[i] \in Key /\ i \in Nat
  BY ElementOfSeq
<1>2. \A i \in DOMAIN raw : WithNumber(raw[i], i) # Named("")
  BY <1>1, NumberedDiffers
<1>3. QED
  BY <1>2, UniqueKeysIs DEF NoBlanks

\* The milestone keys of a plan are keys.
LEMMA PlanKeys ==
  ASSUME NEW p \in Raw
  PROVE  /\ p.phases \in Seq(Key) /\ Keys(p) \in Seq(Key) /\ DOMAIN Keys(p) = DOMAIN p.milestones
         /\ \A i \in DOMAIN p.milestones : p.milestones[i].phase \in Key
<1>1. p.phases \in Seq(Key) /\ p.milestones \in Seq([key : Key, phase : Key, status : Words])
  BY DEF Raw
<1>2. \A i \in DOMAIN p.milestones : p.milestones[i].key \in Key /\ p.milestones[i].phase \in Key
  <2>1. \A i \in DOMAIN p.milestones : p.milestones[i] \in [key : Key, phase : Key, status : Words]
    <3> HIDE DEF Raw
    <3> QED
      BY <1>1, Elements, Zenon
  <2>2. QED
    BY <2>1
<1>3. Keys(p) = [i \in DOMAIN p.milestones |-> Keys(p)[i]] /\ \A i \in DOMAIN p.milestones : Keys(p)[i] \in Key
  BY <1>2 DEF Keys
<1>4. Keys(p) \in Seq(Key)
  <2> DEFINE R == [key : Key, phase : Key, status : Words]
             M == p.milestones
             K == Keys(p)
  <2>1. M \in Seq(R) /\ K = [i \in DOMAIN M |-> K[i]] /\ \A i \in DOMAIN M : K[i] \in Key
    BY <1>1, <1>3
  <2> HIDE DEF R, M, K
  <2>2. K \in Seq(Key)
    BY <2>1, Listed
  <2>3. QED
    BY <2>2 DEF K
<1>5. QED
  BY <1>1, <1>2, <1>4 DEF Keys

\* Normalize answers with a plan whose milestones have a phase and a status.
LEMMA NormalizeIs ==
  ASSUME NEW p \in Raw, WellFormed(p)
  PROVE  /\ Normal(Normalize(p))
         /\ Normalize(p).phases = UniqueKeys(Numbered(p.phases, "phase"))
         /\ Keys(Normalize(p)) = UniqueKeys(Numbered(Keys(p), "milestone"))
<1> DEFINE n == Normalize(p)
           P == UniqueKeys(Numbered(p.phases, "phase"))
           K == UniqueKeys(Numbered(Keys(p), "milestone"))
           D == DOMAIN p.milestones
           InPhase(k) == IF k \in ToSet(P) THEN k ELSE P[1]
           Row(i) == [key |-> K[i], phase |-> InPhase(p.milestones[i].phase),
                      status |-> normalizeMilestoneStatus(p.milestones[i].status)]
<1>1. P \in Seq(Key) /\ DOMAIN P = DOMAIN p.phases /\ NoBlanks(P)
  BY PlanKeys, NumberedIs, UniqueKeysIs, UniqueNoBlanks, RoadmapAssumption
<1>2. K \in Seq(Key) /\ DOMAIN K = D /\ NoBlanks(K)
  BY PlanKeys, NumberedIs, UniqueKeysIs, UniqueNoBlanks, RoadmapAssumption
<1>3. n = [phases |-> P, milestones |-> [i \in D |-> Row(i)]]
  BY DEF Normalize, Keys
<1> HIDE DEF n, P, K
<1>4. 1 \in DOMAIN P
  <2>1. p.phases \in Seq(Key) /\ p.phases # <<>>
    BY PlanKeys DEF WellFormed
  <2>2. QED
    BY <1>1, <2>1
<1>5. \A k : InPhase(k) \in ToSet(P)
  BY <1>4 DEF ToSet
<1>6. ToSet(P) \subseteq Key
  BY <1>1, ElementOfSeq DEF ToSet
<1>7. \A s : normalizeMilestoneStatus(s) \in Statuses
  BY DEF normalizeMilestoneStatus, Statuses
<1>8. \A i \in D : /\ Row(i) \in [key : Key, phase : Key, status : Words]
                   /\ Row(i).phase \in ToSet(P) /\ Row(i).status \in Statuses
  <2>1. \A i \in D : K[i] \in Key
    BY <1>2, ElementOfSeq
  <2>2. Statuses \subseteq Words
    BY RoadmapAssumption
  <2> HIDE DEF InPhase
  <2>3. QED
    BY <1>5, <1>6, <1>7, <2>1, <2>2
<1> HIDE DEF Row
<1>9. p.milestones \in Seq([key : Key, phase : Key, status : Words]) /\ p.milestones # <<>>
  BY DEF Raw, WellFormed
<1>10. n.milestones \in Seq([key : Key, phase : Key, status : Words]) /\ n.milestones # <<>>
  <2>1. 1 \in D
    BY <1>9
  <2>2. n.milestones = [i \in D |-> n.milestones[i]]
    BY <1>3
  <2>3. \A i \in D : n.milestones[i] \in [key : Key, phase : Key, status : Words]
    BY <1>3, <1>8
  <2>4. n.milestones \in Seq([key : Key, phase : Key, status : Words]) /\ DOMAIN n.milestones = D
    <3> DEFINE R == [key : Key, phase : Key, status : Words]
               M == p.milestones
               F == n.milestones
    <3>1. M \in Seq(R) /\ F = [i \in DOMAIN M |-> F[i]] /\ \A i \in DOMAIN M : F[i] \in R
      BY <1>9, <2>2, <2>3
    <3> HIDE DEF R, M, F
    <3>2. F \in Seq(R) /\ DOMAIN F = DOMAIN M
      BY <3>1, Listed
    <3>3. QED
      BY <3>2 DEF R, M, F
  <2>5. QED
    BY <2>1, <2>4
<1>11. n.phases = P /\ P # <<>>
  BY <1>3, <1>4
<1>12. n \in Raw /\ WellFormed(n)
  BY <1>1, <1>3, <1>10, <1>11 DEF Raw, WellFormed
<1>13. Keys(n) = K
  <2>1. \A i \in D : Row(i).key = K[i]
    BY DEF Row
  <2>2. K = [i \in D |-> K[i]]
    BY <1>2
  <2>3. QED
    BY <1>3, <2>1, <2>2 DEF Keys
<1>14. \A i \in DOMAIN n.milestones :
         n.milestones[i].phase \in ToSet(n.phases) /\ n.milestones[i].status \in Statuses
  BY <1>3, <1>8, <1>11
<1>15. QED
  BY <1>1, <1>2, <1>11, <1>12, <1>13, <1>14 DEF Normal, n, P, K

-----------------------------------------------------------------------------
(***************************************************************************)
(* The rows of a plan.                                                     *)
(***************************************************************************)
Row == [id : Nat, phase : Nat, key : Key, status : Statuses]

\* A plan has finitely many milestones to insert.
LEMMA InputsFinite ==
  ASSUME NEW n \in Raw
  PROVE  IsFiniteSet(Inputs(n)) /\ Inputs(n) \subseteq Nat \X Nat
<1> DEFINE P == DOMAIN n.phases
           M == DOMAIN n.milestones
<1>1. n.phases \in Seq(Key) /\ n.milestones \in Seq([key : Key, phase : Key, status : Words])
  BY DEF Raw
<1>2. P = 1..Len(n.phases) /\ M = 1..Len(n.milestones) /\ Len(n.phases) \in Nat /\ Len(n.milestones) \in Nat
  BY <1>1
<1>3. IsFiniteSet(P) /\ IsFiniteSet(M)
  <2>1. 1 \in Int /\ Len(n.phases) \in Int /\ Len(n.milestones) \in Int
    BY <1>2
  <2>2. IsFiniteSet(1..Len(n.phases)) /\ IsFiniteSet(1..Len(n.milestones))
    BY <2>1, FS_Interval
  <2>3. QED
    BY <1>2, <2>2
<1>4. P \subseteq Nat /\ M \subseteq Nat
  BY <1>2
<1> HIDE DEF P, M
<1>5. IsFiniteSet(P \X M)
  BY <1>3, FS_Product
<1>6. Inputs(n) \subseteq P \X M
  BY DEF Inputs, P, M
<1>7. IsFiniteSet(Inputs(n))
  BY <1>5, <1>6, FS_Subset
<1>8. P \X M \subseteq Nat \X Nat
  BY <1>4
<1>9. QED
  BY <1>6, <1>7, <1>8

\* Their numbers are different, and go up to how many they are.
LEMMA InOrder ==
  ASSUME NEW I, IsFiniteSet(I), I \subseteq Nat \X Nat
  PROVE  /\ Cardinality(I) \in Nat
         /\ \A r \in I : Cardinality(UpTo(r, I)) \in 1..Cardinality(I)
         /\ \A r, q \in I : Cardinality(UpTo(r, I)) = Cardinality(UpTo(q, I)) => r = q
<1> DEFINE Before(r, q) == r[1] < q[1] \/ (r[1] = q[1] /\ r[2] < q[2])
<1>1. \A r \in I : r[1] \in Nat /\ r[2] \in Nat /\ r = <<r[1], r[2]>>
  <2>1. \A r \in Nat \X Nat : r[1] \in Nat /\ r[2] \in Nat /\ r = <<r[1], r[2]>>
    OBVIOUS
  <2>2. QED
    BY <2>1
<1>2. Cardinality(I) \in Nat
  BY FS_CardinalityType
<1>3. ASSUME NEW r \in I
      PROVE  /\ UpTo(r, I) \subseteq I /\ r \in UpTo(r, I) /\ IsFiniteSet(UpTo(r, I))
             /\ Cardinality(UpTo(r, I)) \in 1..Cardinality(I)
  <2>1. UpTo(r, I) \subseteq I /\ r \in UpTo(r, I)
    BY <1>1 DEF UpTo
  <2>2. IsFiniteSet(UpTo(r, I)) /\ Cardinality(UpTo(r, I)) <= Cardinality(I)
    BY <2>1, FS_Subset
  <2>3. Cardinality(UpTo(r, I)) \in Nat /\ Cardinality(UpTo(r, I)) # 0
    BY <2>1, <2>2, FS_CardinalityType, FS_EmptySet
  <2>4. QED
    BY <1>2, <2>1, <2>2, <2>3
<1>4. ASSUME NEW r \in I, NEW q \in I, Before(r, q)
      PROVE  Cardinality(UpTo(r, I)) # Cardinality(UpTo(q, I))
  <2>1. UpTo(r, I) \subseteq UpTo(q, I)
    BY <1>1, <1>4 DEF UpTo
  <2>2. q \notin UpTo(r, I)
    BY <1>1, <1>4 DEF UpTo
  <2>3. UpTo(r, I) # UpTo(q, I)
    BY <1>3, <2>2
  <2>4. QED
    BY <1>3, <2>1, <2>3, FS_Subset
<1>5. \A r, q \in I : r = q \/ Before(r, q) \/ Before(q, r)
  BY <1>1
<1>6. QED
  BY <1>2, <1>3, <1>4, <1>5

\* What ReplaceProjectRoadMap inserts for a plan: rows with new ids, each
\* milestone under a phase, every key of the plan, and distinct keys if the
\* plan has them.
NewRows(n) ==
  LET new == Inserted(n)
      fresh == (lastId + 1)..new.last IN
  /\ new.last \in Nat /\ new.last >= lastId
  /\ \A x \in new.phases : x.id \in fresh /\ x.key \in Key
  /\ new.milestones \subseteq Row
  /\ \A m \in new.milestones : m.id \in fresh /\ m.phase \in {x.id : x \in new.phases}
  /\ \A m, x \in new.milestones : m.id = x.id => m = x
  /\ \A k \in ToSet(Keys(n)) : \E m \in new.milestones : m.key = k
  /\ Once(n.phases) /\ Once(Keys(n)) =>
       /\ \A x, y \in new.phases : x.key = y.key => x = y
       /\ \A m, x \in new.milestones : m.key = x.key => m = x

\* An insertion of a normalised plan makes such rows.
LEMMA InsertedIs ==
  ASSUME lastId \in Nat, NEW n, Normal(n)
  PROVE  NewRows(n)
<1> DEFINE new == Inserted(n)
           P == DOMAIN n.phases
           M == DOMAIN n.milestones
           I == Inputs(n)
           first == lastId + Len(n.phases)
           Number(r) == Cardinality(UpTo(r, I))
           PhaseRow(i) == [id |-> lastId + i, key |-> n.phases[i]]
           MilestoneRow(r) == [id |-> first + Number(r), phase |-> lastId + r[1],
                               key |-> n.milestones[r[2]].key, status |-> n.milestones[r[2]].status]
<1>1. /\ n.phases \in Seq(Key) /\ P = 1..Len(n.phases) /\ Len(n.phases) \in Nat
      /\ \A i \in P : n.phases[i] \in Key /\ i \in 1..Len(n.phases)
  BY Elements DEF Normal, Raw
<1>2. new = [phases |-> {PhaseRow(i) : i \in P}, milestones |-> {MilestoneRow(r) : r \in I},
             last |-> first + Cardinality(I)]
  BY DEF Inserted
<1>3. /\ Cardinality(I) \in Nat
      /\ \A r \in I : Number(r) \in 1..Cardinality(I)
      /\ \A r, q \in I : Number(r) = Number(q) => r = q
  <2>1. IsFiniteSet(I) /\ I \subseteq Nat \X Nat
    BY InputsFinite DEF Normal
  <2> HIDE DEF I
  <2>2. QED
    BY <2>1, InOrder
<1>4. \A r \in I : r[1] \in P /\ r[2] \in M /\ r = <<r[1], r[2]>> /\ n.milestones[r[2]].phase = n.phases[r[1]]
  BY DEF Inputs
<1>5. \A i \in M : \E r \in I : r[2] = i
  <2>1. ASSUME NEW i \in M PROVE \E r \in I : r[2] = i
    <3>1. PICK h \in P : n.milestones[i].phase = n.phases[h]
      BY DEF Normal, ToSet
    <3>2. <<h, i>> \in I
      BY <3>1 DEF Inputs
    <3>3. QED
      BY <3>2
  <2>2. QED
    BY <2>1
<1>6. \A i \in M : n.milestones[i].key = Keys(n)[i] /\ Keys(n)[i] \in Key /\ n.milestones[i].status \in Statuses
  <2>1. \A i \in M : n.milestones[i].key = Keys(n)[i] /\ n.milestones[i].status \in Statuses
    BY DEF Normal, Keys
  <2>2. Keys(n) \in Seq(Key) /\ DOMAIN Keys(n) = M
    BY PlanKeys DEF Normal
  <2>3. \A i \in M : Keys(n)[i] \in Key
    BY <2>2, Elements
  <2>4. QED
    BY <2>1, <2>3
<1>7. DOMAIN Keys(n) = M
  BY DEF Keys
<1>8. first \in Nat /\ new.last = first + Cardinality(I)
  BY <1>1, <1>2
<1> DEFINE fresh == (lastId + 1)..new.last
<1>9. new.last \in Nat /\ new.last >= lastId
  BY <1>1, <1>3, <1>8
<1>10. \A r \in I : /\ MilestoneRow(r) \in Row /\ MilestoneRow(r).id \in fresh
                    /\ MilestoneRow(r).phase = PhaseRow(r[1]).id
  <2>1. ASSUME NEW r \in I
        PROVE  /\ first + Number(r) \in Nat /\ first + Number(r) \in fresh /\ lastId + r[1] \in Nat
               /\ n.milestones[r[2]].key \in Key /\ n.milestones[r[2]].status \in Statuses
    <3>1. Number(r) \in 1..Cardinality(I)
      BY <1>3
    <3>2. r[1] \in 1..Len(n.phases)
      BY <1>1, <1>4
    <3> HIDE DEF Number, I, new, first
    <3>3. first + Number(r) \in Nat /\ first + Number(r) <= new.last /\ first + Number(r) >= first + 1
      BY <1>3, <1>8, <3>1
    <3>4. first >= lastId
      BY <1>1 DEF first
    <3>5. n.milestones[r[2]].key \in Key /\ n.milestones[r[2]].status \in Statuses
      BY <1>4, <1>6
    <3>6. lastId + r[1] \in Nat
      BY <1>1, <3>2
    <3>7. first + Number(r) \in fresh
      <4>1. \A x \in Nat : x >= first + 1 /\ x <= new.last => x \in fresh
        BY <1>8, <1>9, <3>4
      <4>2. QED
        BY <3>3, <4>1
    <3>8. QED
      BY <3>3, <3>5, <3>6, <3>7
  <2>2. QED
    BY <2>1 DEF Row
<1>11. \A x \in new.phases : \E i \in P : x = PhaseRow(i)
  BY <1>2
<1>12. \A m \in new.milestones : \E r \in I : m = MilestoneRow(r)
  BY <1>2
<1>13. \A i \in P : PhaseRow(i) \in new.phases
  BY <1>2
<1>14. \A r \in I : MilestoneRow(r) \in new.milestones
  BY <1>2
<1>15. \A i \in P : PhaseRow(i).id \in fresh /\ PhaseRow(i).key \in Key
  <2>1. ASSUME NEW i \in P PROVE lastId + i \in fresh
    <3>1. i \in 1..Len(n.phases)
      BY <1>1
    <3> HIDE DEF new, I
    <3>2. QED
      BY <1>3, <1>8, <3>1 DEF first
  <2>2. QED
    BY <1>1, <2>1
<1>16. \A r, q \in I : MilestoneRow(r).id = MilestoneRow(q).id => r = q
  <2>1. \A r, q \in I : first + Number(r) = first + Number(q) => Number(r) = Number(q)
    <3> HIDE DEF Number, I
    <3>1. \A r \in I : Number(r) \in Nat
      BY <1>3
    <3>2. QED
      BY <1>8, <3>1
  <2>2. QED
    BY <1>3, <2>1
<1>17. ASSUME Once(n.phases), Once(Keys(n))
       PROVE  /\ \A i, k \in P : PhaseRow(i).key = PhaseRow(k).key => i = k
              /\ \A r, q \in I : MilestoneRow(r).key = MilestoneRow(q).key => r = q
  <2>1. \A i, k \in P : n.phases[i] = n.phases[k] => i = k
    BY <1>17 DEF Once
  <2>2. \A r, q \in I : MilestoneRow(r).key = MilestoneRow(q).key => r[2] = q[2]
    BY <1>4, <1>6, <1>7, <1>17 DEF Once
  <2>3. \A r, q \in I : r[2] = q[2] => r[1] = q[1]
    BY <1>4, <2>1
  <2>4. QED
    BY <1>4, <2>1, <2>2, <2>3
<1>18. \A k \in ToSet(Keys(n)) : \E r \in I : MilestoneRow(r).key = k
  <2>1. \A k \in ToSet(Keys(n)) : \E i \in M : k = Keys(n)[i]
    BY <1>7 DEF ToSet
  <2>2. \A r \in I : MilestoneRow(r).key = Keys(n)[r[2]]
    BY <1>4, <1>6
  <2>3. QED
    BY <1>5, <2>1, <2>2
<1> HIDE DEF new, I, MilestoneRow, PhaseRow, P, fresh
<1>19. \A m \in new.milestones : m \in Row /\ m.id \in fresh /\ m.phase \in {x.id : x \in new.phases}
  BY <1>4, <1>10, <1>12, <1>13
<1>20. \A x \in new.phases : x.id \in fresh /\ x.key \in Key
  BY <1>11, <1>15
<1>21. \A m, x \in new.milestones : m.id = x.id => m = x
  BY <1>12, <1>16
<1>22. \A k \in ToSet(Keys(n)) : \E m \in new.milestones : m.key = k
  BY <1>14, <1>18
<1>23. Once(n.phases) /\ Once(Keys(n)) =>
         /\ \A x, y \in new.phases : x.key = y.key => x = y
         /\ \A m, x \in new.milestones : m.key = x.key => m = x
  BY <1>11, <1>12, <1>17
<1>24. QED
  BY <1>9, <1>19, <1>20, <1>21, <1>22, <1>23 DEF NewRows, new, fresh

\* The set of numbers that has a bound has a greatest.
LEMMA Greatest ==
  ASSUME NEW S \in SUBSET Nat, S # {}, NEW b \in Nat, \A n \in S : n <= b
  PROVE  Max(S) \in S
<1> DEFINE Gaps == {g \in Nat : b - g \in S}
<1>1. Gaps \in SUBSET Nat
  OBVIOUS
<1>2. Gaps # {}
  <2>1. PICK n \in S : TRUE
    OBVIOUS
  <2>2. n \in Nat /\ b - n \in Nat /\ b - (b - n) = n
    OBVIOUS
  <2>3. b - n \in Gaps
    BY <2>2
  <2>4. QED
    BY <2>3
<1>3. PICK g \in Gaps : \A h \in Gaps : g <= h
  BY <1>1, <1>2, Least
<1>4. \A n \in S : b - n \in Gaps /\ n \in Nat
  OBVIOUS
<1>5. b - g \in S /\ \A n \in S : b - g >= n
  BY <1>3, <1>4
<1>6. QED
  BY <1>5 DEF Max

\* What Persist stores: the plan, normalised again, has every key it had, and
\* has it once.
LEMMA SecondNormal ==
  ASSUME NEW p \in Plans, WellFormed(p)
  PROVE  LET q == Normalize(p)
             n == Normalize(q)
         IN  /\ Normal(n) /\ ToSet(Keys(q)) \subseteq ToSet(Keys(n))
             /\ TamePlan(p) => Once(n.phases) /\ Once(Keys(n))
<1> DEFINE q == Normalize(p)
           n == Normalize(q)
<1>1. p \in Raw /\ "phase" \in Names /\ "milestone" \in Names
  BY RoadmapAssumption
<1>2. /\ Normal(q) /\ q.phases = UniqueKeys(Numbered(p.phases, "phase"))
      /\ Keys(q) = UniqueKeys(Numbered(Keys(p), "milestone"))
  BY <1>1, NormalizeIs
<1> HIDE DEF q
<1>3. q \in Raw /\ WellFormed(q) /\ NoBlanks(q.phases) /\ NoBlanks(Keys(q))
  BY <1>2 DEF Normal
<1>4. q.phases \in Seq(Key) /\ Keys(q) \in Seq(Key)
  BY <1>3, PlanKeys
<1>5. Numbered(q.phases, "phase") = q.phases /\ Numbered(Keys(q), "milestone") = Keys(q)
  BY <1>1, <1>3, <1>4, NumberedIs
<1>6. Normal(n) /\ n.phases = UniqueKeys(q.phases) /\ Keys(n) = UniqueKeys(Keys(q))
  BY <1>3, <1>5, NormalizeIs
<1> HIDE DEF n
<1>7. ToSet(Keys(q)) \subseteq ToSet(Keys(n))
  BY <1>4, <1>6, KeysKept, UniqueKeysIs DEF ToSet
<1>8. Numbered(p.phases, "phase") \in Seq(Key) /\ Numbered(Keys(p), "milestone") \in Seq(Key)
  BY <1>1, PlanKeys, NumberedIs
<1>9. TamePlan(p) => Once(n.phases) /\ Once(Keys(n))
  BY <1>2, <1>6, <1>8, SecondParts DEF TamePlan
<1>10. QED
  BY <1>6, <1>7, <1>9 DEF q, n

-----------------------------------------------------------------------------
(***************************************************************************)
(* The invariant.                                                          *)
(***************************************************************************)
Planned(j) ==
  \E p \in Plans : WellFormed(p) /\ plan[j] = Normalize(p) /\ (j \in untame \/ TamePlan(p))

LocalTypes ==
  /\ pc \in [Jobs -> Steps] /\ errors \in 0..MaxErrors
  /\ overlapped \subseteq Jobs /\ botched \subseteq Jobs
  /\ untame \subseteq Scans /\ muddled \in BOOLEAN
  /\ DOMAIN plan = Scans /\ DOMAIN seen = Scans /\ DOMAIN link = Scans
  /\ DOMAIN read = Evals /\ DOMAIN left = Evals /\ DOMAIN prev = Evals

\* The rows form one roadmap, but for the cases that MilestonesOnce names.
RowsInv ==
  /\ lastId \in Nat
  /\ \A x \in phases : x.id \in 1..lastId
  /\ milestones \subseteq Row
  /\ \A m \in milestones : m.id \in 1..lastId /\ m.phase \in {x.id : x \in phases}
  /\ \A m, x \in milestones : m.id = x.id => m = x
  /\ MilestonesOnce

LinksInv ==
  /\ DOMAIN related \subseteq Scans
  /\ \A q \in DOMAIN related : related[q] \in 0..lastId
  /\ LinksResolve

\* A scan has a plan from the moment it saves its quest, which names one of its
\* keys or none of them.
ScansInv ==
  \A j \in Scans :
    /\ pc[j] \in {"quests", "persist", "replace"} => Planned(j)
    /\ pc[j] \in {"persist", "replace", "undo"} => j \in DOMAIN related
    /\ pc[j] \in {"persist", "replace"} => link[j] \in ToSet(Keys(plan[j])) \cup {Named("?")}

\* A transaction has read every milestone of a phase it has read.
SeenInv ==
  \A j \in Scans :
    /\ seen[j] \subseteq 1..lastId
    /\ pc[j] = "replace" => \A m \in milestones : m.phase \in seen[j] => m.id \in seen[j]

\* What an analysis will restore is what it has read, once it saves evaluations.
EvalsInv ==
  /\ \A e \in evaluations : e.job \in Evals /\ e.milestone \in 1..lastId
  /\ \A j \in Evals :
       /\ DOMAIN read[j] \subseteq 1..lastId /\ \A id \in DOMAIN read[j] : read[j][id] \in Active
       /\ DOMAIN prev[j] \subseteq DOMAIN read[j]
       /\ \A id \in DOMAIN prev[j] : prev[j][id] = read[j][id]
       /\ pc[j] \in {"new", "fetch", "ask"} => DOMAIN prev[j] = {}

OverlapInv ==
  \A i, j \in Jobs : i # j /\ pc[i] \notin Idle /\ pc[j] \notin Idle => j \in overlapped

\* An analysis alone finds every milestone as it was read, or has raised it.
AloneInv ==
  \A j \in Evals \ (overlapped \cup botched) : pc[j] \in {"ask", "evaluate"} =>
    \A m \in milestones : m.id \in DOMAIN read[j] \ DOMAIN prev[j] => m.status = read[j][m.id]

Inv ==
  /\ LocalTypes /\ RowsInv /\ LinksInv /\ ScansInv /\ SeenInv /\ EvalsInv
  /\ OverlapInv /\ AloneInv

\* A job is a scan or an analysis.
LEMMA Kinds ==
  /\ Scans \subseteq Jobs /\ Evals \subseteq Jobs /\ Scans \cap Evals = {}
BY RoadmapAssumption DEF Jobs

\* A replacement: new rows beside those it has not seen, links that resolve, and
\* the quest of the scan linked to the milestone it names.
LEMMA ReplaceStep ==
  ASSUME RowsInv, LinksInv, SeenInv, NEW j \in Scans, pc[j] = "replace", Planned(j),
         j \in DOMAIN related, Replace(j)
  PROVE  /\ RowsInv' /\ LinksInv' /\ lastId' >= lastId /\ DOMAIN related' = DOMAIN related
         /\ \A m \in milestones' : m \in milestones \/ (m.id > lastId /\ m.phase > lastId)
         /\ link[j] \in ToSet(Keys(plan[j])) =>
              \E m \in milestones' : m.id = related'[j] /\ m.key = link[j]
<1>1. PICK p \in Plans : WellFormed(p) /\ plan[j] = Normalize(p) /\ (j \in untame \/ TamePlan(p))
  BY DEF Planned
<1> DEFINE n == Normalize(plan[j])
           new == Inserted(n)
           ids == {m.id : m \in {x \in new.milestones : x.key = link[j]}}
           target == LinkTarget(new, link[j])
<1>2. /\ Normal(n) /\ ToSet(Keys(plan[j])) \subseteq ToSet(Keys(n))
      /\ j \notin untame => Once(n.phases) /\ Once(Keys(n))
  BY <1>1, SecondNormal
<1>3. lastId \in Nat
  BY DEF RowsInv
<1> HIDE DEF n
<1>4. NewRows(n)
  BY <1>2, <1>3, InsertedIs
<1> DEFINE oldPhases == Kept(phases, j)
           oldMilestones == Kept(milestones, j)
<1>5. /\ phases' = oldPhases \cup new.phases /\ milestones' = oldMilestones \cup new.milestones
      /\ lastId' = new.last /\ related' = [Unlinked(j) EXCEPT ![j] = target]
      /\ muddled' = (j \in untame \/ oldPhases # {} \/ oldMilestones # {})
  BY DEF Replace, n
<1>6. /\ new.last \in Nat /\ new.last >= lastId
      /\ \A x \in new.phases : x.id \in (lastId + 1)..new.last
      /\ new.milestones \subseteq Row
      /\ \A m \in new.milestones : m.id \in (lastId + 1)..new.last /\ m.phase \in {x.id : x \in new.phases}
      /\ \A m, x \in new.milestones : m.id = x.id => m = x
      /\ \A k \in ToSet(Keys(n)) : \E m \in new.milestones : m.key = k
      /\ Once(n.phases) /\ Once(Keys(n)) =>
           /\ \A x, y \in new.phases : x.key = y.key => x = y
           /\ \A m, x \in new.milestones : m.key = x.key => m = x
  BY <1>4 DEF NewRows
<1>7. ids # {} => target \in ids
  <2> SUFFICES ASSUME ids # {} PROVE target \in ids
    OBVIOUS
  <2>1. target = Max(ids)
    BY DEF LinkTarget
  <2>2. ids \subseteq Nat /\ \A i \in ids : i <= new.last
    BY <1>3, <1>6
  <2> HIDE DEF ids, new
  <2>3. Max(ids) \in ids
    BY <1>6, <2>2, Greatest
  <2>4. QED
    BY <2>1, <2>3
<1>8. ids = {} => target = 0
  BY DEF LinkTarget
<1> HIDE DEF new, target
<1>9. \A i \in ids : \E m \in new.milestones : m.id = i /\ m.key = link[j]
  OBVIOUS
<1>10. link[j] \in ToSet(Keys(n)) => ids # {}
  BY <1>6
<1> HIDE DEF ids
<1>11. /\ DOMAIN Unlinked(j) = DOMAIN related
       /\ \A q \in DOMAIN related : Unlinked(j)[q] # 0 =>
            Unlinked(j)[q] = related[q] /\ \E m \in oldMilestones : m.id = related[q]
  <2>1. \A q \in DOMAIN related : related[q] # 0 => \E m \in milestones : m.id = related[q]
    BY DEF LinksInv, LinksResolve
  <2>2. QED
    BY <2>1 DEF Unlinked, Kept
<1>12. /\ DOMAIN related' = DOMAIN related /\ related'[j] = target
       /\ \A q \in DOMAIN related : q # j => related'[q] = Unlinked(j)[q]
  BY <1>5, <1>11
<1>13. /\ \A x \in oldPhases : x.id \in 1..lastId
       /\ oldMilestones \subseteq milestones
       /\ \A m \in oldMilestones : m.id \in 1..lastId /\ m.phase \in {x.id : x \in oldPhases}
  <2>1. \A m \in oldMilestones : m \in milestones /\ m.id \notin seen[j]
    BY DEF Kept
  <2>2. \A m \in oldMilestones : m.phase \notin seen[j]
    BY <2>1 DEF SeenInv
  <2>3. \A m \in oldMilestones : m.id \in 1..lastId /\ m.phase \in {x.id : x \in phases}
    BY <2>1 DEF RowsInv
  <2>4. \A x \in phases : x.id \in 1..lastId /\ (x.id \notin seen[j] => x \in oldPhases)
    BY DEF RowsInv, Kept
  <2>5. \A x \in oldPhases : x \in phases
    BY DEF Kept
  <2> HIDE DEF oldPhases, oldMilestones
  <2>6. QED
    BY <2>1, <2>2, <2>3, <2>4, <2>5
<1> HIDE DEF oldPhases, oldMilestones
<1>14. RowsInv'
  <2>1. MilestonesOnce'
    BY <1>2, <1>5, <1>6 DEF MilestonesOnce
  <2>2. lastId' \in Nat /\ (\A x \in phases' : x.id \in 1..lastId')
    BY <1>3, <1>5, <1>6, <1>13
  <2>3. milestones \subseteq Row /\ (\A m, x \in milestones : m.id = x.id => m = x)
    BY DEF RowsInv
  <2>4. milestones' \subseteq Row
    BY <1>5, <1>6, <1>13, <2>3
  <2>5. \A m \in oldMilestones, x \in new.milestones : m.id # x.id
    <3>1. \A m \in oldMilestones : m.id \in 1..lastId
      BY <1>13
    <3>2. \A x \in new.milestones : x.id \in (lastId + 1)..new.last
      BY <1>6
    <3>3. \A a \in 1..lastId, b \in (lastId + 1)..new.last : a # b
      BY <1>3, <1>6
    <3>4. QED
      BY <3>1, <3>2, <3>3, Zenon
  <2>6. \A m, x \in milestones' : m.id = x.id => m = x
    <3>1. \A m, x \in oldMilestones : m.id = x.id => m = x
      BY <1>13, <2>3
    <3>2. \A m, x \in new.milestones : m.id = x.id => m = x
      BY <1>6
    <3>3. milestones' = oldMilestones \cup new.milestones
      BY <1>5
    <3>4. QED
      BY <2>5, <3>1, <3>2, <3>3, Zenon
  <2>7. \A m \in milestones' : m.id \in 1..lastId' /\ m.phase \in {x.id : x \in phases'}
    <3>1. \A m \in oldMilestones : m.id \in 1..lastId' /\ m.phase \in {x.id : x \in phases'}
      BY <1>3, <1>5, <1>6, <1>13
    <3>2. \A m \in new.milestones : m.id \in 1..lastId' /\ m.phase \in {x.id : x \in phases'}
      BY <1>3, <1>5, <1>6
    <3>3. QED
      BY <1>5, <3>1, <3>2
  <2>8. QED
    BY <2>1, <2>2, <2>4, <2>6, <2>7 DEF RowsInv
<1>15. target = 0 \/ \E m \in milestones' : m.id = target /\ m.key = link[j]
  BY <1>5, <1>7, <1>8, <1>9
<1>16. LinksInv'
  <2>1. \A m \in milestones' : m.id \in 0..lastId'
    BY <1>14 DEF RowsInv
  <2>2. 0 \in 0..lastId'
    BY <1>5, <1>6
  <2>3. \A q \in DOMAIN related' :
          related'[q] = 0 \/ \E m \in milestones' : m.id = related'[q]
    <3> TAKE q \in DOMAIN related'
    <3>1. CASE q = j
      BY <1>12, <1>15, <3>1
    <3>2. CASE q # j
      BY <1>5, <1>11, <1>12, <3>2
    <3>3. QED
      BY <3>1, <3>2
  <2>4. DOMAIN related' \subseteq Scans
    BY <1>12 DEF LinksInv
  <2>5. QED
    BY <2>1, <2>2, <2>3, <2>4 DEF LinksInv, LinksResolve
<1>17. \A m \in milestones' : m \in milestones \/ (m.id > lastId /\ m.phase > lastId)
  <2>1. \A m \in new.milestones : m.id > lastId /\ m.phase > lastId
    <3>1. \A x \in new.phases : x.id > lastId
      BY <1>3, <1>6
    <3>2. QED
      BY <1>3, <1>6, <3>1
  <2>2. QED
    BY <1>5, <1>13, <2>1
<1>18. link[j] \in ToSet(Keys(plan[j])) => \E m \in milestones' : m.id = related'[j] /\ m.key = link[j]
  BY <1>2, <1>5, <1>7, <1>9, <1>10, <1>12
<1>19. QED
  BY <1>5, <1>6, <1>12, <1>14, <1>16, <1>17, <1>18

-----------------------------------------------------------------------------
(***************************************************************************)
(* Whose step it is.                                                       *)
(***************************************************************************)
ScanActs(j) == Generate(j) \/ SaveQuest(j) \/ BeginReplace(j) \/ Persist(j) \/ UndoScan(j)

Saves(j) == \E id \in DOMAIN read[j] \cup {0}, result \in Results : SaveEvaluation(j, id, result)

EvalActs(j) ==
  FetchActiveMilestones(j) \/ EvaluateMilestones(j) \/ Saves(j) \/ Saved(j) \/ Rest(j) \/ UndoEval(j)

Acts(j) == Start(j) \/ (j \in Scans /\ ScanActs(j)) \/ (j \in Evals /\ EvalActs(j))

\* A step is one job's, and disturbs no other job's locals.
Others(j) ==
  /\ \A k \in Jobs \ {j} : pc'[k] = pc[k]
  /\ \A k \in Scans \ {j} : /\ plan'[k] = plan[k] /\ link'[k] = link[k] /\ seen'[k] = seen[k]
                           /\ (k \in untame' <=> k \in untame)
  /\ \A k \in Evals \ {j} : read'[k] = read[k] /\ prev'[k] = prev[k]
  /\ overlapped \subseteq overlapped' /\ botched \subseteq botched'

\* Each step is an action of some job.
LEMMA OneActs == Next => \E j \in Jobs : Acts(j)
BY Kinds DEF Next, Acts, ScanActs, EvalActs, Saves

\* A job that goes on to its next step.
LEMMA Goes ==
  ASSUME pc \in [Jobs -> Steps], NEW j \in Jobs, NEW step \in Steps, GoTo(j, step)
  PROVE  pc' \in [Jobs -> Steps] /\ pc'[j] = step /\ \A k \in Jobs \ {j} : pc'[k] = pc[k]
BY DEF GoTo

\* A database call works, or reports an error and is counted.
LEMMA Calls ==
  ASSUME LocalTypes, NEW j \in Jobs, Works \/ Fails(j)
  PROVE  errors' \in 0..MaxErrors /\ botched' \subseteq Jobs /\ botched \subseteq botched'
<1>1. errors \in 0..MaxErrors /\ MaxErrors \in Nat /\ botched \subseteq Jobs
  BY RoadmapAssumption DEF LocalTypes
<1>2. CASE Works
  BY <1>1, <1>2 DEF Works
<1>3. CASE Fails(j)
  <2>1. errors < MaxErrors /\ errors' = errors + 1 /\ botched' = botched \cup {j}
    BY <1>3 DEF Fails
  <2>2. errors' \in 0..MaxErrors
    BY <1>1, <2>1
  <2>3. QED
    BY <1>1, <2>1, <2>2
<1>4. QED
  BY <1>2, <1>3

\* The types of the locals, and whom a step leaves alone.
LEMMA TypesStep ==
  ASSUME LocalTypes, NEW j \in Jobs, Acts(j)
  PROVE  LocalTypes' /\ Others(j)
<1> USE DEF LocalTypes, Others
<1>1. \A s \in {"new", "done", "failed", "generate", "quests", "persist", "replace", "fetch", "ask", "evaluate", "rest", "undo"} :
        s \in Steps
  BY DEF Steps, Idle
<1>2. CASE Start(j)
  <2>1. \E s \in Steps : GoTo(j, s)
    BY <1>1, <1>2 DEF Start
  <2>2. UNCHANGED <<plan, seen, link, read, left, prev, errors, botched, untame, muddled>>
    BY <1>2 DEF Start, local, history
  <2>3. overlapped' \subseteq Jobs /\ overlapped \subseteq overlapped'
    BY <1>2 DEF Start
  <2>4. QED
    BY <2>1, <2>2, <2>3, Goes
<1>3. CASE j \in Scans /\ Generate(j)
  <2>1. \E s \in Steps : GoTo(j, s)
    BY <1>1, <1>3 DEF Generate
  <2>2. UNCHANGED <<seen, link, read, left, prev, errors, overlapped, botched, muddled>>
    BY <1>3 DEF Generate
  <2>3. DOMAIN plan' = Scans /\ \A k \in Scans \ {j} : plan'[k] = plan[k]
    BY <1>3 DEF Generate
  <2>4. untame' \subseteq Scans /\ \A k \in Scans \ {j} : k \in untame' <=> k \in untame
    BY <1>3 DEF Generate
  <2>5. QED
    BY <2>1, <2>2, <2>3, <2>4, Goes
<1>4. CASE j \in Scans /\ SaveQuest(j)
  <2>1. \E s \in Steps : GoTo(j, s)
    BY <1>1, <1>4 DEF SaveQuest
  <2>2. UNCHANGED <<plan, seen, read, left, prev, errors, overlapped, botched, untame, muddled>>
    BY <1>4 DEF SaveQuest, history
  <2>3. DOMAIN link' = Scans /\ \A k \in Scans \ {j} : link'[k] = link[k]
    BY <1>4 DEF SaveQuest
  <2>4. QED
    BY <2>1, <2>2, <2>3, Goes
<1>12. CASE j \in Scans /\ BeginReplace(j)
  <2>1. \E s \in Steps : GoTo(j, s)
    BY <1>1, <1>12 DEF BeginReplace
  <2>2. UNCHANGED <<plan, link, read, left, prev, errors, overlapped, botched, untame, muddled>>
    BY <1>12 DEF BeginReplace, history
  <2>3. DOMAIN seen' = Scans /\ \A k \in Scans \ {j} : seen'[k] = seen[k]
    BY <1>12 DEF BeginReplace
  <2>4. QED
    BY <2>1, <2>2, <2>3, Goes
<1>5. CASE j \in Scans /\ (Persist(j) \/ UndoScan(j))
  <2>1. \E s \in Steps : GoTo(j, s)
    BY <1>1, <1>5 DEF Persist, UndoScan, EndScan
  <2>2. UNCHANGED <<read, left, prev, overlapped, untame>> /\ (Works \/ Fails(j))
    BY <1>5 DEF Persist, UndoScan, history
  <2>3. /\ DOMAIN plan' = Scans /\ DOMAIN seen' = Scans /\ DOMAIN link' = Scans
        /\ \A k \in Scans \ {j} : plan'[k] = plan[k] /\ seen'[k] = seen[k] /\ link'[k] = link[k]
    BY <1>5 DEF Persist, UndoScan, EndScan
  <2>4. muddled' \in BOOLEAN
    BY <1>5 DEF Persist, UndoScan, Replace, history
  <2>5. QED
    BY <2>1, <2>2, <2>3, <2>4, Goes, Calls
<1>6. CASE j \in Evals /\ FetchActiveMilestones(j)
  <2>1. \E s \in Steps : GoTo(j, s)
    BY <1>1, <1>6 DEF FetchActiveMilestones
  <2>2. UNCHANGED <<plan, seen, link, left, prev, errors, overlapped, botched, untame, muddled>>
    BY <1>6 DEF FetchActiveMilestones, history
  <2>3. DOMAIN read' = Evals /\ \A k \in Evals \ {j} : read'[k] = read[k]
    BY <1>6 DEF FetchActiveMilestones
  <2>4. QED
    BY <2>1, <2>2, <2>3, Goes
<1>7. CASE j \in Evals /\ (EvaluateMilestones(j) \/ Saved(j))
  <2>1. \E s \in Steps : GoTo(j, s)
    BY <1>1, <1>7 DEF EvaluateMilestones, Saved
  <2>2. UNCHANGED <<plan, seen, link, read, prev, errors, overlapped, botched, untame, muddled>> /\ DOMAIN left' = Evals
    BY <1>7 DEF EvaluateMilestones, Saved, local, history
  <2>3. QED
    BY <2>1, <2>2, Goes
<1>8. CASE j \in Evals /\ Saves(j)
  <2>1. UNCHANGED <<pc, plan, seen, link, read, overlapped, untame, muddled>> /\ DOMAIN left' = Evals /\ (Works \/ Fails(j))
    BY <1>8 DEF Saves, SaveEvaluation, history
  <2>2. DOMAIN prev' = Evals /\ \A k \in Evals \ {j} : prev'[k] = prev[k]
    BY <1>8 DEF Saves, SaveEvaluation
  <2>3. QED
    BY <2>1, <2>2, Calls
<1>9. CASE j \in Evals /\ Rest(j)
  <2>1. \E s \in Steps : GoTo(j, s)
    BY <1>1, <1>9 DEF Rest, EndEval
  <2>2. UNCHANGED <<plan, seen, link, left, errors, overlapped, botched, untame, muddled>>
    BY <1>9 DEF Rest, history
  <2>3. /\ DOMAIN read' = Evals /\ DOMAIN prev' = Evals
        /\ \A k \in Evals \ {j} : read'[k] = read[k] /\ prev'[k] = prev[k]
    BY <1>9 DEF Rest, EndEval
  <2>4. QED
    BY <2>1, <2>2, <2>3, Goes
<1>10. CASE j \in Evals /\ UndoEval(j)
  <2>1. \E s \in Steps : GoTo(j, s)
    BY <1>1, <1>10 DEF UndoEval, EndEval
  <2>2. UNCHANGED <<plan, seen, link, left, overlapped, untame, muddled>> /\ (Works \/ Fails(j))
    BY <1>10 DEF UndoEval, history
  <2>3. /\ DOMAIN read' = Evals /\ DOMAIN prev' = Evals
        /\ \A k \in Evals \ {j} : read'[k] = read[k] /\ prev'[k] = prev[k]
    BY <1>10 DEF UndoEval, EndEval
  <2>4. QED
    BY <2>1, <2>2, <2>3, Goes, Calls
<1>11. QED
  BY <1>2, <1>3, <1>4, <1>5, <1>6, <1>7, <1>8, <1>9, <1>10, <1>12 DEF Acts, ScanActs, EvalActs

-----------------------------------------------------------------------------
(***************************************************************************)
(* What a step does to the rows and to the links.                          *)
(***************************************************************************)
\* New statuses leave the roadmap what it is.
LEMMA StatusesStep ==
  ASSUME RowsInv, NEW status, NEW ids, \A id \in ids : status[id] \in Statuses,
         milestones' = WithStatus(status, ids), UNCHANGED <<phases, lastId, muddled>>
  PROVE  /\ RowsInv'
         /\ \A n \in milestones' : \E m \in milestones :
              m.id = n.id /\ n.status = IF m.id \in ids THEN status[m.id] ELSE m.status
         /\ \A m \in milestones : \E n \in milestones' : n.id = m.id
<1> DEFINE New(m) == IF m.id \in ids THEN [m EXCEPT !.status = status[m.id]] ELSE m
<1>1. milestones \subseteq Row
  BY DEF RowsInv
<1>2. ASSUME NEW m \in milestones
      PROVE  /\ New(m) \in Row /\ New(m).id = m.id /\ New(m).phase = m.phase /\ New(m).key = m.key
             /\ New(m).status = IF m.id \in ids THEN status[m.id] ELSE m.status
  <2>1. m \in Row
    BY <1>1
  <2>2. CASE m.id \in ids
    <3>1. m = [id |-> m.id, phase |-> m.phase, key |-> m.key, status |-> m.status]
      BY <2>1 DEF Row
    <3>2. New(m) = [id |-> m.id, phase |-> m.phase, key |-> m.key, status |-> status[m.id]]
      BY <2>1, <2>2 DEF Row
    <3>3. QED
      BY <2>1, <2>2, <3>2 DEF Row
  <2>3. CASE m.id \notin ids
    BY <2>1, <2>3
  <2>4. QED
    BY <2>2, <2>3
<1>3. milestones' = {New(m) : m \in milestones}
  BY DEF WithStatus
<1> HIDE DEF New
<1>4. \A n \in milestones' : \E m \in milestones : n = New(m)
  BY <1>3
<1>5. \A m \in milestones : New(m) \in milestones'
  BY <1>3
<1>6. MilestonesOnce'
  <2>1. MilestonesOnce
    BY DEF RowsInv
  <2>2. QED
    BY <1>2, <1>4, <2>1 DEF MilestonesOnce
<1>7. milestones' \subseteq Row
  BY <1>2, <1>4
<1>8. \A n \in milestones' : n.id \in 1..lastId' /\ n.phase \in {x.id : x \in phases'}
  <2>1. \A m \in milestones : m.id \in 1..lastId /\ m.phase \in {x.id : x \in phases}
    BY DEF RowsInv
  <2>2. QED
    BY <1>2, <1>4, <2>1
<1>9. \A n, x \in milestones' : n.id = x.id => n = x
  <2>1. \A m, x \in milestones : m.id = x.id => m = x
    BY DEF RowsInv
  <2>2. QED
    BY <1>2, <1>4, <2>1
<1>10. lastId' \in Nat /\ \A x \in phases' : x.id \in 1..lastId'
  BY DEF RowsInv
<1>11. RowsInv'
  BY <1>6, <1>7, <1>8, <1>9, <1>10 DEF RowsInv
<1>12. QED
  BY <1>2, <1>4, <1>5, <1>11

\* Nor do they move a milestone.
LEMMA StatusesKeep ==
  ASSUME RowsInv, NEW status, NEW ids, milestones' = WithStatus(status, ids)
  PROVE  \A n \in milestones' : \E m \in milestones : m.id = n.id /\ m.phase = n.phase
<1> SUFFICES ASSUME NEW m \in milestones
             PROVE  LET n == IF m.id \in ids THEN [m EXCEPT !.status = status[m.id]] ELSE m
                    IN  m.id = n.id /\ m.phase = n.phase
  BY DEF WithStatus
<1>1. m \in Row
  BY DEF RowsInv
<1>2. QED
  BY <1>1 DEF Row

\* A status is a status, whatever the AI called it.
LEMMA Normalised == \A s : normalizeMilestoneStatus(s) \in Statuses
BY DEF normalizeMilestoneStatus, Statuses

\* What a step does to the milestones: a scan replaces them, an analysis raises
\* one or restores some, or they stay.
Replaces(j) == j \in Scans /\ pc[j] = "replace" /\ Replace(j)

Raises(j) ==
  /\ j \in Evals /\ pc[j] = "evaluate" /\ UNCHANGED <<phases, lastId, related, muddled>>
  /\ \E id \in DOMAIN read[j], s \in Statuses : milestones' = WithStatus([i \in {id} |-> s], {id})

Restores(j) ==
  /\ j \in Evals /\ pc[j] = "undo" /\ UNCHANGED <<phases, lastId, related, muddled>>
  /\ \E ids \in SUBSET DOMAIN prev[j] : milestones' = WithStatus(prev[j], ids)

\* The quest of a scan is stored without a link, or deleted.
Requests(j) ==
  /\ j \in Scans /\ UNCHANGED <<rows, muddled>>
  /\ \/ related' = [q \in DOMAIN related \cup {j} |-> IF q = j THEN 0 ELSE related[q]]
     \/ related' = [q \in DOMAIN related \ {j} |-> related[q]]

\* No action does anything else to the rows and links.
LEMMA RowMoves ==
  ASSUME NEW j \in Jobs, Acts(j)
  PROVE  Replaces(j) \/ Raises(j) \/ Restores(j) \/ Requests(j)
           \/ UNCHANGED <<rows, related, muddled>>
<1> USE DEF history
<1>1. CASE Start(j)
  BY <1>1 DEF Start
<1>2. CASE j \in Scans /\ (Generate(j) \/ BeginReplace(j))
  BY <1>2 DEF Generate, BeginReplace
<1>3. CASE j \in Scans /\ SaveQuest(j)
  BY <1>3 DEF SaveQuest, Requests
<1>4. CASE j \in Scans /\ Persist(j)
  BY <1>4 DEF Persist, Replaces
<1>5. CASE j \in Scans /\ UndoScan(j)
  BY <1>5 DEF UndoScan, Requests
<1>6. CASE j \in Evals /\ (FetchActiveMilestones(j) \/ EvaluateMilestones(j) \/ Saved(j) \/ Rest(j))
  BY <1>6 DEF FetchActiveMilestones, EvaluateMilestones, Saved, Rest
<1>7. CASE j \in Evals /\ Saves(j)
  <2>1. PICK id \in DOMAIN read[j] \cup {0}, result \in Results : SaveEvaluation(j, id, result)
    BY <1>7 DEF Saves
  <2> DEFINE s == normalizeMilestoneStatus(result)
  <2>2. UNCHANGED <<phases, lastId, related, muddled>> /\ pc[j] = "evaluate"
    BY <2>1 DEF SaveEvaluation
  <2>3. UNCHANGED milestones
          \/ (id \in DOMAIN read[j] /\ milestones' = WithStatus([i \in {id} |-> s], {id}))
    BY <2>1 DEF SaveEvaluation
  <2>4. QED
    BY <1>7, <2>2, <2>3, Normalised DEF Raises, rows
<1>8. CASE j \in Evals /\ UndoEval(j)
  BY <1>8 DEF UndoEval, Restores, rows
<1>9. QED
  BY <1>1, <1>2, <1>3, <1>4, <1>5, <1>6, <1>7, <1>8 DEF Acts, ScanActs, EvalActs

\* What an analysis restores are statuses.
LEMMA Restored ==
  ASSUME EvalsInv, NEW j \in Evals
  PROVE  \A id \in DOMAIN prev[j] : prev[j][id] \in Statuses
BY DEF EvalsInv, Active, Statuses

\* The rows stay one roadmap, and its numbers grow.
LEMMA RowsStep ==
  ASSUME RowsInv, LinksInv, ScansInv, SeenInv, EvalsInv, NEW j \in Jobs, Acts(j)
  PROVE  RowsInv' /\ LinksInv' /\ lastId' >= lastId
<1>0. lastId \in Nat
  BY DEF RowsInv
<1>1. CASE Replaces(j)
  <2>1. j \in Scans /\ pc[j] = "replace" /\ Replace(j) /\ Planned(j) /\ DOMAIN related \subseteq Scans
    BY <1>1 DEF Replaces, ScansInv, LinksInv
  <2>2. j \in DOMAIN related
    BY <1>1 DEF Replaces, ScansInv
  <2>3. QED
    BY <2>1, <2>2, ReplaceStep
<1>2. CASE Raises(j) \/ Restores(j)
  <2>1. PICK status, ids : /\ \A id \in ids : status[id] \in Statuses
                           /\ milestones' = WithStatus(status, ids)
    BY <1>2, Restored DEF Raises, Restores
  <2>2. UNCHANGED <<phases, lastId, related, muddled>>
    BY <1>2 DEF Raises, Restores
  <2>3. RowsInv' /\ \A m \in milestones : \E n \in milestones' : n.id = m.id
    BY <2>1, <2>2, StatusesStep
  <2>4. LinksInv'
    BY <2>2, <2>3 DEF LinksInv, LinksResolve
  <2>5. QED
    BY <1>0, <2>2, <2>3, <2>4
<1>3. CASE Requests(j)
  <2>1. UNCHANGED <<phases, milestones, lastId, muddled>> /\ j \in Scans
    BY <1>3 DEF Requests, rows
  <2>2. RowsInv'
    BY <2>1 DEF RowsInv, MilestonesOnce
  <2>3. DOMAIN related' \subseteq Scans
    BY <1>3 DEF Requests, LinksInv
  <2>4. \A q \in DOMAIN related' : related'[q] = 0 \/ (q \in DOMAIN related /\ related'[q] = related[q])
    BY <1>3 DEF Requests
  <2>5. QED
    BY <1>0, <2>1, <2>2, <2>3, <2>4 DEF LinksInv, LinksResolve
<1>4. CASE UNCHANGED <<rows, related, muddled>>
  BY <1>0, <1>4 DEF rows, RowsInv, LinksInv, LinksResolve, MilestonesOnce
<1>5. QED
  BY <1>1, <1>2, <1>3, <1>4, RowMoves

-----------------------------------------------------------------------------
(***************************************************************************)
(* What scans and analyses know.                                           *)
(***************************************************************************)
\* A scan keeps its plan and its quest until it ends.
LEMMA ScansStep ==
  ASSUME LocalTypes, RowsInv, LinksInv, ScansInv, SeenInv, NEW j \in Jobs, Acts(j)
  PROVE  ScansInv'
<1>1. Others(j) /\ LocalTypes'
  BY TypesStep
<1>2. \A q \in DOMAIN related : q # j => q \in DOMAIN related'
  <2>1. CASE Replaces(j)
    <3>1. j \in Scans /\ pc[j] = "replace" /\ Replace(j) /\ Planned(j) /\ j \in DOMAIN related
      BY <2>1 DEF Replaces, ScansInv
    <3>2. QED
      BY <3>1, ReplaceStep
  <2>2. CASE Raises(j) \/ Restores(j) \/ Requests(j) \/ UNCHANGED <<rows, related, muddled>>
    BY <2>2 DEF Raises, Restores, Requests
  <2>3. QED
    BY <2>1, <2>2, RowMoves
<1>3. ASSUME NEW k \in Scans, k # j
      PROVE  /\ pc'[k] \in {"quests", "persist", "replace"} => Planned(k)'
             /\ pc'[k] \in {"persist", "replace", "undo"} => k \in DOMAIN related'
             /\ pc'[k] \in {"persist", "replace"} => link'[k] \in ToSet(Keys(plan'[k])) \cup {Named("?")}
  <2>1. pc'[k] = pc[k] /\ plan'[k] = plan[k] /\ link'[k] = link[k] /\ (k \in untame' <=> k \in untame)
    BY <1>1, <1>3, Kinds DEF Others
  <2>2. QED
    BY <1>2, <1>3, <2>1 DEF ScansInv, Planned
<1>4. ASSUME j \in Scans
      PROVE  /\ pc'[j] \in {"quests", "persist", "replace"} => Planned(j)'
             /\ pc'[j] \in {"persist", "replace", "undo"} => j \in DOMAIN related'
             /\ pc'[j] \in {"persist", "replace"} => link'[j] \in ToSet(Keys(plan'[j])) \cup {Named("?")}
  <2>1. pc \in [Jobs -> Steps] /\ DOMAIN plan = Scans /\ DOMAIN link = Scans /\ j \notin Evals
    BY <1>4, Kinds DEF LocalTypes
  <2>2. CASE Start(j)
    BY <1>4, <2>1, <2>2 DEF Start, GoTo
  <2>3. CASE Generate(j)
    <3>1. \/ \E p \in Plans : /\ WellFormed(p) /\ plan' = [plan EXCEPT ![j] = Normalize(p)]
                              /\ pc'[j] = "quests" /\ (j \in untame' \/ TamePlan(p))
          \/ pc'[j] = "failed"
      BY <2>1, <2>3 DEF Generate, GoTo
    <3>2. QED
      BY <1>4, <2>1, <3>1 DEF Planned
  <2>4. CASE SaveQuest(j)
    <3>1. pc[j] = "quests" /\ plan' = plan /\ untame' = untame /\ j \in DOMAIN related'
      BY <2>4 DEF SaveQuest, history
    <3>2. link'[j] \in ToSet(Keys(plan[j])) \cup {Named("?")}
      <4>1. PICK k \in {plan[j].milestones[i].key : i \in DOMAIN plan[j].milestones} \cup {Named("?")} :
              link' = [link EXCEPT ![j] = k]
        BY <2>4 DEF SaveQuest
      <4>2. link'[j] = k
        BY <1>4, <2>1, <4>1
      <4>3. QED
        BY <4>1, <4>2 DEF ToSet, Keys
    <3>3. pc'[j] \in {"persist", "undo"}
      BY <2>1, <2>4 DEF SaveQuest, GoTo
    <3>4. QED
      BY <1>4, <3>1, <3>2, <3>3 DEF ScansInv, Planned
  <2>8. CASE BeginReplace(j)
    <3>1. /\ pc[j] = "persist" /\ pc'[j] = "replace"
          /\ UNCHANGED <<plan, untame, link, related>>
      BY <2>1, <2>8 DEF BeginReplace, GoTo, history
    <3>2. QED
      BY <1>4, <3>1 DEF ScansInv, Planned
  <2>5. CASE Persist(j)
    <3>1. pc[j] = "replace" /\ pc'[j] \in {"done", "undo"}
      BY <2>1, <2>5 DEF Persist, GoTo, EndScan
    <3>2. DOMAIN related' = DOMAIN related
      <4>1. Planned(j) /\ j \in DOMAIN related
        BY <1>4, <3>1 DEF ScansInv
      <4>2. CASE Replace(j)
        BY <1>4, <3>1, <4>1, <4>2, ReplaceStep
      <4>3. CASE UNCHANGED related
        BY <4>3
      <4>4. QED
        BY <2>5, <4>2, <4>3 DEF Persist
    <3>3. QED
      BY <1>4, <3>1, <3>2 DEF ScansInv
  <2>6. CASE UndoScan(j)
    <3>1. pc'[j] = "failed"
      BY <2>1, <2>6 DEF UndoScan, EndScan, GoTo
    <3>2. QED
      BY <3>1
  <2>7. QED
    BY <1>4, <2>1, <2>2, <2>3, <2>4, <2>5, <2>6, <2>8 DEF Acts, ScanActs
<1>5. QED
  BY <1>3, <1>4 DEF ScansInv

\* What a transaction has read stays complete: later milestones have later phases.
LEMMA SeenStep ==
  ASSUME LocalTypes, RowsInv, LinksInv, ScansInv, SeenInv, EvalsInv, NEW j \in Jobs, Acts(j),
         lastId' >= lastId, lastId' \in Nat
  PROVE  SeenInv'
<1>1. Others(j) /\ LocalTypes' /\ lastId \in Nat
  BY TypesStep DEF RowsInv
<1>2. \A n \in milestones' : \/ \E m \in milestones : m.id = n.id /\ m.phase = n.phase
                            \/ n.phase > lastId
  <2>1. CASE Replaces(j)
    <3>1. j \in Scans /\ pc[j] = "replace" /\ Replace(j) /\ Planned(j) /\ j \in DOMAIN related
      BY <2>1 DEF Replaces, ScansInv
    <3>2. QED
      BY <3>1, ReplaceStep
  <2>2. CASE Raises(j) \/ Restores(j)
    <3>1. PICK status, ids : milestones' = WithStatus(status, ids)
      BY <2>2 DEF Raises, Restores
    <3>2. QED
      BY <3>1, StatusesKeep
  <2>3. CASE Requests(j) \/ UNCHANGED <<rows, related, muddled>>
    BY <2>3 DEF Requests, rows
  <2>4. QED
    BY <2>1, <2>2, <2>3, RowMoves
<1>3. \A k \in Scans : seen[k] \subseteq 1..lastId
  BY DEF SeenInv
<1>4. ASSUME NEW k \in Scans, seen'[k] \subseteq seen[k], pc'[k] = "replace" => pc[k] = "replace" /\ seen'[k] = seen[k]
      PROVE  /\ seen'[k] \subseteq 1..lastId'
             /\ pc'[k] = "replace" => \A m \in milestones' : m.phase \in seen'[k] => m.id \in seen'[k]
  <2>1. seen'[k] \subseteq 1..lastId /\ 1..lastId \subseteq 1..lastId'
    BY <1>1, <1>3, <1>4
  <2>2. ASSUME pc'[k] = "replace", NEW n \in milestones', n.phase \in seen'[k]
        PROVE  n.id \in seen'[k]
    <3>1. pc[k] = "replace" /\ seen'[k] = seen[k]
      BY <1>4, <2>2
    <3>2. n.phase \in 1..lastId
      BY <2>1, <2>2
    <3>3. ~(n.phase > lastId)
      BY <1>1, <3>2
    <3>4. PICK m \in milestones : m.id = n.id /\ m.phase = n.phase
      BY <1>2, <3>3
    <3>5. QED
      BY <2>2, <3>1, <3>4 DEF SeenInv
  <2>3. QED
    BY <2>1, <2>2
<1>5. ASSUME NEW k \in Scans, k # j
      PROVE  seen'[k] = seen[k] /\ pc'[k] = pc[k]
  BY <1>1, <1>5, Kinds DEF Others
<1>6. ASSUME j \in Scans, ~BeginReplace(j)
      PROVE  seen'[j] \subseteq seen[j] /\ (pc'[j] = "replace" => pc[j] = "replace" /\ seen'[j] = seen[j])
  <2>1. pc \in [Jobs -> Steps] /\ DOMAIN seen = Scans /\ j \notin Evals
    BY <1>6, Kinds DEF LocalTypes
  <2>2. CASE Start(j) \/ Generate(j) \/ SaveQuest(j)
    BY <1>6, <2>1, <2>2 DEF Start, Generate, SaveQuest, GoTo, local
  <2>3. CASE Persist(j) \/ UndoScan(j)
    BY <1>6, <2>1, <2>3 DEF Persist, UndoScan, EndScan, GoTo
  <2>4. QED
    BY <1>6, <2>1, <2>2, <2>3 DEF Acts, ScanActs
<1>7. ASSUME j \in Scans, BeginReplace(j)
      PROVE  /\ seen'[j] \subseteq 1..lastId'
             /\ \A m \in milestones' : m.phase \in seen'[j] => m.id \in seen'[j]
  <2>1. UNCHANGED <<phases, milestones, lastId>> /\ DOMAIN seen = Scans
    BY <1>7 DEF BeginReplace, rows, LocalTypes
  <2>2. seen'[j] = {p.id : p \in phases} \cup {m.id : m \in milestones}
    BY <1>7, <2>1 DEF BeginReplace
  <2>3. (\A x \in phases : x.id \in 1..lastId) /\ (\A m \in milestones : m.id \in 1..lastId)
    BY DEF RowsInv
  <2>4. QED
    BY <2>1, <2>2, <2>3
<1>8. QED
  BY <1>4, <1>5, <1>6, <1>7 DEF SeenInv

\* An evaluation is of a milestone the analysis has read.
LEMMA NewEvaluations ==
  ASSUME NEW j \in Jobs, Acts(j)
  PROVE  \A e \in evaluations' :
           e \in evaluations \/ (j \in Evals /\ e.job = j /\ e.milestone \in DOMAIN read[j])
<1>1. CASE Start(j)
  BY <1>1 DEF Start
<1>2. CASE j \in Scans /\ ScanActs(j)
  BY <1>2 DEF ScanActs, Generate, SaveQuest, BeginReplace, Persist, UndoScan
<1>3. CASE j \in Evals /\ (FetchActiveMilestones(j) \/ EvaluateMilestones(j) \/ Saved(j) \/ Rest(j))
  BY <1>3 DEF FetchActiveMilestones, EvaluateMilestones, Saved, Rest
<1>4. CASE j \in Evals /\ Saves(j)
  BY <1>4 DEF Saves, SaveEvaluation
<1>5. CASE j \in Evals /\ UndoEval(j)
  BY <1>5 DEF UndoEval
<1>6. QED
  BY <1>1, <1>2, <1>3, <1>4, <1>5 DEF Acts, EvalActs

\* The milestones an analysis fetches, with their statuses.
LEMMA Fetched ==
  ASSUME LocalTypes, RowsInv, NEW j \in Evals, FetchActiveMilestones(j)
  PROVE  \/ UNCHANGED read /\ pc'[j] = "rest"
         \/ /\ pc'[j] = "ask" /\ DOMAIN read'[j] \subseteq 1..lastId
            /\ \A id \in DOMAIN read'[j] : read'[j][id] \in Active
            /\ \A m \in milestones : m.id \in DOMAIN read'[j] => m.status = read'[j][m.id]
<1> DEFINE active == {m \in milestones : m.status \in Active}
           found == [id \in {m.id : m \in active} |-> (CHOOSE m \in active : m.id = id).status]
<1>1. pc \in [Jobs -> Steps] /\ DOMAIN read = Evals /\ j \in Jobs
  BY Kinds DEF LocalTypes
<1>2. \/ UNCHANGED read /\ pc'[j] = "rest"
      \/ read' = [read EXCEPT ![j] = found] /\ pc'[j] = "ask"
  BY <1>1 DEF FetchActiveMilestones, GoTo
<1>3. \A m, x \in milestones : m.id = x.id => m = x
  BY DEF RowsInv
<1>4. \A m \in active : found[m.id] = m.status
  <2>1. ASSUME NEW m \in active PROVE (CHOOSE x \in active : x.id = m.id) = m
    BY <1>3
  <2>2. QED
    BY <2>1
<1>5. DOMAIN found = {m.id : m \in active}
  OBVIOUS
<1> HIDE DEF found
<1>6. \A id \in DOMAIN found : found[id] \in Active /\ id \in 1..lastId
  BY <1>4, <1>5 DEF RowsInv
<1>7. \A m \in milestones : m.id \in DOMAIN found => m.status = found[m.id]
  BY <1>3, <1>4, <1>5
<1>8. QED
  <2>1. read' = [read EXCEPT ![j] = found] => read'[j] = found
    BY <1>1
  <2>2. QED
    BY <1>2, <1>6, <1>7, <2>1

\* One round of the loop: what it adds to prevStatuses is a status it has read,
\* and it raised that milestone, and no other.
LEMMA Round ==
  ASSUME LocalTypes, NEW j \in Evals, Saves(j)
  PROVE  /\ UNCHANGED <<read, pc>> /\ pc[j] = "evaluate"
         /\ \/ UNCHANGED <<prev, milestones>>
            \/ UNCHANGED prev /\ j \in botched'
            \/ \E id \in DOMAIN read[j], s \in Statuses :
                 /\ DOMAIN prev'[j] = DOMAIN prev[j] \cup {id} /\ prev'[j][id] = read[j][id]
                 /\ \A i \in DOMAIN prev[j] : i # id => prev'[j][i] = prev[j][i]
                 /\ milestones' = WithStatus([i \in {id} |-> s], {id})
<1>1. PICK id \in DOMAIN read[j] \cup {0}, result \in Results : SaveEvaluation(j, id, result)
  BY DEF Saves
<1> DEFINE s == normalizeMilestoneStatus(result)
           added == [i \in DOMAIN prev[j] \cup {id} |-> IF i = id THEN read[j][i] ELSE prev[j][i]]
<1>2. UNCHANGED <<read, pc>> /\ pc[j] = "evaluate"
  BY <1>1 DEF SaveEvaluation
<1>3. \/ UNCHANGED <<prev, milestones>>
      \/ Fails(j) /\ UNCHANGED prev
      \/ /\ id \in DOMAIN read[j] /\ milestones' = WithStatus([i \in {id} |-> s], {id})
         /\ prev' = [prev EXCEPT ![j] = added]
  BY <1>1 DEF SaveEvaluation, Previous
<1>4. Fails(j) => j \in botched'
  BY DEF Fails
<1>5. DOMAIN prev = Evals
  BY DEF LocalTypes
<1>6. prev' = [prev EXCEPT ![j] = added] =>
        /\ DOMAIN prev'[j] = DOMAIN prev[j] \cup {id} /\ prev'[j][id] = read[j][id]
        /\ \A i \in DOMAIN prev[j] : i # id => prev'[j][i] = prev[j][i]
  <2>1. prev' = [prev EXCEPT ![j] = added] => prev'[j] = added
    BY <1>5
  <2>2. QED
    BY <2>1
<1>7. s \in Statuses
  BY Normalised
<1> HIDE DEF s, added
<1>8. QED
  BY <1>2, <1>3, <1>4, <1>6, <1>7

\* What an analysis has read and will restore stays so until it forgets both.
LEMMA EvalsStep ==
  ASSUME LocalTypes, RowsInv, EvalsInv, NEW j \in Jobs, Acts(j), lastId' \in Nat, lastId' >= lastId
  PROVE  EvalsInv'
<1>1. Others(j)
  BY TypesStep
<1>2. lastId \in Nat /\ 1..lastId \subseteq 1..lastId'
  BY DEF RowsInv
<1>3. \A e \in evaluations' : e.job \in Evals /\ e.milestone \in 1..lastId'
  BY <1>2, NewEvaluations DEF EvalsInv
<1>4. ASSUME NEW k \in Evals
      PROVE  /\ DOMAIN read[k] \subseteq 1..lastId' /\ \A id \in DOMAIN read[k] : read[k][id] \in Active
             /\ DOMAIN prev[k] \subseteq DOMAIN read[k]
             /\ \A id \in DOMAIN prev[k] : prev[k][id] = read[k][id]
             /\ pc[k] \in {"new", "fetch", "ask"} => DOMAIN prev[k] = {}
  BY <1>2 DEF EvalsInv
<1>5. ASSUME NEW k \in Evals
      PROVE  /\ DOMAIN read'[k] \subseteq 1..lastId' /\ \A id \in DOMAIN read'[k] : read'[k][id] \in Active
             /\ DOMAIN prev'[k] \subseteq DOMAIN read'[k]
             /\ \A id \in DOMAIN prev'[k] : prev'[k][id] = read'[k][id]
             /\ pc'[k] \in {"new", "fetch", "ask"} => DOMAIN prev'[k] = {}
  <2>1. CASE /\ read'[k] = read[k] /\ prev'[k] = prev[k]
             /\ pc'[k] \in {"new", "fetch", "ask"} => pc[k] \in {"new", "fetch", "ask"}
    BY <1>4, <2>1
  <2>2. CASE read'[k] = Empty /\ prev'[k] = Empty
    <3>1. DOMAIN Empty = {}
      BY DEF Empty
    <3>2. QED
      BY <2>2, <3>1
  <2>3. CASE k # j
    <3>1. pc'[k] = pc[k] /\ read'[k] = read[k] /\ prev'[k] = prev[k]
      BY <1>1, <2>3, Kinds DEF Others
    <3>2. QED
      BY <2>1, <3>1
  <2>4. CASE k = j
    <3>0. pc \in [Jobs -> Steps] /\ DOMAIN read = Evals /\ DOMAIN prev = Evals /\ j \notin Scans
      BY <2>4, Kinds DEF LocalTypes
    <3>1. CASE Start(j)
      <4>1. pc[j] = "new" /\ UNCHANGED <<read, prev>>
        BY <3>1 DEF Start, local
      <4>2. QED
        BY <2>1, <2>4, <4>1
    <3>2. CASE FetchActiveMilestones(j)
      <4>1. pc[j] = "fetch" /\ prev' = prev
        BY <3>2 DEF FetchActiveMilestones
      <4>2. QED
        BY <1>2, <1>4, <2>1, <2>4, <3>2, <4>1, Fetched
    <3>3. CASE EvaluateMilestones(j) \/ Saved(j)
      <4>1. pc'[j] \in {"evaluate", "rest"} /\ UNCHANGED <<read, prev>>
        BY <3>0, <3>3 DEF EvaluateMilestones, Saved, local, GoTo
      <4>2. QED
        BY <2>1, <2>4, <4>1
    <3>4. CASE Saves(j)
      <4>1. /\ UNCHANGED <<read, pc>> /\ pc[j] = "evaluate"
            /\ \/ UNCHANGED prev
               \/ \E id \in DOMAIN read[j] :
                    /\ DOMAIN prev'[j] = DOMAIN prev[j] \cup {id} /\ prev'[j][id] = read[j][id]
                    /\ \A i \in DOMAIN prev[j] : i # id => prev'[j][i] = prev[j][i]
        BY <2>4, <3>4, Round
      <4>2. QED
        BY <1>4, <2>4, <4>1
    <3>5. CASE Rest(j)
      <4>1. pc'[j] \in {"done", "undo"}
        BY <3>0, <3>5 DEF Rest, EndEval, GoTo
      <4>2. QED
        BY <2>1, <2>2, <2>4, <3>0, <3>5, <4>1 DEF Rest, EndEval
    <3>6. CASE UndoEval(j)
      BY <2>2, <2>4, <3>0, <3>6 DEF UndoEval, EndEval
    <3>7. QED
      BY <3>0, <3>1, <3>2, <3>3, <3>4, <3>5, <3>6 DEF Acts, EvalActs
  <2>5. QED
    BY <2>3, <2>4
<1>6. QED
  BY <1>3, <1>5 DEF EvalsInv

\* Only a start finds its job idle.
LEMMA AtWork ==
  ASSUME NEW j \in Jobs, Acts(j), ~Start(j)
  PROVE  pc[j] \notin Idle
BY DEF Acts, ScanActs, EvalActs, Generate, SaveQuest, BeginReplace, Persist, UndoScan,
       FetchActiveMilestones, EvaluateMilestones, Saves, SaveEvaluation, Saved, Rest, UndoEval, Idle

\* Jobs that run at the same time are known to.
LEMMA OverlapStep ==
  ASSUME LocalTypes, OverlapInv, NEW j \in Jobs, Acts(j)
  PROVE  OverlapInv'
<1>1. Others(j) /\ pc \in [Jobs -> Steps]
  BY TypesStep DEF LocalTypes
<1>2. CASE Start(j)
  <2> DEFINE others == {k \in Jobs \ {j} : pc[k] \notin Idle}
  <2>1. \/ pc'[j] = "failed"
        \/ overlapped' = IF others = {} THEN overlapped ELSE overlapped \cup others \cup {j}
    BY <1>1, <1>2 DEF Start, GoTo
  <2>2. overlapped \subseteq overlapped' /\ \A k \in Jobs \ {j} : pc'[k] = pc[k]
    BY <1>1 DEF Others
  <2>3. "failed" \in Idle
    BY DEF Idle
  <2>4. QED
    BY <2>1, <2>2, <2>3 DEF OverlapInv
<1>3. CASE ~Start(j)
  <2>1. pc[j] \notin Idle
    BY <1>3, AtWork
  <2>2. QED
    BY <1>1, <2>1 DEF OverlapInv, Others
<1>4. QED
  BY <1>2, <1>3

\* An analysis alone loses track of no status: what it raised it has in prev,
\* and nobody else changes any.
LEMMA AloneStep ==
  ASSUME LocalTypes, RowsInv, EvalsInv, OverlapInv, AloneInv, NEW j \in Jobs, Acts(j)
  PROVE  AloneInv'
<1>1. Others(j) /\ pc \in [Jobs -> Steps]
  BY TypesStep DEF LocalTypes
<1>2. SUFFICES ASSUME NEW k \in Evals \ (overlapped' \cup botched'), pc'[k] \in {"ask", "evaluate"},
                      NEW n \in milestones', n.id \in DOMAIN read'[k] \ DOMAIN prev'[k]
               PROVE  n.status = read'[k][n.id]
  BY DEF AloneInv
<1>3. k \in Jobs /\ k \in Evals \ (overlapped \cup botched)
  BY <1>1, <1>2, Kinds DEF Others
<1>4. CASE /\ UNCHANGED milestones /\ pc[k] \in {"ask", "evaluate"}
           /\ read'[k] = read[k] /\ prev'[k] = prev[k]
  BY <1>2, <1>3, <1>4 DEF AloneInv
<1>5. CASE k # j
  <2>1. pc'[k] = pc[k] /\ read'[k] = read[k] /\ prev'[k] = prev[k]
    BY <1>1, <1>3, <1>5 DEF Others
  <2>2. CASE Start(j)
    BY <1>2, <1>4, <2>1, <2>2 DEF Start, rows
  <2>3. CASE ~Start(j)
    <3>1. pc[j] \notin Idle /\ pc[k] \notin Idle
      BY <1>2, <2>1, <2>3, AtWork DEF Idle
    <3>2. k \in overlapped
      BY <1>3, <1>5, <3>1 DEF OverlapInv
    <3>3. QED
      BY <1>3, <3>2
  <2>4. QED
    BY <2>2, <2>3
<1>6. CASE k = j
  <2>1. j \in Evals /\ j \notin Scans
    BY <1>3, <1>6, Kinds
  <2>2. CASE Start(j)
    <3>1. pc'[j] \in {"failed", "fetch"}
      BY <1>1, <2>1, <2>2 DEF Start, GoTo
    <3>2. QED
      BY <1>2, <1>6, <3>1
  <2>3. CASE FetchActiveMilestones(j)
    <3>1. UNCHANGED milestones
      BY <2>3 DEF FetchActiveMilestones, rows
    <3>2. QED
      BY <1>2, <1>6, <2>1, <2>3, <3>1, Fetched
  <2>4. CASE EvaluateMilestones(j)
    BY <1>4, <1>6, <2>4 DEF EvaluateMilestones, rows
  <2>5. CASE Saves(j)
    <3>1. UNCHANGED <<read, pc>> /\ pc[j] = "evaluate" /\ j \notin botched'
      BY <1>2, <1>6, <2>1, <2>5, Round
    <3>2. CASE UNCHANGED <<prev, milestones>>
      BY <1>2, <1>4, <1>6, <3>1, <3>2
    <3>3. CASE \E id \in DOMAIN read[j], s \in Statuses :
                 /\ DOMAIN prev'[j] = DOMAIN prev[j] \cup {id}
                 /\ milestones' = WithStatus([i \in {id} |-> s], {id})
      <4>1. PICK id \in DOMAIN read[j], s \in Statuses :
              /\ DOMAIN prev'[j] = DOMAIN prev[j] \cup {id}
              /\ milestones' = WithStatus([i \in {id} |-> s], {id})
        BY <3>3
      <4>2. UNCHANGED <<phases, lastId, muddled>>
        BY <2>5 DEF Saves, SaveEvaluation, history
      <4> DEFINE status == [i \in {id} |-> s]
      <4>3. (\A i \in {id} : status[i] \in Statuses) /\ milestones' = WithStatus(status, {id})
        BY <4>1
      <4> HIDE DEF status
      <4>4. PICK m \in milestones : m.id = n.id /\ n.status = IF m.id \in {id} THEN status[m.id] ELSE m.status
        BY <4>2, <4>3, StatusesStep
      <4>5. n.id # id /\ n.id \in DOMAIN read[j] \ DOMAIN prev[j]
        BY <1>2, <1>6, <3>1, <4>1
      <4>6. m.status = read[j][m.id]
        BY <1>3, <1>6, <3>1, <4>4, <4>5 DEF AloneInv
      <4>7. QED
        BY <1>6, <3>1, <4>4, <4>5, <4>6
    <3>4. \/ UNCHANGED <<prev, milestones>>
          \/ \E id \in DOMAIN read[j], s \in Statuses :
                 /\ DOMAIN prev'[j] = DOMAIN prev[j] \cup {id}
                 /\ milestones' = WithStatus([i \in {id} |-> s], {id})
      <4> HIDE DEF WithStatus
      <4> QED
        BY <2>1, <2>5, <3>1, Round
    <3>5. QED
      BY <3>2, <3>3, <3>4
  <2>6. CASE Saved(j) \/ Rest(j) \/ UndoEval(j)
    <3>1. pc'[j] \in {"rest", "done", "undo", "failed"}
      BY <1>1, <2>6 DEF Saved, Rest, UndoEval, EndEval, GoTo
    <3>2. QED
      BY <1>2, <1>6, <3>1
  <2>7. QED
    BY <2>1, <2>2, <2>3, <2>4, <2>5, <2>6 DEF Acts, EvalActs
<1>7. QED
  BY <1>5, <1>6

\* At the start there is nothing.
LEMMA InvInit == Init => Inv
<1> SUFFICES ASSUME Init PROVE Inv
  OBVIOUS
<1>1. pc \in [Jobs -> Steps] /\ \A j \in Jobs : pc[j] = "new"
  BY DEF Init, Steps, Idle
<1>2. DOMAIN Empty = {}
  BY DEF Empty
<1>3. LocalTypes
  <2>1. /\ errors = 0 /\ overlapped = {} /\ botched = {} /\ MaxErrors \in Nat
        /\ untame = {} /\ muddled = FALSE
    BY RoadmapAssumption DEF Init
  <2>2. /\ DOMAIN plan = Scans /\ DOMAIN seen = Scans /\ DOMAIN link = Scans
        /\ DOMAIN read = Evals /\ DOMAIN left = Evals /\ DOMAIN prev = Evals
    BY DEF Init
  <2>3. errors \in 0..MaxErrors
    BY <2>1
  <2>4. muddled \in BOOLEAN
    BY DEF Init
  <2>5. QED
    BY <1>1, <2>1, <2>2, <2>3, <2>4 DEF LocalTypes
<1>4. RowsInv /\ LinksInv
  BY <1>2 DEF Init, RowsInv, LinksInv, LinksResolve, MilestonesOnce
<1>5. ScansInv /\ SeenInv /\ OverlapInv /\ AloneInv
  BY <1>1, Kinds DEF Init, ScansInv, SeenInv, OverlapInv, AloneInv, Idle
<1>6. EvalsInv
  BY <1>2 DEF Init, EvalsInv
<1>7. QED
  BY <1>3, <1>4, <1>5, <1>6 DEF Inv

\* Every step keeps the invariant.
LEMMA InvStep == Inv /\ [Next]_vars => Inv'
<1> SUFFICES ASSUME Inv, [Next]_vars PROVE Inv'
  OBVIOUS
<1>1. CASE Next
  <2>1. PICK j \in Jobs : Acts(j)
    BY <1>1, OneActs
  <2>2. LocalTypes'
    BY <2>1, TypesStep DEF Inv
  <2>3. RowsInv' /\ LinksInv' /\ lastId' >= lastId
    BY <2>1, RowsStep DEF Inv
  <2>4. ScansInv'
    BY <2>1, ScansStep DEF Inv
  <2>8. SeenInv'
    <3>1. lastId' \in Nat
      BY <2>3 DEF RowsInv
    <3>2. QED
      BY <2>1, <2>3, <3>1, SeenStep DEF Inv
  <2>5. EvalsInv'
    BY <2>1, <2>3, EvalsStep DEF Inv, RowsInv
  <2>6. OverlapInv' /\ AloneInv'
    BY <2>1, OverlapStep, AloneStep DEF Inv
  <2>7. QED
    BY <2>2, <2>3, <2>4, <2>5, <2>6, <2>8 DEF Inv
<1>2. CASE UNCHANGED vars
  <2>1. UNCHANGED <<pc, phases, milestones, lastId, related, evaluations, plan, seen, link, read, left,
                    prev, errors, overlapped, untame, muddled, botched>>
    BY <1>2 DEF vars, rows, history
  <2>2. LocalTypes' /\ RowsInv' /\ LinksInv'
    BY <2>1 DEF Inv, LocalTypes, RowsInv, LinksInv, LinksResolve, MilestonesOnce
  <2>3. ScansInv' /\ SeenInv' /\ EvalsInv' /\ OverlapInv' /\ AloneInv'
    BY <2>1 DEF Inv, ScansInv, SeenInv, Planned, EvalsInv, OverlapInv, AloneInv
  <2>4. QED
    BY <2>2, <2>3 DEF Inv
<1>3. QED
  BY <1>1, <1>2

\* The invariant of the roadmap, for any jobs, plans, answers and errors.
LEMMA RoadmapInvariant == Spec => []Inv
BY InvInit, InvStep, PTL DEF Spec

-----------------------------------------------------------------------------
(***************************************************************************)
(* Theorems.                                                               *)
(***************************************************************************)
\* A status that is final is not one an analysis asks about.
LEMMA FinalIsNotActive == Final \cap Active = {}
BY DEF Final, Active

\* Whatever the AI answers, and however scans overlap, the rows have their types
\* and every quest is linked to a stored milestone or to none; and the rows form
\* one roadmap with every milestone once, except after a plan that is not tame or
\* a transaction that had not seen what another one stored.
THEOREM RoadmapCorrect == Spec => []RoadmapInv
<1>1. Inv => RoadmapInv
  <2> SUFFICES ASSUME Inv PROVE RoadmapInv
    OBVIOUS
  <2>1. \A m \in milestones : m.id \in 1..lastId /\ m.status \in Statuses /\ m.phase \in {x.id : x \in phases}
    BY DEF Inv, RowsInv, Row
  <2>2. pc \in [Jobs -> Steps] /\ lastId \in Nat /\ \A p \in phases : p.id \in 1..lastId
    BY DEF Inv, LocalTypes, RowsInv
  <2>3. DOMAIN related \subseteq Scans /\ (\A q \in DOMAIN related : related[q] \in 0..lastId) /\ LinksResolve
    BY DEF Inv, LinksInv
  <2>4. /\ \A e \in evaluations : e.job \in Evals /\ e.milestone \in 1..lastId
        /\ \A j \in Evals : DOMAIN prev[j] \subseteq DOMAIN read[j]
    BY DEF Inv, EvalsInv
  <2>5. /\ errors \in 0..MaxErrors /\ overlapped \subseteq Jobs /\ botched \subseteq Jobs
        /\ untame \subseteq Scans /\ muddled \in BOOLEAN
    BY DEF Inv, LocalTypes
  <2>6. TypeOK
    BY <2>1, <2>2, <2>3, <2>4, <2>5 DEF TypeOK
  <2>7. QED
    BY <2>3, <2>6 DEF RoadmapInv, Inv, RowsInv
<1>2. QED
  BY <1>1, RoadmapInvariant, PTL

\* A scan that persists its roadmap links its quest to the milestone with the
\* key it was told, for any plan.
THEOREM LinkFollowsKeyCorrect == Spec => LinkFollowsKey
<1>1. ASSUME Inv, [Next]_vars, NEW k \in Scans,
             pc[k] = "replace", pc'[k] = "done", link[k] # Named("?")
      PROVE  \E m \in milestones' : m.id = related'[k] /\ m.key = link[k]
  <2>1. Next
    BY <1>1 DEF vars
  <2>2. PICK j \in Jobs : Acts(j)
    BY <2>1, OneActs
  <2>3. j = k
    BY <1>1, <2>2, TypesStep, Kinds DEF Inv, Others
  <2>4. pc \in [Jobs -> Steps] /\ k \notin Evals
    BY <1>1, Kinds DEF Inv, LocalTypes
  <2>5. Persist(k)
    BY <1>1, <2>2, <2>3, <2>4 DEF Acts, ScanActs, Start, Generate, SaveQuest, BeginReplace, UndoScan
  <2>6. Replace(k)
    <3>1. ~GoTo(k, "undo")
      BY <1>1, <2>4, Kinds DEF GoTo
    <3>2. QED
      BY <2>5, <3>1 DEF Persist
  <2>7. Planned(k) /\ k \in DOMAIN related /\ link[k] \in ToSet(Keys(plan[k]))
    BY <1>1 DEF Inv, ScansInv
  <2>8. QED
    BY <1>1, <2>6, <2>7, ReplaceStep DEF Inv
<1>2. Inv /\ [Next]_vars =>
        [\A j \in Scans :
           pc[j] = "replace" /\ pc'[j] = "done" /\ link[j] # Named("?") =>
             \E m \in milestones' : m.id = related'[j] /\ m.key = link[j]]_vars
  BY <1>1
<1>3. QED
  BY <1>2, RoadmapInvariant, PTL DEF Spec, LinkFollowsKey

\* An analysis that ran alone and fails restores what it changed, for answers
\* of any length.
THEOREM RollbackRestoresCorrect == Spec => RollbackRestores
<1>1. ASSUME Inv, [Next]_vars, NEW k \in Evals, pc[k] = "undo", pc'[k] = "failed", k \notin botched',
             NEW n \in milestones', n.id \in DOMAIN prev[k]
      PROVE  n.status = read[k][n.id] /\ \A e \in evaluations' : e.job # k
  <2>1. Next
    BY <1>1 DEF vars
  <2>2. PICK j \in Jobs : Acts(j)
    BY <2>1, OneActs
  <2>3. j = k
    BY <1>1, <2>2, TypesStep, Kinds DEF Inv, Others
  <2>4. k \notin Scans
    BY Kinds
  <2>5. UndoEval(k)
    BY <1>1, <2>2, <2>3, <2>4
       DEF Acts, EvalActs, Start, FetchActiveMilestones, EvaluateMilestones, Saves, SaveEvaluation, Saved, Rest
  <2>6. ~Fails(k)
    BY <1>1 DEF Fails
  <2>7. /\ evaluations' = {e \in evaluations : e.job # k}
        /\ milestones' = WithStatus(prev[k], DOMAIN prev[k])
    BY <1>1, <2>5, <2>6 DEF UndoEval
  <2>8. UNCHANGED <<phases, lastId, muddled>>
    BY <2>5 DEF UndoEval, history
  <2>9. /\ \A id \in DOMAIN prev[k] : prev[k][id] = read[k][id]
        /\ \A id \in DOMAIN prev[k] : prev[k][id] \in Statuses
    BY <1>1, Restored DEF Inv, EvalsInv
  <2>10. RowsInv
    BY <1>1 DEF Inv
  <2>11. \E m \in milestones : m.id = n.id /\ n.status = IF m.id \in DOMAIN prev[k] THEN prev[k][m.id] ELSE m.status
    BY <2>7, <2>8, <2>9, <2>10, StatusesStep
  <2>12. QED
    BY <1>1, <2>7, <2>9, <2>11
<1>2. Inv /\ [Next]_vars =>
        [\A j \in Evals \ overlapped :
           pc[j] = "undo" /\ pc'[j] = "failed" /\ j \notin botched' =>
             \A m \in milestones' : m.id \in DOMAIN prev[j] =>
               /\ m.status = read[j][m.id]
               /\ \A e \in evaluations' : e.job # j]_vars
  BY <1>1
<1>3. QED
  BY <1>2, RoadmapInvariant, PTL DEF Spec, RollbackRestores

\* What is decided stays decided until the roadmap is replaced, but for a job
\* that takes back what it decided, jobs that overlap and calls that failed.
THEOREM FinalStaysCorrect == Spec => FinalStays
<1>1. ASSUME Inv, [Next]_vars, NEW m \in milestones, NEW n \in milestones',
             m.id = n.id, m.status \in Final, m.status # n.status
      PROVE  \E j \in Evals :
               \/ m.id \in DOMAIN prev[j] /\ pc[j] \in {"evaluate", "undo"}
               \/ j \in overlapped \/ j \in botched
  <2>1. \A x, y \in milestones : x.id = y.id => x = y
    BY <1>1 DEF Inv, RowsInv
  <2>2. ~UNCHANGED milestones
    BY <1>1, <2>1
  <2>3. Next
    BY <1>1, <2>2 DEF vars, rows
  <2>4. PICK j \in Jobs : Acts(j)
    BY <2>3, OneActs
  <2>5. CASE Replaces(j)
    <3>1. Planned(j) /\ j \in DOMAIN related /\ Replace(j) /\ j \in Scans /\ pc[j] = "replace"
      BY <1>1, <2>5 DEF Inv, ScansInv, Replaces
    <3>2. n \in milestones \/ n.id > lastId
      BY <1>1, <3>1, ReplaceStep DEF Inv
    <3>3. m.id \in 1..lastId /\ lastId \in Nat
      BY <1>1 DEF Inv, RowsInv
    <3>4. QED
      BY <1>1, <2>1, <3>2, <3>3
  <2>6. CASE Raises(j)
    <3>1. PICK id \in DOMAIN read[j], s \in Statuses : milestones' = WithStatus([i \in {id} |-> s], {id})
      BY <2>6 DEF Raises
    <3> DEFINE status == [i \in {id} |-> s]
    <3>2. (\A i \in {id} : status[i] \in Statuses) /\ milestones' = WithStatus(status, {id})
      BY <3>1
    <3> HIDE DEF status
    <3>3. PICK x \in milestones : x.id = n.id /\ n.status = IF x.id \in {id} THEN status[x.id] ELSE x.status
      <4>1. RowsInv /\ UNCHANGED <<phases, lastId, muddled>> /\ n \in milestones'
        BY <1>1, <2>6 DEF Inv, Raises
      <4>2. QED
        BY <3>2, <4>1, StatusesStep
    <3>4. x = m /\ m.id = id
      BY <1>1, <2>1, <3>3
    <3>5. j \in Evals /\ pc[j] = "evaluate" /\ read[j][id] \in Active
      BY <1>1, <2>6 DEF Raises, Inv, EvalsInv
    <3>6. m.status # read[j][id]
      BY <1>1, <3>5, FinalIsNotActive
    <3>7. j \in overlapped \/ j \in botched \/ m.id \in DOMAIN prev[j]
      BY <1>1, <3>4, <3>5, <3>6 DEF Inv, AloneInv
    <3>8. QED
      BY <3>5, <3>7
  <2>7. CASE Restores(j)
    <3>1. PICK ids \in SUBSET DOMAIN prev[j] : milestones' = WithStatus(prev[j], ids)
      BY <2>7 DEF Restores
    <3>2. \A id \in ids : prev[j][id] \in Statuses
      BY <1>1, <2>7, Restored DEF Inv, Restores
    <3>3. PICK x \in milestones : x.id = n.id /\ n.status = IF x.id \in ids THEN prev[j][x.id] ELSE x.status
      BY <1>1, <2>7, <3>1, <3>2, StatusesStep DEF Inv, Restores
    <3>4. x = m /\ m.id \in ids
      BY <1>1, <2>1, <3>3
    <3>5. QED
      BY <2>7, <3>4 DEF Restores
  <2>8. CASE Requests(j) \/ UNCHANGED <<rows, related, muddled>>
    BY <2>2, <2>8 DEF Requests, rows
  <2>9. QED
    BY <2>4, <2>5, <2>6, <2>7, <2>8, RowMoves
<1>2. Inv /\ [Next]_vars =>
        [\A m \in milestones, n \in milestones' :
           m.id = n.id /\ m.status \in Final /\ m.status # n.status =>
             \E j \in Evals :
               \/ m.id \in DOMAIN prev[j] /\ pc[j] \in {"evaluate", "undo"}
               \/ j \in overlapped \/ j \in botched]_vars
  BY <1>1
<1>3. QED
  BY <1>2, RoadmapInvariant, PTL DEF Spec, FinalStays
=============================================================================
