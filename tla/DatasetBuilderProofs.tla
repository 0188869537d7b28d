------------------------ MODULE DatasetBuilderProofs ------------------------
(* What DatasetBuilder guarantees for any number of builders and any        *)
(* session directories.                                                     *)
EXTENDS DatasetBuilder, FiniteSetTheorems, SequenceTheorems,
        NaturalsInduction, WellFoundedInduction, TLAPS

\* assign_session_splits: from three sessions on, the sessions held out twice
\* leave one for the training, so the loop that gives some of them back
\* (builder.py:47-51) never runs.
THEOREM TrainingNeverEmpty ==
  ASSUME NEW n \in Nat, n >= 3
  PROVE  HeldOut(n) >= 1 /\ 2 * HeldOut(n) < n
<1>1. /\ n \div 10 \in Nat /\ n % 10 \in 0..9
      /\ n = 10 * (n \div 10) + (n % 10)
  OBVIOUS
<1>2. Tenth(n) \in Nat /\ Tenth(n) <= n \div 10 + 1
  BY <1>1 DEF Tenth
<1>3. n % 10 <= 4 => Tenth(n) = n \div 10
  BY <1>1 DEF Tenth
<1>4. HeldOut(n) = IF Tenth(n) < 1 THEN 1 ELSE Tenth(n)
  BY DEF HeldOut, AtLeastOne
<1> QED
  BY <1>1, <1>2, <1>3, <1>4

-----------------------------------------------------------------------------
(* The order of the sessions and the splits they are assigned to.           *)

\* A set of numbers has a least one.
LEMMA SmallestExists ==
  ASSUME NEW T, T \subseteq Nat, T # {}
  PROVE  \E x \in T : \A y \in T : x <= y
<1>1. IsWellFoundedOn(OpToRel(<, Nat), Nat)
  BY NatLessThanWellFounded
<1>2. PICK R : R = {ss \in Nat \X Nat : ss[1] < ss[2]}
  OBVIOUS
<1>3. R = OpToRel(<, Nat)
  BY <1>2 DEF OpToRel
<1>4. IsWellFoundedOn(R, Nat)
  BY <1>1, <1>3, Zenon
<1>5. PICK x \in T : \A y \in T : <<y, x>> \notin R
  BY <1>4, WFMin
<1>6. ASSUME NEW y \in T PROVE x <= y
  <2>1. <<y, x>> \notin R /\ x \in Nat /\ y \in Nat
    BY <1>5
  <2> QED
    BY <1>2, <2>1
<1> QED
  BY <1>6

LEMMA IdsFinite ==
  ASSUME NEW ds \in SUBSET Directories, NEW S, S = {d.id : d \in ds}
  PROVE  S \subseteq Nat /\ IsFiniteSet(S) /\ Cardinality(S) \in Nat
<1>1. S \subseteq Nat
  BY DirectoriesAssumption
<1>2. IsFiniteSet(ds)
  BY DirectoriesAssumption, FS_Subset
<1>3. [d \in ds |-> d.id] \in Surjection(ds, S)
  BY DEF Surjection
<1>4. IsFiniteSet(S)
  BY <1>2, <1>3, FS_Surjection
<1> QED
  BY <1>1, <1>4, FS_CardinalityType

\* Of n numbers, for every k < n there is one with k in front of it.
LEMMA RankExists ==
  ASSUME NEW S, S \subseteq Nat, IsFiniteSet(S), NEW n, n = Cardinality(S),
         NEW k \in 1..n
  PROVE  \E id \in S : Cardinality({i \in S : i < id}) = k - 1
<1>1. n \in Nat /\ \A i \in S : i \in Nat
  BY FS_CardinalityType
<1>2. PICK f : f = [id \in S |-> Cardinality({i \in S : i < id})]
  OBVIOUS
<1>3. ASSUME NEW id \in S
      PROVE  /\ IsFiniteSet({i \in S : i < id})
             /\ f[id] = Cardinality({i \in S : i < id}) /\ f[id] \in 0..(n - 1)
  <2>1. PICK T : T = {i \in S : i < id}
    OBVIOUS
  <2>2. T \in SUBSET S /\ id \notin T
    BY <1>3, <2>1
  <2>3. /\ IsFiniteSet(T) /\ Cardinality(T) <= n /\ Cardinality(T) # n
    BY <1>3, <2>2, FS_Subset
  <2>4. Cardinality(T) \in Nat
    BY <2>3, FS_CardinalityType
  <2> QED
    BY <1>1, <1>2, <2>1, <2>3, <2>4
<1>4. ASSUME NEW x \in S, NEW y \in S, x < y PROVE f[x] < f[y]
  <2>1. PICK T, U : T = {i \in S : i < x} /\ U = {i \in S : i < y}
    OBVIOUS
  <2>2. T \in SUBSET U /\ x \in U /\ x \notin T
    <3>1. x \in Nat /\ y \in Nat
      BY <1>1, <1>4
    <3>2. \A i \in S : i < x => i < y
      BY <1>1, <1>4, <3>1
    <3>3. T \subseteq U
      BY <2>1, <3>2, Zenon
    <3>4. x \in U /\ x \notin T
      BY <1>4, <2>1, <3>1
    <3> QED
      BY <3>3, <3>4
  <2>3. IsFiniteSet(U) /\ f[x] = Cardinality(T) /\ f[y] = Cardinality(U)
        /\ f[x] \in Nat /\ f[y] \in Nat
    BY <1>1, <1>3, <1>4, <2>1
  <2>4. Cardinality(T) <= Cardinality(U) /\ Cardinality(T) # Cardinality(U)
    BY <2>2, <2>3, FS_Subset
  <2> QED
    BY <2>3, <2>4
<1>5. f \in Injection(S, 0..(n - 1))
  <2>1. f \in [S -> 0..(n - 1)]
    BY <1>2, <1>3
  <2>2. ASSUME NEW x \in S, NEW y \in S, f[x] = f[y], x # y PROVE FALSE
    <3>1. x \in Nat /\ y \in Nat /\ f[x] \in 0..(n - 1) /\ f[y] \in 0..(n - 1)
      BY <1>1, <1>3, <2>2, Zenon
    <3>2. (x < y \/ y < x) /\ f[x] \in Nat /\ f[y] \in Nat
      BY <1>1, <2>2, <3>1
    <3> QED
      BY <1>4, <2>2, <3>2
  <2> QED
    BY <2>1, <2>2, Zenon DEF Injection, IsInjective
<1>6. IsFiniteSet(0..(n - 1)) /\ Cardinality(0..(n - 1)) = n
  <2>1. /\ 0 \in Int /\ n - 1 \in Int /\ (n - 1) - 0 + 1 = n
        /\ 0 > n - 1 => n = 0
    BY <1>1
  <2>2. /\ IsFiniteSet(0..(n - 1))
        /\ Cardinality(0..(n - 1)) = IF 0 > n - 1 THEN 0 ELSE (n - 1) - 0 + 1
    BY <2>1, FS_Interval, Zenon
  <2> QED
    BY <2>1, <2>2
<1>7. f \in Surjection(S, 0..(n - 1))
  BY <1>5, <1>6, FS_Injection
<1>8. k - 1 \in 0..(n - 1)
  BY <1>1
<1>9. PICK id \in S : f[id] = k - 1
  BY <1>7, <1>8 DEF Surjection
<1> QED
  BY <1>3, <1>9

LEMMA FunctionIsSeq ==
  ASSUME NEW S, NEW n \in Nat, NEW f \in [1..n -> S]
  PROVE  f \in Seq(S) /\ Len(f) = n
OBVIOUS

\* The identifiers in key order are those of the sessions, each of them once.
LEMMA IdsAre ==
  ASSUME NEW ds \in SUBSET Directories,
         NEW S, S = {d.id : d \in ds}, NEW n, n = Cardinality(S),
         NEW ids, ids = Ids(ds)
  PROVE  /\ S \subseteq Nat /\ n \in Nat
         /\ ids \in [1..n -> S] /\ ids \in Seq(S) /\ Len(ids) = n
         /\ \A j, k \in 1..n : ids[j] = ids[k] => j = k
<1>1. S \subseteq Nat /\ IsFiniteSet(S) /\ n \in Nat
  BY IdsFinite
<1>2. ids = [k \in 1..n |->
               CHOOSE id \in S : Cardinality({i \in S : i < id}) = k - 1]
  BY SMT DEF Ids
<1>3. \A k \in 1..n :
        ids[k] \in S /\ Cardinality({i \in S : i < ids[k]}) = k - 1
  <2> SUFFICES ASSUME NEW k \in 1..n
               PROVE  /\ ids[k] \in S
                      /\ Cardinality({i \in S : i < ids[k]}) = k - 1
    OBVIOUS
  <2>1. \E id \in S : Cardinality({i \in S : i < id}) = k - 1
    BY <1>1, RankExists
  <2>2. ids[k] = CHOOSE id \in S : Cardinality({i \in S : i < id}) = k - 1
    BY <1>2
  <2> QED
    BY <2>1, <2>2, Zenon
<1>4. ids \in [1..n -> S]
  BY <1>2, <1>3
<1>5. ids \in Seq(S) /\ Len(ids) = n
  BY <1>1, <1>4, FunctionIsSeq
<1>6. ASSUME NEW j \in 1..n, NEW k \in 1..n, ids[j] = ids[k] PROVE j = k
  <2>1. j - 1 = k - 1
    BY <1>3, <1>6
  <2> QED
    BY <1>1, <2>1
<1> QED
  BY <1>1, <1>4, <1>5, <1>6

\* Where the splits of n sessions end.
LEMMA SplitsFit ==
  ASSUME NEW n \in Nat, NEW held, held = HeldOut(n),
         NEW test, test = IF n < 3 THEN 0 ELSE held,
         NEW train, train = n - held - test
  PROVE  /\ held \in Nat /\ train \in Nat /\ train + held <= n
         /\ n >= 3 => held >= 1 /\ train >= 1 /\ train + held < n
<1>1. CASE n >= 3
  <2>1. held >= 1 /\ 2 * held < n
    BY <1>1, TrainingNeverEmpty
  <2>2. held \in Nat
    <3>1. n \div 10 \in Nat /\ n % 10 \in 0..9
      OBVIOUS
    <3>2. Tenth(n) \in Nat
      BY <3>1 DEF Tenth
    <3> QED
      BY <3>2 DEF HeldOut, AtLeastOne
  <2> QED
    BY <1>1, <2>1, <2>2
<1>2. CASE n < 2
  BY <1>2 DEF HeldOut
<1>3. CASE n = 2
  <2>1. Tenth(2) = 0
    BY DEF Tenth
  <2>2. held = 1 /\ test = 0
    BY <1>3, <2>1 DEF HeldOut, AtLeastOne
  <2> QED
    BY <1>3, <2>2
<1> QED
  BY <1>1, <1>2, <1>3

LEMMA SliceIs ==
  ASSUME NEW S, NEW ids \in Seq(S), NEW a \in Nat, NEW b \in Nat, b <= Len(ids)
  PROVE  /\ SubSeq(ids, a + 1, b) \in Seq(S)
         /\ \A e \in ToSet(SubSeq(ids, a + 1, b)) :
              \E x \in 1..Len(ids) : a < x /\ x <= b /\ e = ids[x]
         /\ a < b => SubSeq(ids, a + 1, b) # <<>>
<1>1. /\ Len(ids) \in Nat /\ DOMAIN ids = 1..Len(ids)
      /\ \A i \in 1..Len(ids) : ids[i] \in S
  BY LenProperties, ElementOfSeq
<1>2. PICK m, s : /\ m = IF a < b THEN b - a ELSE 0
                  /\ s = SubSeq(ids, a + 1, b)
  OBVIOUS
<1>3. /\ m \in Nat /\ s \in Seq(S) /\ Len(s) = m /\ DOMAIN s = 1..m
      /\ \A i \in 1..m : s[i] = ids[a + i]
  BY <1>1, <1>2
<1>4. a < b => s # <<>>
  BY <1>2, <1>3
<1>5. ASSUME NEW e \in ToSet(s)
      PROVE  \E x \in 1..Len(ids) : a < x /\ x <= b /\ e = ids[x]
  <2>1. PICK i \in 1..m : e = s[i]
    BY <1>3, <1>5 DEF ToSet
  <2>2. a + i \in 1..Len(ids) /\ a < a + i /\ a + i <= b /\ e = ids[a + i]
    BY <1>1, <1>2, <1>3, <2>1
  <2> QED
    BY <2>2
<1> QED
  BY <1>2, <1>3, <1>4, <1>5

\* assign_session_splits: every split has sessions of the dataset only, no two
\* have one in common, and of three sessions or more each split has one.
LEMMA SplitsApart ==
  ASSUME NEW ds \in SUBSET Directories, NEW k \in Splits
  PROVE  /\ Assigned(Ids(ds), k) \in Seq({d.id : d \in ds})
         /\ \A j \in Splits : j # k =>
              ToSet(Assigned(Ids(ds), j)) \cap ToSet(Assigned(Ids(ds), k)) = {}
         /\ Cardinality({d.id : d \in ds}) >= 3 => Assigned(Ids(ds), k) # <<>>
<1>1. PICK S, ids : S = {d.id : d \in ds} /\ ids = Ids(ds)
  OBVIOUS
<1>2. PICK n : n = Cardinality(S)
  OBVIOUS
<1>3. /\ n \in Nat /\ ids \in Seq(S) /\ Len(ids) = n
      /\ \A x, y \in 1..n : ids[x] = ids[y] => x = y
  BY <1>1, <1>2, IdsAre
<1>4. PICK held : held = HeldOut(n)
  OBVIOUS
<1>5. PICK test : test = IF n < 3 THEN 0 ELSE held
  OBVIOUS
<1>6. PICK train : train = n - held - test
  OBVIOUS
<1>7. /\ held \in Nat /\ train \in Nat /\ train + held <= n
      /\ n >= 3 => held >= 1 /\ train >= 1 /\ train + held < n
  BY <1>3, <1>4, <1>5, <1>6, SplitsFit
<1>8. PICK from, to : /\ from = <<0, train, train + held>>
                      /\ to = <<train, train + held, n>>
  OBVIOUS
<1>9. ASSUME NEW j \in Splits
      PROVE  Assigned(ids, j) = SubSeq(ids, from[j] + 1, to[j])
  BY <1>3, <1>4, <1>5, <1>6, <1>8, Zenon DEF Assigned, Slice
<1>10. \A j \in Splits : from[j] \in Nat /\ to[j] \in Nat /\ to[j] <= n
                         /\ (n >= 3 => from[j] < to[j])
  BY <1>3, <1>7, <1>8 DEF Splits
<1>11. \A i, j \in Splits : i < j => to[i] <= from[j]
  BY <1>3, <1>7, <1>8 DEF Splits
<1>12. ASSUME NEW j \in Splits
       PROVE  /\ Assigned(ids, j) \in Seq(S)
              /\ \A e \in ToSet(Assigned(ids, j)) :
                   \E x \in 1..n : from[j] < x /\ x <= to[j] /\ e = ids[x]
              /\ n >= 3 => Assigned(ids, j) # <<>>
  <2>1. PICK a, b : a = from[j] /\ b = to[j]
    OBVIOUS
  <2>2. a \in Nat /\ b \in Nat /\ b <= Len(ids) /\ (n >= 3 => a < b)
    BY <1>3, <1>10, <2>1
  <2>3. /\ SubSeq(ids, a + 1, b) \in Seq(S)
        /\ \A e \in ToSet(SubSeq(ids, a + 1, b)) :
             \E x \in 1..Len(ids) : a < x /\ x <= b /\ e = ids[x]
        /\ a < b => SubSeq(ids, a + 1, b) # <<>>
    <3>1. ids \in Seq(S) /\ a \in Nat /\ b \in Nat /\ b <= Len(ids)
      BY <1>3, <2>2
    <3> QED
      BY <3>1, SliceIs, Zenon
  <2>4. SubSeq(ids, a + 1, b) = Assigned(ids, j)
    BY <1>9, <2>1
  <2> QED
    BY <1>3, <2>1, <2>2, <2>3, <2>4, Zenon
<1>13. ASSUME NEW i \in Splits, NEW j \in Splits, i < j,
              NEW e \in ToSet(Assigned(ids, i)) \cap ToSet(Assigned(ids, j))
       PROVE  FALSE
  <2>1. PICK x \in 1..n : from[i] < x /\ x <= to[i] /\ e = ids[x]
    BY <1>12, <1>13
  <2>2. PICK y \in 1..n : from[j] < y /\ y <= to[j] /\ e = ids[y]
    BY <1>12, <1>13
  <2>3. x < y
    BY <1>3, <1>10, <1>11, <1>13, <2>1, <2>2
  <2>4. x = y
    BY <1>3, <2>1, <2>2
  <2> QED
    BY <1>3, <2>3, <2>4
<1>14. \A j \in Splits : j # k => j < k \/ k < j
  BY DEF Splits
<1>15. \A j \in Splits : j # k =>
         ToSet(Assigned(ids, j)) \cap ToSet(Assigned(ids, k)) = {}
  BY <1>13, <1>14
<1> QED
  BY <1>1, <1>2, <1>12, <1>15

-----------------------------------------------------------------------------
(* FlattenSeq, by the sequences it goes through.                            *)

\* f[n] is the first n sequences of q, one after the other.
Joins(q, m, T, f) ==
  /\ f \in [1..m -> Seq(T)]
  /\ \A n \in 1..m : f[n] = IF n = 1 THEN q[n] ELSE f[n - 1] \o q[n]

LEMMA JoinsExist ==
  ASSUME NEW T, NEW q \in Seq(Seq(T))
  PROVE  \E f : Joins(q, Len(q), T, f)
<1>1. Len(q) \in Nat /\ \A n \in 1..Len(q) : q[n] \in Seq(T)
  BY LenProperties, ElementOfSeq
<1> DEFINE U == {k \in 0..Len(q) : ~(\E f : Joins(q, k, T, f))}
<1>2. SUFFICES ASSUME U # {} PROVE FALSE
  BY <1>1
<1>3. PICK k \in U : \A j \in U : k <= j
  <2>1. U \subseteq Nat
    BY <1>1
  <2> HIDE DEF U
  <2> QED
    BY <1>2, <2>1, SmallestExists
<1>4. k \in 0..Len(q) /\ ~(\E f : Joins(q, k, T, f))
  BY <1>3
<1>5. CASE k = 0
  <2>1. Joins(q, 0, T, [n \in 1..0 |-> <<>>])
    BY DEF Joins
  <2> QED
    BY <1>4, <1>5, <2>1
<1>6. CASE k # 0
  <2>1. /\ k - 1 \in 0..Len(q) /\ ~(k <= k - 1) /\ k \in 1..Len(q)
        /\ k \in Nat /\ k >= 1
    BY <1>1, <1>4, <1>6
  <2>2. k - 1 \notin U
    BY <1>3, <2>1
  <2>3. PICK f : Joins(q, k - 1, T, f)
    BY <2>1, <2>2
  <2>4. /\ f \in [1..(k - 1) -> Seq(T)] /\ q[k] \in Seq(T)
        /\ \A n \in 1..(k - 1) :
             f[n] = IF n = 1 THEN q[n] ELSE f[n - 1] \o q[n]
    BY <1>1, <2>1, <2>3 DEF Joins
  <2>5. PICK last : last = IF k = 1 THEN q[k] ELSE f[k - 1] \o q[k]
    OBVIOUS
  <2>6. last \in Seq(T)
    <3>1. CASE k = 1
      BY <2>4, <2>5, <3>1
    <3>2. CASE k # 1
      <4>1. k - 1 \in 1..(k - 1)
        BY <2>1, <3>2
      <4>2. f[k - 1] \in Seq(T)
        BY <2>4, <4>1
      <4>3. f[k - 1] \o q[k] \in Seq(T)
        BY <2>4, <4>2, ConcatProperties
      <4> QED
        BY <2>5, <3>2, <4>3
    <3> QED
      BY <3>1, <3>2
  <2>7. PICK g : g = [n \in 1..k |-> IF n = k THEN last ELSE f[n]]
    OBVIOUS
  <2>8. g[k] = last /\ \A n \in 1..(k - 1) : g[n] = f[n]
    BY <2>1, <2>7
  <2>9. g \in [1..k -> Seq(T)]
    <3>1. \A n \in 1..k : n = k \/ n \in 1..(k - 1)
      BY <2>1
    <3>2. ASSUME NEW n \in 1..k PROVE g[n] \in Seq(T)
      BY <2>4, <2>6, <2>8, <3>1, Zenon
    <3>3. g = [n \in 1..k |-> g[n]]
      BY <2>7
    <3> QED
      BY <3>2, <3>3
  <2>10. ASSUME NEW n \in 1..k
         PROVE  g[n] = IF n = 1 THEN q[n] ELSE g[n - 1] \o q[n]
    <3>1. CASE n = 1
      <4>1. CASE k = 1
        BY <2>5, <2>8, <3>1, <4>1
      <4>2. CASE k # 1
        <5>1. n \in 1..(k - 1)
          BY <2>1, <3>1, <4>2
        <5> QED
          BY <2>4, <2>8, <3>1, <5>1
      <4> QED
        BY <4>1, <4>2
    <3>2. CASE n # 1
      <4>1. n - 1 \in 1..(k - 1)
        BY <2>1, <3>2
      <4>2. g[n - 1] = f[n - 1]
        BY <2>8, <4>1
      <4>3. CASE n = k
        BY <2>5, <2>8, <3>2, <4>2, <4>3
      <4>4. CASE n # k
        <5>1. n \in 1..(k - 1)
          BY <2>1, <4>4
        <5> QED
          BY <2>4, <2>8, <3>2, <4>2, <5>1
      <4> QED
        BY <4>3, <4>4
    <3> QED
      BY <3>1, <3>2
  <2>11. Joins(q, k, T, g)
    BY <2>9, <2>10 DEF Joins
  <2> QED
    BY <1>4, <2>11
<1> QED
  BY <1>5, <1>6

LEMMA FlattenIs ==
  ASSUME NEW T, NEW q \in Seq(Seq(T)), Len(q) # 0,
         NEW f, Joins(q, Len(q), T, f)
  PROVE  FlattenSeq(q) = f[Len(q)] /\ FlattenSeq(q) \in Seq(T)
<1>1. PICK m : m = Len(q)
  OBVIOUS
<1>2. m \in Nat /\ m # 0
  BY <1>1, LenProperties
<1>3. /\ f \in [1..m -> Seq(T)]
      /\ \A n \in 1..m : f[n] = IF n = 1 THEN q[n] ELSE f[n - 1] \o q[n]
  BY <1>1 DEF Joins
<1> DEFINE Fits(g) == g = [n \in 1..m |-> IF n = 1 THEN q[n]
                                             ELSE g[n - 1] \o q[n]]
<1>4. Fits(f)
  <2>1. f = [n \in 1..m |-> f[n]]
    BY <1>3
  <2> QED
    BY <1>3, <2>1
<1>5. PICK g : g = CHOOSE h : Fits(h)
  OBVIOUS
<1>6. Fits(g)
  BY <1>4, <1>5, Zenon
<1>7. \A n \in 1..m : g[n] = IF n = 1 THEN q[n] ELSE g[n - 1] \o q[n]
  BY <1>6
<1>8. ASSUME NEW n \in 1..m, g[n] # f[n] PROVE FALSE
  <2> DEFINE U == {x \in 1..m : g[x] # f[x]}
  <2>1. PICK x \in U : \A y \in U : x <= y
    <3>1. U \subseteq Nat /\ n \in U
      BY <1>2, <1>8
    <3> HIDE DEF U
    <3> QED
      BY <3>1, SmallestExists
  <2>2. x \in 1..m /\ g[x] # f[x]
    BY <2>1
  <2>3. x # 1
    BY <1>3, <1>7, <2>2
  <2>4. x - 1 \in 1..m /\ ~(x <= x - 1)
    BY <1>2, <2>2, <2>3
  <2>5. g[x - 1] = f[x - 1]
    BY <2>1, <2>4
  <2> QED
    BY <1>3, <1>7, <2>2, <2>3, <2>5
<1>9. FlattenSeq(q) = g[m]
  BY <1>1, <1>2, <1>5, Zenon DEF FlattenSeq
<1>10. m \in 1..m
  BY <1>2
<1> QED
  BY <1>1, <1>3, <1>8, <1>9, <1>10

LEMMA FlattenEmpty ==
  FlattenSeq(<<>>) = <<>>
BY DEF FlattenSeq

\* The flattened sequence has elements of the same kind, and none that no part
\* has.
LEMMA FlattenTyped ==
  ASSUME NEW T, NEW q \in Seq(Seq(T))
  PROVE  FlattenSeq(q) \in Seq(T)
<1>1. CASE Len(q) = 0
  <2>1. q = <<>> /\ <<>> \in Seq(T)
    BY <1>1, EmptySeq
  <2> QED
    BY <2>1, FlattenEmpty, Zenon
<1>2. CASE Len(q) # 0
  BY <1>2, JoinsExist, FlattenIs
<1> QED
  BY <1>1, <1>2

LEMMA FlattenAppends ==
  ASSUME NEW T, NEW q \in Seq(Seq(T)), NEW x \in Seq(T)
  PROVE  FlattenSeq(Append(q, x)) = FlattenSeq(q) \o x
<1>1. PICK m, p : m = Len(q) /\ p = Append(q, x)
  OBVIOUS
<1>2. /\ m \in Nat /\ p \in Seq(Seq(T)) /\ Len(p) = m + 1 /\ p[m + 1] = x
      /\ \A n \in 1..m : p[n] = q[n]
  BY <1>1, LenProperties, AppendProperties
<1>3. CASE m = 0
  <2>1. FlattenSeq(q) = <<>>
    BY <1>1, <1>3, EmptySeq, FlattenEmpty
  <2>2. PICK f : f = [n \in 1..1 |-> x]
    OBVIOUS
  <2>3. Joins(p, 1, T, f)
    BY <1>2, <1>3, <2>2 DEF Joins
  <2>4. FlattenSeq(p) = f[1]
    <3>1. Len(p) = 1 /\ Len(p) # 0
      BY <1>2, <1>3
    <3>2. Joins(p, Len(p), T, f)
      BY <2>3, <3>1
    <3> QED
      BY <1>2, <3>1, <3>2, FlattenIs, Zenon
  <2>5. <<>> \o x = x
    OBVIOUS
  <2> QED
    BY <1>1, <2>1, <2>2, <2>4, <2>5
<1>4. CASE m # 0
  <2>1. PICK f : Joins(q, m, T, f)
    BY <1>1, JoinsExist
  <2>2. FlattenSeq(q) = f[m] /\ f[m] \in Seq(T)
    BY <1>1, <1>4, <2>1, FlattenIs
  <2>3. /\ f \in [1..m -> Seq(T)]
        /\ \A n \in 1..m : f[n] = IF n = 1 THEN q[n] ELSE f[n - 1] \o q[n]
    BY <2>1 DEF Joins
  <2>4. PICK g : g = [n \in 1..(m + 1) |-> IF n = m + 1 THEN f[m] \o x
                                                        ELSE f[n]]
    OBVIOUS
  <2>5. f[m] \o x \in Seq(T)
    BY <2>2, ConcatProperties
  <2>6. \A n \in 1..(m + 1) : n = m + 1 \/ n \in 1..m
    BY <1>2
  <2>7. g[m + 1] = f[m] \o x /\ \A n \in 1..m : g[n] = f[n]
    BY <1>2, <2>4
  <2>8. g \in [1..(m + 1) -> Seq(T)]
    <3>1. ASSUME NEW n \in 1..(m + 1) PROVE g[n] \in Seq(T)
      BY <2>3, <2>5, <2>6, <2>7, Zenon
    <3>2. g = [n \in 1..(m + 1) |-> g[n]]
      BY <2>4
    <3> QED
      BY <3>1, <3>2
  <2>9. ASSUME NEW n \in 1..(m + 1)
        PROVE  g[n] = IF n = 1 THEN p[n] ELSE g[n - 1] \o p[n]
    <3>1. CASE n = m + 1
      <4>1. n # 1 /\ n - 1 = m /\ m \in 1..m
        BY <1>2, <1>4, <3>1
      <4> QED
        BY <1>2, <2>7, <3>1, <4>1
    <3>2. CASE n # m + 1
      <4>1. n \in 1..m /\ (n # 1 => n - 1 \in 1..m)
        BY <1>2, <3>2
      <4> QED
        BY <1>2, <2>3, <2>7, <4>1
    <3> QED
      BY <3>1, <3>2
  <2>10. Joins(p, m + 1, T, g)
    BY <2>8, <2>9 DEF Joins
  <2>11. FlattenSeq(p) = g[m + 1]
    BY <1>2, <2>10, FlattenIs
  <2> QED
    BY <1>1, <2>2, <2>7, <2>11
<1> QED
  BY <1>3, <1>4

LEMMA FlattenHolds ==
  ASSUME NEW T, NEW q \in Seq(Seq(T)), Len(q) # 0, q[1] # <<>>
  PROVE  FlattenSeq(q) # <<>>
<1>1. PICK m : m = Len(q)
  OBVIOUS
<1>2. m \in Nat /\ m # 0 /\ \A n \in 1..m : q[n] \in Seq(T)
  BY <1>1, LenProperties, ElementOfSeq
<1>3. PICK f : Joins(q, m, T, f)
  BY <1>1, JoinsExist
<1>4. FlattenSeq(q) = f[m]
  BY <1>1, <1>3, FlattenIs
<1>5. /\ f \in [1..m -> Seq(T)]
      /\ \A n \in 1..m : f[n] = IF n = 1 THEN q[n] ELSE f[n - 1] \o q[n]
  BY <1>3 DEF Joins
<1>6. ASSUME NEW n \in 1..m, f[n] = <<>> PROVE FALSE
  <2> DEFINE U == {x \in 1..m : f[x] = <<>>}
  <2>1. PICK x \in U : \A y \in U : x <= y
    <3>1. U \subseteq Nat /\ n \in U
      BY <1>2, <1>6
    <3> HIDE DEF U
    <3> QED
      BY <3>1, SmallestExists
  <2>2. x \in 1..m /\ f[x] = <<>> /\ x # 1
    BY <1>5, <2>1
  <2>3. x - 1 \in 1..m /\ ~(x <= x - 1)
    BY <1>2, <2>2
  <2>4. f[x - 1] # <<>> /\ f[x - 1] \in Seq(T) /\ q[x] \in Seq(T)
    BY <1>2, <1>5, <2>1, <2>2, <2>3
  <2>5. f[x - 1] \o q[x] # <<>>
    <3>1. PICK a, b : a = f[x - 1] /\ b = q[x]
      OBVIOUS
    <3>2. a \in Seq(T) /\ b \in Seq(T) /\ a # <<>>
      BY <2>4, <3>1
    <3>3. Len(a) # 0 /\ Len(a) \in Nat /\ Len(b) \in Nat
          /\ Len(a \o b) = Len(a) + Len(b)
      BY <3>2, LenProperties, EmptySeq, ConcatProperties
    <3>4. Len(a \o b) # 0
      BY <3>3
    <3>5. Len(<<>>) = 0
      OBVIOUS
    <3> QED
      BY <3>1, <3>4, <3>5
  <2>6. f[x] = f[x - 1] \o q[x]
    BY <1>5, <2>2
  <2> QED
    BY <2>2, <2>5, <2>6
<1>7. m \in 1..m
  BY <1>2
<1> QED
  BY <1>4, <1>6, <1>7

-----------------------------------------------------------------------------
(* The samples of a split, and what a builder has made of them.             *)

\* The sessions of split k.
Slot(ds, k) == ToSet(Assigned(Ids(ds), k))

LEMMA SlotsApart ==
  ASSUME NEW ds \in SUBSET Directories,
         NEW j \in Splits, NEW k \in Splits, j # k
  PROVE  Slot(ds, j) \cap Slot(ds, k) = {}
BY SplitsApart DEF Slot

LEMMA FramesTyped ==
  ASSUME NEW ds \in SUBSET Directories, NEW id \in {d.id : d \in ds}
  PROVE  /\ FramesOf(ds, id) \in Seq({id} \X Nat)
         /\ (\A d \in ds : d.accepted) => FramesOf(ds, id) # <<>>
<1>1. PICK d : d = Directory(ds, id)
  OBVIOUS
<1>2. d \in ds
  BY <1>1, Zenon DEF Directory
<1>3. d.frames \in Nat /\ (d.accepted => d.frames > 0)
  BY <1>2, DirectoriesAssumption
<1>4. PICK n : n = d.frames
  OBVIOUS
<1>5. FramesOf(ds, id) = [i \in 1..n |-> <<id, i>>]
  BY <1>1, <1>4 DEF FramesOf
<1>6. n \in Nat /\ (d.accepted => n # 0)
  BY <1>3, <1>4
<1>7. [i \in 1..n |-> <<id, i>>] \in [1..n -> {id} \X Nat]
  BY <1>6
<1>8. FramesOf(ds, id) \in Seq({id} \X Nat) /\ Len(FramesOf(ds, id)) = n
  BY <1>5, <1>6, <1>7, FunctionIsSeq
<1>9. Len(<<>>) = 0
  OBVIOUS
<1> QED
  BY <1>2, <1>6, <1>8, <1>9

\* The samples of a split are frames of its sessions; of three accepted
\* sessions or more there are some in every split.
LEMMA SamplesTyped ==
  ASSUME NEW ds \in SUBSET Directories, NEW k \in Splits
  PROVE  /\ Samples(ds, k) \in Seq(Slot(ds, k) \X Nat)
         /\ /\ Cardinality({d.id : d \in ds}) >= 3
            /\ \A d \in ds : d.accepted
            => Samples(ds, k) # <<>>
<1>1. PICK S, ids, T : /\ S = {d.id : d \in ds} /\ ids = Assigned(Ids(ds), k)
                       /\ T = Slot(ds, k) \X Nat
  OBVIOUS
<1>2. ids \in Seq(S) /\ (Cardinality(S) >= 3 => ids # <<>>)
  BY <1>1, SplitsApart
<1>3. PICK n : n = Len(ids)
  OBVIOUS
<1>4. /\ n \in Nat /\ DOMAIN ids = 1..n /\ (ids # <<>> => n # 0)
      /\ \A i \in 1..n : ids[i] \in S
  BY <1>2, <1>3, LenProperties, ElementOfSeq, EmptySeq
<1>5. PICK q : q = [i \in 1..n |-> FramesOf(ds, ids[i])]
  OBVIOUS
<1>6. Samples(ds, k) = FlattenSeq(q)
  BY <1>1, <1>4, <1>5 DEF Samples
<1>7. ASSUME NEW i \in 1..n
      PROVE  /\ FramesOf(ds, ids[i]) \in Seq(T)
             /\ (\A d \in ds : d.accepted) => FramesOf(ds, ids[i]) # <<>>
  <2>1. PICK id : id = ids[i]
    OBVIOUS
  <2>2. id \in {d.id : d \in ds}
    BY <1>1, <1>4, <2>1
  <2>3. /\ FramesOf(ds, id) \in Seq({id} \X Nat)
        /\ (\A d \in ds : d.accepted) => FramesOf(ds, id) # <<>>
    BY <2>2, FramesTyped
  <2>4. id \in Slot(ds, k)
    BY <1>1, <1>4, <2>1 DEF Slot, ToSet
  <2>5. {id} \X Nat \subseteq T
    BY <1>1, <2>4
  <2>6. PICK f : f = FramesOf(ds, id)
    OBVIOUS
  <2>7. f \in Seq({id} \X Nat)
    BY <2>3, <2>6
  <2>8. f \in Seq(T)
    BY <2>5, <2>7
  <2> QED
    BY <2>1, <2>3, <2>6, <2>8
<1>8. q \in [1..n -> Seq(T)]
  BY <1>5, <1>7
<1>9. q \in Seq(Seq(T)) /\ Len(q) = n
  BY <1>4, <1>8, FunctionIsSeq
<1>10. Samples(ds, k) \in Seq(T)
  BY <1>6, <1>9, FlattenTyped
<1>11. ASSUME Cardinality(S) >= 3, \A d \in ds : d.accepted
       PROVE  Samples(ds, k) # <<>>
  <2>1. n # 0 /\ 1 \in 1..n
    BY <1>2, <1>4, <1>11
  <2>2. q[1] # <<>>
    BY <1>5, <1>7, <1>11, <2>1
  <2>3. Len(q) # 0
    BY <1>9, <2>1
  <2> QED
    BY <1>6, <1>9, <2>2, <2>3, FlattenHolds
<1> QED
  BY <1>1, <1>10, <1>11

\* A shard of a dataset of these sessions.
IsShard(ds, x) == /\ x.split \in Splits
                  /\ x.samples \in Seq(Slot(ds, x.split) \X Nat)

PartOf(x, k) == IF x.split = k THEN x.samples ELSE <<>>

Parts(li, k) == [i \in DOMAIN li |-> PartOf(li[i], k)]

LEMMA ContentsEmpty ==
  ASSUME NEW k
  PROVE  Contents(<<>>, k) = <<>>
<1>1. PICK li : li = <<>>
  OBVIOUS
<1>2. PICK q : q = [i \in DOMAIN li |-> PartOf(li[i], k)]
  OBVIOUS
<1>3. li \in Seq({}) /\ Len(li) = 0 /\ DOMAIN li = 1..0
  BY <1>1
<1>4. q \in [1..0 -> {{}}]
  BY <1>2, <1>3
<1>5. q \in Seq({{}}) /\ Len(q) = 0
  BY <1>4, FunctionIsSeq
<1>6. q = <<>>
  BY <1>5, EmptySeq
<1>7. Contents(li, k) = FlattenSeq(q)
  BY <1>2, Zenon DEF Contents, PartOf
<1> QED
  BY <1>1, <1>6, <1>7, FlattenEmpty, Zenon

LEMMA PartsTyped ==
  ASSUME NEW SH, NEW li \in Seq(SH), NEW k, NEW T,
         \A x \in SH : PartOf(x, k) \in Seq(T)
  PROVE  /\ Parts(li, k) \in Seq(Seq(T)) /\ Len(Parts(li, k)) = Len(li)
         /\ Contents(li, k) = FlattenSeq(Parts(li, k))
         /\ Contents(li, k) \in Seq(T)
<1>1. PICK n : n = Len(li)
  OBVIOUS
<1>2. n \in Nat /\ DOMAIN li = 1..n /\ \A i \in 1..n : li[i] \in SH
  BY <1>1, LenProperties, ElementOfSeq
<1>3. PICK q : q = [i \in 1..n |-> PartOf(li[i], k)]
  OBVIOUS
<1>4. q \in [1..n -> Seq(T)]
  BY <1>2, <1>3
<1>5. q \in Seq(Seq(T)) /\ Len(q) = n
  BY <1>2, <1>4, FunctionIsSeq
<1>6. q = Parts(li, k)
  BY <1>2, <1>3 DEF Parts
<1>7. Contents(li, k) = FlattenSeq(Parts(li, k))
  BY Zenon DEF Contents, Parts, PartOf
<1>8. FlattenSeq(q) \in Seq(T)
  BY <1>5, FlattenTyped
<1> QED
  BY <1>1, <1>5, <1>6, <1>7, <1>8

LEMMA ContentsAppends ==
  ASSUME NEW SH, NEW li \in Seq(SH), NEW x \in SH, NEW k, NEW T,
         \A y \in SH : PartOf(y, k) \in Seq(T)
  PROVE  Contents(Append(li, x), k) = Contents(li, k) \o PartOf(x, k)
<1>1. PICK p, n : p = Append(li, x) /\ n = Len(li)
  OBVIOUS
<1>2. /\ n \in Nat /\ p \in Seq(SH) /\ Len(p) = n + 1 /\ p[n + 1] = x
      /\ \A i \in 1..n : p[i] = li[i]
  BY <1>1, LenProperties, AppendProperties
<1>3. DOMAIN p = 1..(n + 1) /\ DOMAIN li = 1..n
  BY <1>1, <1>2, LenProperties
<1>4. PICK q, r : q = Parts(li, k) /\ r = Parts(p, k)
  OBVIOUS
<1>5. /\ q \in Seq(Seq(T)) /\ Len(q) = n /\ Contents(li, k) = FlattenSeq(q)
  BY <1>1, <1>4, PartsTyped, Zenon
<1>6. /\ r \in Seq(Seq(T)) /\ Len(r) = n + 1 /\ Contents(p, k) = FlattenSeq(r)
  BY <1>2, <1>4, PartsTyped, Zenon
<1>7. PICK e : e = PartOf(x, k)
  OBVIOUS
<1>8. e \in Seq(T)
  BY <1>7
<1>9. r = Append(q, e)
  <2>1. PICK s : s = Append(q, e)
    OBVIOUS
  <2>2. /\ s \in Seq(Seq(T)) /\ Len(s) = n + 1 /\ s[n + 1] = e
        /\ \A i \in 1..n : s[i] = q[i]
    BY <1>5, <1>8, <2>1, AppendProperties
  <2>3. ASSUME NEW i \in 1..(n + 1) PROVE r[i] = s[i]
    <3>1. r[i] = PartOf(p[i], k)
      BY <1>3, <1>4 DEF Parts
    <3>2. CASE i = n + 1
      BY <1>2, <1>7, <2>2, <3>1, <3>2
    <3>3. CASE i # n + 1
      <4>1. i \in 1..n
        BY <1>2, <3>3
      <4>2. q[i] = PartOf(li[i], k)
        BY <1>3, <1>4, <4>1 DEF Parts
      <4> QED
        BY <1>2, <2>2, <3>1, <4>1, <4>2
    <3> QED
      BY <3>2, <3>3
  <2> QED
    BY <1>6, <2>1, <2>2, <2>3, SeqEqual
<1>10. FlattenSeq(Append(q, e)) = FlattenSeq(q) \o e
  BY <1>5, <1>8, FlattenAppends
<1> QED
  BY <1>1, <1>5, <1>6, <1>7, <1>9, <1>10

\* What a builder of the sessions ds has done when it writes split s, with the
\* samples l still to come, the samples a in the open shard, and the shards li
\* listed, out of the shards sh on the disk: the splits before s are there in
\* full, those after it are not begun, and of s nothing is lost or twice.
Fills(ds, s, l, a, li, sh) ==
  /\ l \in Seq(Slot(ds, s) \X Nat) /\ a \in Seq(Slot(ds, s) \X Nat)
  /\ li \in Seq(sh) /\ \A x \in sh : IsShard(ds, x)
  /\ \A k \in Splits : k < s => Contents(li, k) = Samples(ds, k)
  /\ (Contents(li, s) \o a) \o l = Samples(ds, s)
  /\ \A k \in Splits : s < k => Contents(li, k) = <<>>

LEMMA ShardParts ==
  ASSUME NEW ds, NEW x, IsShard(ds, x), NEW k \in Splits
  PROVE  PartOf(x, k) \in Seq(Slot(ds, k) \X Nat)
<1>1. CASE x.split = k
  BY <1>1 DEF PartOf, IsShard
<1>2. CASE x.split # k
  BY <1>2, EmptySeq DEF PartOf
<1> QED
  BY <1>1, <1>2

LEMMA FillsStart ==
  ASSUME NEW ds \in SUBSET Directories
  PROVE  Fills(ds, 1, Samples(ds, 1), <<>>, <<>>, {})
<1>1. \A k \in Splits : Contents(<<>>, k) = <<>>
  BY ContentsEmpty
<1>2. 1 \in Splits
  BY DEF Splits
<1>3. PICK T, S : T = Slot(ds, 1) \X Nat /\ S = Samples(ds, 1)
  OBVIOUS
<1>4. S \in Seq(T)
  BY <1>2, <1>3, SamplesTyped
<1>5. (<<>> \o <<>>) \o S = S /\ <<>> \in Seq(T) /\ <<>> \in Seq({})
  BY <1>4
<1>6. \A k \in Splits : ~(k < 1)
  BY DEF Splits
<1>7. (Contents(<<>>, 1) \o <<>>) \o S = S
  BY <1>1, <1>2, <1>5, Zenon
<1> QED
  BY <1>1, <1>3, <1>4, <1>5, <1>6, <1>7, Zenon DEF Fills

\* The sample in front moves from one sequence to the other.
LEMMA FrontMoves ==
  ASSUME NEW T, NEW c \in Seq(T), NEW a \in Seq(T), NEW l \in Seq(T), l # <<>>
  PROVE  /\ (c \o Append(a, Head(l))) \o Tail(l) = (c \o a) \o l
         /\ Append(a, Head(l)) \in Seq(T) /\ Tail(l) \in Seq(T)
<1>1. PICK h, t, b : h = Head(l) /\ t = Tail(l) /\ b = Append(a, h)
  OBVIOUS
<1>2. h \in T /\ t \in Seq(T) /\ Len(t) = Len(l) - 1
      /\ \A i \in 1..Len(t) : t[i] = l[i + 1]
  BY <1>1, HeadTailProperties
<1>3. h = l[1] /\ Len(l) \in Nat \ {0} /\ Len(a) \in Nat
  BY <1>1, EmptySeq, LenProperties
<1>4. b \in Seq(T) /\ Len(b) = Len(a) + 1 /\ b[Len(a) + 1] = h
      /\ \A i \in 1..Len(a) : b[i] = a[i]
  BY <1>1, <1>2, AppendProperties
<1>5. PICK m, n : m = Len(a) /\ n = Len(l)
  OBVIOUS
<1>6. PICK u, v : u = b \o t /\ v = a \o l
  OBVIOUS
<1>7. /\ u \in Seq(T) /\ Len(u) = m + n
      /\ \A i \in 1..(m + n) :
           u[i] = IF i <= m + 1 THEN b[i] ELSE t[i - (m + 1)]
  <2>1. /\ u \in Seq(T) /\ Len(u) = Len(b) + Len(t)
        /\ \A i \in 1..(Len(b) + Len(t)) :
             u[i] = IF i <= Len(b) THEN b[i] ELSE t[i - Len(b)]
    BY <1>2, <1>4, <1>6, ConcatProperties
  <2>2. Len(b) = m + 1 /\ Len(b) + Len(t) = m + n
    BY <1>2, <1>3, <1>4, <1>5
  <2> QED
    BY <2>1, <2>2
<1>8. /\ v \in Seq(T) /\ Len(v) = m + n
      /\ \A i \in 1..(m + n) : v[i] = IF i <= m THEN a[i] ELSE l[i - m]
  BY <1>5, <1>6, ConcatProperties
<1>9. ASSUME NEW i \in 1..(m + n) PROVE u[i] = v[i]
  <2>1. CASE i <= m
    BY <1>3, <1>4, <1>5, <1>7, <1>8, <2>1
  <2>2. CASE i = m + 1
    <3>1. i <= m + 1 /\ ~(i <= m) /\ i - m = 1
      BY <1>3, <1>5, <2>2
    <3> QED
      BY <1>3, <1>4, <1>5, <1>7, <1>8, <2>2, <3>1
  <2>3. CASE i > m + 1
    <3>1. /\ ~(i <= m + 1) /\ ~(i <= m) /\ i - (m + 1) \in 1..Len(t)
          /\ (i - (m + 1)) + 1 = i - m
      BY <1>2, <1>3, <1>5, <2>3
    <3>2. t[i - (m + 1)] = l[i - m]
      BY <1>2, <3>1
    <3> QED
      BY <1>7, <1>8, <3>1, <3>2
  <2> QED
    BY <1>3, <1>5, <2>1, <2>2, <2>3
<1>10. u = v
  BY <1>7, <1>8, <1>9, SeqEqual
<1>11. (c \o b) \o t = c \o (b \o t) /\ (c \o a) \o l = c \o (a \o l)
  <2>1. b \in Seq(T) /\ t \in Seq(T)
    BY <1>2, <1>4
  <2>2. (c \o b) \o t = c \o (b \o t)
    BY <2>1, SMT
  <2>3. (c \o a) \o l = c \o (a \o l)
    BY SMT
  <2> QED
    BY <2>2, <2>3
<1>12. (c \o b) \o t = (c \o a) \o l
  BY <1>6, <1>10, <1>11
<1> QED
  BY <1>1, <1>2, <1>4, <1>12

LEMMA ContentsTyped ==
  ASSUME NEW ds, NEW sh, NEW li \in Seq(sh), \A x \in sh : IsShard(ds, x),
         NEW k \in Splits
  PROVE  Contents(li, k) \in Seq(Slot(ds, k) \X Nat)
<1>1. \A x \in sh : PartOf(x, k) \in Seq(Slot(ds, k) \X Nat)
  BY ShardParts
<1> QED
  BY <1>1, PartsTyped

LEMMA FillsSample ==
  ASSUME NEW ds, NEW s \in Splits, NEW l, NEW a, NEW li, NEW sh,
         Fills(ds, s, l, a, li, sh), l # <<>>
  PROVE  Fills(ds, s, Tail(l), Append(a, Head(l)), li, sh)
<1>1. PICK T : T = Slot(ds, s) \X Nat
  OBVIOUS
<1>2. l \in Seq(T) /\ a \in Seq(T)
  BY <1>1, Zenon DEF Fills
<1>3. Contents(li, s) \in Seq(T)
  BY <1>1, ContentsTyped DEF Fills
<1>4. /\ (Contents(li, s) \o Append(a, Head(l))) \o Tail(l)
           = (Contents(li, s) \o a) \o l
      /\ Append(a, Head(l)) \in Seq(T) /\ Tail(l) \in Seq(T)
  BY <1>2, <1>3, FrontMoves
<1> QED
  BY <1>1, <1>4, Zenon DEF Fills

LEMMA FillsShard ==
  ASSUME NEW ds, NEW s \in Splits, NEW l, NEW a, NEW li, NEW sh,
         Fills(ds, s, l, a, li, sh), NEW x, x = [split |-> s, samples |-> a]
  PROVE  Fills(ds, s, l, <<>>, Append(li, x), sh \cup {x})
<1>1. PICK T, SH, p : T = Slot(ds, s) \X Nat /\ SH = sh \cup {x}
                      /\ p = Append(li, x)
  OBVIOUS
<1>2. /\ l \in Seq(T) /\ a \in Seq(T) /\ li \in Seq(sh)
      /\ \A y \in sh : IsShard(ds, y)
  BY <1>1, Zenon DEF Fills
<1>3. x.split = s /\ x.samples = a
  OBVIOUS
<1>4. IsShard(ds, x)
  BY <1>1, <1>2, <1>3, Zenon DEF IsShard
<1>5. \A y \in SH : IsShard(ds, y)
  BY <1>1, <1>2, <1>4, Zenon
<1>6. li \in Seq(SH) /\ x \in SH
  BY <1>1, <1>2
<1>7. p \in Seq(SH)
  BY <1>1, <1>6, AppendProperties
<1>8. ASSUME NEW k \in Splits
      PROVE  /\ Contents(p, k) = Contents(li, k) \o PartOf(x, k)
             /\ Contents(li, k) \in Seq(Slot(ds, k) \X Nat)
  <2>1. \A y \in SH : PartOf(y, k) \in Seq(Slot(ds, k) \X Nat)
    BY <1>5, ShardParts
  <2>2. Contents(Append(li, x), k) = Contents(li, k) \o PartOf(x, k)
    <3>1. PICK U : U = Slot(ds, k) \X Nat
      OBVIOUS
    <3>2. \A y \in SH : PartOf(y, k) \in Seq(U)
      BY <2>1, <3>1
    <3>3. li \in Seq(SH)
      BY <1>6
    <3>4. x \in SH
      BY <1>6
    <3> QED
      BY <3>2, <3>3, <3>4, ContentsAppends
  <2>3. Contents(li, k) \in Seq(Slot(ds, k) \X Nat)
    BY <1>6, <2>1, PartsTyped, Zenon
  <2> QED
    BY <1>1, <2>2, <2>3
<1>9. ASSUME NEW k \in Splits, k # s PROVE Contents(p, k) = Contents(li, k)
  <2>1. PICK c, U : c = Contents(li, k) /\ U = Slot(ds, k) \X Nat
    OBVIOUS
  <2>2. c \in Seq(U)
    BY <1>8, <2>1
  <2>3. c \o <<>> = c
    BY <2>2
  <2>4. PartOf(x, k) = <<>>
    BY <1>3, <1>9 DEF PartOf
  <2> QED
    BY <1>8, <2>1, <2>3, <2>4
<1>10. Contents(p, s) = Contents(li, s) \o a
  BY <1>3, <1>8, Zenon DEF PartOf
<1>11. (Contents(p, s) \o <<>>) \o l = Samples(ds, s)
  <2>1. PICK c : c = Contents(p, s)
    OBVIOUS
  <2>2. c \in Seq(T)
    BY <1>1, <1>5, <1>7, <2>1, ContentsTyped
  <2>3. c \o <<>> = c
    BY <2>2
  <2>4. (Contents(li, s) \o a) \o l = Samples(ds, s)
    BY Zenon DEF Fills
  <2> QED
    BY <1>10, <2>1, <2>3, <2>4, Zenon
<1>12. \A k \in Splits : k < s => Contents(p, k) = Samples(ds, k)
  <2>1. \A k \in Splits : k < s => k # s
    BY DEF Splits
  <2> QED
    BY <1>9, <2>1, Zenon DEF Fills
<1>13. \A k \in Splits : s < k => Contents(p, k) = <<>>
  <2>1. \A k \in Splits : s < k => k # s
    BY DEF Splits
  <2> QED
    BY <1>9, <2>1, Zenon DEF Fills
<1>14. <<>> \in Seq(T)
  BY EmptySeq
<1> QED
  BY <1>1, <1>2, <1>5, <1>7, <1>11, <1>12, <1>13, <1>14, Zenon DEF Fills

\* A split with nothing left is there in full.
LEMMA FillsDone ==
  ASSUME NEW ds, NEW s \in Splits, NEW li, NEW sh,
         Fills(ds, s, <<>>, <<>>, li, sh), NEW k \in Splits, k <= s
  PROVE  Contents(li, k) = Samples(ds, k)
<1>1. CASE k = s
  <2>1. PICK c, T : c = Contents(li, s) /\ T = Slot(ds, s) \X Nat
    OBVIOUS
  <2>2. c \in Seq(T)
    BY <2>1, ContentsTyped DEF Fills
  <2>3. (c \o <<>>) \o <<>> = c
    BY <2>2
  <2>4. (c \o <<>>) \o <<>> = Samples(ds, s)
    BY <2>1, Zenon DEF Fills
  <2> QED
    BY <1>1, <2>1, <2>3, <2>4
<1>2. CASE k # s
  <2>1. k < s
    BY <1>2 DEF Splits
  <2> QED
    BY <2>1, Zenon DEF Fills
<1> QED
  BY <1>1, <1>2

LEMMA FillsNext ==
  ASSUME NEW ds \in SUBSET Directories, NEW s \in Splits, s # 3,
         NEW li, NEW sh, Fills(ds, s, <<>>, <<>>, li, sh)
  PROVE  Fills(ds, s + 1, Samples(ds, s + 1), <<>>, li, sh)
<1>1. PICK n : n = s + 1
  OBVIOUS
<1>2. /\ n \in Splits /\ s < n /\ \A k \in Splits : k < n => k <= s
      /\ \A k \in Splits : n < k => s < k
  BY <1>1 DEF Splits
<1>3. PICK T, S : T = Slot(ds, n) \X Nat /\ S = Samples(ds, n)
  OBVIOUS
<1>4. S \in Seq(T)
  BY <1>2, <1>3, SamplesTyped
<1>5. <<>> \in Seq(T) /\ (<<>> \o <<>>) \o S = S
  BY <1>4
<1>6. Contents(li, n) = <<>>
  BY <1>2, Zenon DEF Fills
<1>7. (Contents(li, n) \o <<>>) \o S = S
  BY <1>5, <1>6, Zenon
<1>8. \A k \in Splits : k < n => Contents(li, k) = Samples(ds, k)
  BY <1>2, FillsDone
<1>9. \A k \in Splits : n < k => Contents(li, k) = <<>>
  BY <1>2, Zenon DEF Fills
<1>10. li \in Seq(sh) /\ \A x \in sh : IsShard(ds, x)
  BY Zenon DEF Fills
<1>11. Fills(ds, n, S, <<>>, li, sh)
  BY <1>3, <1>4, <1>5, <1>7, <1>8, <1>9, <1>10, Zenon DEF Fills
<1> QED
  BY <1>1, <1>3, <1>11

-----------------------------------------------------------------------------
\* What validation has found out about the sessions of a builder.
Validated(b) == /\ \A d \in input[b] : d.accepted
                /\ \A d, e \in input[b] : d.id = e.id => d = e
                /\ SameConfiguration(input[b])

\* The inductive invariant.  A builder that is about to make the directory has
\* validated its sessions, and sessions do not change; the one that made it has
\* been there; and nobody has written before the directory was made.
WritersOK ==
  /\ DOMAIN pc = Builders
  /\ \A b \in Builders : pc[b] = "mkdir" => Validated(b)
  /\ writers \subseteq Builders
  /\ \A b \in writers : Validated(b)
  /\ IF root THEN \E b \in Builders : writers = {b} ELSE writers = {}

LEMMA Moved ==
  ASSUME WritersOK, NEW b \in Builders, NEW label,
         Goto(b, label), label = "mkdir" => Validated(b),
         UNCHANGED <<input, root, writers>>
  PROVE  WritersOK'
BY DEF WritersOK, Goto, Validated

LEMMA MadeRoot ==
  ASSUME WritersOK, NEW b \in Builders, MakeRoot(b)
  PROVE  WritersOK'
<1>1. CASE root
  BY <1>1, Moved DEF MakeRoot, DirectoryTaken
<1>2. CASE ~root
  <2>1. writers' = {b} /\ root' /\ input' = input /\ Validated(b)
    BY <1>2 DEF MakeRoot, DirectoryTaken, WritersOK
  <2>2. pc' = [pc EXCEPT ![b] = "write"]
    BY <1>2 DEF MakeRoot, DirectoryTaken, Goto
  <2> QED
    BY <2>1, <2>2 DEF WritersOK, Validated
<1> QED
  BY <1>1, <1>2

LEMMA WritersCorrect == Spec => []WritersOK
<1>1. Init => WritersOK
  BY DEF Init, WritersOK
<1>2. WritersOK /\ [Next]_vars => WritersOK'
  <2> SUFFICES ASSUME WritersOK, [Next]_vars PROVE WritersOK'
    OBVIOUS
  <2>1. ASSUME NEW b \in Builders, CheckArguments(b) PROVE WritersOK'
    BY <2>1, Moved DEF CheckArguments
  <2>2. ASSUME NEW b \in Builders, ValidateSessions(b) PROVE WritersOK'
    BY <2>2, Moved DEF ValidateSessions, Validated
  <2>3. ASSUME NEW b \in Builders, MakeRoot(b) PROVE WritersOK'
    BY <2>3, MadeRoot
  <2>4. ASSUME NEW b \in Builders, WriteSample(b) \/ CloseShard(b)
        PROVE  WritersOK'
    BY <2>4 DEF WriteSample, CloseShard, WritersOK, Validated
  <2>5. ASSUME NEW b \in Builders, NextSplit(b) PROVE WritersOK'
    <3>1. UNCHANGED <<input, root, writers>>
      BY <2>5 DEF NextSplit
    <3>2. Goto(b, "publish") \/ UNCHANGED pc
      BY <2>5 DEF NextSplit
    <3> QED
      BY <3>1, <3>2, Moved DEF WritersOK, Validated
  <2>6. ASSUME NEW b \in Builders, OpenManifest(b) PROVE WritersOK'
    BY <2>6, Moved DEF OpenManifest
  <2>7. ASSUME NEW b \in Builders, WriteManifest(b) PROVE WritersOK'
    BY <2>7, Moved DEF WriteManifest
  <2>8. ASSUME NEW b \in Builders, Dies(b) PROVE WritersOK'
    BY <2>8, Moved DEF Dies
  <2>9. CASE Terminated \/ UNCHANGED vars
    BY <2>9 DEF Terminated, vars, WritersOK, Validated
  <2> QED
    BY <2>1, <2>2, <2>3, <2>4, <2>5, <2>6, <2>7, <2>8, <2>9 DEF Next, Build
<1> QED
  BY <1>1, <1>2, PTL DEF Spec

\* build_dataset: of any number of builds into one directory, however their
\* checks and their mkdir interleave and whichever die, one writes into it.
THEOREM OneWriterCorrect == Spec => []OneWriter
<1>1. WritersOK => OneWriter
  <2> SUFFICES ASSUME WritersOK PROVE Cardinality(writers) <= 1
    BY DEF OneWriter
  <2>1. Cardinality({}) = 0 /\ \A b : Cardinality({b}) = 1
    BY FS_EmptySet, FS_Singleton
  <2> QED
    BY <2>1 DEF WritersOK
<1> QED
  BY <1>1, WritersCorrect, PTL

\* build_dataset: whatever is on the disk comes from sessions that were all
\* accepted and all of one configuration.
THEOREM OneConfigurationCorrect == Spec => []OneConfiguration
<1>1. WritersOK => OneConfiguration
  BY DEF WritersOK, OneConfiguration, Validated, SameConfiguration
<1> QED
  BY <1>1, WritersCorrect, PTL

-----------------------------------------------------------------------------
(* What is on the disk, and what the manifest says of it.                  *)

Starting == {"check", "validate", "mkdir", "refused"}

Ending == {"publish", "manifest", "done"}

BuildTypes ==
  /\ pc = [b \in Builders |-> pc[b]]
  /\ input \in [Builders -> SUBSET Directories]
  /\ split \in [Builders -> Splits] /\ writers \subseteq Builders
  /\ left = [b \in Builders |-> left[b]]
  /\ archives = [b \in Builders |-> archives[b]]
  /\ listed = [b \in Builders |-> listed[b]]

\* Who has not made the directory has nothing but its arguments.
Untouched(b) == /\ split[b] = 1 /\ listed[b] = <<>> /\ archives[b] = <<>>
                /\ pc[b] \in Starting \cup {"dead"}

Ended(b) == pc[b] \in Ending =>
              split[b] = 3 /\ left[b] = <<>> /\ archives[b] = <<>>

\* The inductive invariant of what is on the disk.
BuildInv ==
  /\ BuildTypes
  /\ writers = {} => shards = {} /\ written = "none"
  /\ \A b \in Builders : b \notin writers => Untouched(b)
  /\ \A b \in writers :
       /\ Fills(input[b], split[b], left[b], archives[b], listed[b], shards)
       /\ Ended(b)
  /\ written = "whole" =>
       \E b \in writers : pc[b] = "done" /\ manifest = listed[b]


LEMMA InitFills == Init => BuildInv
BY DEF Init, BuildInv, BuildTypes, Untouched, Starting, Splits

\* A builder moves on, and nothing on the disk or in its memory changes.
LEMMA Walks ==
  ASSUME BuildInv, NEW b \in Builders, NEW label, Goto(b, label),
         pc[b] # "done",
         b \notin writers => label \in Starting \cup {"dead"},
         b \in writers /\ label \in Ending =>
           split[b] = 3 /\ left[b] = <<>> /\ archives[b] = <<>>,
         UNCHANGED <<input, split, left, shards, archives, listed, manifest,
                     writers>>,
         written' # "whole" \/ UNCHANGED written,
         written' = "none" \/ writers # {}
  PROVE  BuildInv'
<1>1. /\ DOMAIN pc' = Builders /\ pc'[b] = label
      /\ \A c \in Builders : c # b => pc'[c] = pc[c]
  BY DEF BuildInv, BuildTypes, Goto
<1>2. BuildTypes'
  <2>1. pc' = [pc EXCEPT ![b] = label]
    BY DEF Goto
  <2> QED
    BY <2>1 DEF BuildInv, BuildTypes
<1>3. (writers = {} => shards = {} /\ written = "none")'
  BY DEF BuildInv
<1>4. (\A c \in Builders : c \notin writers => Untouched(c))'
  BY <1>1 DEF BuildInv, Untouched
<1>5. ASSUME NEW c \in writers
      PROVE  (/\ Fills(input[c], split[c], left[c], archives[c], listed[c],
                       shards)
              /\ Ended(c))'
  <2>1. Fills(input[c], split[c], left[c], archives[c], listed[c], shards)
    BY DEF BuildInv
  <2>2. /\ input' = input /\ split' = split /\ left' = left
        /\ archives' = archives /\ listed' = listed /\ shards' = shards
    OBVIOUS
  <2>3. Fills(input[c], split[c], left[c], archives[c], listed[c], shards)'
    BY <2>1, <2>2, Zenon DEF Fills
  <2>4. Ended(c)'
    <3>1. c = b \/ pc'[c] = pc[c]
      BY <1>1 DEF BuildInv, BuildTypes
    <3> QED
      BY <1>1, <3>1 DEF BuildInv, Ended
  <2> QED
    BY <2>3, <2>4
<1>6. (written = "whole" =>
         \E c \in writers : pc[c] = "done" /\ manifest = listed[c])'
  <2> SUFFICES ASSUME written' = "whole"
               PROVE  \E c \in writers' : pc'[c] = "done"
                                         /\ manifest' = listed'[c]
    OBVIOUS
  <2>1. PICK c \in writers : pc[c] = "done" /\ manifest = listed[c]
    BY DEF BuildInv
  <2>2. c \in Builders /\ c # b
    BY <2>1 DEF BuildInv, BuildTypes
  <2> QED
    BY <1>1, <2>1, <2>2
<1> QED
  BY <1>2, <1>3, <1>4, <1>5, <1>6 DEF BuildInv

\* Who writes is the only one.
LEMMA Alone ==
  ASSUME WritersOK, BuildInv, NEW b \in Builders, pc[b] = "write"
  PROVE  /\ writers = {b} /\ written # "whole"
         /\ Fills(input[b], split[b], left[b], archives[b], listed[b], shards)
         /\ input[b] \in SUBSET Directories /\ split[b] \in Splits
<1>1. b \in writers
  BY DEF BuildInv, Untouched, Starting
<1>2. PICK c \in Builders : writers = {c}
  BY <1>1 DEF WritersOK
<1>3. writers = {b}
  BY <1>1, <1>2
<1>4. written # "whole"
  BY <1>3 DEF BuildInv
<1> QED
  BY <1>1, <1>3, <1>4 DEF BuildInv, BuildTypes

LEMMA Works ==
  ASSUME WritersOK, BuildInv, NEW b \in Builders, pc[b] = "write",
         NEW s, split' = [split EXCEPT ![b] = s], s \in Splits,
         NEW l, left' = [left EXCEPT ![b] = l],
         NEW a, archives' = [archives EXCEPT ![b] = a],
         NEW li, listed' = [listed EXCEPT ![b] = li],
         Fills(input[b], s, l, a, li, shards'),
         \/ pc' = pc
         \/ /\ pc' = [pc EXCEPT ![b] = "publish"]
            /\ s = 3 /\ l = <<>> /\ a = <<>>,
         UNCHANGED <<input, manifest, written, writers>>
  PROVE  BuildInv'
<1>1. writers = {b} /\ written # "whole"
  BY Alone
<1>2. BuildTypes'
  BY DEF BuildInv, BuildTypes
<1>3. /\ split'[b] = s /\ left'[b] = l /\ archives'[b] = a /\ listed'[b] = li
      /\ input'[b] = input[b]
  BY DEF BuildInv, BuildTypes
<1>4. ASSUME NEW c \in Builders, c # b
      PROVE  /\ split'[c] = split[c] /\ archives'[c] = archives[c]
             /\ listed'[c] = listed[c] /\ pc'[c] = pc[c]
  BY <1>4 DEF BuildInv, BuildTypes
<1>5. (\A c \in Builders : c \notin writers => Untouched(c))'
  BY <1>1, <1>4 DEF BuildInv, Untouched
<1>6. Fills(input[b], split[b], left[b], archives[b], listed[b], shards)'
  <2>1. Fills(input'[b], split'[b], left'[b], archives'[b], listed'[b],
              shards')
    BY <1>3, Zenon
  <2> QED
    BY <2>1, Zenon DEF Fills
<1>7. Ended(b)'
  BY <1>3 DEF Ended, Ending, BuildInv, BuildTypes
<1>8. (\A c \in writers :
         /\ Fills(input[c], split[c], left[c], archives[c], listed[c], shards)
         /\ Ended(c))'
  <2>1. \A c \in writers' : c = b
    BY <1>1
  <2> QED
    BY <1>6, <1>7, <2>1, Zenon
<1>9. (writers = {} => shards = {} /\ written = "none")'
  BY <1>1
<1>10. (written = "whole" =>
          \E c \in writers : pc[c] = "done" /\ manifest = listed[c])'
  BY <1>1
<1> QED
  BY <1>2, <1>5, <1>8, <1>9, <1>10, Zenon DEF BuildInv

LEMMA RootFills ==
  ASSUME WritersOK, BuildInv, NEW b \in Builders, MakeRoot(b), ~root
  PROVE  BuildInv'
<1>1. /\ pc[b] = "mkdir" /\ pc' = [pc EXCEPT ![b] = "write"]
      /\ left' = [left EXCEPT ![b] = Samples(input[b], 1)]
      /\ writers' = writers \cup {b}
      /\ input' = input /\ split' = split /\ shards' = shards
      /\ archives' = archives /\ listed' = listed /\ written' = written
  BY DEF MakeRoot, DirectoryTaken, Goto
<1>2. writers = {} /\ shards = {} /\ written = "none"
  BY DEF WritersOK, BuildInv
<1>3. split[b] = 1 /\ listed[b] = <<>> /\ archives[b] = <<>>
  BY <1>2 DEF BuildInv, Untouched
<1>4. input[b] \in SUBSET Directories
  BY DEF BuildInv, BuildTypes
<1>5. Fills(input[b], 1, Samples(input[b], 1), <<>>, <<>>, {})
  BY <1>4, FillsStart
<1>6. /\ left'[b] = Samples(input[b], 1) /\ pc'[b] = "write"
      /\ \A c \in Builders : c # b => pc'[c] = pc[c]
  BY <1>1 DEF BuildInv, BuildTypes
<1>7. BuildTypes'
  BY <1>1, <1>2 DEF BuildInv, BuildTypes
<1>8. (\A c \in Builders : c \notin writers => Untouched(c))'
  BY <1>1, <1>2, <1>6 DEF BuildInv, Untouched
<1>9. Fills(input'[b], split'[b], left'[b], archives'[b], listed'[b], shards')
  BY <1>1, <1>2, <1>3, <1>5, <1>6, Zenon
<1>10. Fills(input[b], split[b], left[b], archives[b], listed[b], shards)'
  BY <1>9, Zenon DEF Fills
<1>11. Ended(b)'
  BY <1>6 DEF Ended, Ending
<1>12. \A c \in writers' : c = b
  BY <1>1, <1>2
<1>13. (\A c \in writers :
          /\ Fills(input[c], split[c], left[c], archives[c], listed[c], shards)
          /\ Ended(c))'
  BY <1>10, <1>11, <1>12, Zenon
<1>14. /\ (writers = {} => shards = {} /\ written = "none")'
       /\ (written = "whole" =>
             \E c \in writers : pc[c] = "done" /\ manifest = listed[c])'
  BY <1>1, <1>2
<1> QED
  BY <1>7, <1>8, <1>13, <1>14, Zenon DEF BuildInv

LEMMA SampleFills ==
  ASSUME WritersOK, BuildInv, NEW b \in Builders, WriteSample(b)
  PROVE  BuildInv'
<1>1. PICK ds, s, l, a, li : /\ ds = input[b] /\ s = split[b] /\ l = left[b]
                             /\ a = archives[b] /\ li = listed[b]
  OBVIOUS
<1>2. /\ pc[b] = "write" /\ l # <<>> /\ shards' = shards
      /\ archives' = [archives EXCEPT ![b] = Append(a, Head(l))]
      /\ left' = [left EXCEPT ![b] = Tail(l)]
      /\ pc' = pc /\ split' = split /\ listed' = listed
      /\ UNCHANGED <<input, manifest, written, writers>>
  BY <1>1 DEF WriteSample
<1>3. Fills(ds, s, l, a, li, shards) /\ s \in Splits
  BY <1>1, <1>2, Alone
<1>4. Fills(ds, s, Tail(l), Append(a, Head(l)), li, shards)
  BY <1>2, <1>3, FillsSample
<1>5. Fills(input[b], s, Tail(l), Append(a, Head(l)), li, shards')
  BY <1>1, <1>2, <1>4, Zenon
<1>6. /\ pc' = pc /\ split' = [split EXCEPT ![b] = s]
      /\ listed' = [listed EXCEPT ![b] = li]
  BY <1>1, <1>2 DEF BuildInv, BuildTypes
<1>7. /\ pc[b] = "write" /\ s \in Splits
      /\ archives' = [archives EXCEPT ![b] = Append(a, Head(l))]
      /\ left' = [left EXCEPT ![b] = Tail(l)]
      /\ UNCHANGED <<input, manifest, written, writers>>
  BY <1>2, <1>3
<1> QED
  BY <1>5, <1>6, <1>7, Works

LEMMA ShardFills ==
  ASSUME WritersOK, BuildInv, NEW b \in Builders, CloseShard(b)
  PROVE  BuildInv'
<1>1. PICK ds, s, l, a, li : /\ ds = input[b] /\ s = split[b] /\ l = left[b]
                             /\ a = archives[b] /\ li = listed[b]
  OBVIOUS
<1>2. PICK x : x = [split |-> s, samples |-> a]
  OBVIOUS
<1>3. /\ pc[b] = "write" /\ shards' = shards \cup {x}
      /\ listed' = [listed EXCEPT ![b] = Append(li, x)]
      /\ archives' = [archives EXCEPT ![b] = <<>>]
      /\ pc' = pc /\ split' = split /\ left' = left
      /\ UNCHANGED <<input, manifest, written, writers>>
  BY <1>1, <1>2 DEF CloseShard, Shard
<1>4. Fills(ds, s, l, a, li, shards) /\ s \in Splits
  BY <1>1, <1>3, Alone
<1>5. Fills(ds, s, l, <<>>, Append(li, x), shards \cup {x})
  BY <1>2, <1>4, FillsShard
<1>6. Fills(input[b], s, l, <<>>, Append(li, x), shards')
  BY <1>1, <1>3, <1>5, Zenon
<1>7. /\ pc' = pc /\ split' = [split EXCEPT ![b] = s]
      /\ left' = [left EXCEPT ![b] = l]
  BY <1>1, <1>3 DEF BuildInv, BuildTypes
<1>8. /\ pc[b] = "write" /\ s \in Splits
      /\ listed' = [listed EXCEPT ![b] = Append(li, x)]
      /\ archives' = [archives EXCEPT ![b] = <<>>]
      /\ UNCHANGED <<input, manifest, written, writers>>
  BY <1>3, <1>4
<1> QED
  BY <1>6, <1>7, <1>8, Works

LEMMA SplitFills ==
  ASSUME WritersOK, BuildInv, NEW b \in Builders, NextSplit(b)
  PROVE  BuildInv'
<1>1. PICK ds, s, li : ds = input[b] /\ s = split[b] /\ li = listed[b]
  OBVIOUS
<1>2. /\ pc[b] = "write" /\ left[b] = <<>> /\ archives[b] = <<>>
      /\ shards' = shards /\ listed' = listed
      /\ archives' = [archives EXCEPT ![b] = <<>>]
      /\ UNCHANGED <<input, manifest, written, writers>>
  BY DEF NextSplit, FullOrLast
<1>3. Fills(ds, s, <<>>, <<>>, li, shards) /\ s \in Splits
      /\ ds \in SUBSET Directories
  BY <1>1, <1>2, Alone
<1>4. listed' = [listed EXCEPT ![b] = li]
  BY <1>1, <1>2 DEF BuildInv, BuildTypes
<1>5. CASE s = 3
  <2>1. pc' = [pc EXCEPT ![b] = "publish"] /\ split' = split /\ left' = left
    BY <1>1, <1>5 DEF NextSplit, Goto
  <2>2. split' = [split EXCEPT ![b] = s] /\ left' = [left EXCEPT ![b] = <<>>]
    BY <1>1, <1>2, <2>1 DEF BuildInv, BuildTypes
  <2>3. Fills(input[b], s, <<>>, <<>>, li, shards')
    BY <1>1, <1>2, <1>3, Zenon
  <2> QED
    BY <1>2, <1>3, <1>4, <1>5, <2>1, <2>2, <2>3, Works
<1>6. CASE s # 3
  <2>1. PICK n, S : n = s + 1 /\ S = Samples(ds, n)
    OBVIOUS
  <2>2. /\ pc' = pc /\ split' = [split EXCEPT ![b] = n]
        /\ left' = [left EXCEPT ![b] = S]
    BY <1>1, <1>6, <2>1 DEF NextSplit
  <2>3. n \in Splits
    BY <1>3, <1>6, <2>1 DEF Splits
  <2>4. Fills(ds, n, S, <<>>, li, shards)
    BY <1>3, <1>6, <2>1, FillsNext
  <2>5. Fills(input[b], n, S, <<>>, li, shards')
    BY <1>1, <1>2, <2>4, Zenon
  <2>6. /\ pc[b] = "write" /\ pc' = pc
        /\ split' = [split EXCEPT ![b] = n] /\ left' = [left EXCEPT ![b] = S]
        /\ archives' = [archives EXCEPT ![b] = <<>>]
        /\ UNCHANGED <<input, manifest, written, writers>>
    BY <1>2, <2>2
  <2> QED
    BY <1>4, <2>3, <2>5, <2>6, Works
<1> QED
  BY <1>5, <1>6

LEMMA FillsCorrect == Spec => []BuildInv
<1>1. WritersOK /\ BuildInv /\ [Next]_vars => BuildInv'
  <2> SUFFICES ASSUME WritersOK, BuildInv, [Next]_vars PROVE BuildInv'
    OBVIOUS
  <2>1. ASSUME NEW b \in Builders, b \notin writers
        PROVE  pc[b] \in Starting \cup {"dead"}
    BY <2>1 DEF BuildInv, Untouched
  <2>2. ASSUME NEW b \in Builders, CheckArguments(b) PROVE BuildInv'
    <3>1. PICK label : Goto(b, label) /\ label \in {"refused", "validate"}
      BY <2>2 DEF CheckArguments
    <3>2. pc[b] # "done"
      BY <2>2 DEF CheckArguments
    <3>3. UNCHANGED <<input, split, left, shards, archives, listed, manifest,
                      written, writers>>
      BY <2>2 DEF CheckArguments
    <3>4. written = "none" \/ writers # {}
      BY DEF BuildInv
    <3>5. label \in Starting /\ label \notin Ending
      BY <3>1 DEF Starting, Ending
    <3> QED
      BY <3>1, <3>2, <3>3, <3>4, <3>5, Walks
  <2>3. ASSUME NEW b \in Builders, ValidateSessions(b) PROVE BuildInv'
    <3>1. PICK label : Goto(b, label) /\ label \in {"mkdir", "refused"}
      BY <2>3 DEF ValidateSessions
    <3>2. pc[b] # "done"
      BY <2>3 DEF ValidateSessions
    <3>3. UNCHANGED <<input, split, left, shards, archives, listed, manifest,
                      written, writers>>
      BY <2>3 DEF ValidateSessions
    <3>4. written = "none" \/ writers # {}
      BY DEF BuildInv
    <3>5. label \in Starting /\ label \notin Ending
      BY <3>1 DEF Starting, Ending
    <3> QED
      BY <3>1, <3>2, <3>3, <3>4, <3>5, Walks
  <2>4. ASSUME NEW b \in Builders, MakeRoot(b) PROVE BuildInv'
    <3>1. CASE root
      <4>1. /\ Goto(b, "refused") /\ pc[b] # "done"
            /\ UNCHANGED <<input, split, left, shards, archives, listed,
                           manifest, written, writers>>
        BY <2>4, <3>1 DEF MakeRoot, DirectoryTaken
      <4>2. "refused" \in Starting /\ "refused" \notin Ending
        BY DEF Starting, Ending
      <4>3. written = "none" \/ writers # {}
        BY DEF BuildInv
      <4> QED
        BY <4>1, <4>2, <4>3, Walks
    <3> QED
      BY <2>4, <3>1, RootFills
  <2>5. ASSUME NEW b \in Builders, OpenManifest(b) PROVE BuildInv'
    <3>1. /\ pc[b] = "publish" /\ Goto(b, "manifest") /\ written' = "torn"
          /\ UNCHANGED <<input, split, left, shards, archives, listed,
                         manifest, writers>>
      BY <2>5 DEF OpenManifest
    <3>2. b \in writers
      BY <2>1, <3>1 DEF Starting
    <3>3. split[b] = 3 /\ left[b] = <<>> /\ archives[b] = <<>>
      BY <3>1, <3>2 DEF BuildInv, Ended, Ending
    <3> QED
      BY <3>1, <3>2, <3>3, Walks
  <2>6. ASSUME NEW b \in Builders, WriteManifest(b) PROVE BuildInv'
    <3>1. /\ pc[b] = "manifest" /\ pc' = [pc EXCEPT ![b] = "done"]
          /\ manifest' = listed[b]
          /\ input' = input /\ split' = split /\ left' = left
          /\ shards' = shards /\ archives' = archives /\ listed' = listed
          /\ writers' = writers
      BY <2>6 DEF WriteManifest, Goto
    <3>2. b \in writers
      BY <2>1, <3>1 DEF Starting
    <3>3. pc'[b] = "done" /\ \A c \in Builders : c # b => pc'[c] = pc[c]
      BY <3>1 DEF BuildInv, BuildTypes
    <3>4. BuildTypes'
      BY <3>1 DEF BuildInv, BuildTypes
    <3>5. (\A c \in Builders : c \notin writers => Untouched(c))'
      BY <3>1, <3>2, <3>3 DEF BuildInv, Untouched
    <3>6. ASSUME NEW c \in writers
          PROVE  (/\ Fills(input[c], split[c], left[c], archives[c], listed[c],
                           shards)
                  /\ Ended(c))'
      <4>1. Fills(input[c], split[c], left[c], archives[c], listed[c], shards)
            /\ Ended(c) /\ c \in Builders
        BY DEF BuildInv, BuildTypes
      <4>2. Fills(input[c], split[c], left[c], archives[c], listed[c], shards)'
        BY <3>1, <4>1, Zenon DEF Fills
      <4>3. Ended(c)'
        BY <3>1, <3>3, <4>1 DEF Ended, Ending
      <4> QED
        BY <4>2, <4>3
    <3>7. \E c \in writers' : pc'[c] = "done" /\ manifest' = listed'[c]
      BY <3>1, <3>2, <3>3
    <3>8. writers' # {}
      BY <3>1, <3>2
    <3> QED
      BY <3>1, <3>4, <3>5, <3>6, <3>7, <3>8 DEF BuildInv
  <2>7. ASSUME NEW b \in Builders, Dies(b) PROVE BuildInv'
    <3>1. /\ Goto(b, "dead") /\ pc[b] # "done"
          /\ UNCHANGED <<input, split, left, shards, archives, listed,
                         manifest, written, writers>>
      BY <2>7 DEF Dies
    <3>2. "dead" \notin Ending
      BY DEF Ending
    <3>3. written = "none" \/ writers # {}
      BY DEF BuildInv
    <3> QED
      BY <3>1, <3>2, <3>3, Walks
  <2>8. CASE Terminated \/ UNCHANGED vars
    <3>1. /\ pc' = pc /\ input' = input /\ split' = split /\ left' = left
          /\ shards' = shards /\ archives' = archives /\ listed' = listed
          /\ manifest' = manifest /\ written' = written /\ writers' = writers
      BY <2>8 DEF Terminated, vars
    <3>2. BuildTypes'
      BY <3>1 DEF BuildInv, BuildTypes
    <3>3. (\A c \in Builders : c \notin writers => Untouched(c))'
      BY <3>1 DEF BuildInv, Untouched
    <3>4. ASSUME NEW c \in writers
          PROVE  (/\ Fills(input[c], split[c], left[c], archives[c], listed[c],
                           shards)
                  /\ Ended(c))'
      <4>1. Fills(input[c], split[c], left[c], archives[c], listed[c], shards)
            /\ Ended(c)
        BY DEF BuildInv
      <4>2. Fills(input[c], split[c], left[c], archives[c], listed[c], shards)'
        BY <3>1, <4>1, Zenon DEF Fills
      <4>3. Ended(c)'
        BY <3>1, <4>1 DEF Ended
      <4> QED
        BY <4>2, <4>3
    <3>5. /\ (writers = {} => shards = {} /\ written = "none")'
          /\ (written = "whole" =>
                \E c \in writers : pc[c] = "done" /\ manifest = listed[c])'
      BY <3>1 DEF BuildInv
    <3> QED
      BY <3>1, <3>2, <3>3, <3>4, <3>5 DEF BuildInv
  <2> QED
    BY <2>2, <2>3, <2>4, <2>5, <2>6, <2>7, <2>8, SampleFills, ShardFills,
       SplitFills DEF Next, Build
<1> QED
  BY <1>1, InitFills, WritersCorrect, PTL DEF Spec

\* build_dataset: whenever a dataset-manifest.json can be read, a build has
\* ended, and the shards the manifest lists are there and hold, split by split,
\* every aligned frame of its sessions once and in order - whichever builds
\* died, and whatever the sizes of the sessions and of the shards.
THEOREM DatasetAlwaysComplete == Spec => []DatasetComplete
<1>1. BuildInv => DatasetComplete
  <2> SUFFICES ASSUME BuildInv, written = "whole"
               PROVE  /\ \A i \in DOMAIN manifest : manifest[i] \in shards
                      /\ \E b \in Builders :
                           /\ pc[b] = "done"
                           /\ \A k \in Splits :
                                Contents(manifest, k) = Samples(input[b], k)
    BY DEF DatasetComplete
  <2>1. PICK b \in writers : pc[b] = "done" /\ manifest = listed[b]
    BY DEF BuildInv
  <2>2. /\ b \in Builders
        /\ split[b] = 3 /\ left[b] = <<>> /\ archives[b] = <<>>
    BY <2>1 DEF BuildInv, BuildTypes, Ended, Ending
  <2>3. Fills(input[b], split[b], left[b], archives[b], listed[b], shards)
    BY DEF BuildInv
  <2>4. PICK ds, li : ds = input[b] /\ li = listed[b]
    OBVIOUS
  <2>5. Fills(ds, 3, <<>>, <<>>, li, shards)
    BY <2>2, <2>3, <2>4, Zenon
  <2>6. 3 \in Splits /\ \A k \in Splits : k <= 3
    BY DEF Splits
  <2>7. \A k \in Splits : Contents(li, k) = Samples(ds, k)
    BY <2>5, <2>6, FillsDone
  <2>8. li \in Seq(shards)
    BY <2>5, Zenon DEF Fills
  <2>9. \A i \in DOMAIN li : li[i] \in shards
    BY <2>8
  <2> QED
    BY <2>1, <2>2, <2>4, <2>7, <2>9
<1> QED
  BY <1>1, FillsCorrect, PTL

LEMMA DistinctIds ==
  ASSUME NEW ds \in SUBSET Directories, \A d, e \in ds : d.id = e.id => d = e
  PROVE  Cardinality({d.id : d \in ds}) = Cardinality(ds)
<1>1. PICK S : S = {d.id : d \in ds}
  OBVIOUS
<1>2. PICK f : f = [d \in ds |-> d.id]
  OBVIOUS
<1>3. f \in [ds -> S] /\ \A d \in ds : f[d] = d.id
  BY <1>1, <1>2
<1>4. \A d, e \in ds : f[d] = f[e] => d = e
  BY <1>3
<1>5. \A t \in S : \E d \in ds : f[d] = t
  BY <1>1, <1>3
<1>6. f \in Bijection(ds, S)
  BY <1>3, <1>4, <1>5, Zenon
     DEF Bijection, Injection, Surjection, IsInjective
<1>7. IsFiniteSet(ds)
  BY DirectoriesAssumption, FS_Subset
<1> QED
  BY <1>1, <1>6, <1>7, FS_Bijection DEF ExistsBijection

LEMMA SessionsInSlot ==
  ASSUME NEW ds, \A x \in shards : IsShard(ds, x), NEW k
  PROVE  Sessions(k) \subseteq Slot(ds, k)
<1> SUFFICES ASSUME NEW e \in Sessions(k) PROVE e \in Slot(ds, k)
  OBVIOUS
<1>1. PICK x \in shards :
        x.split = k /\ \E s \in ToSet(x.samples) : e = s[1]
  BY DEF Sessions
<1>2. PICK q, T : q = x.samples /\ T = Slot(ds, k)
  OBVIOUS
<1>3. q \in Seq(T \X Nat)
  BY <1>1, <1>2 DEF IsShard
<1>4. PICK i \in DOMAIN q : e = q[i][1]
  BY <1>1, <1>2 DEF ToSet
<1>5. q[i] \in T \X Nat
  BY <1>3, <1>4
<1> QED
  BY <1>2, <1>4, <1>5

LEMMA SessionsHold ==
  ASSUME NEW ds, NEW li \in Seq(shards), \A x \in shards : IsShard(ds, x),
         NEW k \in Splits, Contents(li, k) # <<>>
  PROVE  Sessions(k) # {}
<1>1. SUFFICES ASSUME \A x \in shards : x.split = k => x.samples = <<>>
               PROVE  FALSE
  <2>1. ASSUME NEW x \in shards, x.split = k, x.samples # <<>>
        PROVE  Sessions(k) # {}
    <3>1. PICK q : q = x.samples
      OBVIOUS
    <3>2. q \in Seq(Slot(ds, k) \X Nat) /\ q # <<>>
      BY <2>1, <3>1 DEF IsShard
    <3>3. 1 \in DOMAIN q
      BY <3>2
    <3>4. q[1] \in ToSet(x.samples)
      BY <3>1, <3>3 DEF ToSet
    <3>5. q[1] \in UNION {ToSet(shard.samples) :
                            shard \in {y \in shards : y.split = k}}
      BY <2>1, <3>4, Zenon
    <3>6. q[1][1] \in Sessions(k)
      BY <3>5, Zenon DEF Sessions
    <3> QED
      BY <3>6
  <2> QED
    BY <2>1
<1>2. \A x \in shards : PartOf(x, k) \in Seq({})
  <2>1. <<>> \in Seq({})
    OBVIOUS
  <2> QED
    BY <1>1, <2>1, Zenon DEF PartOf
<1>3. Contents(li, k) \in Seq({})
  BY <1>2, PartsTyped
<1>4. Contents(li, k) = <<>>
  BY <1>3
<1> QED
  BY <1>4

\* "No session leakage across splits" (project_progress.md:73): in no state of
\* the output directory do two splits hold frames of one session; and when a
\* build of three sessions or more has ended, no split is empty.
THEOREM NeverLeaks == Spec => []NoLeakage
<1>1. WritersOK /\ BuildInv => NoLeakage
  <2> SUFFICES ASSUME WritersOK, BuildInv PROVE NoLeakage
    OBVIOUS
  <2>1. ASSUME NEW b \in writers
        PROVE  /\ Fills(input[b], split[b], left[b], archives[b], listed[b],
                        shards)
               /\ Ended(b) /\ Validated(b) /\ input[b] \in SUBSET Directories
    BY DEF WritersOK, BuildInv, BuildTypes
  <2>2. ASSUME NEW j \in Splits, NEW k \in Splits, j # k
        PROVE  Sessions(j) \cap Sessions(k) = {}
    <3>1. CASE writers = {}
      <4>1. shards = {}
        BY <3>1 DEF BuildInv
      <4>2. Sessions(j) = {}
        BY <4>1 DEF Sessions
      <4> QED
        BY <4>2
    <3>2. CASE writers # {}
      <4>1. PICK b \in writers : TRUE
        BY <3>2
      <4>2. PICK ds : ds = input[b]
        OBVIOUS
      <4>3. ds \in SUBSET Directories /\ \A x \in shards : IsShard(ds, x)
        BY <2>1, <4>2, Zenon DEF Fills
      <4>4. /\ Sessions(j) \subseteq Slot(ds, j)
            /\ Sessions(k) \subseteq Slot(ds, k)
        BY <4>3, SessionsInSlot
      <4>5. Slot(ds, j) \cap Slot(ds, k) = {}
        BY <2>2, <4>3, SlotsApart
      <4> QED
        BY <4>4, <4>5
    <3> QED
      BY <3>1, <3>2
  <2>3. ASSUME NEW b \in Builders, pc[b] = "done", Cardinality(input[b]) >= 3,
               NEW k \in Splits
        PROVE  Sessions(k) # {}
    <3>1. b \in writers
      BY <2>3 DEF BuildInv, Untouched, Starting
    <3>2. PICK ds, li : ds = input[b] /\ li = listed[b]
      OBVIOUS
    <3>3. split[b] = 3 /\ left[b] = <<>> /\ archives[b] = <<>>
      BY <2>1, <2>3, <3>1 DEF Ended, Ending
    <3>4. Fills(ds, 3, <<>>, <<>>, li, shards) /\ ds \in SUBSET Directories
      BY <2>1, <3>1, <3>2, <3>3, Zenon
    <3>5. 3 \in Splits /\ k <= 3
      BY DEF Splits
    <3>6. Contents(li, k) = Samples(ds, k)
      BY <3>4, <3>5, FillsDone
    <3>7. /\ \A d \in ds : d.accepted
          /\ \A d, e \in ds : d.id = e.id => d = e
      BY <2>1, <3>1, <3>2 DEF Validated
    <3>8. Cardinality({d.id : d \in ds}) >= 3
      BY <2>3, <3>2, <3>4, <3>7, DistinctIds
    <3>9. Samples(ds, k) # <<>>
      BY <3>4, <3>7, <3>8, SamplesTyped
    <3>10. li \in Seq(shards) /\ \A x \in shards : IsShard(ds, x)
      BY <3>4, Zenon DEF Fills
    <3> QED
      BY <3>6, <3>9, <3>10, SessionsHold
  <2> QED
    BY <2>2, <2>3 DEF NoLeakage
<1> QED
  BY <1>1, WritersCorrect, FillsCorrect, PTL
=============================================================================
