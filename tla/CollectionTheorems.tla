------------------------- MODULE CollectionTheorems -------------------------
(***************************************************************************)
(* What the proofs need of the collections the models are built from: the  *)
(* queues as sequences, the greatest element of a finite set, and the sums *)
(* over finite sets that accounts of bytes are compared with.              *)
(* SumFunctionOnSet is defined by a recursion that takes out an arbitrary  *)
(* element; its laws are proved by induction over a family of subsets, so  *)
(* that no theorem has a predicate as a parameter.                         *)
(***************************************************************************)
EXTENDS SequencesExt, Integers, SequenceTheorems, FiniteSetTheorems, TLAPS

-----------------------------------------------------------------------------
(* Queues                                                                  *)

\* What a sequence holds is what its elements are taken from.
LEMMA ElementsType ==
  ASSUME NEW S, NEW q \in Seq(S)
  PROVE  ToSet(q) \subseteq S /\ \A i \in 1..Len(q) : q[i] \in ToSet(q)
BY DEF ToSet

\* An empty queue holds nothing, and no other does.
LEMMA ElementsEmpty ==
  /\ ToSet(<<>>) = {} /\ IsInjective(<<>>)
  /\ \A S : \A q \in Seq(S) : ToSet(q) = {} => q = <<>>
<1>1. DOMAIN <<>> = {}
  OBVIOUS
<1>2. ASSUME NEW S, NEW q \in Seq(S), q # <<>> PROVE q[1] \in ToSet(q)
  <2>1. 1 \in DOMAIN q
    BY <1>2
  <2> QED BY <2>1 DEF ToSet
<1> QED BY <1>1, <1>2 DEF ToSet, IsInjective

\* Appending a new element to a queue.
LEMMA AppendElements ==
  ASSUME NEW S, NEW q \in Seq(S), NEW e \in S
  PROVE  /\ Append(q, e) \in Seq(S) /\ Append(q, e) # <<>>
         /\ ToSet(Append(q, e)) = ToSet(q) \cup {e}
         /\ IsInjective(q) /\ e \notin ToSet(q) => IsInjective(Append(q, e))
<1>1. /\ Append(q, e) \in Seq(S) /\ Len(Append(q, e)) = Len(q) + 1
      /\ \A i \in 1..Len(q) : Append(q, e)[i] = q[i]
      /\ Append(q, e)[Len(q) + 1] = e
  OBVIOUS
<1>2. DOMAIN q = 1..Len(q) /\ DOMAIN Append(q, e) = 1..(Len(q) + 1) /\ Len(q) \in Nat
  BY <1>1
<1>3. ToSet(Append(q, e)) = ToSet(q) \cup {e}
  BY <1>1, <1>2 DEF ToSet
<1>4. IsInjective(q) /\ e \notin ToSet(q) => IsInjective(Append(q, e))
  BY <1>1, <1>2 DEF ToSet, IsInjective
<1> QED BY <1>1, <1>3, <1>4

\* Taking the head of a queue that holds nothing twice.
LEMMA TailElements ==
  ASSUME NEW S, NEW q \in Seq(S), q # <<>>
  PROVE  /\ Head(q) \in S /\ Tail(q) \in Seq(S)
         /\ ToSet(q) = ToSet(Tail(q)) \cup {Head(q)}
         /\ IsInjective(q) => IsInjective(Tail(q)) /\ Head(q) \notin ToSet(Tail(q))
<1>1. /\ Head(q) \in S /\ Tail(q) \in Seq(S) /\ Len(Tail(q)) = Len(q) - 1
      /\ Head(q) = q[1] /\ \A i \in 1..(Len(q) - 1) : Tail(q)[i] = q[i + 1]
  OBVIOUS
<1>2. /\ Len(q) \in Nat \ {0} /\ DOMAIN q = 1..Len(q)
      /\ DOMAIN Tail(q) = 1..(Len(q) - 1)
  BY <1>1
<1>3. ToSet(q) = ToSet(Tail(q)) \cup {Head(q)}
  <2>1. ASSUME NEW i \in 1..Len(q) PROVE q[i] \in ToSet(Tail(q)) \cup {Head(q)}
    <3>1. CASE i = 1
      BY <3>1, <1>1
    <3>2. CASE i # 1
      <4>1. i - 1 \in 1..(Len(q) - 1) /\ q[i] = Tail(q)[i - 1]
        BY <1>1, <1>2, <3>2
      <4> QED BY <1>2, <4>1 DEF ToSet
    <3> QED BY <3>1, <3>2
  <2>2. ASSUME NEW i \in 1..(Len(q) - 1) PROVE Tail(q)[i] \in ToSet(q)
    BY <1>1, <1>2 DEF ToSet
  <2>3. Head(q) \in ToSet(q)
    BY <1>1, <1>2 DEF ToSet
  <2> QED BY <1>2, <2>1, <2>2, <2>3 DEF ToSet
<1>4. IsInjective(q) => IsInjective(Tail(q)) /\ Head(q) \notin ToSet(Tail(q))
  BY <1>1, <1>2 DEF ToSet, IsInjective
<1> QED BY <1>1, <1>3, <1>4

\* Taking one out of a queue that holds nothing twice.
LEMMA RemoveElements ==
  ASSUME NEW S, NEW q \in Seq(S), IsInjective(q), NEW i \in DOMAIN q
  PROVE  /\ RemoveAt(q, i) \in Seq(S)
         /\ ToSet(RemoveAt(q, i)) = ToSet(q) \ {q[i]}
         /\ IsInjective(RemoveAt(q, i))
<1> DEFINE a == SubSeq(q, 1, i - 1)
           b == SubSeq(q, i + 1, Len(q))
           n == Len(q)
           r == RemoveAt(q, i)
<1>1. n \in Nat /\ i \in 1..n /\ DOMAIN q = 1..n /\ \A j \in 1..n : q[j] \in S
  OBVIOUS
<1>2. /\ a \in Seq(S) /\ Len(a) = i - 1 /\ \A j \in 1..(i - 1) : a[j] = q[j]
  BY <1>1, SubSeqProperties
<1>3. /\ b \in Seq(S) /\ Len(b) = n - i /\ \A j \in 1..(n - i) : b[j] = q[i + j]
  <2>1. /\ SubSeq(q, i + 1, n) \in Seq(S)
        /\ Len(SubSeq(q, i + 1, n)) = IF i + 1 <= n THEN n - (i + 1) + 1 ELSE 0
        /\ \A j \in 1..(n - (i + 1) + 1) : SubSeq(q, i + 1, n)[j] = q[(i + 1) + j - 1]
    BY <1>1, SubSeqProperties
  <2> QED BY <1>1, <2>1
<1>4. r = a \o b
  BY DEF RemoveAt
<1> HIDE DEF a, b, r
<1>5. /\ r \in Seq(S) /\ Len(r) = n - 1
      /\ \A j \in 1..(n - 1) : r[j] = IF j <= i - 1 THEN q[j] ELSE q[j + 1]
  <2>1. /\ a \o b \in Seq(S) /\ Len(a \o b) = (i - 1) + (n - i)
        /\ \A j \in 1..((i - 1) + (n - i)) :
              (a \o b)[j] = IF j <= i - 1 THEN a[j] ELSE b[j - (i - 1)]
    <3>1. /\ a \o b \in Seq(S) /\ Len(a \o b) = Len(a) + Len(b)
          /\ \A j \in 1..(Len(a) + Len(b)) :
                (a \o b)[j] = IF j <= Len(a) THEN a[j] ELSE b[j - Len(a)]
      BY <1>2, <1>3, ConcatProperties
    <3> QED BY <1>2, <1>3, <3>1
  <2>2. ASSUME NEW j \in 1..(n - 1)
        PROVE  r[j] = IF j <= i - 1 THEN q[j] ELSE q[j + 1]
    <3>1. CASE j <= i - 1
      BY <1>1, <1>2, <1>4, <2>1, <3>1
    <3>2. CASE ~(j <= i - 1)
      <4>1. j - (i - 1) \in 1..(n - i) /\ i + (j - (i - 1)) = j + 1
        BY <1>1, <3>2
      <4>2. b[j - (i - 1)] = q[j + 1]
        BY <1>3, <4>1
      <4>3. j \in 1..((i - 1) + (n - i))
        BY <1>1
      <4> QED BY <1>4, <2>1, <3>2, <4>2, <4>3
    <3> QED BY <3>1, <3>2
  <2> QED BY <1>1, <1>4, <2>1, <2>2
<1>6. DOMAIN r = 1..(n - 1)
  BY <1>1, <1>5
<1>7. IsInjective(r)
  BY <1>1, <1>5, <1>6 DEF IsInjective
<1>8. ASSUME NEW j \in 1..n, j # i PROVE q[j] \in ToSet(r)
  <2>1. CASE j < i
    <3>1. j \in 1..(n - 1) /\ r[j] = q[j]
      BY <1>1, <1>5, <2>1
    <3> QED BY <1>6, <3>1 DEF ToSet
  <2>2. CASE j > i
    <3>1. j - 1 \in 1..(n - 1) /\ r[j - 1] = q[j]
      BY <1>1, <1>5, <2>2
    <3> QED BY <1>6, <3>1 DEF ToSet
  <2> QED BY <1>1, <1>8, <2>1, <2>2
<1>9. ASSUME NEW j \in 1..(n - 1) PROVE r[j] \in ToSet(q) \ {q[i]}
  <2>1. CASE j <= i - 1
    <3>1. j \in 1..n /\ j # i /\ r[j] = q[j]
      BY <1>1, <1>5, <2>1
    <3> QED BY <1>1, <3>1 DEF ToSet, IsInjective
  <2>2. CASE ~(j <= i - 1)
    <3>1. j + 1 \in 1..n /\ j + 1 # i /\ r[j] = q[j + 1]
      BY <1>1, <1>5, <2>2
    <3> QED BY <1>1, <3>1 DEF ToSet, IsInjective
  <2> QED BY <2>1, <2>2
<1>10. ToSet(r) = ToSet(q) \ {q[i]}
  BY <1>1, <1>6, <1>8, <1>9 DEF ToSet
<1> QED BY <1>5, <1>7, <1>10 DEF r

\* Cutting a queue that holds nothing twice in two.
LEMMA SplitElements ==
  ASSUME NEW S, NEW q \in Seq(S), IsInjective(q), NEW n \in 0..Len(q)
  PROVE  /\ SubSeq(q, 1, n) \in Seq(S) /\ SubSeq(q, n + 1, Len(q)) \in Seq(S)
         /\ IsInjective(SubSeq(q, n + 1, Len(q)))
         /\ ToSet(SubSeq(q, 1, n)) \cup ToSet(SubSeq(q, n + 1, Len(q))) = ToSet(q)
         /\ ToSet(SubSeq(q, 1, n)) \cap ToSet(SubSeq(q, n + 1, Len(q))) = {}
         /\ n = Len(q) => ToSet(SubSeq(q, n + 1, Len(q))) = {}
<1> DEFINE a == SubSeq(q, 1, n)
           b == SubSeq(q, n + 1, Len(q))
           m == Len(q)
<1>1. /\ m \in Nat /\ n \in 0..m /\ DOMAIN q = 1..m
      /\ \A i, j \in 1..m : q[i] = q[j] => i = j
  BY DEF IsInjective
<1>2. /\ a \in Seq(S) /\ DOMAIN a = 1..n /\ \A j \in 1..n : a[j] = q[j]
  <2>1. /\ SubSeq(q, 1, n) \in Seq(S)
        /\ Len(SubSeq(q, 1, n)) = IF 1 <= n THEN n - 1 + 1 ELSE 0
        /\ \A j \in 1..(n - 1 + 1) : SubSeq(q, 1, n)[j] = q[1 + j - 1]
    BY <1>1, SubSeqProperties
  <2> QED BY <1>1, <2>1
<1>3. /\ b \in Seq(S) /\ DOMAIN b = 1..(m - n) /\ \A j \in 1..(m - n) : b[j] = q[n + j]
  <2>1. /\ SubSeq(q, n + 1, m) \in Seq(S)
        /\ Len(SubSeq(q, n + 1, m)) = IF n + 1 <= m THEN m - (n + 1) + 1 ELSE 0
        /\ \A j \in 1..(m - (n + 1) + 1) : SubSeq(q, n + 1, m)[j] = q[(n + 1) + j - 1]
    BY <1>1, SubSeqProperties
  <2> QED BY <1>1, <2>1
<1> HIDE DEF a, b
<1>4. IsInjective(b)
  BY <1>1, <1>3 DEF IsInjective
<1>5. ToSet(a) = {q[j] : j \in 1..n}
  BY <1>2 DEF ToSet
<1>6. ToSet(b) = {q[j] : j \in (n + 1)..m}
  <2>1. ASSUME NEW j \in 1..(m - n) PROVE b[j] \in {q[k] : k \in (n + 1)..m}
    BY <1>1, <1>3
  <2>2. ASSUME NEW k \in (n + 1)..m PROVE \E j \in 1..(m - n) : b[j] = q[k]
    <3>1. k - n \in 1..(m - n) /\ n + (k - n) = k
      BY <1>1
    <3> QED BY <1>3, <3>1
  <2> QED BY <1>3, <2>1, <2>2 DEF ToSet
<1>7. ToSet(q) = {q[j] : j \in 1..m}
  BY <1>1 DEF ToSet
<1>8. ToSet(a) \cup ToSet(b) = ToSet(q)
  <2>1. 1..m = (1..n) \cup ((n + 1)..m)
    BY <1>1
  <2> QED BY <1>5, <1>6, <1>7, <2>1
<1>9. ToSet(a) \cap ToSet(b) = {}
  BY <1>1, <1>5, <1>6
<1>10. n = m => ToSet(b) = {}
  BY <1>1, <1>6
<1> QED BY <1>2, <1>3, <1>4, <1>8, <1>9, <1>10 DEF a, b

\* A queue holds finitely many.
LEMMA ElementsFinite ==
  ASSUME NEW S, NEW q \in Seq(S)
  PROVE  IsFiniteSet(ToSet(q))
<1> DEFINE f == [j \in 1..Len(q) |-> q[j]]
<1>1. DOMAIN q = 1..Len(q) /\ Len(q) \in Nat
  OBVIOUS
<1>2. IsFiniteSet(1..Len(q))
  BY <1>1, FS_Interval
<1>3. f \in Surjection(1..Len(q), ToSet(q))
  BY <1>1 DEF Surjection, ToSet
<1> QED BY <1>2, <1>3, FS_Surjection

\* A queue that holds nothing twice holds as many as it is long.
LEMMA CountElements ==
  ASSUME NEW S, NEW q \in Seq(S), IsInjective(q)
  PROVE  Cardinality(ToSet(q)) = Len(q)
<1> DEFINE f == [j \in 1..Len(q) |-> q[j]]
<1>1. DOMAIN q = 1..Len(q) /\ Len(q) \in Nat
  OBVIOUS
<1>2. IsFiniteSet(1..Len(q)) /\ Cardinality(1..Len(q)) = Len(q)
  BY <1>1, FS_Interval
<1>3. f \in Surjection(1..Len(q), ToSet(q))
  BY <1>1 DEF Surjection, ToSet
<1>4. f \in Injection(1..Len(q), ToSet(q))
  BY <1>1, <1>3 DEF Injection, Surjection, IsInjective
<1>5. Cardinality(ToSet(q)) = Cardinality(1..Len(q))
  BY <1>2, <1>3, <1>4, FS_Surjection
<1> QED BY <1>2, <1>5

\* One sequence after another.
LEMMA ConcatElements ==
  ASSUME NEW S, NEW q \in Seq(S), NEW r \in Seq(S)
  PROVE  /\ q \o r \in Seq(S) /\ ToSet(q \o r) = ToSet(q) \cup ToSet(r)
         /\ IsInjective(q) /\ IsInjective(r) /\ ToSet(q) \cap ToSet(r) = {}
              => IsInjective(q \o r)
<1> DEFINE n == Len(q)
           m == Len(r)
           s == q \o r
<1>1. /\ n \in Nat /\ m \in Nat /\ DOMAIN q = 1..n /\ DOMAIN r = 1..m
      /\ s \in Seq(S) /\ DOMAIN s = 1..(n + m)
  OBVIOUS
<1>2. \A i \in 1..(n + m) : s[i] = IF i <= n THEN q[i] ELSE r[i - n]
  OBVIOUS
<1> HIDE DEF n, m, s
<1>3. \A i \in 1..n : s[i] = q[i]
  BY <1>1, <1>2
<1>4. \A i \in 1..m : n + i \in 1..(n + m) /\ s[n + i] = r[i]
  BY <1>1, <1>2
<1>5. \A i \in 1..(n + m) : (i \in 1..n /\ s[i] = q[i]) \/ (i - n \in 1..m /\ s[i] = r[i - n])
  BY <1>1, <1>2
<1>6. ToSet(s) = ToSet(q) \cup ToSet(r)
  <2>1. ToSet(q) \subseteq ToSet(s)
    BY <1>1, <1>3 DEF ToSet
  <2>2. ToSet(r) \subseteq ToSet(s)
    BY <1>1, <1>4 DEF ToSet
  <2>3. ToSet(s) \subseteq ToSet(q) \cup ToSet(r)
    BY <1>1, <1>5 DEF ToSet
  <2> QED BY <2>1, <2>2, <2>3
<1>7. ASSUME IsInjective(q), IsInjective(r), ToSet(q) \cap ToSet(r) = {},
             NEW i \in 1..(n + m), NEW j \in 1..(n + m), s[i] = s[j]
      PROVE  i = j
  <2>1. \A k \in 1..n, l \in 1..m : q[k] # r[l]
    BY <1>1, <1>7 DEF ToSet
  <2>2. /\ \A k, l \in 1..n : q[k] = q[l] => k = l
        /\ \A k, l \in 1..m : r[k] = r[l] => k = l
    BY <1>1, <1>7 DEF IsInjective
  <2>3. CASE i \in 1..n /\ s[i] = q[i]
    BY <1>5, <1>7, <2>1, <2>2, <2>3
  <2>4. CASE i - n \in 1..m /\ s[i] = r[i - n]
    <3>1. ~(j \in 1..n /\ s[j] = q[j])
      BY <1>7, <2>1, <2>4
    <3>2. j - n \in 1..m /\ s[j] = r[j - n]
      BY <1>5, <3>1
    <3>3. i - n = j - n
      BY <1>7, <2>2, <2>4, <3>2
    <3> QED BY <1>1, <3>3
  <2> QED BY <1>5, <2>3, <2>4
<1>8. IsInjective(q) /\ IsInjective(r) /\ ToSet(q) \cap ToSet(r) = {} => IsInjective(s)
  BY <1>1, <1>7 DEF IsInjective
<1> QED BY <1>1, <1>6, <1>8 DEF s

-----------------------------------------------------------------------------
\* A set of naturals that is not empty has a least element.
LEMMA LeastElement ==
  ASSUME NEW T \in SUBSET Nat, T # {}
  PROVE  Min(T) \in T /\ \A y \in T : Min(T) <= y
<1> DEFINE R == OpToRel(<, Nat)
<1>1. IsWellFoundedOn(R, Nat)
  BY NatLessThanWellFounded
<1>2. \A x, y \in Nat : y < x => <<y, x>> \in R
  BY DEF OpToRel
<1> HIDE DEF R
<1>3. PICK x \in T : \A y \in T : ~(<<y, x>> \in R)
  BY <1>1, WFMin
<1>4. ASSUME NEW y \in T PROVE x <= y
  <2>1. ~(y < x) /\ x \in Nat /\ y \in Nat
    BY <1>2, <1>3
  <2> QED BY <2>1
<1> QED BY <1>3, <1>4 DEF Min

\* What a recursion satisfies that takes elements out of a set, one after the other.
IsFold(g, S, V, b, op, c) ==
  /\ g \in [SUBSET S -> V]
  /\ \A s \in SUBSET S : g[s] = IF s = {} THEN b ELSE op[c[s]][g[s \ {c[s]}]]

\* There is such a function for every finite set.
LEMMA FoldExists ==
  ASSUME NEW S, IsFiniteSet(S), NEW V, NEW b \in V, NEW op \in [S -> [V -> V]],
         NEW c, \A s \in SUBSET S : s # {} => c[s] \in s
  PROVE  \E g : IsFold(g, S, V, b, op, c)
<1> DEFINE Solves(g, n) == \A s \in SUBSET S : Cardinality(s) <= n =>
                             g[s] = IF s = {} THEN b ELSE op[c[s]][g[s \ {c[s]}]]
           D == {n \in Nat : \A g \in [SUBSET S -> V] : ~Solves(g, n)}
<1>1. ASSUME NEW s \in SUBSET S
      PROVE  /\ Cardinality(s) \in Nat /\ Cardinality(s) <= Cardinality(S)
             /\ (Cardinality(s) = 0) <=> (s = {})
  <2>1. IsFiniteSet(s) /\ Cardinality(s) <= Cardinality(S)
    BY FS_Subset
  <2> QED BY <2>1, FS_CardinalityType, FS_EmptySet
<1>2. ASSUME NEW s \in SUBSET S, s # {}
      PROVE  /\ c[s] \in S /\ s \ {c[s]} \in SUBSET S
             /\ Cardinality(s \ {c[s]}) = Cardinality(s) - 1
  <2>1. IsFiniteSet(s) /\ c[s] \in s
    BY <1>2, FS_Subset
  <2> QED BY <2>1, FS_RemoveElement
<1>3. 0 \notin D
  <2> DEFINE g == [s \in SUBSET S |-> b]
  <2>1. ASSUME NEW s \in SUBSET S, Cardinality(s) <= 0 PROVE s = {} /\ g[s] = b
    <3>1. Cardinality(s) \in Nat /\ ((Cardinality(s) = 0) <=> (s = {}))
      BY <1>1
    <3> QED BY <2>1, <3>1
  <2>2. g \in [SUBSET S -> V]
    OBVIOUS
  <2> HIDE DEF g
  <2>3. Solves(g, 0)
    BY <2>1
  <2> HIDE DEF Solves
  <2> QED BY <2>2, <2>3
<1>4. ASSUME NEW n \in Nat, n \notin D PROVE n + 1 \notin D
  <2>1. PICK g \in [SUBSET S -> V] : Solves(g, n)
    BY <1>4
  <2> DEFINE h == [s \in SUBSET S |-> IF Cardinality(s) <= n THEN g[s]
                                      ELSE op[c[s]][g[s \ {c[s]}]]]
  <2>2. ASSUME NEW s \in SUBSET S, Cardinality(s) <= n
        PROVE  h[s] = g[s] /\ h[s] \in V
    BY <2>2
  <2>3. ASSUME NEW s \in SUBSET S, ~(Cardinality(s) <= n)
        PROVE  h[s] = op[c[s]][g[s \ {c[s]}]] /\ h[s] \in V /\ s # {}
    <3>1. Cardinality(s) \in Nat /\ ((Cardinality(s) = 0) <=> (s = {}))
      BY <1>1
    <3>2. s # {}
      BY <2>3, <3>1
    <3>3. c[s] \in S /\ s \ {c[s]} \in SUBSET S
      BY <1>2, <3>2
    <3>4. g[s \ {c[s]}] \in V /\ op[c[s]] \in [V -> V]
      BY <3>3
    <3> QED BY <2>3, <3>2, <3>4
  <2>4. h \in [SUBSET S -> V]
    BY <2>2, <2>3
  <2> HIDE DEF h
  <2>5. ASSUME NEW s \in SUBSET S, Cardinality(s) <= n + 1, s # {}
        PROVE  h[s] = op[c[s]][h[s \ {c[s]}]]
    <3>1. /\ s \ {c[s]} \in SUBSET S /\ Cardinality(s \ {c[s]}) = Cardinality(s) - 1
      BY <1>2, <2>5
    <3>2. Cardinality(s) \in Nat
      BY <1>1
    <3>3. h[s \ {c[s]}] = g[s \ {c[s]}]
      BY <2>2, <2>5, <3>1, <3>2
    <3>4. CASE Cardinality(s) <= n
      <4>1. g[s] = op[c[s]][g[s \ {c[s]}]]
        BY <2>1, <2>5, <3>4
      <4> QED BY <2>2, <3>3, <3>4, <4>1
    <3>5. CASE ~(Cardinality(s) <= n)
      BY <2>3, <3>3, <3>5
    <3> QED BY <3>4, <3>5
  <2>6. h[{}] = b
    <3>1. Cardinality({}) = 0
      BY FS_EmptySet
    <3>2. {} \in SUBSET S /\ Cardinality({}) <= n
      BY <3>1
    <3>3. ASSUME NEW s \in SUBSET S, s = {}, Cardinality(s) <= n PROVE g[s] = b
      BY <2>1, <3>3
    <3>4. g[{}] = b
      BY <3>2, <3>3
    <3> QED BY <2>2, <3>2, <3>4
  <2>7. Solves(h, n + 1)
    BY <2>5, <2>6
  <2> HIDE DEF Solves
  <2>8. ~(\A f \in [SUBSET S -> V] : ~Solves(f, n + 1))
    BY <2>4, <2>7
  <2> QED BY <2>8
<1> HIDE DEF D
<1>5. ASSUME D # {} PROVE FALSE
  <2>1. D \in SUBSET Nat
    BY DEF D
  <2>2. Min(D) \in D /\ \A n \in D : Min(D) <= n
    BY <1>5, <2>1, LeastElement
  <2>3. Min(D) \in Nat /\ Min(D) # 0
    BY <1>3, <2>1, <2>2
  <2>4. Min(D) - 1 \in Nat /\ (Min(D) - 1) + 1 = Min(D)
    BY <2>3
  <2>5. Min(D) - 1 \notin D
    BY <2>2, <2>3, <2>4
  <2> QED BY <1>4, <2>2, <2>4, <2>5
<1>6. Cardinality(S) \in Nat
  BY FS_CardinalityType
<1>7. PICK g \in [SUBSET S -> V] : Solves(g, Cardinality(S))
  <2> HIDE DEF Solves
  <2> QED BY <1>5, <1>6 DEF D
<1>8. \A s \in SUBSET S : g[s] = IF s = {} THEN b ELSE op[c[s]][g[s \ {c[s]}]]
  BY <1>1, <1>7
<1> QED BY <1>7, <1>8 DEF IsFold

-----------------------------------------------------------------------------
(* Sums                                                                    *)

\* Induction on finite sets: a family with the empty set that is closed under adding
\* an element has every subset.
LEMMA SubsetInduction ==
  ASSUME NEW S, IsFiniteSet(S), NEW C, {} \in C,
         \A T \in SUBSET S : \A x \in S \ T : T \in C => T \cup {x} \in C
  PROVE  SUBSET S \subseteq C
<1> DEFINE D == (SUBSET S) \ C
<1>1. SUFFICES ASSUME D # {} PROVE FALSE
  OBVIOUS
<1>2. D \subseteq FiniteSubsetsOf(S)
  BY FS_Subset DEF FiniteSubsetsOf
<1>3. IsWellFoundedOn(StrictSubsetOrdering(S), FiniteSubsetsOf(S))
  BY FS_StrictSubsetOrderingWellFounded
<1>4. PICK T \in D : \A U \in D : <<U, T>> \notin StrictSubsetOrdering(S)
  BY <1>1, <1>2, <1>3, WFMin
<1>5. PICK x \in T : TRUE
  BY <1>4
<1>6. T \ {x} \notin D
  BY <1>4, <1>5 DEF StrictSubsetOrdering
<1>7. T = (T \ {x}) \cup {x}
  BY <1>5
<1> QED BY <1>4, <1>5, <1>6, <1>7

\* A finite set of naturals that is not empty has a greatest element.
LEMMA GreatestElement ==
  ASSUME NEW S \in SUBSET Nat, IsFiniteSet(S), S # {}
  PROVE  Max(S) \in S /\ \A y \in S : y <= Max(S)
<1> DEFINE C == {T \in SUBSET S : T = {} \/ \E m \in T : \A y \in T : y <= m}
<1>1. {} \in C
  OBVIOUS
<1>2. ASSUME NEW T \in SUBSET S, NEW x \in S \ T, T \in C
      PROVE  T \cup {x} \in C
  <2>1. CASE T = {}
    <3>1. x <= x /\ T \cup {x} = {x} /\ {x} \in SUBSET S
      BY <2>1
    <3> QED BY <3>1
  <2>2. CASE T # {}
    <3>1. PICK m \in T : \A y \in T : y <= m
      BY <1>2, <2>2
    <3>2. m \in Nat /\ x \in Nat /\ \A y \in T : y \in Nat
      OBVIOUS
    <3>3. CASE x <= m
      <4>1. \A y \in T \cup {x} : y <= m
        BY <3>1, <3>3
      <4> QED BY <4>1
    <3>4. CASE m < x
      <4>1. \A y \in T \cup {x} : y <= x
        BY <3>1, <3>2, <3>4
      <4> QED BY <4>1
    <3> QED BY <3>2, <3>3, <3>4
  <2> QED BY <2>1, <2>2
<1> HIDE DEF C
<1>3. S \in C
  BY <1>1, <1>2, SubsetInduction
<1>4. PICK m \in S : \A y \in S : y <= m
  BY <1>3 DEF C
<1>5. \E z \in S : \A y \in S : z >= y
  BY <1>4
<1> QED BY <1>5 DEF Max

\* What a sum satisfies: it is zero for no terms, and a further term adds its value.
IsSum(g, f, S) ==
  /\ g \in [SUBSET S -> Int]
  /\ g[{}] = 0
  /\ \A T \in SUBSET S : \A x \in S \ T : g[T \cup {x}] = f[x] + g[T]

\* There is such a function for every finite set of terms.
LEMMA SumExists ==
  ASSUME NEW S, IsFiniteSet(S), NEW f, \A x \in S : f[x] \in Int
  PROVE  \E g : IsSum(g, f, S)
<1> DEFINE C == {T \in SUBSET S : \E g : IsSum(g, f, T)}
<1>1. {} \in C
  <2> DEFINE z == [T \in SUBSET {} |-> 0]
  <2>1. IsSum(z, f, {})
    BY DEF IsSum
  <2> QED BY <2>1
<1>2. ASSUME NEW T \in SUBSET S, NEW x \in S \ T, T \in C
      PROVE  T \cup {x} \in C
  <2>1. PICK g : IsSum(g, f, T)
    BY <1>2
  <2> DEFINE h == [U \in SUBSET (T \cup {x}) |->
                     IF x \in U THEN f[x] + g[U \ {x}] ELSE g[U]]
  <2>2. \A U \in SUBSET (T \cup {x}) : U \ {x} \in SUBSET T
    OBVIOUS
  <2>3. h \in [SUBSET (T \cup {x}) -> Int]
    BY <2>1, <2>2 DEF IsSum
  <2>4. h[{}] = 0
    BY <2>1 DEF IsSum
  <2>5. ASSUME NEW U \in SUBSET (T \cup {x}), NEW y \in (T \cup {x}) \ U
        PROVE  h[U \cup {y}] = f[y] + h[U]
    <3>1. U \cup {y} \in SUBSET (T \cup {x})
      OBVIOUS
    <3>2. CASE y = x
      <4>1. (U \cup {y}) \ {x} = U
        BY <3>2
      <4> QED BY <3>1, <3>2, <4>1
    <3>3. CASE y # x /\ x \in U
      <4>1. (U \cup {y}) \ {x} = (U \ {x}) \cup {y}
        BY <3>3
      <4>2. g[(U \ {x}) \cup {y}] = f[y] + g[U \ {x}]
        BY <2>1, <2>2, <3>3 DEF IsSum
      <4>3. g[U \ {x}] \in Int /\ f[x] \in Int /\ f[y] \in Int
        BY <2>1, <2>2, <3>3 DEF IsSum
      <4>4. h[U \cup {y}] = f[x] + (f[y] + g[U \ {x}]) /\ h[U] = f[x] + g[U \ {x}]
        BY <3>1, <3>3, <4>1, <4>2
      <4> HIDE DEF h
      <4> QED BY <4>3, <4>4
    <3>4. CASE y # x /\ x \notin U
      <4>1. U \in SUBSET T /\ y \in T \ U
        BY <3>4
      <4> QED BY <2>1, <3>1, <3>4, <4>1 DEF IsSum
    <3> QED BY <3>2, <3>3, <3>4
  <2> HIDE DEF h
  <2>6. IsSum(h, f, T \cup {x})
    BY <2>3, <2>4, <2>5 DEF IsSum
  <2> QED BY <2>6
<1> HIDE DEF C
<1>3. SUBSET S \subseteq C
  BY <1>1, <1>2, SubsetInduction
<1>4. S \in C
  BY <1>3
<1> QED BY <1>4 DEF C

\* The recursion that SumFunctionOnSet unfolds.
SumStep(f, S, iter) ==
  [s \in SUBSET S |-> IF s = {} THEN 0
                      ELSE f[CHOOSE x \in s : TRUE] + iter[s \ {CHOOSE x \in s : TRUE}]]

\* SumFunctionOnSet is the value of that recursion for the whole set.
LEMMA SumUnfolds ==
  ASSUME NEW f, NEW S
  PROVE  SumFunctionOnSet(f, S) = (CHOOSE iter : iter = SumStep(f, S, iter))[S]
BY DEF SumFunctionOnSet, FoldFunctionOnSet, MapThenFoldSet, SumStep

\* Adding is in any order: the sum of the terms of a set is the function's value there,
\* whatever elements the recursion takes out.
LEMMA SumIsSum ==
  ASSUME NEW S, IsFiniteSet(S), NEW f, NEW g, IsSum(g, f, S)
  PROVE  SumFunctionOnSet(f, S) = g[S]
<1> DEFINE Solves(iter) == iter = SumStep(f, S, iter)
<1>1. Solves(g)
  <2>1. g = [s \in SUBSET S |-> g[s]]
    BY DEF IsSum
  <2>2. ASSUME NEW s \in SUBSET S, s # {}
        PROVE  g[s] = f[CHOOSE x \in s : TRUE] + g[s \ {CHOOSE x \in s : TRUE}]
    <3>1. PICK x \in s : x = CHOOSE y \in s : TRUE
      BY <2>2
    <3>2. s = (s \ {x}) \cup {x} /\ s \ {x} \in SUBSET S /\ x \in S \ (s \ {x})
      BY <3>1
    <3>3. g[(s \ {x}) \cup {x}] = f[x] + g[s \ {x}]
      BY <3>2 DEF IsSum
    <3> QED BY <3>1, <3>2, <3>3
  <2>3. g[{}] = 0
    BY DEF IsSum
  <2> QED BY <2>1, <2>2, <2>3 DEF SumStep
<1>2. ASSUME NEW h, Solves(h) PROVE h[S] = g[S]
  <2> DEFINE C == {s \in SUBSET S : h[s] = g[s]}
  <2>1. h = SumStep(f, S, h) /\ g = SumStep(f, S, g)
    BY <1>1, <1>2
  <2>2. \A s \in SUBSET S : h[s] = SumStep(f, S, h)[s] /\ g[s] = SumStep(f, S, g)[s]
    BY <2>1
  <2>3. SUFFICES ASSUME (SUBSET S) \ C # {} PROVE FALSE
    OBVIOUS
  <2>4. (SUBSET S) \ C \subseteq FiniteSubsetsOf(S)
    BY FS_Subset DEF FiniteSubsetsOf
  <2>5. IsWellFoundedOn(StrictSubsetOrdering(S), FiniteSubsetsOf(S))
    BY FS_StrictSubsetOrderingWellFounded
  <2>6. PICK T \in (SUBSET S) \ C :
          \A U \in (SUBSET S) \ C : <<U, T>> \notin StrictSubsetOrdering(S)
    BY <2>3, <2>4, <2>5, WFMin
  <2>7. T # {}
    BY <2>2, <2>6 DEF SumStep
  <2>8. PICK x \in T : x = CHOOSE y \in T : TRUE
    BY <2>7
  <2>9. h[T \ {x}] = g[T \ {x}]
    <3>1. T \ {x} \in SUBSET S /\ T \ {x} \subseteq T /\ T \ {x} # T
      BY <2>6, <2>8
    <3>2. <<T \ {x}, T>> \in StrictSubsetOrdering(S)
      BY <2>6, <3>1 DEF StrictSubsetOrdering
    <3>3. T \ {x} \in C
      BY <2>6, <3>1, <3>2
    <3> QED BY <3>3
  <2>10. h[T] = f[x] + h[T \ {x}] /\ g[T] = f[x] + g[T \ {x}]
    BY <2>2, <2>6, <2>7, <2>8 DEF SumStep
  <2> QED BY <2>6, <2>9, <2>10
<1>3. Solves(CHOOSE iter : Solves(iter))
  BY <1>1
<1>4. (CHOOSE iter : Solves(iter))[S] = g[S]
  BY <1>2, <1>3
<1> QED BY <1>4, SumUnfolds

\* One function gives the sums over all subsets of a finite set of terms.
LEMMA SumsAgree ==
  ASSUME NEW S, IsFiniteSet(S), NEW f, \A x \in S : f[x] \in Int
  PROVE  \E g : IsSum(g, f, S) /\ \A T \in SUBSET S : SumFunctionOnSet(f, T) = g[T]
<1>1. PICK g : IsSum(g, f, S)
  BY SumExists
<1>2. ASSUME NEW T \in SUBSET S PROVE SumFunctionOnSet(f, T) = g[T]
  <2> DEFINE r == [U \in SUBSET T |-> g[U]]
  <2>1. IsSum(r, f, T)
    BY <1>1 DEF IsSum
  <2>2. r[T] = g[T]
    OBVIOUS
  <2>3. IsFiniteSet(T)
    BY FS_Subset
  <2> HIDE DEF r
  <2> QED BY <2>1, <2>2, <2>3, SumIsSum
<1> QED BY <1>1, <1>2

-----------------------------------------------------------------------------
\* A sum over no terms is zero.
THEOREM SumEmpty == ASSUME NEW f PROVE SumFunctionOnSet(f, {}) = 0
<1>1. IsFiniteSet({}) /\ \A x \in {} : f[x] \in Int
  BY FS_EmptySet
<1>2. PICK g : IsSum(g, f, {}) /\ SumFunctionOnSet(f, {}) = g[{}]
  BY <1>1, SumsAgree
<1> QED BY <1>2 DEF IsSum

\* A sum of integers is an integer.
THEOREM SumType ==
  ASSUME NEW S, IsFiniteSet(S), NEW f, \A x \in S : f[x] \in Int
  PROVE  SumFunctionOnSet(f, S) \in Int
<1>1. PICK g : IsSum(g, f, S) /\ \A T \in SUBSET S : SumFunctionOnSet(f, T) = g[T]
  BY SumsAgree
<1> QED BY <1>1 DEF IsSum

\* A further term adds its value.
THEOREM SumAdd ==
  ASSUME NEW T, IsFiniteSet(T), NEW x, x \notin T, NEW f,
         \A y \in T \cup {x} : f[y] \in Int
  PROVE  SumFunctionOnSet(f, T \cup {x}) = f[x] + SumFunctionOnSet(f, T)
<1> DEFINE S == T \cup {x}
<1>1. IsFiniteSet(S)
  BY FS_AddElement
<1>2. PICK g : IsSum(g, f, S) /\ \A U \in SUBSET S : SumFunctionOnSet(f, U) = g[U]
  BY <1>1, SumsAgree
<1>3. g[T \cup {x}] = f[x] + g[T]
  BY <1>2 DEF IsSum
<1> QED BY <1>2, <1>3

\* The sum over two disjoint sets is the sum of the sums.
THEOREM SumDisjoint ==
  ASSUME NEW A, IsFiniteSet(A), NEW B, IsFiniteSet(B), A \cap B = {}, NEW f,
         \A y \in A \cup B : f[y] \in Int
  PROVE  SumFunctionOnSet(f, A \cup B) = SumFunctionOnSet(f, A) + SumFunctionOnSet(f, B)
<1> DEFINE C == {T \in SUBSET B : SumFunctionOnSet(f, A \cup T)
                                  = SumFunctionOnSet(f, A) + SumFunctionOnSet(f, T)}
<1>1. {} \in C
  <2>1. SumFunctionOnSet(f, A) \in Int /\ A \cup {} = A
    BY SumType
  <2> QED BY <2>1, SumEmpty
<1>2. ASSUME NEW T \in SUBSET B, NEW x \in B \ T, T \in C
      PROVE  T \cup {x} \in C
  <2>1. IsFiniteSet(T) /\ IsFiniteSet(A \cup T)
    BY FS_Subset, FS_Union
  <2>2. x \notin T /\ x \notin A \cup T
    OBVIOUS
  <2>3. SumFunctionOnSet(f, T \cup {x}) = f[x] + SumFunctionOnSet(f, T)
    BY <2>1, <2>2, SumAdd
  <2>4. SumFunctionOnSet(f, (A \cup T) \cup {x}) = f[x] + SumFunctionOnSet(f, A \cup T)
    BY <2>1, <2>2, SumAdd
  <2>5. (A \cup T) \cup {x} = A \cup (T \cup {x})
    OBVIOUS
  <2>6. SumFunctionOnSet(f, A) \in Int /\ SumFunctionOnSet(f, T) \in Int /\ f[x] \in Int
    BY <2>1, SumType
  <2>7. SumFunctionOnSet(f, A \cup T) = SumFunctionOnSet(f, A) + SumFunctionOnSet(f, T)
    BY <1>2
  <2>8. SumFunctionOnSet(f, A \cup (T \cup {x})) = f[x] + SumFunctionOnSet(f, A \cup T)
    BY <2>4, <2>5, Zenon
  <2>9. SumFunctionOnSet(f, A \cup (T \cup {x}))
        = SumFunctionOnSet(f, A) + SumFunctionOnSet(f, T \cup {x})
    BY <2>3, <2>6, <2>7, <2>8
  <2> QED BY <2>9
<1> HIDE DEF C
<1>3. \A T \in SUBSET B : \A x \in B \ T : T \in C => T \cup {x} \in C
  BY <1>2
<1>4. SUBSET B \subseteq C
  <2>1. IsFiniteSet(B)
    OBVIOUS
  <2> QED BY ONLY <1>1, <1>3, <2>1, SubsetInduction
<1> QED BY <1>4 DEF C

\* The sum of naturals is a natural.
THEOREM SumNat ==
  ASSUME NEW S, IsFiniteSet(S), NEW f, \A x \in S : f[x] \in Nat
  PROVE  SumFunctionOnSet(f, S) \in Nat
<1> DEFINE C == {T \in SUBSET S : SumFunctionOnSet(f, T) \in Nat}
<1>1. {} \in C
  BY SumEmpty
<1>2. ASSUME NEW T \in SUBSET S, NEW x \in S \ T, T \in C
      PROVE  T \cup {x} \in C
  <2>1. IsFiniteSet(T)
    BY FS_Subset
  <2>2. \A y \in T \cup {x} : f[y] \in Int
    OBVIOUS
  <2>3. SumFunctionOnSet(f, T \cup {x}) = f[x] + SumFunctionOnSet(f, T)
    BY <2>1, <2>2, SumAdd
  <2> QED BY <1>2, <2>3
<1> HIDE DEF C
<1>3. S \in C
  BY <1>1, <1>2, SubsetInduction
<1> QED BY <1>3 DEF C

\* Leaving out terms: what is left, and the sum of what was left out.
THEOREM SumRemove ==
  ASSUME NEW S, IsFiniteSet(S), NEW T \in SUBSET S, NEW f, \A x \in S : f[x] \in Nat
  PROVE  /\ SumFunctionOnSet(f, S \ T) = SumFunctionOnSet(f, S) - SumFunctionOnSet(f, T)
         /\ SumFunctionOnSet(f, T) <= SumFunctionOnSet(f, S)
<1>1. IsFiniteSet(T) /\ IsFiniteSet(S \ T) /\ (S \ T) \cup T = S
  BY FS_Subset
<1>2. SumFunctionOnSet(f, S) = SumFunctionOnSet(f, S \ T) + SumFunctionOnSet(f, T)
  BY <1>1, SumDisjoint
<1>3. SumFunctionOnSet(f, T) \in Nat /\ SumFunctionOnSet(f, S \ T) \in Nat
  BY <1>1, SumNat
<1> QED BY <1>2, <1>3

\* A single term.
THEOREM SumSingleton ==
  ASSUME NEW x, NEW f, f[x] \in Int
  PROVE  SumFunctionOnSet(f, {x}) = f[x]
<1>1. SumFunctionOnSet(f, {} \cup {x}) = f[x] + SumFunctionOnSet(f, {})
  BY FS_EmptySet, SumAdd
<1> QED BY <1>1, SumEmpty

-----------------------------------------------------------------------------
(* Folds over a sequence: what they go through, element by element.        *)

\* What a fold over the elements 1 to n goes through, one after the other.
IsChain(f, n, V, b, op) ==
  /\ f \in [0..n -> V] /\ f[0] = b
  /\ \A i \in 1..n : f[i] = op[i][f[i - 1]]

\* A recursion that takes the greatest element out of a set again and again, where what
\* it has made of the others is in V.
IsLeftFold(g, n, V, b, op) ==
  \A s \in SUBSET (1..n) :
    /\ s = {} => g[s] = b
    /\ s # {} /\ g[s \ {Max(s)}] \in V => g[s] = op[Max(s)][g[s \ {Max(s)}]]

\* The greatest of some numbers up to n.
LEMMA GreatestOfSome ==
  ASSUME NEW n \in Nat, NEW s \in SUBSET (1..n), s # {}
  PROVE  Max(s) \in s /\ Max(s) \in 1..n /\ s \ {Max(s)} \in SUBSET (1..n)
<1>1. 1..n \subseteq Nat /\ IsFiniteSet(1..n)
  BY FS_Interval
<1>2. s \in SUBSET Nat /\ IsFiniteSet(s)
  BY <1>1, FS_Subset
<1> QED BY <1>2, GreatestElement

\* There is such a function.
LEMMA LeftFoldExists ==
  ASSUME NEW n \in Nat, NEW V, NEW b \in V, NEW op \in [1..n -> [V -> V]]
  PROVE  \E g \in [SUBSET (1..n) -> V] : IsLeftFold(g, n, V, b, op)
<1> DEFINE D == 1..n
           c == [s \in SUBSET D |-> Max(s)]
<1>1. IsFiniteSet(D)
  BY FS_Interval
<1>3. \A s \in SUBSET D : s # {} => c[s] \in s
  BY GreatestOfSome
<1>4. \E g : IsFold(g, D, V, b, op, c)
  <2> HIDE DEF D, c
  <2>1. op \in [D -> [V -> V]]
    BY DEF D
  <2> QED BY <1>1, <1>3, <2>1, FoldExists
<1>5. PICK g \in [SUBSET D -> V] : \A s \in SUBSET D :
        g[s] = IF s = {} THEN b ELSE op[c[s]][g[s \ {c[s]}]]
  BY <1>4 DEF IsFold
<1>6. ASSUME NEW s \in SUBSET D
      PROVE  /\ s = {} => g[s] = b
             /\ s # {} => g[s] = op[Max(s)][g[s \ {Max(s)}]]
  <2>1. c[s] = Max(s)
    OBVIOUS
  <2> QED BY <1>5, <2>1
<1> HIDE DEF c
<1> QED BY <1>5, <1>6 DEF IsLeftFold

\* A function that takes the greatest element out goes through the prefixes.
LEMMA LeftFoldChain ==
  ASSUME NEW n \in Nat, NEW V, NEW b \in V, NEW op \in [1..n -> [V -> V]], NEW iter,
         IsLeftFold(iter, n, V, b, op), NEW f, f = [i \in 0..n |-> iter[1..i]]
  PROVE  IsChain(f, n, V, b, op)
<1> DEFINE B == {i \in 0..n : ~(iter[1..i] \in V)}
<1>1. iter[1..0] = b
  <2>1. 1..0 = {} /\ {} \in SUBSET (1..n)
    OBVIOUS
  <2> QED BY <2>1 DEF IsLeftFold
<1>2. ASSUME NEW i \in 1..n, iter[1..(i - 1)] \in V
      PROVE  iter[1..i] = op[i][iter[1..(i - 1)]] /\ iter[1..i] \in V
  <2>1. /\ 1..i \in SUBSET (1..n) /\ 1..i # {} /\ (1..i) \ {i} = 1..(i - 1) /\ i \in 1..i
    <3>1. i \in Nat /\ 1 <= i /\ i <= n
      OBVIOUS
    <3>2. i \in 1..i /\ \A j \in 1..i : j \in 1..n
      BY <3>1
    <3>3. (1..i) \ {i} = 1..(i - 1)
      BY <3>1
    <3> QED BY <3>2, <3>3
  <2>2. Max(1..i) = i
    <3>1. 1..i \in SUBSET Nat /\ 1..i # {}
      BY <2>1
    <3>3. IsFiniteSet(1..i)
      BY FS_Interval
    <3>2. Max(1..i) \in 1..i /\ \A y \in 1..i : y <= Max(1..i)
      BY <3>1, <3>3, GreatestElement
    <3> QED BY <2>1, <3>2
  <2>3. iter[1..i] = op[i][iter[1..(i - 1)]]
    BY <1>2, <2>1, <2>2 DEF IsLeftFold
  <2>4. op[i] \in [V -> V]
    OBVIOUS
  <2> QED BY <1>2, <2>3, <2>4
<1>3. B = {}
  <2>1. SUFFICES ASSUME B # {} PROVE FALSE
    OBVIOUS
  <2>2. B \in SUBSET Nat
    OBVIOUS
  <2>3. PICK i \in B : \A k \in B : i <= k
    BY <2>1, <2>2, LeastElement
  <2>4. i \in 0..n /\ i # 0
    BY <1>1, <2>3
  <2>5. i - 1 \in 0..n /\ i \in 1..n /\ i - 1 \notin B
    BY <2>3, <2>4
  <2>6. iter[1..(i - 1)] \in V
    BY <2>5
  <2> QED BY <1>2, <2>3, <2>5, <2>6
<1>4. \A i \in 0..n : iter[1..i] \in V
  BY <1>3
<1>5. \A i \in 1..n : i - 1 \in 0..n /\ i \in 0..n
  OBVIOUS
<1> HIDE DEF B
<1> QED BY <1>1, <1>2, <1>4, <1>5 DEF IsChain

-----------------------------------------------------------------------------
(* Orders: functions by the first argument at which they differ.           *)

\* A strict total order of the elements of a set.
IsStrictOrder(R, T) ==
  /\ \A x \in T : <<x, x>> \notin R
  /\ \A x, y, z \in T : <<x, y>> \in R /\ <<y, z>> \in R => <<x, z>> \in R
  /\ \A x, y \in T : x = y \/ <<x, y>> \in R \/ <<y, x>> \in R

\* Functions by the first argument at which they differ.
FirstDifference(R, I, k, l) ==
  \E n \in I : <<k[n], l[n]>> \in R /\ \A m \in I : m < n => k[m] = l[m]
FunctionOrder(R, I, T) ==
  {p \in [I -> T] \X [I -> T] : FirstDifference(R, I, p[1], p[2])}

\* Functions of arguments that can be counted are ordered as their values are.
LEMMA FunctionOrderIsStrict ==
  ASSUME NEW R, NEW T, IsStrictOrder(R, T), NEW I \in SUBSET Nat
  PROVE  IsStrictOrder(FunctionOrder(R, I, T), [I -> T])
<1>1. ASSUME NEW x \in [I -> T], FirstDifference(R, I, x, x) PROVE FALSE
  BY <1>1 DEF FirstDifference, IsStrictOrder
<1>2. ASSUME NEW x \in [I -> T], NEW y \in [I -> T], NEW z \in [I -> T],
             FirstDifference(R, I, x, y), FirstDifference(R, I, y, z)
      PROVE  FirstDifference(R, I, x, z)
  <2>1. PICK n \in I : <<x[n], y[n]>> \in R /\ \A m \in I : m < n => x[m] = y[m]
    BY <1>2 DEF FirstDifference
  <2>2. PICK k \in I : <<y[k], z[k]>> \in R /\ \A m \in I : m < k => y[m] = z[m]
    BY <1>2 DEF FirstDifference
  <2>3. n \in Nat /\ k \in Nat /\ \A m \in I : m \in Nat
    OBVIOUS
  <2>4. CASE n < k
    <3>1. <<x[n], z[n]>> \in R
      BY <2>1, <2>2, <2>4
    <3>2. \A m \in I : m < n => x[m] = z[m]
      BY <2>1, <2>2, <2>3, <2>4
    <3> QED BY <3>1, <3>2 DEF FirstDifference
  <2>5. CASE k < n
    <3>1. <<x[k], z[k]>> \in R
      BY <2>1, <2>2, <2>5
    <3>2. \A m \in I : m < k => x[m] = z[m]
      BY <2>1, <2>2, <2>3, <2>5
    <3> QED BY <3>1, <3>2 DEF FirstDifference
  <2>6. CASE k = n
    <3>1. x[n] \in T /\ y[n] \in T /\ z[n] \in T
      OBVIOUS
    <3>2. <<x[n], z[n]>> \in R
      BY <2>1, <2>2, <2>6, <3>1 DEF IsStrictOrder
    <3>3. \A m \in I : m < n => x[m] = z[m]
      BY <2>1, <2>2, <2>6
    <3> QED BY <3>2, <3>3 DEF FirstDifference
  <2> QED BY <2>3, <2>4, <2>5, <2>6
<1>3. ASSUME NEW x \in [I -> T], NEW y \in [I -> T], x # y
      PROVE  FirstDifference(R, I, x, y) \/ FirstDifference(R, I, y, x)
  <2> DEFINE D == {n \in I : x[n] # y[n]}
  <2>1. D # {} /\ D \in SUBSET Nat
    <3>1. x = [n \in I |-> x[n]] /\ y = [n \in I |-> y[n]]
      OBVIOUS
    <3>2. \E n \in I : x[n] # y[n]
      BY <1>3, <3>1
    <3> QED BY <3>2
  <2>2. PICK n \in D : \A m \in D : n <= m
    BY <2>1, LeastElement
  <2>3. \A m \in I : m < n => x[m] = y[m]
    BY <2>2
  <2>4. x[n] \in T /\ y[n] \in T /\ x[n] # y[n] /\ n \in I
    BY <2>2
  <2>5. <<x[n], y[n]>> \in R \/ <<y[n], x[n]>> \in R
    BY <2>4 DEF IsStrictOrder
  <2> HIDE DEF D
  <2> QED BY <2>3, <2>4, <2>5 DEF FirstDifference
<1>4. \A x, y \in [I -> T] :
        <<x, y>> \in FunctionOrder(R, I, T) <=> FirstDifference(R, I, x, y)
  BY DEF FunctionOrder
<1> QED BY <1>1, <1>2, <1>3, <1>4 DEF IsStrictOrder

-----------------------------------------------------------------------------
(* Prefixes, reversed sequences and initial segments.                      *)

\* A prefix, element by element.
LEMMA PrefixPoints ==
  ASSUME NEW s \in Seq(Nat), NEW t \in Seq(Nat)
  PROVE  IsPrefix(s, t) <=> Len(s) <= Len(t) /\ \A i \in 1..Len(s) : s[i] = t[i]
<1>1. Len(s) \in Nat /\ Len(t) \in Nat
  OBVIOUS
<1>2. SubSeq(s, 1, Len(s)) = s
  OBVIOUS
<1>3. ASSUME Len(s) <= Len(t)
      PROVE  SubSeq(t, 1, Len(s)) \in Seq(Nat) /\ Len(SubSeq(t, 1, Len(s))) = Len(s)
             /\ \A i \in 1..Len(s) : SubSeq(t, 1, Len(s))[i] = t[i]
  BY <1>1, <1>3
<1>4. ASSUME Len(s) <= Len(t), \A i \in 1..Len(s) : s[i] = t[i]
      PROVE  SubSeq(t, 1, Len(s)) = s
  BY <1>1, <1>3, <1>4
<1> QED BY <1>2, <1>3, <1>4 DEF IsPrefix

\* The reverse of a sequence has the same elements.
LEMMA ReverseElements ==
  ASSUME NEW S, NEW q \in Seq(S)
  PROVE  Reverse(q) \in Seq(S) /\ ToSet(Reverse(q)) = ToSet(q)
<1>1. PICK n \in Nat : n = Len(q)
  OBVIOUS
<1>2. Reverse(q) = [i \in 1..n |-> q[(n - i) + 1]] /\ DOMAIN q = 1..n
  BY <1>1 DEF Reverse
<1>3. \A i \in 1..n : (n - i) + 1 \in 1..n /\ (n - ((n - i) + 1)) + 1 = i
  BY <1>1
<1>4. \A i \in 1..n : q[i] \in S
  BY <1>1
<1>5. Reverse(q) \in [1..n -> S] /\ DOMAIN Reverse(q) = 1..n
  BY <1>2, <1>3, <1>4
<1>6. Reverse(q) \in Seq(S)
  BY <1>5
<1>7. \A i \in 1..n : Reverse(q)[i] = q[(n - i) + 1]
  BY <1>2
<1>8. \A i \in 1..n : Reverse(q)[(n - i) + 1] = q[i]
  BY <1>3, <1>7
<1>9. ToSet(Reverse(q)) = {Reverse(q)[i] : i \in 1..n} /\ ToSet(q) = {q[i] : i \in 1..n}
  BY <1>2, <1>5 DEF ToSet
<1>10. \A x \in ToSet(Reverse(q)) : x \in ToSet(q)
  BY <1>3, <1>7, <1>9
<1>11. \A x \in ToSet(q) : x \in ToSet(Reverse(q))
  BY <1>3, <1>8, <1>9
<1> QED BY <1>6, <1>10, <1>11

\* A set of numbers with every number before each of its own.
LEMMA InitialSegment ==
  ASSUME NEW n \in Nat, NEW S \in SUBSET (1..n), \A i \in S : \A j \in 1..i : j \in S
  PROVE  S = 1..Cardinality(S)
<1>1. 1..n \subseteq Nat /\ IsFiniteSet(1..n)
  BY FS_Interval
<1>2. IsFiniteSet(S) /\ S \in SUBSET Nat
  BY <1>1, FS_Subset
<1>3. CASE S = {}
  BY <1>3, FS_EmptySet
<1>4. CASE S # {}
  <2>1. PICK m \in S : \A y \in S : y <= m
    BY <1>2, <1>4, GreatestElement
  <2>2. m \in Nat /\ 1 <= m
    BY <2>1
  <2>3. S = 1..m
    <3>1. \A y \in S : y \in Nat /\ 1 <= y /\ y <= m
      BY <2>1
    <3>2. \A y \in S : y \in 1..m
      BY <2>2, <3>1
    <3> QED BY <3>2
  <2>4. Cardinality(1..m) = m
    BY <2>2, FS_Interval
  <2> QED BY <2>3, <2>4
<1> QED BY <1>3, <1>4
=============================================================================
