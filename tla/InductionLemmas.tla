--------------------------- MODULE InductionLemmas ---------------------------
(***************************************************************************)
(* Induction in first-order form, and what it shows of the sum of a        *)
(* function over a finite set.  A predicate is given as the set of the     *)
(* values it holds of, so that a theorem of the library about well-founded *)
(* sets can be cited for it.                                               *)
(***************************************************************************)
EXTENDS Integers, FiniteSets, Functions, SequencesExt, FiniteSetTheorems, TLAPS

\* A nonempty set of natural numbers has a least element.
LEMMA LeastNat ==
  ASSUME NEW S \in SUBSET Nat, S # {}
  PROVE  \E m \in S : \A n \in S : m <= n
<1>1. IsWellFoundedOn(OpToRel(<, Nat), Nat)
  BY NatLessThanWellFounded
<1>2. PICK m \in S : \A n \in S : ~ (<<n, m>> \in OpToRel(<, Nat))
  BY <1>1, WFMin
<1>3. \A n \in S : ~(n < m)
  BY <1>2 DEF OpToRel
<1> QED BY <1>3

\* Induction over the natural numbers, of the predicate S stands for.
LEMMA NatSetInduction ==
  ASSUME NEW S, 0 \in S, \A n \in Nat : n \in S => n + 1 \in S
  PROVE  \A n \in Nat : n \in S
<1> SUFFICES ASSUME NEW k \in Nat, k \notin S PROVE FALSE
  OBVIOUS
<1> DEFINE Bad == {n \in Nat : n \notin S}
<1>1. PICK m \in Bad : \A n \in Bad : m <= n
  <2>1. Bad \in SUBSET Nat /\ Bad # {} OBVIOUS
  <2> HIDE DEF Bad
  <2> QED BY <2>1, LeastNat
<1>2. m # 0 BY <1>1
<1>3. m - 1 \in Nat /\ m - 1 \in S BY <1>1, <1>2
<1> QED BY <1>1, <1>3

\* Induction over the subsets of a finite set, of the predicate Q stands for.
LEMMA FiniteSetInduction ==
  ASSUME NEW S, IsFiniteSet(S), NEW Q, {} \in Q,
         \A T \in SUBSET S : \A x \in S \ T : T \in Q => T \cup {x} \in Q
  PROVE  S \in Q
<1> DEFINE N == {n \in Nat : \A T \in SUBSET S : Cardinality(T) = n => T \in Q}
<1>0. \A T \in SUBSET S : IsFiniteSet(T) /\ Cardinality(T) \in Nat
  BY FS_Subset, FS_CardinalityType
<1>1. 0 \in N
  BY <1>0, FS_EmptySet
<1>2. ASSUME NEW n \in Nat, n \in N PROVE n + 1 \in N
  <2> SUFFICES ASSUME NEW T \in SUBSET S, Cardinality(T) = n + 1 PROVE T \in Q
    OBVIOUS
  <2>1. PICK x \in T : TRUE
    BY <1>0, FS_EmptySet
  <2>2. Cardinality(T \ {x}) = n
    <3>1. Cardinality(T \ {x}) = Cardinality(T) - 1
      BY <1>0, <2>1, FS_RemoveElement
    <3> QED BY <3>1
  <2>3. T \ {x} \in Q /\ T \ {x} \in SUBSET S /\ x \in S \ (T \ {x})
    BY <1>2, <2>2
  <2>4. T = (T \ {x}) \cup {x} OBVIOUS
  <2> QED BY <2>3, <2>4
<1>3. Cardinality(S) \in N
  <2> HIDE DEF N
  <2> QED BY <1>0, <1>1, <1>2, NatSetInduction
<1> QED BY <1>3
-----------------------------------------------------------------------------
(* Sums.  SumFunctionOnSet(f, S) adds the values in the order CHOOSE names *)
(* the elements; the order makes no difference.                            *)

Chosen(s) == CHOOSE x \in s : TRUE
AddChosen(f, g, s) == IF s = {} THEN 0 ELSE f[Chosen(s)] + g[s \ {Chosen(s)}]
\* g satisfies the recursive definition of the sum on the subsets of S.
Sums(f, g, S) == \A s \in SUBSET S : g[s] = AddChosen(f, g, s)

\* The recursive definition of the sum defines a function.
LEMMA SumDefined ==
  ASSUME NEW S, IsFiniteSet(S), NEW f, \A x \in S : f[x] \in Int
  PROVE  \E g \in [SUBSET S -> Int] : Sums(f, g, S)
<1> DEFINE Good(g, n) == \A s \in SUBSET S : Cardinality(s) <= n => g[s] = AddChosen(f, g, s)
           N == {n \in Nat : \E g \in [SUBSET S -> Int] : Good(g, n)}
<1>0. \A T \in SUBSET S : IsFiniteSet(T) /\ Cardinality(T) \in Nat
  BY FS_Subset, FS_CardinalityType
<1>1. 0 \in N
  <2>1. [s \in SUBSET S |-> 0] \in [SUBSET S -> Int] OBVIOUS
  <2>2. \A s \in SUBSET S : Cardinality(s) <= 0 => s = {}
    BY <1>0, FS_EmptySet
  <2>3. Good([s \in SUBSET S |-> 0], 0)
    BY <2>2 DEF AddChosen
  <2> HIDE DEF Good
  <2> QED BY <2>1, <2>3
<1>2. ASSUME NEW n \in Nat, n \in N PROVE n + 1 \in N
  <2>1. PICK g \in [SUBSET S -> Int] : Good(g, n)
    BY <1>2
  <2> DEFINE h == [s \in SUBSET S |-> AddChosen(f, g, s)]
  <2>2. \A s \in SUBSET S : s # {} => Chosen(s) \in s /\ Chosen(s) \in S
    BY DEF Chosen
  <2>3. h \in [SUBSET S -> Int]
    BY <2>2 DEF AddChosen
  <2>4. ASSUME NEW s \in SUBSET S, Cardinality(s) <= n + 1
        PROVE  h[s] = AddChosen(f, h, s)
    <3>1. CASE s = {} BY <3>1 DEF AddChosen
    <3>2. CASE s # {}
      <4>1. Cardinality(s \ {Chosen(s)}) <= n
        BY <1>0, <2>2, <2>4, <3>2, FS_RemoveElement
      <4>2. g[s \ {Chosen(s)}] = h[s \ {Chosen(s)}]
        BY <2>1, <4>1
      <4> QED BY <3>2, <4>2 DEF AddChosen
    <3> QED BY <3>1, <3>2
  <2>5. Good(h, n + 1) BY <2>4
  <2> HIDE DEF Good, h
  <2> QED BY <2>3, <2>5
<1>3. Cardinality(S) \in N
  <2> HIDE DEF N
  <2> QED BY <1>0, <1>1, <1>2, NatSetInduction
<1>4. PICK g \in [SUBSET S -> Int] : Good(g, Cardinality(S))
  BY <1>3
<1>5. \A s \in SUBSET S : g[s] = AddChosen(f, g, s)
  BY <1>0, <1>4, FS_Subset
<1> QED BY <1>5 DEF Sums

\* g holds the sums over the subsets of S.
SumTable(f, g, S) ==
  /\ g \in [SUBSET S -> Int]
  /\ Sums(f, g, S)
  /\ \A T \in SUBSET S : SumFunctionOnSet(f, T) = g[T]

\* Two functions that satisfy the recursive definition agree where both are defined.
LEMMA SumUnique ==
  ASSUME NEW S, IsFiniteSet(S), NEW T \in SUBSET S, NEW f, NEW g, NEW h,
         Sums(f, g, S), Sums(f, h, T)
  PROVE  g[T] = h[T]
<1> USE DEF Sums
<1> DEFINE N == {n \in Nat : \A s \in SUBSET T : Cardinality(s) = n => g[s] = h[s]}
<1>0. \A s \in SUBSET T : IsFiniteSet(s) /\ Cardinality(s) \in Nat
  BY FS_Subset, FS_CardinalityType
<1>1. 0 \in N
  BY <1>0, FS_EmptySet DEF AddChosen
<1>2. ASSUME NEW n \in Nat, n \in N PROVE n + 1 \in N
  <2> SUFFICES ASSUME NEW s \in SUBSET T, Cardinality(s) = n + 1 PROVE g[s] = h[s]
    OBVIOUS
  <2>1. s # {} BY <1>0, FS_EmptySet
  <2>2. Chosen(s) \in s BY <2>1 DEF Chosen
  <2>3. Cardinality(s \ {Chosen(s)}) = n BY <1>0, <2>2, FS_RemoveElement
  <2>4. g[s \ {Chosen(s)}] = h[s \ {Chosen(s)}] BY <1>2, <2>3
  <2> QED BY <2>1, <2>4 DEF AddChosen
<1>3. Cardinality(T) \in N
  <2> HIDE DEF N
  <2> QED BY <1>0, <1>1, <1>2, NatSetInduction
<1> QED BY <1>3

\* The sum over a set is what a function that satisfies the recursive
\* definition says of it.
LEMMA SumIs ==
  ASSUME NEW S, IsFiniteSet(S), NEW f, \A x \in S : f[x] \in Int
  PROVE  \E g : SumTable(f, g, S)
<1>2. PICK g \in [SUBSET S -> Int] : Sums(f, g, S)
  BY SumDefined
<1>3. ASSUME NEW T \in SUBSET S PROVE SumFunctionOnSet(f, T) = g[T]
  <2> DEFINE iter == CHOOSE h : h = [s \in SUBSET T |-> AddChosen(f, h, s)]
  <2>1. SumFunctionOnSet(f, T) = iter[T]
    BY DEF SumFunctionOnSet, FoldFunctionOnSet, MapThenFoldSet, AddChosen, Chosen
  <2>2. \E h : h = [s \in SUBSET T |-> AddChosen(f, h, s)]
    <3>1. IsFiniteSet(T) /\ \A x \in T : f[x] \in Int
      BY FS_Subset
    <3>2. PICK h \in [SUBSET T -> Int] : Sums(f, h, T)
      BY <3>1, SumDefined
    <3>3. h = [s \in SUBSET T |-> AddChosen(f, h, s)]
      BY <3>2 DEF Sums
    <3> QED BY <3>3
  <2>3. iter = [s \in SUBSET T |-> AddChosen(f, iter, s)]
    BY <2>2
  <2>4. Sums(f, iter, T)
    BY <2>3 DEF Sums
  <2> HIDE DEF iter
  <2>5. g[T] = iter[T]
    BY <1>2, <2>4, SumUnique
  <2> QED BY <2>1, <2>5
<1> QED BY <1>2, <1>3 DEF SumTable

\* The sum of integers is an integer.
LEMMA SumType ==
  ASSUME NEW S, IsFiniteSet(S), NEW f, \A x \in S : f[x] \in Int
  PROVE  \A T \in SUBSET S : SumFunctionOnSet(f, T) \in Int
<1>1. PICK g : SumTable(f, g, S)
  BY SumIs
<1> QED BY <1>1 DEF SumTable

\* The empty sum is zero.
LEMMA SumEmpty ==
  ASSUME NEW f
  PROVE  SumFunctionOnSet(f, {}) = 0
<1>1. IsFiniteSet({}) /\ \A x \in {} : f[x] \in Int
  BY FS_EmptySet
<1>2. PICK g : SumTable(f, g, {})
  BY <1>1, SumIs
<1> QED BY <1>2 DEF SumTable, Sums, AddChosen

\* Any element may be added last: the order makes no difference.
LEMMA SumRemove ==
  ASSUME NEW S, IsFiniteSet(S), NEW f, \A x \in S : f[x] \in Int, NEW y \in S
  PROVE  SumFunctionOnSet(f, S) = f[y] + SumFunctionOnSet(f, S \ {y})
<1>0. PICK g : SumTable(f, g, S)
  BY SumIs
<1>1. g \in [SUBSET S -> Int] /\ Sums(f, g, S)
  BY <1>0 DEF SumTable
<1> DEFINE N == {n \in Nat : \A s \in SUBSET S : Cardinality(s) = n =>
                               \A x \in s : g[s] = f[x] + g[s \ {x}]}
<1>5. \A T \in SUBSET S : IsFiniteSet(T) /\ Cardinality(T) \in Nat
  BY FS_Subset, FS_CardinalityType
<1>2. 0 \in N
  BY <1>5, FS_EmptySet
<1>3. ASSUME NEW n \in Nat, n \in N PROVE n + 1 \in N
  <2> SUFFICES ASSUME NEW s \in SUBSET S, Cardinality(s) = n + 1, NEW x \in s
               PROVE  g[s] = f[x] + g[s \ {x}]
    OBVIOUS
  <2> DEFINE c == Chosen(s)
  <2>1. c \in s BY DEF Chosen
  <2>2. g[s] = f[c] + g[s \ {c}] BY <1>1 DEF Sums, AddChosen
  <2>3. CASE x = c BY <2>2, <2>3
  <2>4. CASE x # c
    <3> HIDE DEF c
    <3>1. \A z \in s : Cardinality(s \ {z}) = n
      <4> TAKE z \in s
      <4>1. Cardinality(s \ {z}) = Cardinality(s) - 1
        BY <1>5, FS_RemoveElement
      <4> QED BY <4>1
    <3>2. g[s \ {c}] = f[x] + g[(s \ {c}) \ {x}]
      BY <1>3, <2>1, <2>4, <3>1
    <3>3. g[s \ {x}] = f[c] + g[(s \ {x}) \ {c}]
      BY <1>3, <2>1, <2>4, <3>1
    <3>4. g[(s \ {c}) \ {x}] = g[(s \ {x}) \ {c}]
      <4>1. (s \ {c}) \ {x} = (s \ {x}) \ {c} OBVIOUS
      <4> QED BY <4>1
    <3>5. f[x] \in Int /\ f[c] \in Int /\ g[(s \ {x}) \ {c}] \in Int
      BY <1>1, <2>1
    <3> QED BY <2>2, <3>2, <3>3, <3>4, <3>5
  <2> QED BY <2>3, <2>4
<1>4. Cardinality(S) \in N
  <2> HIDE DEF N
  <2> QED BY <1>5, <1>2, <1>3, NatSetInduction
<1>6. g[S] = f[y] + g[S \ {y}] BY <1>4
<1> QED BY <1>0, <1>6 DEF SumTable

\* The sum over a set with one more element.
LEMMA SumAdd ==
  ASSUME NEW S, IsFiniteSet(S), NEW f, NEW y, y \notin S, \A x \in S \cup {y} : f[x] \in Int
  PROVE  SumFunctionOnSet(f, S \cup {y}) = f[y] + SumFunctionOnSet(f, S)
<1>1. IsFiniteSet(S \cup {y}) BY FS_AddElement
<1>2. (S \cup {y}) \ {y} = S OBVIOUS
<1>3. SumFunctionOnSet(f, S \cup {y})
        = f[y] + SumFunctionOnSet(f, (S \cup {y}) \ {y})
  BY <1>1, SumRemove
<1> QED BY <1>2, <1>3

\* The sum grows with the values and, where they are not negative, with the set.
LEMMA SumMonotone ==
  ASSUME NEW S, IsFiniteSet(S), NEW T \in SUBSET S, NEW f, NEW g,
         \A x \in T : f[x] \in Int /\ f[x] <= g[x],
         \A x \in S : g[x] \in Nat
  PROVE  SumFunctionOnSet(f, T) <= SumFunctionOnSet(g, S)
<1> DEFINE Q == {U \in SUBSET S : SumFunctionOnSet(f, U \cap T) <= SumFunctionOnSet(g, U)}
<1>1. {} \in Q
  <2>1. {} \cap T = {} OBVIOUS
  <2> QED BY <2>1, SumEmpty
<1>2. ASSUME NEW U \in SUBSET S, NEW x \in S \ U, U \in Q PROVE U \cup {x} \in Q
  <2>1. /\ IsFiniteSet(U) /\ IsFiniteSet(U \cap T)
        /\ \A z \in U \cup {x} : g[z] \in Int
        /\ \A z \in U \cap T : f[z] \in Int
    BY FS_Subset
  <2>2. SumFunctionOnSet(g, U \cup {x}) = g[x] + SumFunctionOnSet(g, U)
    BY <2>1, SumAdd
  <2>3. SumFunctionOnSet(g, U) \in Int /\ SumFunctionOnSet(f, U \cap T) \in Int
    <3>1. \A z \in U : g[z] \in Int BY <2>1
    <3> QED BY <2>1, <3>1, SumType
  <2>4. CASE x \in T
    <3>1. SumFunctionOnSet(f, (U \cup {x}) \cap T) = SumFunctionOnSet(f, (U \cap T) \cup {x})
      <4>1. (U \cup {x}) \cap T = (U \cap T) \cup {x} BY <2>4
      <4> QED BY <4>1
    <3>2. x \notin U \cap T /\ \A z \in (U \cap T) \cup {x} : f[z] \in Int BY <2>4
    <3>3. SumFunctionOnSet(f, (U \cap T) \cup {x}) = f[x] + SumFunctionOnSet(f, U \cap T)
      BY <2>1, <3>2, SumAdd
    <3>4. f[x] \in Int /\ f[x] <= g[x] /\ g[x] \in Int BY <2>4
    <3>5. SumFunctionOnSet(f, U \cap T) <= SumFunctionOnSet(g, U) BY <1>2
    <3>6. SumFunctionOnSet(f, (U \cup {x}) \cap T) <= SumFunctionOnSet(g, U \cup {x})
      BY <2>2, <2>3, <3>1, <3>3, <3>4, <3>5
    <3> QED BY <3>6
  <2>5. CASE x \notin T
    <3>1. SumFunctionOnSet(f, (U \cup {x}) \cap T) = SumFunctionOnSet(f, U \cap T)
      <4>1. (U \cup {x}) \cap T = U \cap T BY <2>5
      <4> QED BY <4>1
    <3>2. g[x] \in Int /\ 0 <= g[x] OBVIOUS
    <3>3. SumFunctionOnSet(f, U \cap T) <= SumFunctionOnSet(g, U) BY <1>2
    <3>4. SumFunctionOnSet(f, (U \cup {x}) \cap T) <= SumFunctionOnSet(g, U \cup {x})
      BY <2>2, <2>3, <3>1, <3>2, <3>3
    <3> QED BY <3>4
  <2> QED BY <2>4, <2>5
<1>3. S \in Q
  <2> HIDE DEF Q
  <2> QED BY <1>1, <1>2, FiniteSetInduction
<1>4. S \cap T = T OBVIOUS
<1> QED BY <1>3, <1>4
\* Terms that all appear, each at a place of its own, among others that are not
\* negative add up to no more than those.
LEMMA SumInjected ==
  ASSUME NEW S, IsFiniteSet(S), NEW T, IsFiniteSet(T), NEW f, NEW g,
         NEW h \in [S -> T], \A x, y \in S : h[x] = h[y] => x = y,
         \A x \in S : f[x] = g[h[x]], \A y \in T : g[y] \in Nat
  PROVE  SumFunctionOnSet(f, S) <= SumFunctionOnSet(g, T)
<1> DEFINE Image(U) == {h[x] : x \in U}
           Q == {U \in SUBSET S : /\ SumFunctionOnSet(f, U) = SumFunctionOnSet(g, Image(U))
                                  /\ IsFiniteSet(Image(U))}
<1>1. {} \in Q
  <2>1. Image({}) = {} OBVIOUS
  <2> QED BY <2>1, SumEmpty, FS_EmptySet
<1>2. ASSUME NEW U \in SUBSET S, NEW x \in S \ U, U \in Q PROVE U \cup {x} \in Q
  <2>1. Image(U \cup {x}) = Image(U) \cup {h[x]} /\ h[x] \notin Image(U)
    OBVIOUS
  <2>2. /\ IsFiniteSet(Image(U)) /\ SumFunctionOnSet(f, U) = SumFunctionOnSet(g, Image(U))
        /\ \A y \in Image(U) \cup {h[x]} : g[y] \in Int
        /\ \A y \in U \cup {x} : f[y] \in Int
    BY <1>2
  <2>3. IsFiniteSet(U) /\ IsFiniteSet(Image(U) \cup {h[x]})
    BY <2>2, FS_Subset, FS_AddElement
  <2> DEFINE V == Image(U)  y == h[x]
  <2>4. SumFunctionOnSet(f, U \cup {x}) = f[x] + SumFunctionOnSet(f, U)
    BY <2>2, <2>3, SumAdd
  <2>5. SumFunctionOnSet(g, V \cup {y}) = g[y] + SumFunctionOnSet(g, V)
    <3>1. IsFiniteSet(V) /\ y \notin V /\ \A z \in V \cup {y} : g[z] \in Int
      BY <2>1, <2>2
    <3> HIDE DEF V, y
    <3> QED BY <3>1, SumAdd
  <2>6. f[x] = g[y] OBVIOUS
  <2>7. V \cup {y} = Image(U \cup {x}) BY <2>1
  <2>8. SumFunctionOnSet(f, U) = SumFunctionOnSet(g, V) /\ IsFiniteSet(V \cup {y})
    BY <2>2, <2>3
  <2> HIDE DEF V, y, Image
  <2>9. SumFunctionOnSet(f, U \cup {x}) = SumFunctionOnSet(g, Image(U \cup {x}))
    BY <2>4, <2>5, <2>6, <2>7, <2>8
  <2>10. IsFiniteSet(Image(U \cup {x})) BY <2>7, <2>8
  <2> QED BY <2>9, <2>10
<1>3. S \in Q
  <2> HIDE DEF Q
  <2> QED BY <1>1, <1>2, FiniteSetInduction
<1>4. Image(S) \in SUBSET T /\ \A y \in Image(S) : g[y] \in Int /\ g[y] <= g[y]
  OBVIOUS
<1>5. SumFunctionOnSet(f, S) = SumFunctionOnSet(g, Image(S))
  BY <1>3
<1> HIDE DEF Image
<1>6. SumFunctionOnSet(g, Image(S)) <= SumFunctionOnSet(g, T)
  BY <1>4, SumMonotone
<1> QED BY <1>5, <1>6
-----------------------------------------------------------------------------
(* Sequences, and the greatest of some numbers. *)

LEMMA LargestOf ==
  ASSUME NEW n \in Nat, NEW R, R \subseteq 0..n, R # {}
  PROVE  \E i \in R : \A j \in R : j <= i
<1> DEFINE B == {b \in Nat : \A j \in R : j <= b}
<1>1. n \in B
  OBVIOUS
<1> HIDE DEF B
<1>2. PICK b \in B : \A c \in B : b <= c
  <2>1. B \in SUBSET Nat /\ B # {} BY <1>1 DEF B
  <2> QED BY <2>1, LeastNat
<1>3. b \in Nat /\ \A j \in R : j \in Nat /\ j <= b
  BY <1>2 DEF B
<1>4. b \in R
  <2> SUFFICES ASSUME b \notin R PROVE FALSE
    OBVIOUS
  <2>1. PICK x : x \in R
    OBVIOUS
  <2>2. \A j \in R : j <= b - 1 /\ b - 1 \in Nat
    BY <1>3
  <2>3. b - 1 \in B
    BY <2>1, <2>2 DEF B
  <2> QED BY <1>2, <1>3, <2>3
<1> QED BY <1>3, <1>4

\* A set taken in some order is a sequence that has each element once.
LEMMA SetToSeqSays ==
  ASSUME NEW S, IsFiniteSet(S)
  PROVE  /\ SetToSeq(S) \in Seq(S)
         /\ \A i, j \in DOMAIN SetToSeq(S) : SetToSeq(S)[i] = SetToSeq(S)[j] => i = j
         /\ \A x \in S : \E i \in DOMAIN SetToSeq(S) : SetToSeq(S)[i] = x
<1> DEFINE n == Cardinality(S)  D == 1..n  q == SetToSeq(S)
<1>1. n \in Nat /\ ExistsBijection(D, S)
  BY FS_CardinalityType
<1>2. PICK b \in Bijection(D, S) : TRUE
  BY <1>1 DEF ExistsBijection
<1>3. b \in [D -> S] /\ IsInjective(b)
  BY <1>2 DEF Bijection, Injection, IsInjective
<1>4. q \in [D -> S] /\ IsInjective(q)
  BY <1>3 DEF SetToSeq
<1> HIDE DEF q
<1>5. q \in Injection(D, S)
  BY <1>4 DEF Injection, IsInjective
<1>6. IsFiniteSet(D) /\ Cardinality(D) = n
  BY <1>1, FS_Interval
<1>7. q \in Surjection(D, S)
  BY <1>5, <1>6, FS_Injection
<1>8. q \in Seq(S)
  BY <1>1, <1>4
<1>9. DOMAIN q = D /\ \A i, j \in D : q[i] = q[j] => i = j
  BY <1>4 DEF IsInjective
<1>10. \A x \in S : \E i \in D : q[i] = x
  BY <1>7 DEF Surjection
<1> QED BY <1>8, <1>9, <1>10 DEF q

LEMMA Concatenated ==
  ASSUME NEW S, NEW a \in Seq(S), NEW b \in Seq(S)
  PROVE  /\ a \o b \in Seq(S) /\ DOMAIN (a \o b) = 1..(Len(a) + Len(b))
         /\ \A i \in DOMAIN (a \o b) :
              (i \in DOMAIN a /\ (a \o b)[i] = a[i])
              \/ (i - Len(a) \in DOMAIN b /\ i > Len(a) /\ (a \o b)[i] = b[i - Len(a)])
         /\ \A i \in DOMAIN a : i \in DOMAIN (a \o b) /\ (a \o b)[i] = a[i]
         /\ \A i \in DOMAIN b : i + Len(a) \in DOMAIN (a \o b) /\ (a \o b)[i + Len(a)] = b[i]
OBVIOUS
=============================================================================
