-------------------------------- MODULE Sums --------------------------------
(***************************************************************************)
(* Sums over finite sets: the folds of the models, whose order nothing     *)
(* fixes, and what they add up to, by the least set that would be an       *)
(* exception.                                                              *)
(***************************************************************************)
EXTENDS Integers, FiniteSets, FiniteSetsExt, Functions, FiniteSetTheorems, WellFoundedInduction,
        TLAPS

-----------------------------------------------------------------------------
\* Natural numbers are well-founded.
LEMMA LeastElement ==
    ASSUME NEW S \in SUBSET Nat, S # {}
    PROVE  \E d \in S : \A e \in S : d <= e
<1>1. PICK d \in S : \A e \in S : ~ (<<e, d>> \in OpToRel(<, Nat))
  BY NatLessThanWellFounded, WFMin, Zenon
<1>2. \A e \in S : ~ (e < d)
  BY <1>1 DEF OpToRel
<1> QED
  BY <1>2, SMT

\* Among finite sets one is of the least size.
LEMMA SmallestMember ==
    ASSUME NEW S, S # {}, \A K \in S : IsFiniteSet(K)
    PROVE  \E K \in S : \A L \in S : Cardinality(K) <= Cardinality(L)
<1> DEFINE sizes == {Cardinality(K) : K \in S}
<1>1. sizes \in SUBSET Nat /\ sizes # {}
  BY FS_CardinalityType
<1>2. PICK d \in sizes : \A e \in sizes : d <= e
  <2> HIDE DEF sizes
  <2> QED
    BY <1>1, LeastElement
<1> QED
  BY <1>2

\* A set with an element less is smaller.
LEMMA OneFewer ==
    ASSUME NEW S, IsFiniteSet(S), NEW x \in S
    PROVE  ~ (Cardinality(S) <= Cardinality(S \ {x}))
<1>1. Cardinality(S) \in Nat
  BY FS_CardinalityType
<1>2. Cardinality(S \ {x}) = Cardinality(S) - 1
  BY FS_RemoveElement
<1> QED
  BY <1>1, <1>2

\* The element a fold takes first.
Some(s) == CHOOSE x \in s : TRUE

\* g is the sum of f over every subset of S, one element after the other.
IsSums(g, f, S) ==
    g = [s \in SUBSET S |-> IF s = {} THEN 0 ELSE f[Some(s)] + g[s \ {Some(s)}]]

\* The sum of f over S.
Sum(f, S) == (CHOOSE g : IsSums(g, f, S))[S]

\* A set that is not empty has an element to take.
LEMMA SomeIsThere == ASSUME NEW S, S # {} PROVE Some(S) \in S
BY DEF Some

\* What sums are, subset by subset.
LEMMA SumsEquation ==
    ASSUME NEW S, NEW f, NEW g, IsSums(g, f, S), NEW s \in SUBSET S
    PROVE  g[s] = IF s = {} THEN 0 ELSE f[Some(s)] + g[s \ {Some(s)}]
BY DEF IsSums

\* Sums depend on nothing but what is summed.
LEMMA SumsAgree ==
    ASSUME NEW S, NEW T, NEW f, NEW e, NEW g, NEW h, IsSums(g, f, S), IsSums(h, e, T),
           NEW s \in SUBSET (S \cap T), IsFiniteSet(s), \A x \in s : f[x] = e[x]
    PROVE  g[s] = h[s]
<1> DEFINE Bad == {t \in SUBSET s : g[t] # h[t]}
<1>1. SUFFICES ASSUME Bad # {} PROVE FALSE
  OBVIOUS
<1>2. \A t \in Bad : IsFiniteSet(t)
  BY FS_Subset
<1>3. PICK t \in Bad : \A u \in Bad : Cardinality(t) <= Cardinality(u)
  <2> HIDE DEF Bad
  <2> QED
    BY <1>1, <1>2, SmallestMember
<1>4. t \in SUBSET S /\ t \in SUBSET T /\ g[t] # h[t] /\ t \in SUBSET s /\ IsFiniteSet(t)
  BY <1>2, <1>3
<1>5. /\ g[t] = IF t = {} THEN 0 ELSE f[Some(t)] + g[t \ {Some(t)}]
      /\ h[t] = IF t = {} THEN 0 ELSE e[Some(t)] + h[t \ {Some(t)}]
  BY <1>4, SumsEquation
<1>6. t # {}
  BY <1>4, <1>5
<1>7. Some(t) \in t
  BY <1>6, SomeIsThere
<1>8. t \ {Some(t)} \in SUBSET s /\ t \ {Some(t)} \notin Bad
  <2> HIDE DEF Bad
  <2> QED
    BY <1>3, <1>4, <1>7, OneFewer
<1> QED
  BY <1>4, <1>5, <1>6, <1>7, <1>8

\* Over a finite set they exist: those of a least exception are those of one
\* element less, and one more.
LEMMA SumsExist ==
    ASSUME NEW S, IsFiniteSet(S), NEW f
    PROVE  \E g : IsSums(g, f, S)
<1> DEFINE Bad == {t \in SUBSET S : ~ \E g : IsSums(g, f, t)}
<1>1. SUFFICES ASSUME Bad # {} PROVE FALSE
  OBVIOUS
<1>2. \A t \in Bad : IsFiniteSet(t)
  BY FS_Subset
<1>3. PICK t \in Bad : \A u \in Bad : Cardinality(t) <= Cardinality(u)
  <2> HIDE DEF Bad
  <2> QED
    BY <1>1, <1>2, SmallestMember
<1>4. t \in SUBSET S /\ IsFiniteSet(t) /\ ~ \E g : IsSums(g, f, t)
  BY <1>2, <1>3
<1> DEFINE G(u) == CHOOSE g : IsSums(g, f, u)
           all == [s \in SUBSET t |->
                     IF s = {} THEN 0 ELSE f[Some(s)] + G(s \ {Some(s)})[s \ {Some(s)}]]
<1>5. ASSUME NEW u \in SUBSET t, u # t
      PROVE  IsSums(G(u), f, u)
  <2>1. \E x \in t : u \in SUBSET (t \ {x})
    BY <1>5
  <2>2. PICK x \in t : u \in SUBSET (t \ {x})
    BY <2>1
  <2>3. Cardinality(u) <= Cardinality(t \ {x}) /\ Cardinality(u) \in Nat
        /\ Cardinality(t) \in Nat /\ Cardinality(t \ {x}) \in Nat
    BY <1>4, <2>2, FS_Subset, FS_RemoveElement, FS_CardinalityType
  <2>4. ~ (Cardinality(t) <= Cardinality(u))
    BY <1>4, <2>3, OneFewer
  <2>5. u \notin Bad
    <3> HIDE DEF Bad
    <3> QED
      BY <1>3, <2>4
  <2> QED
    BY <1>4, <2>5
<1>6. \A s \in SUBSET t : s # {} =>
          LET r == s \ {Some(s)} IN r \in SUBSET t /\ r # t /\ IsFiniteSet(r) /\ IsSums(G(r), f, r)
  <2> SUFFICES ASSUME NEW s \in SUBSET t, s # {}
               PROVE  LET r == s \ {Some(s)}
                      IN  r \in SUBSET t /\ r # t /\ IsFiniteSet(r) /\ IsSums(G(r), f, r)
    OBVIOUS
  <2>1. Some(s) \in s
    BY SomeIsThere
  <2>2. s \ {Some(s)} \in SUBSET t /\ s \ {Some(s)} # t
    BY <2>1
  <2> HIDE DEF G
  <2> QED
    BY <1>4, <1>5, <2>2, FS_Subset
<1> HIDE DEF G
<1>7. \A s \in SUBSET t : all[s] = IF s = {} THEN 0 ELSE f[Some(s)] + all[s \ {Some(s)}]
  <2> SUFFICES ASSUME NEW s \in SUBSET t, s # {}
               PROVE  all[s] = f[Some(s)] + all[s \ {Some(s)}]
    OBVIOUS
  <2> DEFINE r == s \ {Some(s)}
             q == r \ {Some(r)}
  <2>1. r \in SUBSET t /\ IsFiniteSet(r) /\ IsSums(G(r), f, r)
    BY <1>6
  <2>2. all[s] = f[Some(s)] + G(r)[r]
    OBVIOUS
  <2>3. all[r] = IF r = {} THEN 0 ELSE f[Some(r)] + G(q)[q]
    BY <2>1
  <2>4. G(r)[r] = IF r = {} THEN 0 ELSE f[Some(r)] + G(r)[q]
    <3> HIDE DEF r
    <3> QED
      BY <2>1, SumsEquation
  <2>5. r # {} => G(r)[q] = G(q)[q]
    <3>1. r # {} => q \in SUBSET t /\ IsFiniteSet(q) /\ IsSums(G(q), f, q)
      <4> HIDE DEF r
      <4> QED
        BY <1>6, <2>1
    <3>2. q \in SUBSET (r \cap q)
      OBVIOUS
    <3> HIDE DEF r, q
    <3> QED
      BY <2>1, <3>1, <3>2, SumsAgree
  <2> HIDE DEF all, q
  <2> QED
    BY <2>2, <2>3, <2>4, <2>5
<1>8. IsSums(all, f, t)
  <2>1. all = [s \in SUBSET t |-> all[s]]
    OBVIOUS
  <2> HIDE DEF all
  <2> QED
    BY <2>1, <1>7 DEF IsSums
<1> QED
  BY <1>4, <1>8

\* So the choice of Sum is one of sums.
LEMMA SumsAreSums ==
    ASSUME NEW S, IsFiniteSet(S), NEW f
    PROVE  IsSums(CHOOSE g : IsSums(g, f, S), f, S)
BY SumsExist

\* The sum of nothing, and of one element and the rest.
LEMMA SumEquation ==
    ASSUME NEW S, IsFiniteSet(S), NEW f
    PROVE  Sum(f, S) = IF S = {} THEN 0 ELSE f[Some(S)] + Sum(f, S \ {Some(S)})
<1> DEFINE g == CHOOSE g : IsSums(g, f, S)
           T == S \ {Some(S)}
           h == CHOOSE h : IsSums(h, f, T)
<1>1. IsFiniteSet(T)
  BY FS_Subset
<1>2. IsSums(g, f, S) /\ IsSums(h, f, T)
  BY <1>1, SumsExist
<1>3. Sum(f, S) = g[S] /\ Sum(f, T) = h[T]
  BY DEF Sum
<1>4. T \in SUBSET (S \cap T) /\ S \in SUBSET S
  OBVIOUS
<1> HIDE DEF g, h
<1>5. g[S] = IF S = {} THEN 0 ELSE f[Some(S)] + g[T]
  BY <1>2, <1>4, SumsEquation
<1> HIDE DEF T
<1>6. g[T] = h[T]
  BY <1>1, <1>2, <1>4, SumsAgree
<1> USE DEF T
<1> QED
  BY <1>3, <1>5, <1>6

\* A sum depends on what is summed only.
LEMMA SumIsLocal ==
    ASSUME NEW S, IsFiniteSet(S), NEW f, NEW e, \A x \in S : f[x] = e[x]
    PROVE  Sum(f, S) = Sum(e, S)
<1> DEFINE g == CHOOSE g : IsSums(g, f, S)
           h == CHOOSE h : IsSums(h, e, S)
<1>1. IsSums(g, f, S) /\ IsSums(h, e, S)
  BY SumsExist
<1>2. Sum(f, S) = g[S] /\ Sum(e, S) = h[S]
  BY DEF Sum
<1> HIDE DEF g, h
<1> QED
  BY <1>1, <1>2, SumsAgree

\* A sum of natural numbers is one.
LEMMA SumIsNatural ==
    ASSUME NEW S, IsFiniteSet(S), NEW f, \A x \in S : f[x] \in Nat
    PROVE  Sum(f, S) \in Nat
<1> DEFINE Bad == {t \in SUBSET S : Sum(f, t) \notin Nat}
<1>1. SUFFICES ASSUME Bad # {} PROVE FALSE
  OBVIOUS
<1>2. \A t \in Bad : IsFiniteSet(t)
  BY FS_Subset
<1>3. PICK t \in Bad : \A u \in Bad : Cardinality(t) <= Cardinality(u)
  <2> HIDE DEF Bad
  <2> QED
    BY <1>1, <1>2, SmallestMember
<1>4. t \in SUBSET S /\ IsFiniteSet(t) /\ Sum(f, t) \notin Nat
  BY <1>2, <1>3
<1>5. Sum(f, t) = IF t = {} THEN 0 ELSE f[Some(t)] + Sum(f, t \ {Some(t)})
  BY <1>4, SumEquation
<1>6. t # {}
  BY <1>4, <1>5
<1>7. Some(t) \in t
  BY <1>6, SomeIsThere
<1>8. t \ {Some(t)} \in SUBSET S /\ t \ {Some(t)} \notin Bad
  <2> HIDE DEF Bad
  <2> QED
    BY <1>3, <1>4, <1>7, OneFewer
<1> QED
  BY <1>4, <1>5, <1>6, <1>7, <1>8

\* The order does not matter: any element may be taken out.
LEMMA SumTakesOut ==
    ASSUME NEW S, IsFiniteSet(S), NEW f, \A x \in S : f[x] \in Nat, NEW x \in S
    PROVE  Sum(f, S) = f[x] + Sum(f, S \ {x})
<1> DEFINE Bad == {t \in SUBSET S : \E y \in t : Sum(f, t) # f[y] + Sum(f, t \ {y})}
<1>1. SUFFICES ASSUME Bad # {} PROVE FALSE
  OBVIOUS
<1>2. \A t \in Bad : IsFiniteSet(t)
  BY FS_Subset
<1>3. PICK t \in Bad : \A u \in Bad : Cardinality(t) <= Cardinality(u)
  <2> HIDE DEF Bad
  <2> QED
    BY <1>1, <1>2, SmallestMember
<1>4. PICK y \in t : Sum(f, t) # f[y] + Sum(f, t \ {y})
  BY <1>3
<1> DEFINE c == Some(t)
           rest == (t \ {c}) \ {y}
<1>5. t \in SUBSET S /\ IsFiniteSet(t) /\ c \in t
  BY <1>2, <1>3, SomeIsThere
<1>6. Sum(f, t) = f[c] + Sum(f, t \ {c})
  BY <1>4, <1>5, SumEquation
<1>7. c # y
  BY <1>4, <1>6
<1>8. \A z \in t : t \ {z} \in SUBSET S /\ t \ {z} \notin Bad
  <2> HIDE DEF Bad
  <2> QED
    BY <1>3, <1>5, OneFewer
<1> HIDE DEF c
<1>9. Sum(f, t \ {c}) = f[y] + Sum(f, rest)
  BY <1>5, <1>7, <1>8
<1>10. (t \ {y}) \ {c} = rest
  OBVIOUS
<1>11. Sum(f, t \ {y}) = f[c] + Sum(f, rest)
  BY <1>5, <1>7, <1>8, <1>10
<1>12. f[c] \in Nat /\ f[y] \in Nat /\ Sum(f, rest) \in Nat
  <2>1. IsFiniteSet(rest) /\ \A z \in rest : f[z] \in Nat
    BY <1>5, FS_Subset
  <2> HIDE DEF rest
  <2> QED
    BY <1>5, <2>1, SumIsNatural
<1> HIDE DEF rest
<1> QED
  BY <1>4, <1>6, <1>9, <1>11, <1>12

\* Sums of disjoint sets add up.
LEMMA SumOfUnion ==
    ASSUME NEW S, NEW T, IsFiniteSet(S), IsFiniteSet(T), S \cap T = {},
           NEW f, \A x \in S \cup T : f[x] \in Nat
    PROVE  Sum(f, S \cup T) = Sum(f, S) + Sum(f, T)
<1> DEFINE Bad == {t \in SUBSET T : Sum(f, S \cup t) # Sum(f, S) + Sum(f, t)}
<1>1. SUFFICES ASSUME Bad # {} PROVE FALSE
  OBVIOUS
<1>2. \A t \in Bad : IsFiniteSet(t)
  BY FS_Subset
<1>3. PICK t \in Bad : \A u \in Bad : Cardinality(t) <= Cardinality(u)
  <2> HIDE DEF Bad
  <2> QED
    BY <1>1, <1>2, SmallestMember
<1>4. /\ t \in SUBSET T /\ IsFiniteSet(t) /\ Sum(f, S \cup t) # Sum(f, S) + Sum(f, t)
      /\ Sum(f, S) \in Nat
  BY <1>2, <1>3, SumIsNatural
<1>5. t # {}
  <2>1. S \cup {} = S /\ Sum(f, {}) = 0
    BY FS_EmptySet, SumEquation
  <2> QED
    BY <1>4, <2>1
<1>6. PICK x : x \in t
  BY <1>5
<1>7. t \ {x} \in SUBSET T /\ t \ {x} \notin Bad /\ IsFiniteSet(t \ {x})
  <2> HIDE DEF Bad
  <2> QED
    BY <1>3, <1>4, <1>6, OneFewer, FS_Subset
<1>8. Sum(f, S \cup (t \ {x})) = Sum(f, S) + Sum(f, t \ {x})
  BY <1>7
<1>9. (S \cup t) \ {x} = S \cup (t \ {x}) /\ IsFiniteSet(S \cup t)
  BY <1>4, <1>6, FS_Union
<1>10. Sum(f, S \cup t) = f[x] + Sum(f, S \cup (t \ {x}))
  BY <1>4, <1>6, <1>9, SumTakesOut
<1>11. Sum(f, t) = f[x] + Sum(f, t \ {x})
  BY <1>4, <1>6, SumTakesOut
<1>12. Sum(f, t \ {x}) \in Nat /\ f[x] \in Nat
  BY <1>4, <1>6, <1>7, SumIsNatural
<1> QED
  BY <1>4, <1>8, <1>10, <1>11, <1>12

\* The elements of S that belong to a.
PartOf(S, part, a) == {x \in S : part[x] = a}

\* So do the sums of the parts of a set.
LEMMA SumOfParts ==
    ASSUME NEW S, IsFiniteSet(S), NEW A, IsFiniteSet(A), NEW part \in [S -> A],
           NEW f, \A x \in S : f[x] \in Nat,
           NEW h, \A a \in A : h[a] = Sum(f, PartOf(S, part, a))
    PROVE  Sum(h, A) = Sum(f, S)
<1> DEFINE Of(B) == {x \in S : part[x] \in B}
           Bad == {B \in SUBSET A : Sum(h, B) # Sum(f, Of(B))}
<1>1. SUFFICES ASSUME Bad # {} PROVE FALSE
  <2>1. Of(A) = S
    OBVIOUS
  <2> QED
    BY <1>1, <2>1
<1>2. \A B \in Bad : IsFiniteSet(B)
  BY FS_Subset
<1>3. PICK B \in Bad : \A C \in Bad : Cardinality(B) <= Cardinality(C)
  <2> HIDE DEF Bad
  <2> QED
    BY <1>1, <1>2, SmallestMember
<1>4. B \in SUBSET A /\ IsFiniteSet(B) /\ Sum(h, B) # Sum(f, Of(B))
  BY <1>2, <1>3
<1>5. B # {}
  <2>1. Of({}) = {} /\ Sum(f, {}) = 0 /\ Sum(h, {}) = 0
    BY FS_EmptySet, SumEquation
  <2> QED
    BY <1>4, <2>1
<1>6. PICK a : a \in B
  BY <1>5
<1> DEFINE C == B \ {a}
           Here == PartOf(S, part, a)
<1>7. C \in SUBSET A /\ C \notin Bad
  <2> HIDE DEF Bad
  <2> QED
    BY <1>3, <1>4, <1>6, OneFewer
<1>8. Sum(h, C) = Sum(f, Of(C))
  BY <1>7
<1>9. /\ Of(B) = Of(C) \cup Here /\ Of(C) \cap Here = {}
      /\ IsFiniteSet(Of(C)) /\ IsFiniteSet(Here)
      /\ \A x \in Of(C) \cup Here : f[x] \in Nat
  <2>1. Of(C) \in SUBSET S /\ Here \in SUBSET S
    BY DEF PartOf
  <2>2. IsFiniteSet(Of(C)) /\ IsFiniteSet(Here)
    BY <2>1, FS_Subset
  <2> QED
    BY <1>6, <2>1, <2>2 DEF PartOf
<1>10. Sum(f, Of(B)) = Sum(f, Of(C)) + Sum(f, Here)
  <2> HIDE DEF Of, Here, C
  <2> QED
    BY <1>9, SumOfUnion
<1>11. \A b \in B : h[b] \in Nat
  <2> SUFFICES ASSUME NEW b \in B PROVE h[b] \in Nat
    OBVIOUS
  <2>1. PartOf(S, part, b) \in SUBSET S /\ IsFiniteSet(PartOf(S, part, b))
    BY FS_Subset DEF PartOf
  <2>2. h[b] = Sum(f, PartOf(S, part, b))
    BY <1>4
  <2> QED
    BY <2>1, <2>2, SumIsNatural
<1>12. Sum(h, B) = h[a] + Sum(h, C)
  BY <1>4, <1>6, <1>11, SumTakesOut
<1>13. h[a] = Sum(f, Here)
  BY <1>4, <1>6
<1>14. Sum(f, Of(C)) \in Nat /\ Sum(f, Here) \in Nat
  <2> HIDE DEF Of, Here, C
  <2> QED
    BY <1>9, SumIsNatural
<1> HIDE DEF Of, Here, C
<1> QED
  BY <1>4, <1>8, <1>10, <1>12, <1>13, <1>14

\* Nothing adds up to nothing.
LEMMA SumOfZeros ==
    ASSUME NEW A, IsFiniteSet(A), NEW h, \A a \in A : h[a] = 0
    PROVE  Sum(h, A) = 0
<1> DEFINE empty == {}
           part == [x \in empty |-> x]
           none == [x \in empty |-> 0]
<1>1. IsFiniteSet(empty) /\ Sum(none, empty) = 0
  BY FS_EmptySet, SumEquation
<1>2. part \in [empty -> A] /\ \A x \in empty : none[x] \in Nat
  OBVIOUS
<1>3. \A a \in A : PartOf(empty, part, a) = empty
  BY DEF PartOf
<1> HIDE DEF part, none, empty
<1>4. \A a \in A : h[a] = Sum(none, PartOf(empty, part, a))
  BY <1>1, <1>3
<1>5. Sum(h, A) = Sum(none, empty)
  BY <1>1, <1>2, <1>4, SumOfParts
<1> QED
  BY <1>1, <1>5

\* A nonempty finite set of integers has a greatest element.
LEMMA GreatestElement ==
    ASSUME NEW S \in SUBSET Int, IsFiniteSet(S), S # {}
    PROVE  Max(S) \in S /\ \A x \in S : x <= Max(S)
<1> DEFINE Bad == {T \in SUBSET S : T # {} /\ ~ \E m \in T : \A x \in T : x <= m}
<1>1. Bad = {}
  <2>1. SUFFICES ASSUME Bad # {} PROVE FALSE
    OBVIOUS
  <2>2. \A T \in Bad : IsFiniteSet(T)
    BY FS_Subset
  <2>3. PICK T \in Bad : \A u \in Bad : Cardinality(T) <= Cardinality(u)
    <3> HIDE DEF Bad
    <3> QED
      BY <2>1, <2>2, SmallestMember
  <2>4. T \in SUBSET S /\ T # {} /\ IsFiniteSet(T) /\ ~ \E m \in T : \A x \in T : x <= m
    BY <2>2, <2>3
  <2>5. PICK y \in T : TRUE
    BY <2>4
  <2>6. T \ {y} \in SUBSET S /\ T \ {y} \notin Bad
    <3> HIDE DEF Bad
    <3> QED
      BY <2>3, <2>4, OneFewer
  <2>7. T \ {y} = {} \/ \E m \in T \ {y} : \A x \in T \ {y} : x <= m
    BY <2>6
  <2>8. \A x \in T : x \in Int
    BY <2>4
  <2>9. CASE T \ {y} = {}
    BY <2>4, <2>8, <2>9
  <2>10. CASE \E m \in T \ {y} : \A x \in T \ {y} : x <= m
    BY <2>4, <2>8, <2>10
  <2> QED
    BY <2>7, <2>9, <2>10
<1>2. \E m \in S : \A x \in S : m >= x
  BY <1>1
<1> QED
  BY <1>2 DEF Max

\* So has a set of natural numbers.
LEMMA MaxIsGreatest ==
    ASSUME NEW S \in SUBSET Nat, IsFiniteSet(S), S # {}
    PROVE  Max(S) \in S /\ \A x \in S : x <= Max(S)
<1>1. S \in SUBSET Int
  OBVIOUS
<1> QED
  BY <1>1, GreatestElement

\* The greater of two numbers.
LEMMA GreaterOfTwo ==
    ASSUME NEW a \in Int, NEW b \in Int
    PROVE  Max({a, b}) = IF a >= b THEN a ELSE b
<1> DEFINE S == {a, b}
<1>1. S \in SUBSET Int /\ S # {} /\ IsFiniteSet(S)
  <2>1. IsFiniteSet({a}) /\ IsFiniteSet({b}) /\ S = {a} \cup {b}
    BY FS_Singleton
  <2> HIDE DEF S
  <2>2. IsFiniteSet(S)
    BY <2>1, FS_Union
  <2> QED
    BY <2>2 DEF S
<1>2. Max(S) \in S /\ \A x \in S : x <= Max(S)
  <2> HIDE DEF S
  <2> QED
    BY <1>1, GreatestElement
<1> QED
  BY <1>2

\* What a function takes a finite set to is finite.
LEMMA ImageIsFinite ==
    ASSUME NEW S, IsFiniteSet(S), NEW f
    PROVE  IsFiniteSet({f[x] : x \in S})
<1> DEFINE T == {f[x] : x \in S}
           g == [x \in S |-> f[x]]
<1>1. g \in Surjection(S, T)
  BY DEF Surjection
<1> QED
  BY <1>1, FS_Surjection

\* The sum of a sum, term by term.
LEMMA SumOfTerms ==
    ASSUME NEW S, IsFiniteSet(S), NEW f, NEW g, NEW h,
           \A x \in S : g[x] \in Nat /\ h[x] \in Nat /\ f[x] = g[x] + h[x]
    PROVE  Sum(f, S) = Sum(g, S) + Sum(h, S)
<1> DEFINE Bad == {t \in SUBSET S : Sum(f, t) # Sum(g, t) + Sum(h, t)}
<1>1. SUFFICES ASSUME Bad # {} PROVE FALSE
  OBVIOUS
<1>2. \A t \in Bad : IsFiniteSet(t)
  BY FS_Subset
<1>3. PICK t \in Bad : \A u \in Bad : Cardinality(t) <= Cardinality(u)
  <2> HIDE DEF Bad
  <2> QED
    BY <1>1, <1>2, SmallestMember
<1>4. t \in SUBSET S /\ IsFiniteSet(t) /\ Sum(f, t) # Sum(g, t) + Sum(h, t)
  BY <1>2, <1>3
<1> DEFINE r == t \ {Some(t)}
<1>5. /\ Sum(f, t) = IF t = {} THEN 0 ELSE f[Some(t)] + Sum(f, r)
      /\ Sum(g, t) = IF t = {} THEN 0 ELSE g[Some(t)] + Sum(g, r)
      /\ Sum(h, t) = IF t = {} THEN 0 ELSE h[Some(t)] + Sum(h, r)
  BY <1>4, SumEquation
<1>6. t # {}
  BY <1>4, <1>5
<1>7. Some(t) \in t
  BY <1>6, SomeIsThere
<1>8. r \in SUBSET S /\ r \notin Bad /\ IsFiniteSet(r)
  <2> HIDE DEF Bad
  <2> QED
    BY <1>3, <1>4, <1>7, OneFewer, FS_Subset
<1>9. Sum(g, r) \in Nat /\ Sum(h, r) \in Nat
  <2> HIDE DEF r
  <2> QED
    BY <1>8, SumIsNatural
<1>10. Sum(f, r) = Sum(g, r) + Sum(h, r)
  BY <1>8
<1> HIDE DEF r
<1> QED
  BY <1>4, <1>5, <1>6, <1>7, <1>9, <1>10

\* A sum of no greater terms is no greater.
LEMMA SumIsMonotone ==
    ASSUME NEW S, IsFiniteSet(S), NEW f, NEW g,
           \A x \in S : f[x] \in Nat /\ g[x] \in Nat /\ f[x] <= g[x]
    PROVE  Sum(f, S) <= Sum(g, S)
<1> DEFINE h == [x \in S |-> g[x] - f[x]]
<1>1. \A x \in S : h[x] \in Nat /\ g[x] = f[x] + h[x]
  OBVIOUS
<1> HIDE DEF h
<1>2. Sum(g, S) = Sum(f, S) + Sum(h, S)
  BY <1>1, SumOfTerms
<1>3. Sum(f, S) \in Nat /\ Sum(h, S) \in Nat
  BY <1>1, SumIsNatural
<1> QED
  BY <1>2, <1>3

\* A term of one for every member counts the members.
LEMMA SumCounts ==
    ASSUME NEW S, IsFiniteSet(S), NEW f, NEW R \in SUBSET S,
           \A x \in S : f[x] = IF x \in R THEN 1 ELSE 0
    PROVE  Sum(f, S) = Cardinality(R)
<1> DEFINE Bad == {t \in SUBSET S : Sum(f, t) # Cardinality(R \cap t)}
<1>1. SUFFICES ASSUME Bad # {} PROVE FALSE
  <2>1. R \cap S = R
    OBVIOUS
  <2> QED
    BY <1>1, <2>1
<1>2. \A t \in Bad : IsFiniteSet(t)
  BY FS_Subset
<1>3. PICK t \in Bad : \A u \in Bad : Cardinality(t) <= Cardinality(u)
  <2> HIDE DEF Bad
  <2> QED
    BY <1>1, <1>2, SmallestMember
<1>4. t \in SUBSET S /\ IsFiniteSet(t) /\ Sum(f, t) # Cardinality(R \cap t)
  BY <1>2, <1>3
<1> DEFINE x == Some(t)
           r == t \ {x}
<1>5. Sum(f, t) = IF t = {} THEN 0 ELSE f[x] + Sum(f, r)
  BY <1>4, SumEquation
<1>6. t # {}
  <2>1. t = {} => R \cap t = {}
    OBVIOUS
  <2> QED
    BY <1>4, <1>5, <2>1, FS_EmptySet
<1>7. x \in t
  BY <1>6, SomeIsThere
<1> HIDE DEF x
<1>8. r \in SUBSET S /\ r \notin Bad
  <2> HIDE DEF Bad
  <2> QED
    BY <1>3, <1>4, <1>7, OneFewer
<1>9. Sum(f, r) = Cardinality(R \cap r)
  BY <1>8
<1>10. IsFiniteSet(R \cap t) /\ Cardinality(R \cap t) \in Nat
  BY <1>4, FS_Intersection, FS_CardinalityType
<1>11. x \in R => R \cap r = (R \cap t) \ {x}
  OBVIOUS
<1>12. x \notin R => R \cap r = R \cap t
  OBVIOUS
<1>13. x \in R => Cardinality(R \cap r) = Cardinality(R \cap t) - 1
  <2> SUFFICES ASSUME x \in R PROVE Cardinality(R \cap r) = Cardinality(R \cap t) - 1
    OBVIOUS
  <2>1. x \in R \cap t
    BY <1>7
  <2> HIDE DEF x, r
  <2>2. Cardinality((R \cap t) \ {x}) = Cardinality(R \cap t) - 1
    BY <1>10, <2>1, FS_RemoveElement
  <2> QED
    BY <1>11, <2>2
<1>14. f[x] = IF x \in R THEN 1 ELSE 0
  BY <1>4, <1>7
<1> HIDE DEF r
<1> QED
  BY <1>4, <1>5, <1>6, <1>9, <1>10, <1>12, <1>13, <1>14

\* A sum with no greater terms than two others has no greater value.
LEMMA SumAtMost ==
    ASSUME NEW S, IsFiniteSet(S), NEW f, NEW g, NEW h,
           \A x \in S : f[x] \in Nat /\ g[x] \in Nat /\ h[x] \in Nat /\ f[x] <= g[x] + h[x]
    PROVE  Sum(f, S) <= Sum(g, S) + Sum(h, S)
<1> DEFINE e == [x \in S |-> g[x] + h[x]]
<1>1. \A x \in S : e[x] = g[x] + h[x] /\ e[x] \in Nat /\ f[x] <= e[x]
  OBVIOUS
<1> HIDE DEF e
<1>2. Sum(e, S) = Sum(g, S) + Sum(h, S)
  BY <1>1, SumOfTerms
<1>3. Sum(f, S) <= Sum(e, S)
  BY <1>1, SumIsMonotone
<1> QED
  BY <1>2, <1>3

\* Some of the terms add up to no more than all of them.
LEMMA SumOfSome ==
    ASSUME NEW S, IsFiniteSet(S), NEW T \in SUBSET S, NEW f, \A x \in S : f[x] \in Nat
    PROVE  Sum(f, T) <= Sum(f, S)
<1> DEFINE R == S \ T
<1>1. IsFiniteSet(T) /\ IsFiniteSet(R) /\ T \cap R = {} /\ T \cup R = S
  BY FS_Subset, FS_Difference
<1>2. \A x \in T \cup R : f[x] \in Nat
  OBVIOUS
<1>3. \A x \in T : f[x] \in Nat
  OBVIOUS
<1>4. \A x \in R : f[x] \in Nat
  OBVIOUS
<1> HIDE DEF R
<1>5. Sum(f, S) = Sum(f, T) + Sum(f, R)
  <2>1. Sum(f, T \cup R) = Sum(f, T) + Sum(f, R)
    BY <1>1, <1>2, SumOfUnion
  <2> QED
    BY <1>1, <2>1
<1>6. Sum(f, T) \in Nat /\ Sum(f, R) \in Nat
  BY <1>1, <1>3, <1>4, SumIsNatural
<1> QED
  BY <1>5, <1>6

\* The sum of one term.
LEMMA SumOfOne ==
    ASSUME NEW f, NEW x, f[x] \in Nat
    PROVE  Sum(f, {x}) = f[x]
<1>1. IsFiniteSet({x}) /\ {x} \ {x} = {} /\ {x} # {} /\ IsFiniteSet({})
  BY FS_Singleton, FS_EmptySet
<1>2. Some({x}) = x
  <2>1. Some({x}) \in {x}
    BY SomeIsThere
  <2> QED
    BY <2>1
<1>3. Sum(f, {}) = 0
  BY <1>1, SumEquation
<1>4. Sum(f, {x}) = f[x] + Sum(f, {})
  BY <1>1, <1>2, SumEquation
<1> QED
  BY <1>3, <1>4

\* Terms may be told by what a function takes them to, if it tells them apart.
LEMMA SumOfImage ==
    ASSUME NEW S, IsFiniteSet(S), NEW F, \A x, y \in S : F[x] = F[y] => x = y,
           NEW f, \A x \in S : f[x] \in Nat, NEW h, \A x \in S : h[F[x]] = f[x]
    PROVE  Sum(h, {F[x] : x \in S}) = Sum(f, S)
<1> DEFINE T == {F[x] : x \in S}
           part == [x \in S |-> F[x]]
<1>1. IsFiniteSet(T)
  BY ImageIsFinite
<1>2. part \in [S -> T]
  OBVIOUS
<1>3. ASSUME NEW y \in T PROVE h[y] = Sum(f, PartOf(S, part, y))
  <2>1. PICK x \in S : y = F[x]
    BY <1>3
  <2>2. PartOf(S, part, y) = {x}
    BY <2>1 DEF PartOf
  <2>3. f[x] \in Nat /\ h[y] = f[x]
    BY <2>1
  <2> HIDE DEF part
  <2> QED
    BY <2>2, <2>3, SumOfOne
<1> HIDE DEF part, T
<1>4. Sum(h, T) = Sum(f, S)
  BY <1>1, <1>2, <1>3, SumOfParts
<1> QED
  BY <1>4 DEF T

\* The sizes of the parts of a set add up to its size.
LEMMA SizesOfParts ==
    ASSUME NEW S, IsFiniteSet(S), NEW A, IsFiniteSet(A), NEW part \in [S -> A],
           NEW h, \A a \in A : h[a] = Cardinality(PartOf(S, part, a))
    PROVE  Sum(h, A) = Cardinality(S)
<1> DEFINE one == [x \in S |-> 1]
<1>1. \A x \in S : one[x] = 1 /\ one[x] \in Nat
  OBVIOUS
<1> HIDE DEF one
<1>2. ASSUME NEW T \in SUBSET S PROVE Sum(one, T) = Cardinality(T)
  <2>1. IsFiniteSet(T)
    BY FS_Subset
  <2>2. \A x \in T : one[x] = IF x \in T THEN 1 ELSE 0
    BY <1>1
  <2> QED
    BY <2>1, <2>2, SumCounts
<1>3. \A a \in A : h[a] = Sum(one, PartOf(S, part, a))
  BY <1>2 DEF PartOf
<1>4. Sum(h, A) = Sum(one, S)
  BY <1>1, <1>3, SumOfParts
<1> QED
  BY <1>2, <1>4

\* The folds of the community modules are sums.
LEMMA SumFunctionIsSum ==
    ASSUME NEW S, NEW f, f = [x \in S |-> f[x]]
    PROVE  SumFunction(f) = Sum(f, S)
<1> DEFINE IsIter(g) == g = [t \in SUBSET S |->
                               IF t = {} THEN 0
                               ELSE LET x == CHOOSE x \in t : TRUE
                                    IN  f[x] + g[t \ {x}]]
<1>1. DOMAIN f = S
  <2> DEFINE e == [x \in S |-> f[x]]
  <2>1. DOMAIN e = S
    OBVIOUS
  <2> HIDE DEF e
  <2>2. f = e
    BY DEF e
  <2> QED
    BY <2>1, <2>2
<1>2. SumFunction(f) = (CHOOSE g : IsIter(g))[S]
  BY <1>1 DEF SumFunction, SumFunctionOnSet, FoldFunctionOnSet, MapThenFoldSet
<1>3. \A g : IsIter(g) <=> IsSums(g, f, S)
  BY DEF IsSums, Some
<1>4. (CHOOSE g : IsIter(g)) = CHOOSE g : IsSums(g, f, S)
  <2> HIDE DEF IsIter
  <2> QED
    BY <1>3
<1> QED
  BY <1>2, <1>4 DEF Sum
=============================================================================
