--------------------------- MODULE RuntimeProofs ---------------------------
(***************************************************************************)
(* Proofs about what the runtime keeps by the clock.                       *)
(*                                                                         *)
(* CameraContext: the history of a PTZ camera (temporal.py), for every set *)
(* of instants, presets, areas and intervals and for every size of the     *)
(* history: what is kept, and what a context may say.  The inductive       *)
(* invariant relates the history to the reports that have arrived,         *)
(* whatever pruning dropped: the newest of what was kept and of a new      *)
(* report are the newest of all, so that pruning at each report is pruning *)
(* once (NewestOfNewest).  What a context says is found by applying        *)
(* reports in the order of their keys: After is a recursive function over  *)
(* sets of reports, and what it promises goes by the smallest set that     *)
(* would break it.                                                         *)
(*                                                                         *)
(* Expiry: the expiry of evidence, for every set of sources and lifetimes  *)
(* and for handlers of any duration: the snapshot is coherent, no handler  *)
(* leaves without a wake-up, and a refresh settles the snapshot.  The      *)
(* inductive invariant joins the type, the withdrawal of unavailable       *)
(* sources and the coherence of the snapshot.  The first is needed because *)
(* the deadlines of an unavailable source are not looked at; the second    *)
(* because the tests of a refresh compare the evidence with a signature    *)
(* and an instant, not with the snapshot itself.                           *)
(***************************************************************************)
EXTENDS CameraContext, Expiry, FiniteSetTheorems, WellFoundedInduction, TLAPS

-----------------------------------------------------------------------------
(***************************************************************************)
(* Least elements.                                                         *)
(***************************************************************************)

\* A nonempty set of natural numbers has a least element.
LEMMA LeastElement ==
    ASSUME NEW S \in SUBSET Nat, S # {}
    PROVE  \E d \in S : \A e \in S : d <= e
<1>1. PICK d \in S : \A e \in S : ~ (<<e, d>> \in OpToRel(<, Nat))
  BY NatLessThanWellFounded, WFMin, Zenon
<1>2. \A e \in S : ~ (e < d)
  BY <1>1 DEF OpToRel
<1> QED
  BY <1>2, SMT

\* A nonempty set of finite sets has a member with the fewest elements.
LEMMA SmallestMember ==
    ASSUME NEW S, S # {}, \A K \in S : IsFiniteSet(K)
    PROVE  \E K \in S : \A L \in S : Cardinality(K) <= Cardinality(L)
<1> DEFINE sizes == {Cardinality(K) : K \in S}
<1>1. sizes \in SUBSET Nat /\ sizes # {}
  BY FS_CardinalityType
<1>2. PICK d \in sizes : \A e \in sizes : d <= e
  <2> HIDE DEF sizes
  <2> QED
    BY <1>1, LeastElement
<1> QED
  BY <1>2

LEMMA OneFewer ==
    ASSUME NEW S, IsFiniteSet(S), NEW x \in S
    PROVE  ~ (Cardinality(S) <= Cardinality(S \ {x}))
<1>1. Cardinality(S) \in Nat
  BY FS_CardinalityType
<1>2. Cardinality(S \ {x}) = Cardinality(S) - 1
  BY FS_RemoveElement
<1> QED
  BY <1>1, <1>2

-----------------------------------------------------------------------------
(***************************************************************************)
(* The order of the keys.                                                  *)
(***************************************************************************)

LEMMA KeysAreOrdered ==
    /\ \A k \in Key : ~ Before(k, k)
    /\ \A k, l, m \in Key : Before(k, l) /\ Before(l, m) => Before(k, m)
    /\ \A k, l \in Key : k = l \/ Before(k, l) \/ Before(l, k)
<1>1. \A r \in Role : Rank[r] \in Nat
  BY DEF Rank, Role
<1>2. \A r, s \in Role : Rank[r] = Rank[s] => r = s
  BY DEF Rank, Role
<1>3. \A k \in Key : k[1] \in Nat /\ k[2] \in Role /\ k = <<k[1], k[2]>>
  <2>1. Time \subseteq Nat
    BY ContextAssumption
  <2>2. ASSUME NEW k \in Time \X Role
        PROVE  k[1] \in Time /\ k[2] \in Role /\ k = <<k[1], k[2]>>
    OBVIOUS
  <2> QED
    BY <2>1, <2>2 DEF Key
<1> QED
  BY <1>1, <1>2, <1>3 DEF Before

Newer(keys, k) == {l \in keys : Before(k, l)}

\* The newer a key of a finite set, the fewer are newer than it.
LEMMA NewerShrinks ==
    ASSUME NEW D \in SUBSET Key, IsFiniteSet(D),
           NEW k \in Key, NEW l \in D, Before(k, l)
    PROVE  /\ Cardinality(Newer(D, l)) \in Nat /\ Cardinality(Newer(D, k)) \in Nat
           /\ Cardinality(Newer(D, l)) < Cardinality(Newer(D, k))
<1>1. Newer(D, l) \in SUBSET Newer(D, k)
  BY KeysAreOrdered DEF Newer
<1>2. Newer(D, l) # Newer(D, k)
  BY KeysAreOrdered DEF Newer
<1>3. IsFiniteSet(Newer(D, k))
  BY FS_Subset DEF Newer
<1>4. /\ IsFiniteSet(Newer(D, l))
      /\ Cardinality(Newer(D, l)) <= Cardinality(Newer(D, k))
      /\ Cardinality(Newer(D, k)) # Cardinality(Newer(D, l))
  BY <1>1, <1>2, <1>3, FS_Subset
<1> QED
  BY <1>3, <1>4, FS_CardinalityType

\* A nonempty finite set of keys has a latest one.
LEMMA LatestIsLast ==
    ASSUME NEW D \in SUBSET Key, IsFiniteSet(D), D # {}
    PROVE  /\ Latest(D) \in D
           /\ \A l \in D : l = Latest(D) \/ Before(l, Latest(D))
<1> DEFINE later == {Newer(D, k) : k \in D}
<1>1. \A K \in later : IsFiniteSet(K)
  BY FS_Subset DEF Newer
<1>2. PICK K \in later : \A L \in later : Cardinality(K) <= Cardinality(L)
  <2>1. later # {}
    OBVIOUS
  <2> HIDE DEF later
  <2> QED
    BY <1>1, <2>1, SmallestMember
<1>3. PICK k \in D : K = Newer(D, k)
  BY <1>2
<1>4. ASSUME NEW l \in D, Before(k, l)
      PROVE  FALSE
  <2>1. Cardinality(Newer(D, l)) < Cardinality(Newer(D, k))
        /\ Cardinality(Newer(D, l)) \in Nat /\ Cardinality(Newer(D, k)) \in Nat
    BY <1>4, NewerShrinks
  <2>2. Cardinality(Newer(D, k)) <= Cardinality(Newer(D, l))
    BY <1>2, <1>3
  <2> QED
    BY <2>1, <2>2
<1>5. \E m \in D : \A l \in D : ~ Before(m, l)
  BY <1>4
<1>6. Latest(D) \in D /\ \A l \in D : ~ Before(Latest(D), l)
  BY <1>5 DEF Latest
<1> QED
  BY <1>6, KeysAreOrdered

\* The newest keys, once more with those that were dropped earlier, are the
\* newest of all: pruning at every report is pruning once.
LEMMA NewestOfNewest ==
    ASSUME NEW D \in SUBSET Key, IsFiniteSet(D), NEW key \in Key, NEW n \in Nat \ {0}
    PROVE  Newest(n, Newest(n, D) \cup {key}) = Newest(n, D \cup {key})
<1> DEFINE E == D \cup {key}
           F == Newest(n, D) \cup {key}
<1>1. E \in SUBSET Key /\ IsFiniteSet(E) /\ F \in SUBSET E /\ IsFiniteSet(F)
  BY FS_AddElement, FS_Subset DEF Newest
<1>2. \A k \in Key : /\ IsFiniteSet(Newer(D, k)) /\ Cardinality(Newer(D, k)) \in Nat
                     /\ IsFiniteSet(Newer(E, k)) /\ Cardinality(Newer(E, k)) \in Nat
                     /\ IsFiniteSet(Newer(F, k)) /\ Cardinality(Newer(F, k)) \in Nat
  <2> TAKE k \in Key
  <2>1. Newer(D, k) \in SUBSET D /\ Newer(E, k) \in SUBSET E /\ Newer(F, k) \in SUBSET F
    BY DEF Newer
  <2> HIDE DEF E, F
  <2> QED
    BY <1>1, <2>1, FS_Subset, FS_CardinalityType
<1>3. \A k : k \in Newest(n, D) <=> k \in D /\ Cardinality(Newer(D, k)) < n
  BY DEF Newest, Newer
<1>4. \A k : k \in Newest(n, E) <=> k \in E /\ Cardinality(Newer(E, k)) < n
  BY DEF Newest, Newer
<1>5. \A k : k \in Newest(n, F) <=> k \in F /\ Cardinality(Newer(F, k)) < n
  BY DEF Newest, Newer
<1>6. ASSUME NEW k \in Newest(n, E)
      PROVE  k \in Newest(n, F)
  <2>1. k \in Key
    BY <1>1, <1>4
  <2>2. Newer(D, k) \in SUBSET Newer(E, k) /\ Newer(F, k) \in SUBSET Newer(E, k)
    BY <1>1 DEF Newer
  <2>3. /\ Cardinality(Newer(D, k)) <= Cardinality(Newer(E, k))
        /\ Cardinality(Newer(F, k)) <= Cardinality(Newer(E, k))
    BY <1>2, <2>1, <2>2, FS_Subset
  <2>4. Cardinality(Newer(D, k)) < n /\ Cardinality(Newer(F, k)) < n
    BY <1>2, <1>4, <1>6, <2>1, <2>3
  <2> QED
    BY <1>3, <1>4, <1>5, <1>6, <2>4
<1>7. ASSUME NEW k \in Newest(n, F), k \notin Newest(n, E)
      PROVE  FALSE
  <2>1. k \in E /\ k \in Key /\ Cardinality(Newer(F, k)) < n
    BY <1>1, <1>5, <1>7
  <2>2. Cardinality(Newer(E, k)) >= n
    <3>1. ~ (Cardinality(Newer(E, k)) < n)
      BY <1>4, <1>7, <2>1
    <3>2. Cardinality(Newer(E, k)) \in Nat
      BY <1>2, <2>1
    <3> HIDE DEF E
    <3> QED
      BY <3>1, <3>2
  <2> DEFINE dropped == {l \in D \ F : Before(k, l)}
  <2>3. dropped # {}
    <3>1. SUFFICES ASSUME dropped = {} PROVE FALSE
      OBVIOUS
    <3>2. Newer(E, k) = Newer(F, k)
      BY <1>1, <3>1 DEF Newer
    <3> HIDE DEF E, F
    <3> QED
      BY <1>2, <2>1, <2>2, <3>2
  <2>4. dropped \in SUBSET Key /\ IsFiniteSet(dropped) /\ dropped \in SUBSET D
    BY FS_Subset
  <2> DEFINE last == Latest(dropped)
  <2>5. last \in dropped /\ \A l \in dropped : l = last \/ Before(l, last)
    <3> HIDE DEF dropped
    <3> QED
      BY <2>3, <2>4, LatestIsLast
  <2>6. last \in D /\ last \in Key /\ last \notin F /\ Before(k, last)
    BY <2>5
  <2> HIDE DEF last
  <2>7. Newer(D, last) \in SUBSET Newer(F, k)
    <3> SUFFICES ASSUME NEW l \in D, Before(last, l) PROVE l \in F /\ Before(k, l)
      BY DEF Newer
    <3>1. Before(k, l)
      BY <2>1, <2>6, KeysAreOrdered
    <3>2. l \notin dropped
      BY <2>5, <2>6, KeysAreOrdered
    <3> QED
      BY <3>1, <3>2
  <2>8. Cardinality(Newer(D, last)) <= Cardinality(Newer(F, k))
    BY <1>2, <2>1, <2>7, FS_Subset
  <2>9. last \notin Newest(n, D)
    BY <2>6
  <2>10. Cardinality(Newer(D, last)) >= n
    BY <1>2, <1>3, <2>6, <2>9
  <2> HIDE DEF E, F
  <2> QED
    BY <1>2, <2>1, <2>6, <2>8, <2>10
<1> QED
  BY <1>6, <1>7

\* No more than n keys are among the n newest.
LEMMA NewestAreFew ==
    ASSUME NEW D \in SUBSET Key, IsFiniteSet(D), NEW n \in Nat \ {0}
    PROVE  /\ IsFiniteSet(Newest(n, D))
           /\ Cardinality(Newest(n, D)) <= n
<1> DEFINE N == Newest(n, D)
<1>1. N \in SUBSET D /\ IsFiniteSet(N) /\ Cardinality(N) \in Nat
  BY FS_Subset, FS_CardinalityType DEF Newest
<1>2. \A k \in N : /\ Cardinality(Newer(D, k)) \in Nat /\ Cardinality(Newer(D, k)) < n
                   /\ IsFiniteSet(Newer(D, k))
  <2> TAKE k \in N
  <2>1. Newer(D, k) \in SUBSET D
    BY DEF Newer
  <2> QED
    BY <2>1, FS_Subset, FS_CardinalityType DEF Newest, Newer
<1> HIDE DEF N
<1>3. CASE N = {}
  BY <1>3, FS_EmptySet DEF N
<1>4. CASE N # {}
  <2> DEFINE room == {n - Cardinality(Newer(D, k)) : k \in N}
  <2>1. room \in SUBSET Nat /\ room # {}
    BY <1>2, <1>4
  <2>2. PICK d \in room : \A e \in room : d <= e
    <3> HIDE DEF room
    <3> QED
      BY <2>1, LeastElement
  <2>3. PICK k \in N : \A l \in N : n - Cardinality(Newer(D, k)) <= n - Cardinality(Newer(D, l))
    BY <2>2
  <2>4. \A l \in N : ~ Before(l, k)
    <3> SUFFICES ASSUME NEW l \in N, Before(l, k) PROVE FALSE
      OBVIOUS
    <3>1. Cardinality(Newer(D, k)) < Cardinality(Newer(D, l))
      BY <1>1, NewerShrinks
    <3> QED
      BY <1>2, <2>3, <3>1
  <2>5. N \ {k} \in SUBSET Newer(D, k)
    BY <1>1, <2>4, KeysAreOrdered DEF Newer
  <2>6. Cardinality(N \ {k}) = Cardinality(N) - 1
    BY <1>1, FS_RemoveElement
  <2>7. Cardinality(N \ {k}) <= Cardinality(Newer(D, k))
    BY <1>2, <2>5, FS_Subset
  <2> QED
    BY <1>1, <1>2, <2>6, <2>7 DEF N
<1> QED
  BY <1>3, <1>4
-----------------------------------------------------------------------------
(***************************************************************************)
(* The context of a frame.  After is a recursive function over the sets of *)
(* keys: that it satisfies its equation, and what it says, goes by the     *)
(* smallest set of keys for which it does not.                             *)
(***************************************************************************)

\* g is the context after the reports of every subset of U.
IsAfter(g, f, U) ==
    g = [keys \in SUBSET U |->
            IF keys = {} THEN Unknown
            ELSE Applied(g[keys \ {Latest(keys)}], Latest(keys)[2], f[Latest(keys)])]

LEMMA AfterExists ==
    ASSUME NEW U \in SUBSET Key, IsFiniteSet(U), NEW f
    PROVE  \E g : IsAfter(g, f, U)
<1> DEFINE Bad == {K \in SUBSET U : ~ \E g : IsAfter(g, f, K)}
<1>1. SUFFICES ASSUME Bad # {} PROVE FALSE
  OBVIOUS
<1>2. \A K \in Bad : IsFiniteSet(K)
  BY FS_Subset
<1>3. PICK K \in Bad : \A L \in Bad : Cardinality(K) <= Cardinality(L)
  <2> HIDE DEF Bad
  <2> QED
    BY <1>1, <1>2, SmallestMember
<1>4. K \in SUBSET U /\ K \in SUBSET Key /\ IsFiniteSet(K) /\ ~ \E g : IsAfter(g, f, K)
  BY <1>2, <1>3
<1>5. K # {}
  <2>1. IsAfter([keys \in SUBSET {} |-> Unknown], f, {})
    BY DEF IsAfter
  <2> QED
    BY <1>4, <2>1
<1> DEFINE last == Latest(K)
<1>6. last \in K /\ \A l \in K : l = last \/ Before(l, last)
  BY <1>4, <1>5, LatestIsLast
<1>7. K \ {last} \in SUBSET U /\ K \ {last} \notin Bad
  <2> HIDE DEF Bad
  <2> QED
    BY <1>3, <1>4, <1>6, OneFewer
<1>8. PICK g : IsAfter(g, f, K \ {last})
  BY <1>7
<1>9. \A L \in SUBSET K : last \in L => Latest(L) = last
  <2> SUFFICES ASSUME NEW L \in SUBSET K, last \in L PROVE Latest(L) = last
    OBVIOUS
  <2>1. Latest(L) \in L /\ \A l \in L : l = Latest(L) \/ Before(l, Latest(L))
    BY <1>4, FS_Subset, LatestIsLast
  <2> QED
    BY <1>4, <1>6, <2>1, KeysAreOrdered
<1> HIDE DEF last
<1> DEFINE all == [keys \in SUBSET K |->
                     IF last \in keys THEN Applied(g[keys \ {last}], last[2], f[last])
                     ELSE g[keys]]
<1>10. \A keys \in SUBSET K :
          all[keys] = IF keys = {} THEN Unknown
                      ELSE Applied(all[keys \ {Latest(keys)}], Latest(keys)[2], f[Latest(keys)])
  <2> TAKE keys \in SUBSET K
  <2>1. CASE last \in keys
    <3>1. all[keys] = Applied(g[keys \ {last}], last[2], f[last])
      BY <2>1
    <3>2. all[keys \ {last}] = g[keys \ {last}]
      OBVIOUS
    <3> HIDE DEF all
    <3> QED
      BY <1>9, <2>1, <3>1, <3>2
  <2>2. CASE last \notin keys
    <3>1. keys \in SUBSET (K \ {last})
      BY <2>2
    <3>2. g[keys] = IF keys = {} THEN Unknown
                    ELSE Applied(g[keys \ {Latest(keys)}], Latest(keys)[2], f[Latest(keys)])
      BY <1>8, <3>1 DEF IsAfter
    <3>3. all[keys] = g[keys] /\ all[keys \ {Latest(keys)}] = g[keys \ {Latest(keys)}]
      BY <2>2
    <3> HIDE DEF all
    <3> QED
      BY <3>2, <3>3
  <2> QED
    BY <2>1, <2>2
<1>11. IsAfter(all, f, K)
  <2>1. all = [keys \in SUBSET K |-> all[keys]]
    OBVIOUS
  <2> HIDE DEF all
  <2> QED
    BY <2>1, <1>10 DEF IsAfter
<1> QED
  BY <1>4, <1>11

LEMMA AfterEquation ==
    ASSUME NEW U \in SUBSET Key, IsFiniteSet(U), NEW f, NEW K \in SUBSET U
    PROVE  After(f, U)[K] =
              IF K = {} THEN Unknown
              ELSE Applied(After(f, U)[K \ {Latest(K)}], Latest(K)[2], f[Latest(K)])
<1>1. \E g : IsAfter(g, f, U)
  BY AfterExists
<1>2. After(f, U) = CHOOSE g : IsAfter(g, f, U)
  BY DEF After, IsAfter
<1>3. IsAfter(After(f, U), f, U)
  BY <1>1, <1>2
<1> QED
  BY <1>3 DEF IsAfter

\* What a set of keys says: the last movement is a stop, and some movement is
\* later than every request.
Stands(f, K) ==
    \E k \in K :
        /\ k[2] = "movement" /\ f[k] \in StableStates
        /\ \A l \in K : l[2] = "movement" => ~ Before(k, l)

Settled(f, K) ==
    \E k \in K :
        /\ k[2] = "movement"
        /\ \A l \in K : l[2] \in {"preset", "profile"} => Before(l, k)

Point == [profile : Profile \cup {NoProfile}, moving : BOOLEAN,
          valid : BOOLEAN, confirmed : BOOLEAN]

Truthful(f, K, p) ==
    /\ p \in Point
    /\ p.valid /\ ~ p.moving => Stands(f, K)
    /\ p.confirmed => Stands(f, K) /\ Settled(f, K)

\* A later report leaves a truthful context truthful.
LEMMA AppliedIsTruthful ==
    ASSUME NEW f, NEW K \in SUBSET Key, NEW last \in K, f[last] \in Stated(last[2]),
           \A l \in K : l = last \/ Before(l, last),
           NEW p, Truthful(f, K \ {last}, p)
    PROVE  Truthful(f, K, Applied(p, last[2], f[last]))
<1> DEFINE q == Applied(p, last[2], f[last])
<1>1. last \in Key /\ last[2] \in {"movement", "physical", "preset", "profile"}
  <2>1. last \in Time \X Role
    BY DEF Key
  <2>2. last[2] \in Role
    BY <2>1
  <2> QED
    BY <2>2 DEF Role, Rank
<1>2. \A k \in K : k \in Key /\ ~ Before(last, k)
  BY KeysAreOrdered
<1>3. p \in Point
  BY DEF Truthful
<1>4. last[2] # "movement" /\ Stands(f, K \ {last}) => Stands(f, K)
  BY DEF Stands
<1>5. last[2] = "physical" /\ Settled(f, K \ {last}) => Settled(f, K)
  BY DEF Settled
<1>6. CASE last[2] = "movement"
  <2> DEFINE turns == f[last] \in MovingStates
             known == f[last] \in MovingStates \cup StableStates
             sure  == f[last] \in StableStates /\ p.profile # NoProfile
  <2>1. q = [p EXCEPT !.moving = turns, !.valid = known, !.confirmed = sure]
    BY <1>6 DEF Applied
  <2>2. turns \in BOOLEAN /\ known \in BOOLEAN /\ sure \in BOOLEAN
    OBVIOUS
  <2> HIDE DEF q, turns, known, sure
  <2>3. q \in Point /\ q.moving = turns /\ q.valid = known /\ q.confirmed = sure
    BY <1>3, <2>1, <2>2 DEF Point
  <2>4. (q.valid /\ ~ q.moving) \/ q.confirmed => f[last] \in StableStates
    BY <2>3 DEF turns, known, sure
  <2>5. f[last] \in StableStates => Stands(f, K)
    BY <1>2, <1>6 DEF Stands
  <2>6. Settled(f, K)
    BY <1>6 DEF Settled
  <2> QED
    BY <2>3, <2>4, <2>5, <2>6 DEF Truthful, q
<1>7. CASE last[2] = "profile"
  <2>1. q = [p EXCEPT !.profile = f[last], !.confirmed = FALSE] /\ f[last] \in Profile \cup {NoProfile}
    BY <1>7 DEF Applied, Stated
  <2>2. q \in Point /\ ~ q.confirmed /\ q.valid = p.valid /\ q.moving = p.moving
    BY <1>3, <2>1 DEF Point
  <2> HIDE DEF q
  <2> QED
    BY <1>4, <1>7, <2>2 DEF Truthful, q
<1>8. CASE last[2] = "preset"
  <2>1. q = [p EXCEPT !.confirmed = FALSE]
    BY <1>8 DEF Applied
  <2>2. q \in Point /\ ~ q.confirmed /\ q.valid = p.valid /\ q.moving = p.moving
    BY <1>3, <2>1 DEF Point
  <2> HIDE DEF q
  <2> QED
    BY <1>4, <1>8, <2>2 DEF Truthful, q
<1>9. CASE last[2] = "physical"
  <2>1. q = p
    BY <1>9 DEF Applied
  <2> QED
    BY <1>4, <1>5, <1>9, <2>1 DEF Truthful
<1> QED
  BY <1>1, <1>6, <1>7, <1>8, <1>9

\* The context after any reports says no more than they do.
LEMMA ContextIsTruthful ==
    ASSUME NEW f, NEW U \in SUBSET Key, IsFiniteSet(U), \A k \in U : f[k] \in Stated(k[2])
    PROVE  Truthful(f, U, After(f, U)[U])
<1> DEFINE Bad == {K \in SUBSET U : ~ Truthful(f, K, After(f, U)[K])}
<1>1. SUFFICES ASSUME Bad # {} PROVE FALSE
  OBVIOUS
<1>2. \A K \in Bad : IsFiniteSet(K)
  BY FS_Subset
<1>3. PICK K \in Bad : \A L \in Bad : Cardinality(K) <= Cardinality(L)
  <2> HIDE DEF Bad
  <2> QED
    BY <1>1, <1>2, SmallestMember
<1>4. K \in SUBSET U /\ K \in SUBSET Key /\ IsFiniteSet(K) /\ ~ Truthful(f, K, After(f, U)[K])
  BY <1>2, <1>3
<1>5. K # {}
  <2>1. After(f, U)[{}] = Unknown
    BY AfterEquation
  <2>2. Truthful(f, {}, Unknown)
    BY DEF Truthful, Unknown, Point
  <2> QED
    BY <1>4, <2>1, <2>2
<1> DEFINE last == Latest(K)
<1>6. last \in K /\ \A l \in K : l = last \/ Before(l, last)
  BY <1>4, <1>5, LatestIsLast
<1>7. K \ {last} \in SUBSET U /\ K \ {last} \notin Bad
  <2> HIDE DEF Bad
  <2> QED
    BY <1>3, <1>4, <1>6, OneFewer
<1>8. Truthful(f, K \ {last}, After(f, U)[K \ {last}])
  BY <1>7
<1>9. After(f, U)[K] = Applied(After(f, U)[K \ {last}], last[2], f[last])
  BY <1>4, <1>5, AfterEquation
<1> HIDE DEF last
<1> QED
  BY <1>4, <1>6, <1>8, <1>9, AppliedIsTruthful
\* The context depends on nothing but the reports it is made of.
LEMMA ContextIsLocal ==
    ASSUME NEW U \in SUBSET Key, IsFiniteSet(U), NEW f, NEW g, \A k \in U : f[k] = g[k]
    PROVE  After(f, U)[U] = After(g, U)[U]
<1> DEFINE Bad == {K \in SUBSET U : After(f, U)[K] # After(g, U)[K]}
<1>1. SUFFICES ASSUME Bad # {} PROVE FALSE
  OBVIOUS
<1>2. \A K \in Bad : IsFiniteSet(K)
  BY FS_Subset
<1>3. PICK K \in Bad : \A L \in Bad : Cardinality(K) <= Cardinality(L)
  <2> HIDE DEF Bad
  <2> QED
    BY <1>1, <1>2, SmallestMember
<1>4. /\ K \in SUBSET U /\ K \in SUBSET Key /\ IsFiniteSet(K)
      /\ After(f, U)[K] # After(g, U)[K]
  BY <1>2, <1>3
<1>5. K # {}
  BY <1>4, AfterEquation
<1> DEFINE last == Latest(K)
<1>6. last \in K
  BY <1>4, <1>5, LatestIsLast
<1>7. K \ {last} \in SUBSET U /\ K \ {last} \notin Bad
  <2> HIDE DEF Bad
  <2> QED
    BY <1>3, <1>4, <1>6, OneFewer
<1>8. After(f, U)[K \ {last}] = After(g, U)[K \ {last}]
  BY <1>7
<1>9. /\ After(f, U)[K] = Applied(After(f, U)[K \ {last}], last[2], f[last])
      /\ After(g, U)[K] = Applied(After(g, U)[K \ {last}], last[2], g[last])
  BY <1>4, <1>5, AfterEquation
<1>10. f[last] = g[last]
  BY <1>4, <1>6
<1> HIDE DEF last
<1> QED
  BY <1>4, <1>8, <1>9, <1>10

-----------------------------------------------------------------------------
(***************************************************************************)
(* Histories.                                                              *)
(***************************************************************************)

\* What arrived is a finite function from keys to what they may state.
Sound(a) ==
    /\ a = [k \in DOMAIN a |-> a[k]]
    /\ DOMAIN a \in SUBSET Key
    /\ IsFiniteSet(DOMAIN a)
    /\ \A k \in DOMAIN a : a[k] \in Stated(k[2])

\* h.events is what is kept of h.arrived.
Kept(h) ==
    /\ Sound(h.arrived)
    /\ h.events = Only(h.arrived, Newest(MaxPoints, DOMAIN h.arrived))

LEMMA PutIsSound ==
    ASSUME NEW a, Sound(a), NEW key \in Key, NEW state \in Stated(key[2])
    PROVE  /\ Sound(Put(a, key, state))
           /\ DOMAIN Put(a, key, state) = DOMAIN a \cup {key}
<1>1. DOMAIN Put(a, key, state) = DOMAIN a \cup {key}
  BY DEF Put
<1>2. IsFiniteSet(DOMAIN a \cup {key}) /\ DOMAIN a \cup {key} \in SUBSET Key
  BY FS_AddElement DEF Sound
<1>3. \A k \in DOMAIN a \cup {key} : Put(a, key, state)[k] \in Stated(k[2])
  BY DEF Put, Sound
<1>4. Put(a, key, state) = [k \in DOMAIN a \cup {key} |-> Put(a, key, state)[k]]
  BY DEF Put
<1> QED
  BY <1>1, <1>2, <1>3, <1>4 DEF Sound

\* A report that is put in leaves what is kept of all that arrived.
LEMMA InsertKeeps ==
    ASSUME NEW a, Sound(a), NEW e, e = Only(a, Newest(MaxPoints, DOMAIN a)),
           NEW key \in Key, NEW state \in Stated(key[2])
    PROVE  Kept([events |-> Insert(e, key, state), arrived |-> Put(a, key, state)])
<1> DEFINE D == DOMAIN a
           b == Put(a, key, state)
           g == Put(e, key, state)
<1>1. Sound(b) /\ DOMAIN b = D \cup {key}
  BY PutIsSound
<1>2. DOMAIN e = Newest(MaxPoints, D) /\ DOMAIN g = Newest(MaxPoints, D) \cup {key}
  BY DEF Only, Put
<1>3. Newest(MaxPoints, DOMAIN g) = Newest(MaxPoints, DOMAIN b)
  <2>1. MaxPoints \in Nat \ {0}
    BY ContextAssumption
  <2>2. D \in SUBSET Key /\ IsFiniteSet(D)
    BY DEF Sound
  <2> HIDE DEF D, b, g
  <2> QED
    BY <1>1, <1>2, <2>1, <2>2, NewestOfNewest
<1>4. \A k \in DOMAIN g : g[k] = b[k]
  BY <1>2 DEF Only, Put, Newest
<1>5. Newest(MaxPoints, DOMAIN g) \subseteq DOMAIN g
  BY DEF Newest
<1>6. Insert(e, key, state) = Only(g, Newest(MaxPoints, DOMAIN g))
  BY DEF Insert
<1> HIDE DEF b, g
<1>7. Insert(e, key, state) = Only(b, Newest(MaxPoints, DOMAIN b))
  BY <1>3, <1>4, <1>5, <1>6 DEF Only
<1> QED
  BY <1>1, <1>7 DEF Kept, b

\* So does a measured interval.
LEMMA RecordKeeps ==
    ASSUME NEW h, Kept(h), NEW i \in Interval
    PROVE  Kept([events  |-> RecordInterval(h.events, i),
                 arrived |-> Put(h.arrived, <<i.from, "physical">>, i)])
<1> DEFINE key == <<i.from, "physical">>
           a == h.arrived
           e == h.events
<1>1. key \in Key /\ i \in Stated(key[2])
  BY DEF Key, Role, Rank, Stated, Interval
<1>2. Sound(a) /\ e = Only(a, Newest(MaxPoints, DOMAIN a))
  BY DEF Kept
<1> HIDE DEF key, a, e
<1>3. CASE key \in DOMAIN e /\ e[key] = i
  <2>1. RecordInterval(e, i) = e
    BY <1>3 DEF RecordInterval, key
  <2>2. key \in DOMAIN a /\ a[key] = i
    BY <1>2, <1>3 DEF Only, Newest
  <2>3. Put(a, key, i) = [k \in DOMAIN a |-> a[k]]
    BY <2>2 DEF Put
  <2>4. Put(a, key, i) = a
    BY <1>2, <2>3 DEF Sound
  <2> QED
    BY <1>2, <2>1, <2>4 DEF Kept, key, a, e
<1>4. CASE ~ (key \in DOMAIN e /\ e[key] = i)
  <2>1. RecordInterval(e, i) = Insert(e, key, i)
    BY <1>4 DEF RecordInterval, key
  <2> QED
    BY <1>1, <1>2, <2>1, InsertKeeps DEF key, a, e
<1> QED
  BY <1>3, <1>4

-----------------------------------------------------------------------------
(***************************************************************************)
(* Telemetry: Recorded is a recursive function over the positions of a     *)
(* list.                                                                   *)
(***************************************************************************)

IsRecorded(r, h, batch, n) ==
    r = [i \in 0 .. n |->
            IF i = 0 THEN h
            ELSE [events  |-> RecordInterval(r[i - 1].events, batch[i]),
                  arrived |-> Put(r[i - 1].arrived, <<batch[i].from, "physical">>, batch[i])]]

LEMMA RecordedExists ==
    ASSUME NEW h, NEW batch, NEW n \in Nat
    PROVE  \E r : IsRecorded(r, h, batch, n)
<1> DEFINE Bad == {k \in Nat : ~ \E r : IsRecorded(r, h, batch, k)}
<1>1. SUFFICES ASSUME Bad # {} PROVE FALSE
  OBVIOUS
<1>2. PICK k \in Bad : \A j \in Bad : k <= j
  <2>1. Bad \in SUBSET Nat
    OBVIOUS
  <2> HIDE DEF Bad
  <2> QED
    BY <1>1, <2>1, LeastElement
<1>3. k \in Nat /\ ~ \E r : IsRecorded(r, h, batch, k)
  BY <1>2
<1>4. k # 0
  <2>1. IsRecorded([i \in 0 .. 0 |-> h], h, batch, 0)
    BY DEF IsRecorded
  <2> QED
    BY <1>3, <2>1
<1>5. k - 1 \in Nat /\ k - 1 \notin Bad
  BY <1>2, <1>3, <1>4
<1>6. PICK r : IsRecorded(r, h, batch, k - 1)
  BY <1>5
<1> DEFINE Next1(s, i) ==
               [events  |-> RecordInterval(s.events, batch[i]),
                arrived |-> Put(s.arrived, <<batch[i].from, "physical">>, batch[i])]
           all == [i \in 0 .. k |-> IF i = k THEN Next1(r[k - 1], k) ELSE r[i]]
<1>7. \A i \in 0 .. k - 1 : r[i] = IF i = 0 THEN h ELSE Next1(r[i - 1], i)
  BY <1>6 DEF IsRecorded
<1>8. \A i \in 0 .. k : all[i] = IF i = k THEN Next1(r[k - 1], k) ELSE r[i]
  OBVIOUS
<1>9. all = [i \in 0 .. k |-> all[i]]
  OBVIOUS
<1> HIDE DEF all
<1>10. IsRecorded(all, h, batch, k)
  <2> HIDE DEF Next1
  <2>1. \A i \in 0 .. k : all[i] = IF i = 0 THEN h ELSE Next1(all[i - 1], i)
    <3> TAKE i \in 0 .. k
    <3>1. i \in 0 .. k - 1 \/ i = k
      BY <1>3
    <3>2. i # 0 => i - 1 \in 0 .. k /\ i - 1 # k
      BY <1>3
    <3> QED
      BY <1>3, <1>4, <1>7, <1>8, <3>1, <3>2
  <2> USE DEF Next1
  <2> QED
    BY <1>9, <2>1 DEF IsRecorded
<1> QED
  BY <1>3, <1>10

\* A list that is recorded leaves what is kept of all that arrived.
LEMMA RecordedKeeps ==
    ASSUME NEW h, Kept(h), NEW batch \in Seq(Interval)
    PROVE  Kept(Recorded(h, batch)[Len(batch)])
<1> DEFINE r == Recorded(h, batch)
           n == Len(batch)
<1>1. n \in Nat
  OBVIOUS
<1>2. IsRecorded(r, h, batch, n)
  <2>1. \E g : IsRecorded(g, h, batch, n)
    BY <1>1, RecordedExists
  <2>2. r = CHOOSE g : IsRecorded(g, h, batch, n)
    BY DEF Recorded, IsRecorded
  <2> QED
    BY <2>1, <2>2
<1> HIDE DEF r, n
<1> DEFINE Bad == {k \in 0 .. n : ~ Kept(r[k])}
<1>3. SUFFICES ASSUME Bad # {} PROVE FALSE
  BY <1>1 DEF r, n
<1>4. PICK k \in Bad : \A j \in Bad : k <= j
  <2>1. Bad \in SUBSET Nat
    OBVIOUS
  <2> HIDE DEF Bad
  <2> QED
    BY <1>3, <2>1, LeastElement
<1>5. k \in 0 .. n /\ ~ Kept(r[k])
  BY <1>4
<1>6. k # 0
  BY <1>2, <1>5 DEF IsRecorded
<1>7. k - 1 \in 0 .. n /\ Kept(r[k - 1])
  BY <1>1, <1>4, <1>5, <1>6
<1>8. batch[k] \in Interval
  BY <1>5, <1>6 DEF n
<1>9. r[k] = [events  |-> RecordInterval(r[k - 1].events, batch[k]),
              arrived |-> Put(r[k - 1].arrived, <<batch[k].from, "physical">>, batch[k])]
  BY <1>2, <1>5, <1>6 DEF IsRecorded
<1> QED
  BY <1>5, <1>7, <1>8, <1>9, RecordKeeps

-----------------------------------------------------------------------------
(***************************************************************************)
(* The invariant, and what follows from it.                                *)
(***************************************************************************)

IInv ==
    /\ Kept([events |-> events, arrived |-> arrived])
    /\ Kept(saved)

LEMMA InitIInv == Init => IInv
<1> SUFFICES ASSUME Init PROVE IInv
  OBVIOUS
<1>1. Sound(<< >>)
  BY FS_EmptySet DEF Sound
<1>2. DOMAIN << >> = {}
  OBVIOUS
<1>3. << >> = Only(<< >>, Newest(MaxPoints, DOMAIN << >>))
  BY <1>2 DEF Only, Newest
<1> QED
  BY <1>1, <1>3 DEF Init, IInv, Kept

LEMMA NextIInv == IInv /\ [Next]_vars => IInv'
<1> SUFFICES ASSUME IInv, [Next]_vars PROVE IInv'
  OBVIOUS
<1>1. ASSUME NEW t \in Time, NEW role \in Role \ {"physical"}, NEW state \in Stated(role),
             Update(role, state, t)
      PROVE  IInv'
  <2>1. <<t, role>> \in Key /\ state \in Stated(<<t, role>>[2])
    BY DEF Key
  <2>2. Sound(arrived) /\ events = Only(arrived, Newest(MaxPoints, DOMAIN arrived))
    BY DEF IInv, Kept
  <2>3. Kept([events |-> Insert(events, <<t, role>>, state), arrived |-> Put(arrived, <<t, role>>, state)])
    BY <2>1, <2>2, InsertKeeps
  <2> QED
    BY <1>1, <2>3 DEF Update, IInv
<1>2. ASSUME NEW batch \in Batches, Telemetry(batch)
      PROVE  IInv'
  <2> DEFINE h == Recorded([events |-> events, arrived |-> arrived], batch)[Len(batch)]
  <2>1. batch \in Seq(Interval)
    BY ContextAssumption
  <2>2. Kept(h)
    BY <2>1, RecordedKeeps DEF IInv
  <2>3. events' = h.events /\ arrived' = h.arrived /\ saved' = saved
    BY <1>2 DEF Telemetry
  <2> HIDE DEF h
  <2> QED
    BY <2>2, <2>3 DEF IInv, Kept
<1>3. CASE Save
  BY <1>3 DEF Save, IInv
<1>4. CASE Restart
  BY <1>4 DEF Restart, IInv, Kept
<1>5. CASE UNCHANGED vars
  BY <1>5 DEF vars, IInv
<1> QED
  BY <1>1, <1>2, <1>3, <1>4, <1>5 DEF Next

\* After any reports, intervals, saves and restarts, the history of a camera is
\* the newest of all that arrived, and so is the one that was saved.
THEOREM Invariance == Spec => []IInv
<1> QED
  BY InitIInv, NextIInv, PTL DEF Spec

\* The reports that are kept are keyed and say what they may.
LEMMA KeptAreSound ==
    ASSUME NEW h, Kept(h)
    PROVE  /\ DOMAIN h.events \in SUBSET Key /\ IsFiniteSet(DOMAIN h.events)
           /\ Cardinality(DOMAIN h.events) <= MaxPoints
           /\ \A k \in DOMAIN h.events : h.events[k] \in Stated(k[2])
<1>1. Sound(h.arrived) /\ h.events = Only(h.arrived, Newest(MaxPoints, DOMAIN h.arrived))
  BY DEF Kept
<1>2. DOMAIN h.events = Newest(MaxPoints, DOMAIN h.arrived)
  BY <1>1 DEF Only
<1>3. DOMAIN h.events \in SUBSET DOMAIN h.arrived
  BY <1>2 DEF Newest
<1>4. \A k \in DOMAIN h.events : h.events[k] = h.arrived[k]
  BY <1>1 DEF Only
<1>5. MaxPoints \in Nat \ {0}
  BY ContextAssumption
<1> QED
  BY <1>1, <1>2, <1>3, <1>4, <1>5, NewestAreFew DEF Sound

LEMMA EventsAreSound ==
    ASSUME IInv
    PROVE  /\ DOMAIN events \in SUBSET Key /\ IsFiniteSet(DOMAIN events)
           /\ Cardinality(DOMAIN events) <= MaxPoints
           /\ \A k \in DOMAIN events : events[k] \in Stated(k[2])
<1> DEFINE h == [events |-> events, arrived |-> arrived]
<1>1. Kept(h) /\ h.events = events
  BY DEF IInv
<1> HIDE DEF h
<1> QED
  BY <1>1, KeptAreSound

LEMMA UpToIsFinite ==
    ASSUME IInv, NEW t
    PROVE  UpTo(events, t) \in SUBSET Key /\ IsFiniteSet(UpTo(events, t))
<1>1. UpTo(events, t) \in SUBSET DOMAIN events
  BY DEF UpTo
<1> QED
  BY <1>1, EventsAreSound, FS_Subset

\* Unless a measured interval holds, the context says no more than the
\* reports up to its instant.
LEMMA LogicalIsTruthful ==
    ASSUME IInv, NEW t
    PROVE  Truthful(events, UpTo(events, t), Logical(events, t))
<1>1. \A k \in UpTo(events, t) : events[k] \in Stated(k[2])
  BY EventsAreSound DEF UpTo
<1> QED
  BY <1>1, UpToIsFinite, ContextIsTruthful DEF Logical

\* Type correctness: in particular, a history never outgrows its limit.
THEOREM Types == Spec => []TypeOK
<1> DEFINE Counters == outcome \in {"none", "point", "raised"} /\ reports \in 0 .. MaxReports
<1>1. Init => Counters
  BY ContextAssumption DEF Init
<1>2. Counters /\ [Next]_vars => Counters'
  <2> SUFFICES ASSUME Counters, [Next]_vars PROVE Counters'
    OBVIOUS
  <2>1. MaxReports \in Nat
    BY ContextAssumption
  <2>2. ASSUME Report PROVE reports' \in 0 .. MaxReports
    BY <2>1, <2>2 DEF Report
  <2>3. CASE \E t \in Time, role \in Role \ {"physical"} :
                \E state \in Stated(role) : Update(role, state, t)
    BY <2>2, <2>3 DEF Update
  <2>4. CASE \E batch \in Batches : Telemetry(batch)
    BY <2>2, <2>4 DEF Telemetry
  <2>5. CASE Save \/ Restart \/ UNCHANGED vars
    BY <2>5 DEF Save, Restart, vars
  <2> QED
    BY <2>3, <2>4, <2>5 DEF Next
<1>3. IInv /\ Counters => TypeOK
  BY EventsAreSound DEF TypeOK
<1> QED
  BY <1>1, <1>2, <1>3, Invariance, PTL DEF Spec

\* Pruning at every report (temporal.py, TemporalCameraRegistry._insert) keeps the same
\* history as pruning once would, whatever the order the reports came in.
THEOREM TheNewestAreKept == Spec => []HistoryIsTheNewest
<1>1. IInv => HistoryIsTheNewest
  BY DEF IInv, Kept, HistoryIsTheNewest
<1> QED
  BY <1>1, Invariance, PTL

\* No arrival at a preset is confirmed (TemporalCameraRegistry.at) but by a
\* report of movement later than every request, while nothing says since that
\* the camera turns, or by a measured interval that holds at the instant.
THEOREM ArrivalsAreEarned == Spec => []ArrivalIsEarned
<1>1. ASSUME IInv, NEW t \in Time, Known(events, t), At(events, t).confirmed
      PROVE  \/ /\ Standing(t)
                /\ \E k \in UpTo(events, t) :
                      /\ k[2] = "movement"
                      /\ \A l \in UpTo(events, t) :
                            l[2] \in {"preset", "profile"} => Before(l, k)
             \/ \E k \in UpTo(events, t) :
                   /\ k[2] = "physical" /\ t <= events[k].until
                   /\ \A l \in UpTo(events, t) : l[2] = "preset" => l[1] <= k[1]
  <2>1. CASE Bracketing(events, t) = {}
    <3>1. Logical(events, t).confirmed
      BY <1>1, <2>1 DEF At
    <3> QED
      BY <1>1, <3>1, LogicalIsTruthful DEF Truthful, Stands, Settled, Standing
  <2>2. CASE Bracketing(events, t) # {}
    <3>1. PICK k \in Bracketing(events, t) : TRUE
      BY <2>2
    <3>2. /\ k \in UpTo(events, t) /\ k[2] = "physical" /\ t <= events[k].until
          /\ \A l \in UpTo(events, t) : l[2] = "preset" => ~ (k[1] < l[1])
      BY <3>1 DEF Bracketing, Turns
    <3>3. \A l \in UpTo(events, t) : l[1] \in Nat
      <4>1. Time \subseteq Nat
        BY ContextAssumption
      <4>2. ASSUME NEW l \in Time \X Role
            PROVE  l[1] \in Time
        OBVIOUS
      <4> QED
        BY <1>1, <4>1, <4>2, UpToIsFinite DEF Key
    <3> QED
      BY <3>2, <3>3
  <2> QED
    BY <2>1, <2>2
<1>2. IInv => ArrivalIsEarned
  BY <1>1 DEF ArrivalIsEarned
<1> QED
  BY <1>2, Invariance, PTL

\* No area is claimed (geometry.py, resolve_camera_location) unless the last
\* report of movement up to the frame is a stop, or a measured interval reaches
\* the frame.
THEOREM AreasNeedStandingCameras == Spec => []AreaNeedsAStandingCamera
<1>1. ASSUME IInv, NEW t \in Time, NEW zones \in SUBSET Zone,
             Location(events, zones, t).level = "area"
      PROVE  \/ Standing(t)
             \/ \E k \in UpTo(events, t) : k[2] = "physical" /\ t <= events[k].until
  <2> DEFINE point == IF Known(events, t) THEN At(events, t) ELSE Unknown
  <2>1. CASE Known(events, t) /\ Bracketing(events, t) # {}
    BY <2>1 DEF Bracketing
  <2>2. CASE ~ Known(events, t)
    <3>1. Location(events, zones, t).level = "floor"
      BY <2>2 DEF Location, Unknown, Claim
    <3> QED
      BY <1>1, <3>1
  <2>3. CASE Known(events, t) /\ Bracketing(events, t) = {}
    <3>1. point = Logical(events, t)
      BY <2>3 DEF At
    <3>2. Truthful(events, UpTo(events, t), point)
      BY <1>1, <3>1, LogicalIsTruthful
    <3>3. point.moving \in BOOLEAN /\ point.valid \in BOOLEAN
      BY <3>2 DEF Truthful, Point
    <3>4. point.moving \/ ~ point.valid => Location(events, zones, t).level = "floor"
      BY <3>3 DEF Location, Claim
    <3>5. point.valid /\ ~ point.moving
      BY <1>1, <3>3, <3>4
    <3> HIDE DEF point
    <3> QED
      BY <3>2, <3>5 DEF Truthful, Stands, Standing
  <2> QED
    BY <2>1, <2>2, <2>3
<1>2. IInv => AreaNeedsAStandingCamera
  BY <1>1 DEF AreaNeedsAStandingCamera
<1> QED
  BY <1>2, Invariance, PTL

\* A report that comes late changes no context before its own instant, as long
\* as it pushes nothing out of the history.
THEOREM LateReportsStayLocal == Spec => LateReportsAreLocal
<1>1. ASSUME IInv, IInv', NEW t \in Time, DOMAIN events \subseteq DOMAIN events',
             \A k \in DOMAIN events' :
                (k \notin DOMAIN events \/ events'[k] # events[k]) => t < k[1]
      PROVE  At(events', t) = At(events, t)
  <2> DEFINE U == UpTo(events, t)
  <2>1. \A k \in DOMAIN events' : k[1] <= t => k \in DOMAIN events /\ events'[k] = events[k]
    <3> SUFFICES ASSUME NEW k \in DOMAIN events', k[1] <= t
                 PROVE  ~ (t < k[1])
      BY <1>1
    <3>1. Time \subseteq Nat
      BY ContextAssumption
    <3>2. DOMAIN events' \in SUBSET Key
      <4> DEFINE h == [events |-> events', arrived |-> arrived']
      <4>1. Kept(h) /\ h.events = events'
        BY <1>1 DEF IInv
      <4> HIDE DEF h
      <4> QED
        BY <4>1, KeptAreSound
    <3>3. ASSUME NEW l \in Time \X Role
          PROVE  l[1] \in Time
      OBVIOUS
    <3>4. k[1] \in Nat /\ t \in Nat
      BY <3>1, <3>2, <3>3 DEF Key
    <3> QED
      BY <3>4
  <2>2. UpTo(events', t) = U
    BY <1>1, <2>1 DEF UpTo
  <2>3. \A k \in U : events'[k] = events[k]
    BY <1>1, <2>1 DEF UpTo
  <2>4. Bracketing(events', t) = Bracketing(events, t)
    BY <2>2, <2>3 DEF Bracketing, Turns
  <2>5. Logical(events', t) = Logical(events, t)
    BY <1>1, <2>2, <2>3, UpToIsFinite, ContextIsLocal DEF Logical
  <2>6. Bracketing(events, t) # {} =>
            events'[Latest(Bracketing(events, t))] = events[Latest(Bracketing(events, t))]
    <3> SUFFICES ASSUME Bracketing(events, t) # {}
                 PROVE  Latest(Bracketing(events, t)) \in U
      BY <2>3
    <3>1. Bracketing(events, t) \in SUBSET U
      BY DEF Bracketing
    <3> QED
      BY <1>1, <3>1, UpToIsFinite, FS_Subset, LatestIsLast
  <2> QED
    BY <2>4, <2>5, <2>6 DEF At
<1>2. IInv /\ IInv' =>
        [\A t \in Time :
           (/\ reports' # reports
            /\ DOMAIN events \subseteq DOMAIN events'
            /\ \A k \in DOMAIN events' :
                  (k \notin DOMAIN events \/ events'[k] # events[k]) => t < k[1])
           => At(events', t) = At(events, t)]_vars
  BY <1>1
<1> QED
  BY <1>2, Invariance, PTL DEF Spec, LateReportsAreLocal

-----------------------------------------------------------------------------
(***************************************************************************)
(* Expiry.                                                                 *)
(***************************************************************************)

USE DEF Nothing, NoTimer, Instant

Inv ==
    /\ ExpiryTypeOK
    /\ UnavailableIsWithdrawn
    /\ SnapshotIsCoherent
    /\ \A s \in Source : held[s] <= now
    /\ evaluated <= now

-----------------------------------------------------------------------------
(***************************************************************************)
(* The earliest deadline.                                                  *)
(***************************************************************************)

\* The deadlines to come are natural numbers.
LEMMA UpcomingIsNat ==
    ASSUME NEW h \in [Source -> Instant \cup {Nothing}], NEW missing,
           NEW t \in Instant
    PROVE  Upcoming(h, missing, t) \subseteq Nat
BY SourceAssumption, WindowAssumption, SMT
   DEF Upcoming, ExpiryDeadlines, MaturityDeadlines, Limited

\* NextExpiration is no timer when nothing is to come, and the earliest
\* deadline to come otherwise.
LEMMA NextIsEarliest ==
    ASSUME NEW h \in [Source -> Instant \cup {Nothing}], NEW missing,
           NEW t \in Instant
    PROVE  /\ NextExpiration(h, missing, t) \in Nat \cup {NoTimer}
           /\ \A d \in Upcoming(h, missing, t) :
                 /\ NextExpiration(h, missing, t) # NoTimer
                 /\ NextExpiration(h, missing, t) <= d
<1> DEFINE U == Upcoming(h, missing, t)
<1>1. U \subseteq Nat
  BY UpcomingIsNat
<1>2. CASE U = {}
  <2>1. NextExpiration(h, missing, t) = NoTimer
    BY <1>2 DEF NextExpiration
  <2>2. QED
    BY <2>1, <1>2
<1>3. CASE U # {}
  <2>1. NextExpiration(h, missing, t) = CHOOSE d \in U : \A e \in U : d <= e
    BY <1>3 DEF NextExpiration
  <2>2. \E d \in U : \A e \in U : d <= e
    BY <1>1, <1>3, LeastElement
  <2> HIDE DEF U
  <2>3. /\ NextExpiration(h, missing, t) \in U
        /\ \A e \in U : NextExpiration(h, missing, t) <= e
    BY <2>1, <2>2, Zenon
  <2>4. NextExpiration(h, missing, t) \in Nat
    BY <2>3, <1>1
  <2>5. QED
    BY <2>3, <2>4 DEF U
<1>4. QED
  BY <1>2, <1>3

-----------------------------------------------------------------------------
(***************************************************************************)
(* The parts of the handlers.                                              *)
(***************************************************************************)

\* What the resolver returns is a view of every source.
LEMMA ResolvedType ==
    ASSUME NEW h, NEW t
    PROVE  Resolved(h, t) \in [Source -> {"absent", "possible", "confirmed"}]
BY DEF Resolved, ViewOf

\* The same view means the same current evidence.
LEMMA SameViewSameFresh ==
    ASSUME NEW h, NEW t, NEW u, Resolved(h, t) = Resolved(h, u)
    PROVE  Fresh(h, t) = Fresh(h, u)
<1>1. ASSUME NEW s \in Source
      PROVE  Current(h, s, t) <=> Current(h, s, u)
  <2>1. ViewOf(h, s, t) = ViewOf(h, s, u)
    BY DEF Resolved
  <2>2. QED
    BY <2>1 DEF ViewOf
<1>2. QED
  BY <1>1 DEF Fresh

\* A handler reschedules and leaves a timer for the next deadline.
LEMMA RescheduleArms ==
    ASSUME ExpiryTypeOK, held' \in [Source -> Instant \cup {Nothing}], Reschedule
    PROVE  /\ now' \in Instant /\ now <= now'
           /\ timer' \in Nat \cup {NoTimer}
           /\ \A d \in Upcoming(held', unavailable', now') :
                 timer' # NoTimer /\ timer' <= d
<1>1. now' \in Instant /\ now <= now'
  BY DEF Reschedule
<1>2. timer' = NextExpiration(held', unavailable', now')
  BY DEF Reschedule
<1>3. QED
  BY <1>1, <1>2, NextIsEarliest

\* An envelope that changes something leaves a coherent snapshot and a wake-up.
LEMMA ChangedKeeps ==
    ASSUME Inv, Changed,
           held' \in [Source -> Instant \cup {Nothing}],
           \A s \in Source : held'[s] <= now,
           unavailable' \subseteq Coverage,
           \A s \in unavailable' : held'[s] = Nothing,
           revision' \in Nat
    PROVE  Inv' /\ WakeUpArmed'
<1> USE DEF Changed, Resolve
<1>1. ExpiryTypeOK /\ now \in Instant
  BY DEF Inv, ExpiryTypeOK
<1>2. /\ now' \in Instant /\ now <= now'
      /\ timer' \in Nat \cup {NoTimer}
      /\ \A d \in Upcoming(held', unavailable', now') : timer' # NoTimer /\ timer' <= d
  BY <1>1, RescheduleArms
<1>3. shown' = Resolved(held', now) /\ evaluated' = now /\ signature' = Fresh(held', now)
  OBVIOUS
<1>4. messages' \in 0 .. MaxMessages /\ pending' \in BOOLEAN
  BY <1>1, WindowAssumption DEF Arrive, ExpiryTypeOK
<1>5. shown' \in [Source -> {"absent", "possible", "confirmed"}]
  BY <1>3, ResolvedType
<1>6. signature' \subseteq Source
  BY <1>3 DEF Fresh
<1>7. ExpiryTypeOK'
  BY <1>1, <1>2, <1>3, <1>4, <1>5, <1>6 DEF ExpiryTypeOK
<1>8. SnapshotIsCoherent'
  BY <1>3 DEF SnapshotIsCoherent
<1>9. UnavailableIsWithdrawn'
  BY DEF UnavailableIsWithdrawn
<1>10. \A s \in Source : held'[s] <= now'
  BY <1>1, <1>2
<1>11. evaluated' <= now'
  BY <1>2, <1>3
<1>12. WakeUpArmed'
  BY <1>2 DEF WakeUpArmed
<1>13. QED
  BY <1>7, <1>8, <1>9, <1>10, <1>11, <1>12 DEF Inv

\* So does an envelope that changes nothing.
LEMMA UnchangedKeeps ==
    ASSUME Inv, Unchanged, held' = held, revision' \in Nat,
           unavailable' \subseteq Coverage,
           \A s \in unavailable' : held'[s] = Nothing
    PROVE  Inv' /\ WakeUpArmed'
<1> USE DEF Unchanged, Keep
<1>1. ExpiryTypeOK /\ now \in Instant /\ held' \in [Source -> Instant \cup {Nothing}]
  BY DEF Inv, ExpiryTypeOK
<1>2. /\ now' \in Instant /\ now <= now'
      /\ timer' \in Nat \cup {NoTimer}
      /\ \A d \in Upcoming(held', unavailable', now') : timer' # NoTimer /\ timer' <= d
  BY <1>1, RescheduleArms
<1>3. messages' \in 0 .. MaxMessages
  BY <1>1, WindowAssumption DEF Arrive, ExpiryTypeOK
<1>4. ExpiryTypeOK'
  BY <1>1, <1>2, <1>3 DEF ExpiryTypeOK
<1>5. SnapshotIsCoherent'
  BY DEF SnapshotIsCoherent, Inv
<1>6. \A s \in Source : held'[s] <= now'
  BY <1>1, <1>2 DEF Inv
<1>7. evaluated' <= now'
  BY <1>1, <1>2 DEF Inv, ExpiryTypeOK
<1>8. UnavailableIsWithdrawn'
  BY DEF UnavailableIsWithdrawn
<1>9. WakeUpArmed'
  BY <1>2 DEF WakeUpArmed
<1>10. QED
  BY <1>4, <1>5, <1>6, <1>7, <1>8, <1>9 DEF Inv

-----------------------------------------------------------------------------
(***************************************************************************)
(* The steps.                                                              *)
(***************************************************************************)

\* New evidence.
LEMMA ObserveKeeps ==
    ASSUME Inv, NEW s \in Source, Observe(s)
    PROVE  Inv' /\ WakeUpArmed'
<1>1. PICK clock \in IF s \in Measured THEN 0 .. now ELSE {now} :
          /\ held' = [held EXCEPT ![s] = clock]
          /\ unavailable' = unavailable \ {s}
          /\ revision' = revision + 1 + Steps(s \in unavailable)
          /\ Changed
  BY DEF Observe
<1>2. clock \in Instant /\ clock <= now
  BY WindowAssumption DEF Inv, ExpiryTypeOK
<1>3. held' \in [Source -> Instant \cup {Nothing}]
  BY <1>1, <1>2 DEF Inv, ExpiryTypeOK
<1>4. \A t \in Source : held'[t] <= now
  BY <1>1, <1>2 DEF Inv, ExpiryTypeOK
<1>5. unavailable' \subseteq Coverage /\ \A t \in unavailable' : held'[t] = Nothing
  BY <1>1, SourceAssumption DEF Inv, ExpiryTypeOK, UnavailableIsWithdrawn
<1>6. revision' \in Nat
  BY <1>1 DEF Steps, Inv, ExpiryTypeOK
<1>7. QED
  BY <1>1, <1>3, <1>4, <1>5, <1>6, ChangedKeeps

\* Evidence that goes: what remains is well typed and not in the future.
LEMMA DropKeepsHeld ==
    ASSUME Inv, NEW s \in Source, held' = [held EXCEPT ![s] = Nothing]
    PROVE  /\ held' \in [Source -> Instant \cup {Nothing}]
           /\ \A t \in Source : held'[t] <= now
           /\ held'[s] = Nothing
           /\ \A t \in unavailable : held'[t] = Nothing
<1>1. held \in [Source -> Instant \cup {Nothing}] /\ now \in Instant
  BY DEF Inv, ExpiryTypeOK
<1>2. \A t \in Source : held[t] <= now
  BY DEF Inv
<1>3. \A t \in unavailable : t \in Source /\ held[t] = Nothing
  BY SourceAssumption DEF Inv, ExpiryTypeOK, UnavailableIsWithdrawn
<1>4. QED
  BY <1>1, <1>2, <1>3

\* The sources that are missing once s is.
LEMMA MissingType ==
    ASSUME Inv, NEW s \in Source
    PROVE  Missing(s) \subseteq Coverage /\ Missing(s) \subseteq unavailable \cup {s}
BY DEF Missing, Inv, ExpiryTypeOK

LEMMA EndKeeps ==
    ASSUME Inv, NEW s \in Source, End(s)
    PROVE  Inv' /\ WakeUpArmed'
<1>1. /\ held' = [held EXCEPT ![s] = Nothing]
      /\ unavailable' = unavailable \ {s}
      /\ revision' = revision + 1 + Steps(s \in unavailable)
      /\ Changed
  BY DEF End
<1>2. revision' \in Nat
  BY <1>1 DEF Steps, Inv, ExpiryTypeOK
<1>3. unavailable' \subseteq Coverage /\ \A t \in unavailable' : held'[t] = Nothing
  BY <1>1, DropKeepsHeld DEF Inv, ExpiryTypeOK
<1>4. QED
  BY <1>1, <1>2, <1>3, DropKeepsHeld, ChangedKeeps

LEMMA WithdrawKeeps ==
    ASSUME Inv, NEW s \in Source, Withdraw(s)
    PROVE  Inv' /\ WakeUpArmed'
<1>1. /\ held' = [held EXCEPT ![s] = Nothing]
      /\ unavailable' = Missing(s)
      /\ revision' = revision + Steps(held[s] # Nothing \/ Lost(s))
      /\ IF held[s] # Nothing \/ Lost(s) THEN Changed ELSE Unchanged
  BY DEF Withdraw
<1>2. revision' \in Nat
  BY <1>1 DEF Steps, Inv, ExpiryTypeOK
<1>3. unavailable' \subseteq Coverage /\ \A t \in unavailable' : held'[t] = Nothing
  BY <1>1, DropKeepsHeld, MissingType
<1>4. CASE held[s] # Nothing \/ Lost(s)
  BY <1>1, <1>2, <1>3, <1>4, DropKeepsHeld, ChangedKeeps
<1>5. CASE ~ (held[s] # Nothing \/ Lost(s))
  <2>1. held' = held
    BY <1>1, <1>5 DEF Inv, ExpiryTypeOK
  <2>2. QED
    BY <1>1, <1>2, <1>3, <1>5, <2>1, UnchangedKeeps
<1>6. QED
  BY <1>4, <1>5

LEMMA MarkUnavailableKeeps ==
    ASSUME Inv, NEW s \in Source, MarkUnavailable(s)
    PROVE  Inv' /\ WakeUpArmed'
<1> DEFINE differs == held[s] # Nothing \/ Lost(s) \/ Resolved(held', now) # shown
<1>1. /\ held' = [held EXCEPT ![s] = Nothing]
      /\ unavailable' = Missing(s)
      /\ revision' = revision + Steps(differs)
      /\ Changed
  BY DEF MarkUnavailable
<1> HIDE DEF differs
<1>3. revision' \in Nat
  BY <1>1 DEF Steps, Inv, ExpiryTypeOK
<1>4. unavailable' \subseteq Coverage /\ \A t \in unavailable' : held'[t] = Nothing
  BY <1>1, DropKeepsHeld, MissingType
<1>5. QED
  BY <1>1, <1>3, <1>4, DropKeepsHeld, ChangedKeeps

\* Nothing the store accepts, or a PTZ context.
LEMMA RepeatKeeps ==
    ASSUME Inv, NEW s \in Source, Repeat(s)
    PROVE  Inv' /\ WakeUpArmed'
<1>1. UNCHANGED <<held, unavailable, revision>> /\ Unchanged
  BY DEF Repeat
<1>2. QED
  BY <1>1, UnchangedKeeps DEF Inv, ExpiryTypeOK, UnavailableIsWithdrawn

LEMMA ContextKeeps ==
    ASSUME Inv, Context
    PROVE  Inv' /\ WakeUpArmed'
<1>1. UNCHANGED <<held, unavailable, revision>> /\ Changed
  BY DEF Context
<1>2. QED
  BY <1>1, ChangedKeeps DEF Inv, ExpiryTypeOK, UnavailableIsWithdrawn

\* Radar and device samples: a candidate is adopted only if it differs, but
\* the freshness signature is overwritten in any case.
LEMMA SignalKeeps ==
    ASSUME Inv, Signal
    PROVE  Inv' /\ WakeUpArmed'
<1>1. /\ ExpiryTypeOK /\ now \in Instant /\ evaluated \in Instant
      /\ held' = held /\ unavailable' = unavailable /\ pending' = pending
  BY DEF Inv, ExpiryTypeOK, Signal
<1>2. Reschedule /\ Arrive /\ signature' = Fresh(held, now)
  BY DEF Signal
<1>3. /\ now' \in Instant /\ now <= now'
      /\ timer' \in Nat \cup {NoTimer}
      /\ \A d \in Upcoming(held', unavailable', now') : timer' # NoTimer /\ timer' <= d
  <2>1. held' \in [Source -> Instant \cup {Nothing}]
    BY <1>1 DEF ExpiryTypeOK
  <2>2. QED
    BY <1>1, <1>2, <2>1, RescheduleArms
<1>4. messages' \in 0 .. MaxMessages
  BY <1>1, <1>2, WindowAssumption DEF Arrive, ExpiryTypeOK
<1>5. /\ revision' \in Nat
      /\ evaluated' \in Instant /\ evaluated' <= now
      /\ shown' = Resolved(held, evaluated')
      /\ Fresh(held, now) = Fresh(held, evaluated')
  <2>1. CASE Resolved(held, now) # shown
    BY <2>1, <1>1 DEF Signal, ExpiryTypeOK
  <2>2. CASE Resolved(held, now) = shown
    <3>1. UNCHANGED <<revision, shown, evaluated>>
      BY <2>2 DEF Signal
    <3>2. shown = Resolved(held, evaluated)
      BY DEF Inv, SnapshotIsCoherent
    <3>3. Fresh(held, now) = Fresh(held, evaluated)
      BY <2>2, <3>2, SameViewSameFresh
    <3>4. QED
      BY <3>1, <3>2, <3>3, <1>1 DEF Inv, ExpiryTypeOK
  <2>3. QED
    BY <2>1, <2>2
<1>6. SnapshotIsCoherent'
  BY <1>1, <1>2, <1>5 DEF SnapshotIsCoherent
<1>7. shown' \in [Source -> {"absent", "possible", "confirmed"}]
  BY <1>5, ResolvedType
<1>8. signature' \subseteq Source
  BY <1>2 DEF Fresh
<1>9. ExpiryTypeOK'
  BY <1>1, <1>3, <1>4, <1>5, <1>7, <1>8 DEF ExpiryTypeOK
<1>10. UnavailableIsWithdrawn'
  BY <1>1 DEF Inv, UnavailableIsWithdrawn
<1>11. (\A s \in Source : held'[s] <= now') /\ evaluated' <= now'
  BY <1>1, <1>3, <1>5 DEF Inv, ExpiryTypeOK
<1>12. WakeUpArmed'
  BY <1>3 DEF WakeUpArmed
<1>13. QED
  BY <1>6, <1>9, <1>10, <1>11, <1>12 DEF Inv

\* A snapshot a refresh leaves alone was right: its tests miss nothing.
LEMMA RefreshMissesNothing ==
    ASSUME Inv, ~ RefreshChanges
    PROVE  shown = Resolved(held, now)
<1>1. shown = Resolved(held, evaluated) /\ Fresh(held, evaluated) = Fresh(held, now)
  BY DEF Inv, SnapshotIsCoherent, RefreshChanges, SourceExpired
<1>2. SUFFICES ASSUME ~ CountMatured
               PROVE  \A s \in Source : ViewOf(held, s, evaluated) = ViewOf(held, s, now)
  BY <1>1 DEF RefreshChanges, Resolved
<1>3. SUFFICES ASSUME NEW s \in Source
               PROVE  ViewOf(held, s, evaluated) = ViewOf(held, s, now)
  OBVIOUS
<1>4. Current(held, s, evaluated) <=> Current(held, s, now)
  BY <1>1 DEF Fresh
<1>5. CASE ~ Current(held, s, now)
  BY <1>4, <1>5 DEF ViewOf
<1>6. CASE Current(held, s, now)
  <2>1. held[s] \in Instant /\ s \notin unavailable
    BY <1>6 DEF Inv, ExpiryTypeOK, UnavailableIsWithdrawn, Current
  <2>2. s \in Counting => held[s] + Maturity \in MaturityDeadlines(held, unavailable, now)
    BY <1>6, <2>1 DEF MaturityDeadlines
  <2>3. s \in Counting => ~ (evaluated < held[s] + Maturity /\ held[s] + Maturity <= now)
    BY <1>2, <2>2 DEF CountMatured
  <2>4. evaluated <= now /\ evaluated \in Instant /\ now \in Instant
    BY DEF Inv, ExpiryTypeOK
  <2>5. Young(held, s, evaluated) <=> Young(held, s, now)
    BY <2>1, <2>3, <2>4, WindowAssumption DEF Young
  <2>6. QED
    BY <1>4, <1>6, <2>5 DEF ViewOf
<1>7. QED
  BY <1>5, <1>6

\* Whichever test a refresh relies on, it leaves the right snapshot.
LEMMA RefreshIsRight ==
    ASSUME Inv, Refresh
    PROVE  shown' = Resolved(held, now)
<1>1. CASE RefreshChanges
  BY <1>1 DEF Refresh, Resolve
<1>2. CASE ~ RefreshChanges
  BY <1>2, RefreshMissesNothing DEF Refresh, Keep
<1>3. QED
  BY <1>1, <1>2

LEMMA RefreshKeeps ==
    ASSUME Inv, Refresh
    PROVE  Inv' /\ WakeUpArmed'
<1>1. /\ ExpiryTypeOK /\ now \in Instant /\ evaluated \in Instant
      /\ held' = held /\ unavailable' = unavailable /\ messages' = messages
      /\ pending' = FALSE /\ Reschedule
  BY DEF Inv, ExpiryTypeOK, Refresh
<1>2. /\ now' \in Instant /\ now <= now'
      /\ timer' \in Nat \cup {NoTimer}
      /\ \A d \in Upcoming(held', unavailable', now') : timer' # NoTimer /\ timer' <= d
  <2>1. held' \in [Source -> Instant \cup {Nothing}]
    BY <1>1 DEF ExpiryTypeOK
  <2>2. QED
    BY <1>1, <2>1, RescheduleArms
<1>3. /\ revision' \in Nat
      /\ evaluated' \in Instant /\ evaluated' <= now
      /\ shown' = Resolved(held, evaluated')
      /\ signature' = Fresh(held, evaluated')
  <2>1. CASE RefreshChanges
    BY <2>1, <1>1 DEF Refresh, Resolve, ExpiryTypeOK
  <2>2. CASE ~ RefreshChanges
    BY <2>2, <1>1 DEF Refresh, Keep, ExpiryTypeOK, Inv, SnapshotIsCoherent
  <2>3. QED
    BY <2>1, <2>2
<1>4. SnapshotIsCoherent'
  BY <1>1, <1>3 DEF SnapshotIsCoherent
<1>5. shown' \in [Source -> {"absent", "possible", "confirmed"}]
  BY <1>3, ResolvedType
<1>6. signature' \subseteq Source
  BY <1>3 DEF Fresh
<1>7. ExpiryTypeOK'
  BY <1>1, <1>2, <1>3, <1>5, <1>6 DEF ExpiryTypeOK
<1>8. UnavailableIsWithdrawn'
  BY <1>1 DEF Inv, UnavailableIsWithdrawn
<1>9. (\A s \in Source : held'[s] <= now') /\ evaluated' <= now'
  BY <1>1, <1>2, <1>3 DEF Inv, ExpiryTypeOK
<1>10. WakeUpArmed'
  BY <1>2 DEF WakeUpArmed
<1>11. QED
  BY <1>4, <1>7, <1>8, <1>9, <1>10 DEF Inv

LEMMA TimerFiresKeeps ==
    ASSUME Inv, TimerFires
    PROVE  Inv' /\ WakeUpArmed'
BY DEF TimerFires, engine, Inv, ExpiryTypeOK, UnavailableIsWithdrawn, SnapshotIsCoherent,
       WakeUpArmed

\* What is still to come later was to come before.
LEMMA UpcomingShrinks ==
    ASSUME NEW h \in [Source -> Instant \cup {Nothing}], NEW missing,
           NEW t \in Instant, NEW u \in Instant, t <= u
    PROVE  Upcoming(h, missing, u) \subseteq Upcoming(h, missing, t)
<1>1. \A s \in Source : Current(h, s, u) => Current(h, s, t)
  BY SourceAssumption, WindowAssumption, SMT DEF Current, Limited
<1>2. MaturityDeadlines(h, missing, u) \subseteq MaturityDeadlines(h, missing, t)
  BY <1>1, SourceAssumption DEF MaturityDeadlines
<1>3. ASSUME NEW d \in Upcoming(h, missing, u)
      PROVE  d \in Upcoming(h, missing, t)
  <2>1. d \in Nat /\ d > u
    BY UpcomingIsNat DEF Upcoming
  <2>2. d > t
    BY <2>1, WindowAssumption
  <2>3. QED
    BY <1>2, <2>2 DEF Upcoming
<1>4. QED
  BY <1>3

LEMMA TickKeeps ==
    ASSUME Inv, WakeUpArmed, Tick
    PROVE  Inv' /\ WakeUpArmed'
<1>1. /\ now \in Instant /\ now' \in Instant /\ now <= now'
      /\ held \in [Source -> Instant \cup {Nothing}]
      /\ UNCHANGED <<engine, timer, pending, messages>>
  BY WindowAssumption DEF Tick, Inv, ExpiryTypeOK
<1>2. Upcoming(held, unavailable, now') \subseteq Upcoming(held, unavailable, now)
  BY <1>1, UpcomingShrinks
<1>3. WakeUpArmed'
  BY <1>1, <1>2 DEF WakeUpArmed, engine
<1>4. ExpiryTypeOK' /\ UnavailableIsWithdrawn' /\ SnapshotIsCoherent'
  BY <1>1 DEF Inv, ExpiryTypeOK, engine, UnavailableIsWithdrawn, SnapshotIsCoherent
<1>5. (\A s \in Source : held'[s] <= now') /\ evaluated' <= now'
  BY <1>1 DEF Inv, ExpiryTypeOK, engine
<1>6. QED
  BY <1>3, <1>4, <1>5 DEF Inv

-----------------------------------------------------------------------------
(***************************************************************************)
(* The theorems.                                                           *)
(***************************************************************************)

LEMMA Initially == ExpiryInit => Inv /\ WakeUpArmed
<1> SUFFICES ASSUME ExpiryInit PROVE Inv /\ WakeUpArmed
  OBVIOUS
<1>1. /\ now = 0 /\ 0 \in Instant
      /\ held \in [Source -> Instant \cup {Nothing}]
      /\ \A s \in Source : held[s] <= 0
  BY WindowAssumption DEF ExpiryInit
<1>2. /\ timer \in Nat \cup {NoTimer}
      /\ \A d \in Upcoming(held, unavailable, now) : timer # NoTimer /\ timer <= d
  <2>1. timer = NextExpiration(held, unavailable, now)
    BY DEF ExpiryInit
  <2>2. QED
    BY <1>1, <2>1, NextIsEarliest
<1>3. shown \in [Source -> {"absent", "possible", "confirmed"}] /\ signature \subseteq Source
  BY ResolvedType DEF ExpiryInit, Fresh
<1>4. ExpiryTypeOK
  <2>1. /\ unavailable = {} /\ revision = 0 /\ evaluated = 0
        /\ pending = FALSE /\ messages = 0
    BY DEF ExpiryInit
  <2>2. messages \in 0 .. MaxMessages
    BY <2>1, WindowAssumption
  <2>3. unavailable \subseteq Coverage /\ revision \in Nat /\ pending \in BOOLEAN
    BY <2>1
  <2>4. QED
    BY <1>1, <1>2, <1>3, <2>1, <2>2, <2>3 DEF ExpiryTypeOK
<1>5. UnavailableIsWithdrawn /\ SnapshotIsCoherent
  BY DEF UnavailableIsWithdrawn, SnapshotIsCoherent, ExpiryInit
<1>6. QED
  BY <1>1, <1>2, <1>4, <1>5 DEF Inv, WakeUpArmed, ExpiryInit

LEMMA Inductive == Inv /\ WakeUpArmed /\ [ExpiryNext]_expiryVars => Inv' /\ WakeUpArmed'
<1> SUFFICES ASSUME Inv, WakeUpArmed, [ExpiryNext]_expiryVars PROVE Inv' /\ WakeUpArmed'
  OBVIOUS
<1>1. CASE Process
  <2>1. ASSUME NEW s \in Source, Observe(s) \/ Repeat(s) \/ End(s) \/ Withdraw(s)
        PROVE  Inv' /\ WakeUpArmed'
    BY <2>1, ObserveKeeps, RepeatKeeps, EndKeeps, WithdrawKeeps
  <2>2. QED
    BY <1>1, <2>1, ContextKeeps, SignalKeeps DEF Process
<1>2. ASSUME NEW s \in Source, MarkUnavailable(s)
      PROVE  Inv' /\ WakeUpArmed'
  BY <1>2, MarkUnavailableKeeps
<1>3. CASE Refresh
  BY <1>3, RefreshKeeps
<1>4. CASE TimerFires
  BY <1>4, TimerFiresKeeps
<1>5. CASE Tick
  BY <1>5, TickKeeps
<1>6. CASE UNCHANGED expiryVars
  BY <1>6 DEF expiryVars, Inv, ExpiryTypeOK, UnavailableIsWithdrawn, SnapshotIsCoherent, WakeUpArmed
<1>7. QED
  BY <1>1, <1>2, <1>3, <1>4, <1>5, <1>6 DEF ExpiryNext, Message

\* Whatever evidence, outages, matured counts and ticks come in whatever order,
\* the snapshot is right for the instant it was made and a wake-up is armed.
THEOREM ExpiryInvariance == ExpirySpec => [](Inv /\ WakeUpArmed)
<1>1. ExpiryInit => Inv /\ WakeUpArmed
  BY Initially
<1>2. Inv /\ WakeUpArmed /\ [ExpiryNext]_expiryVars => (Inv /\ WakeUpArmed)'
  BY Inductive
<1>3. QED
  BY <1>1, <1>2, PTL DEF ExpirySpec

\* Type correctness.
THEOREM ExpiryTypes == ExpirySpec => []ExpiryTypeOK
<1>1. Inv => ExpiryTypeOK
  BY DEF Inv
<1>2. QED
  BY <1>1, ExpiryInvariance, PTL

\* Nothing but the passage of time makes the snapshot stale.
THEOREM Coherence == ExpirySpec => []SnapshotIsCoherent
<1>1. Inv => SnapshotIsCoherent
  BY DEF Inv
<1>2. QED
  BY <1>1, ExpiryInvariance, PTL

\* A source that is unavailable claims nothing.
THEOREM Withdrawal == ExpirySpec => []UnavailableIsWithdrawn
<1>1. Inv => UnavailableIsWithdrawn
  BY DEF Inv
<1>2. QED
  BY <1>1, ExpiryInvariance, PTL

\* While a deadline is to come, somebody will look at it no later.
THEOREM WakeUps == ExpirySpec => []WakeUpArmed
BY ExpiryInvariance, PTL

\* A refresh leaves the snapshot that is right at that instant.
THEOREM Settling == ExpirySpec => RefreshSettles
<1>1. Inv /\ [ExpiryNext]_expiryVars => [Refresh => shown' = Resolved(held, now)]_expiryVars
  BY RefreshIsRight
<1>2. QED
  BY <1>1, ExpiryInvariance, PTL DEF ExpirySpec, RefreshSettles

\* A step that is no context update and keeps the revision keeps the snapshot.
LEMMA RevisionCoversSnapshot ==
    ASSUME Inv, ExpiryNext, ~ Context, revision' = revision
    PROVE  shown' = shown
<1>1. revision \in Nat
  BY DEF Inv, ExpiryTypeOK
<1>2. revision + 1 # revision /\ revision + 1 + 0 # revision /\ revision + 1 + 1 # revision
  BY <1>1
<1>3. ASSUME NEW s \in Source, Observe(s) \/ Repeat(s) \/ End(s) \/ Withdraw(s)
      PROVE  shown' = shown
  <2>1. CASE Observe(s)
    BY <1>2, <2>1 DEF Observe, Steps
  <2>2. CASE Repeat(s)
    BY <2>2 DEF Repeat, Unchanged, Keep
  <2>3. CASE End(s)
    BY <1>2, <2>3 DEF End, Steps
  <2>4. CASE Withdraw(s)
    BY <1>2, <2>4 DEF Withdraw, Steps, Unchanged, Keep
  <2>5. QED
    BY <1>3, <2>1, <2>2, <2>3, <2>4
<1>4. CASE Signal
  BY <1>2, <1>4 DEF Signal
<1>5. ASSUME NEW s \in Source, MarkUnavailable(s)
      PROVE  shown' = shown
  <2>1. shown' = Resolved(held', now)
    BY <1>5 DEF MarkUnavailable, Changed, Resolve
  <2>2. QED
    BY <1>2, <1>5, <2>1 DEF MarkUnavailable, Steps
<1>6. CASE Refresh
  BY <1>2, <1>6 DEF Refresh, Keep
<1>7. CASE TimerFires \/ Tick
  BY <1>7 DEF TimerFires, Tick, engine
<1>8. QED
  BY <1>3, <1>4, <1>5, <1>6, <1>7 DEF ExpiryNext, Message, Process

\* Evidence leaves the snapshot under a new revision, or at a context update.
THEOREM Revisions == ExpirySpec => OnlyContextsExpireSilently
<1>1. Inv /\ [ExpiryNext]_expiryVars =>
        [(/\ revision' = revision
          /\ \E s \in Source : shown[s] # "absent" /\ shown'[s] = "absent")
         => Context]_expiryVars
  BY RevisionCoversSnapshot
<1>2. QED
  BY <1>1, ExpiryInvariance, PTL DEF ExpirySpec, OnlyContextsExpireSilently
=============================================================================
