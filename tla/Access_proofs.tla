----------------------------- MODULE Access_proofs -----------------------------
(***************************************************************************)
(* What the gateway lets a caller do, proved for any types and builds,     *)
(* personas, artifacts and grants, callers, operators and checks.          *)
(*                                                                         *)
(* Dispatch: what the request in progress remembers holds what holds now,  *)
(* the registry holds what its personas registered last, and whatever the  *)
(* request has passed on its way was granted and declared in what it       *)
(* remembers.  What is resolved is declared somewhere in the registry,     *)
(* because the walk over what a type inherits stays within its types; and  *)
(* what is listed for a type is what is resolved, because a fold in which  *)
(* the later declaration wins, over the lineage turned round, has of each  *)
(* name what the first of the lineage declares.  The last publish of a     *)
(* persona has its last build in hand.                                     *)
(*                                                                         *)
(* OperatorGate: an answer the gate keeps or is about to keep, and that    *)
(* Mantle would no longer give, was asked for before Mantle changed it.    *)
(***************************************************************************)
EXTENDS MCAccess, FiniteSetTheorems, SequenceTheorems, WellFoundedInduction, TLAPS

----------------------------------------------------------------------------
(* The walk over what a type inherits *)

\* The least number of a set of numbers.
LEMMA Least ==
  ASSUME NEW S \in SUBSET Nat, S # {}
  PROVE  \E n \in S : \A k \in S : n <= k
<1>1. PICK n \in S : \A k \in S : ~(<<k, n>> \in OpToRel(<, Nat))
  BY NatLessThanWellFounded, WFMin
<1>2. \A k \in S : ~(k < n)
  <2> DEFINE R == OpToRel(<, Nat)
  <2>1. R = {ss \in Nat \X Nat : ss[1] < ss[2]}
    BY DEF OpToRel
  <2> QED
    BY <1>1, <2>1
<1> QED
  BY <1>2

\* The states of a walk that began at s, up to the k-th.
Track(c, s, g, k) == g = [i \in 0..k |-> IF i = 0 THEN s ELSE Visited(c, g[i - 1])]

LEMMA TrackExists ==
  ASSUME NEW c, NEW s, NEW k \in Nat
  PROVE  \E g : Track(c, s, g, k)
<1> DEFINE S == {n \in Nat : ~\E g : Track(c, s, g, n)}
<1> SUFFICES ASSUME S # {} PROVE FALSE
  OBVIOUS
<1>1. PICK n \in S : \A m \in S : n <= m
  BY Least
<1>2. CASE n = 0
  <2>1. Track(c, s, [i \in 0..0 |-> s], 0)
    BY DEF Track
  <2> QED
    BY <1>2, <2>1
<1>3. CASE n # 0
  <2>1. n \in Nat /\ n - 1 \in Nat /\ n - 1 \notin S
    BY <1>1, <1>3
  <2>2. PICK g : Track(c, s, g, n - 1)
    BY <2>1
  <2> DEFINE h == [i \in 0..n |-> IF i = n THEN Visited(c, g[n - 1]) ELSE g[i]]
  <2>3. \A i \in 0..n - 1 : g[i] = IF i = 0 THEN s ELSE Visited(c, g[i - 1])
    BY <2>2 DEF Track
  <2>4. \A i \in 0..n : h[i] = IF i = 0 THEN s ELSE Visited(c, h[i - 1])
    <3> SUFFICES ASSUME NEW i \in 0..n
                 PROVE  h[i] = IF i = 0 THEN s ELSE Visited(c, h[i - 1])
      OBVIOUS
    <3>1. CASE i = n
      BY <1>3, <2>1, <3>1
    <3>2. CASE i # n
      <4>1. i \in 0..n - 1 /\ (i # 0 => i - 1 \in 0..n - 1 /\ i - 1 \in 0..n /\ i - 1 # n)
        BY <2>1, <3>2
      <4> QED
        BY <2>3, <3>2, <4>1
    <3> QED
      BY <3>1, <3>2
  <2>5. Track(c, s, h, n)
    <3>1. h = [i \in 0..n |-> h[i]]
      OBVIOUS
    <3> HIDE DEF h
    <3> QED
      BY <2>4, <3>1 DEF Track
  <2> QED
    BY <2>5
<1> QED
  BY <1>2, <1>3

LEMMA TracksAgree ==
  ASSUME NEW c, NEW s, NEW g, NEW h, NEW k \in Nat, NEW m \in Nat,
         Track(c, s, g, k), Track(c, s, h, m), NEW i \in Nat, i <= k, i <= m
  PROVE  g[i] = h[i]
<1> DEFINE S == {n \in Nat : n <= k /\ n <= m /\ g[n] # h[n]}
<1> SUFFICES ASSUME S # {} PROVE FALSE
  OBVIOUS
<1>1. PICK n \in S : \A l \in S : n <= l
  BY Least
<1>2. /\ \A l \in 0..k : g[l] = IF l = 0 THEN s ELSE Visited(c, g[l - 1])
      /\ \A l \in 0..m : h[l] = IF l = 0 THEN s ELSE Visited(c, h[l - 1])
  BY DEF Track
<1>3. n # 0 /\ n \in Nat /\ n <= k /\ n <= m
  BY <1>1, <1>2
<1>4. n - 1 \in Nat /\ n - 1 \notin S
  BY <1>1, <1>3
<1>5. g[n - 1] = h[n - 1]
  BY <1>3, <1>4
<1> QED
  BY <1>1, <1>2, <1>3, <1>5

\* The recursive function of Walk is what its definition says.
LEMMA WalkUnfolds ==
  ASSUME NEW c, NEW s, NEW w,
         w = CHOOSE f : f = [n \in Nat |-> IF n = 0 THEN s ELSE Visited(c, f[n - 1])]
  PROVE  w = [n \in Nat |-> IF n = 0 THEN s ELSE Visited(c, w[n - 1])]
<1> DEFINE G == [k \in Nat |-> CHOOSE g : Track(c, s, g, k)]
           v == [n \in Nat |-> G[n][n]]
<1>1. \A k \in Nat : Track(c, s, G[k], k)
  BY TrackExists
<1>2. \A n \in Nat : v[n] = IF n = 0 THEN s ELSE Visited(c, v[n - 1])
  <2> SUFFICES ASSUME NEW n \in Nat PROVE v[n] = IF n = 0 THEN s ELSE Visited(c, v[n - 1])
    OBVIOUS
  <2>1. G[n][n] = IF n = 0 THEN s ELSE Visited(c, G[n][n - 1])
    <3> DEFINE g == G[n]
    <3>1. g = [i \in 0..n |-> IF i = 0 THEN s ELSE Visited(c, g[i - 1])]
      BY <1>1 DEF Track
    <3>2. n \in 0..n
      OBVIOUS
    <3> HIDE DEF g
    <3>3. g[n] = IF n = 0 THEN s ELSE Visited(c, g[n - 1])
      BY <3>1, <3>2
    <3> QED
      BY <3>3 DEF g
  <2>2. n # 0 => n - 1 \in Nat /\ G[n][n - 1] = G[n - 1][n - 1]
    <3> SUFFICES ASSUME n # 0 PROVE n - 1 \in Nat /\ G[n][n - 1] = G[n - 1][n - 1]
      OBVIOUS
    <3>1. n - 1 \in Nat /\ n - 1 <= n /\ n - 1 <= n - 1
      OBVIOUS
    <3> QED
      BY <1>1, <3>1, TracksAgree
  <2> QED
    BY <2>1, <2>2
<1>3. v = [n \in Nat |-> IF n = 0 THEN s ELSE Visited(c, v[n - 1])]
  <2>1. v = [n \in Nat |-> v[n]]
    OBVIOUS
  <2> HIDE DEF v
  <2> QED
    BY <1>2, <2>1
<1> HIDE DEF v
<1> QED
  BY <1>3

\* The registry c knows what each type inherits.
Heirs(c) == \A ct \in ContentTypes : Resolve(c, ct).inherits \in Seq(ContentTypes)

Walks == [stack : Seq(ContentTypes \X Nat), seen : SUBSET ContentTypes, out : Seq(ContentTypes)]

LEMMA VisitedType ==
  ASSUME NEW c, Heirs(c), NEW s \in Walks
  PROVE  Visited(c, s) \in Walks
<1>1. CASE s.stack = <<>>
  BY <1>1 DEF Visited
<1>2. CASE s.stack # <<>>
  <2> DEFINE ct == Head(s.stack)[1]
             depth == Head(s.stack)[2]
             td == Resolve(c, ct)
             above == [i \in DOMAIN td.inherits |-> <<td.inherits[i], depth + 1>>]
  <2>1. s.stack \in Seq(ContentTypes \X Nat)
    BY DEF Walks
  <2>2. Head(s.stack) \in ContentTypes \X Nat /\ Tail(s.stack) \in Seq(ContentTypes \X Nat)
    BY <1>2, <2>1, HeadTailProperties
  <2>3. ct \in ContentTypes /\ depth \in Nat
    BY <2>2
  <2>4. td.inherits \in Seq(ContentTypes)
    BY <2>3 DEF Heirs
  <2>5. Visited(c, s) = Visit(c, s, ct, depth)
    BY <1>2 DEF Visited
  <2>6. CASE ct \in s.seen \/ depth > MaxDepth
    <3>1. Visited(c, s) = [s EXCEPT !.stack = Tail(@)]
      BY <2>5, <2>6 DEF Visit
    <3> QED
      BY <2>2, <3>1 DEF Walks
  <2>7. CASE ~(ct \in s.seen \/ depth > MaxDepth)
    <3>1. Visited(c, s) = [stack |-> above \o Tail(s.stack), seen |-> s.seen \cup {ct},
                           out |-> IF td = NoDef THEN s.out ELSE Append(s.out, ct)]
      BY <2>5, <2>7 DEF Visit, Entered
    <3>2. above \in Seq(ContentTypes \X Nat)
      BY <2>3, <2>4
    <3> HIDE DEF above
    <3>3. above \o Tail(s.stack) \in Seq(ContentTypes \X Nat)
      BY <2>2, <3>2, ConcatProperties
    <3>4. (IF td = NoDef THEN s.out ELSE Append(s.out, ct)) \in Seq(ContentTypes)
      BY <2>3, AppendProperties DEF Walks
    <3>5. s.seen \cup {ct} \in SUBSET ContentTypes
      BY <2>3 DEF Walks
    <3> QED
      BY <3>1, <3>3, <3>4, <3>5 DEF Walks
  <2> QED
    BY <2>6, <2>7
<1> QED
  BY <1>1, <1>2

\* The places where the types of S name what they inherit.
Places(c, S) == UNION {{ct} \X DOMAIN Resolve(c, ct).inherits : ct \in S}

LEMMA PlacesOfOne ==
  ASSUME NEW c, Heirs(c), NEW ct \in ContentTypes
  PROVE  /\ Len(Resolve(c, ct).inherits) \in Nat
         /\ IsFiniteSet({ct} \X DOMAIN Resolve(c, ct).inherits)
         /\ Cardinality({ct} \X DOMAIN Resolve(c, ct).inherits) = Len(Resolve(c, ct).inherits)
<1>1. PICK n \in Nat : n = Len(Resolve(c, ct).inherits) /\ DOMAIN Resolve(c, ct).inherits = 1..n
  BY DEF Heirs
<1>2. IsFiniteSet(1..n) /\ Cardinality(1..n) = n
  <2>1. 1 \in Int /\ n \in Int
    OBVIOUS
  <2>2. IsFiniteSet(1..n) /\ Cardinality(1..n) = IF 1 > n THEN 0 ELSE n - 1 + 1
    BY <2>1, FS_Interval
  <2> QED
    BY <2>2
<1>3. IsFiniteSet({ct}) /\ Cardinality({ct}) = 1
  BY FS_Singleton
<1>4. IsFiniteSet({ct} \X (1..n)) /\ Cardinality({ct} \X (1..n)) = 1 * n
  BY <1>2, <1>3, FS_Product
<1> QED
  BY <1>1, <1>4

LEMMA PlacesFinite ==
  ASSUME NEW c, Heirs(c), NEW S \in SUBSET ContentTypes
  PROVE  IsFiniteSet(Places(c, S)) /\ Cardinality(Places(c, S)) \in Nat
<1> DEFINE places(ct) == {ct} \X DOMAIN Resolve(c, ct).inherits
           all == {places(ct) : ct \in S}
<1>1. IsFiniteSet(all)
  <2> DEFINE f == [ct \in S |-> places(ct)]
  <2>1. f \in Surjection(S, all)
    BY DEF Surjection
  <2>2. IsFiniteSet(S)
    BY TypesAssumption, FS_Subset
  <2> QED
    BY <2>1, <2>2, FS_Surjection
<1>2. ASSUME NEW ct \in S PROVE IsFiniteSet(places(ct))
  BY PlacesOfOne
<1>3. IsFiniteSet(UNION all)
  BY <1>1, <1>2, FS_UNION
<1> QED
  BY <1>3, FS_CardinalityType DEF Places

LEMMA PlacesGrow ==
  ASSUME NEW c, Heirs(c), NEW S \in SUBSET ContentTypes, NEW ct \in ContentTypes \ S
  PROVE  Cardinality(Places(c, S \cup {ct})) =
           Cardinality(Places(c, S)) + Len(Resolve(c, ct).inherits)
<1> DEFINE one == {ct} \X DOMAIN Resolve(c, ct).inherits
<1>1. Places(c, S \cup {ct}) = Places(c, S) \cup one
  BY DEF Places
<1>2. Places(c, S) \cap one = {}
  BY DEF Places
<1>3. /\ IsFiniteSet(one) /\ Cardinality(one) = Len(Resolve(c, ct).inherits)
      /\ Len(Resolve(c, ct).inherits) \in Nat
  BY PlacesOfOne
<1>4. IsFiniteSet(Places(c, S)) /\ Cardinality(Places(c, S)) \in Nat
  BY PlacesFinite
<1> HIDE DEF one
<1>5. Cardinality(Places(c, S) \cup one) =
        Cardinality(Places(c, S)) + Cardinality(one) - Cardinality(Places(c, S) \cap one)
  BY <1>3, <1>4, FS_Union
<1>6. Cardinality(Places(c, S) \cap one) = 0
  BY <1>2, FS_EmptySet
<1>7. PICK a, b \in Nat : a = Cardinality(Places(c, S)) /\ b = Cardinality(one)
  BY <1>3, <1>4
<1>8. Cardinality(Places(c, S) \cup one) = a + b
  BY <1>5, <1>6, <1>7
<1> QED
  BY <1>1, <1>3, <1>7, <1>8

LEMMA PlacesWithin ==
  ASSUME NEW c, Heirs(c), NEW S \in SUBSET ContentTypes
  PROVE  Cardinality(Places(c, S)) <= Visits(c) - 1 /\ Visits(c) \in Nat
<1>1. Visits(c) = 1 + Cardinality(Places(c, ContentTypes))
  BY DEF Visits, Places
<1>2. /\ IsFiniteSet(Places(c, ContentTypes)) /\ Cardinality(Places(c, ContentTypes)) \in Nat
      /\ Cardinality(Places(c, S)) \in Nat
  BY PlacesFinite
<1>3. Places(c, S) \subseteq Places(c, ContentTypes)
  BY DEF Places
<1>4. Cardinality(Places(c, S)) <= Cardinality(Places(c, ContentTypes))
  BY <1>2, <1>3, FS_Subset
<1> QED
  BY <1>1, <1>2, <1>4

LEMMA VisitsType ==
  ASSUME NEW c, Heirs(c)
  PROVE  Visits(c) \in Nat /\ Visits(c) # 0
<1>1. Cardinality(Places(c, ContentTypes)) \in Nat
  BY PlacesFinite
<1> QED
  BY <1>1 DEF Visits, Places

LEMMA WalkType ==
  ASSUME NEW c, Heirs(c), NEW ct \in ContentTypes, NEW s \in Walks
  PROVE  Walk(c, ct, s) \in Walks
<1> DEFINE s0 == [s EXCEPT !.stack = <<<<ct, 0>>>>]
           w == CHOOSE f : f = [n \in Nat |-> IF n = 0 THEN s0 ELSE Visited(c, f[n - 1])]
<1>1. s0 \in Walks
  <2>1. <<ct, 0>> \in ContentTypes \X Nat
    OBVIOUS
  <2>2. <<<<ct, 0>>>> \in Seq(ContentTypes \X Nat)
    BY <2>1
  <2> QED
    BY <2>2 DEF Walks
<1>2. Walk(c, ct, s) = w[Visits(c)]
  BY DEF Walk
<1> HIDE DEF s0
<1>3. w = [n \in Nat |-> IF n = 0 THEN s0 ELSE Visited(c, w[n - 1])]
  BY WalkUnfolds
<1> HIDE DEF w
<1>4. \A n \in Nat : w[n] = IF n = 0 THEN s0 ELSE Visited(c, w[n - 1])
  BY <1>3
<1>5. \A n \in Nat : w[n] \in Walks
  <2> DEFINE S == {n \in Nat : w[n] \notin Walks}
  <2> SUFFICES ASSUME S # {} PROVE FALSE
    OBVIOUS
  <2>1. PICK n \in S : \A k \in S : n <= k
    BY Least
  <2>2. n # 0
    BY <1>1, <1>4, <2>1
  <2>3. n - 1 \in Nat /\ n - 1 \notin S
    BY <2>1, <2>2
  <2>4. w[n] \in Walks
    BY <1>4, <2>1, <2>2, <2>3, VisitedType
  <2> QED
    BY <2>1, <2>4
<1> QED
  BY <1>2, <1>5, VisitsType

\* A visit takes one entry from the stack for each that the places of a new type put there.
LEMMA VisitedEnds ==
  ASSUME NEW c, Heirs(c), NEW s \in Walks, s.stack # <<>>, NEW v, v = Visited(c, s)
  PROVE  /\ Len(s.stack) \in Nat /\ Len(v.stack) \in Nat
         /\ Len(v.stack) - Cardinality(Places(c, v.seen)) =
              Len(s.stack) - Cardinality(Places(c, s.seen)) - 1
<1>1. s.stack \in Seq(ContentTypes \X Nat) /\ s.seen \in SUBSET ContentTypes
  BY DEF Walks
<1>2. PICK rest \in Seq(ContentTypes \X Nat) : rest = Tail(s.stack)
  BY <1>1, HeadTailProperties
<1>3. PICK ct \in ContentTypes, depth \in Nat :
        ct = Head(s.stack)[1] /\ depth = Head(s.stack)[2]
  <2>1. Head(s.stack) \in ContentTypes \X Nat
    BY <1>1, HeadTailProperties
  <2> QED
    BY <2>1
<1>4. v = Visit(c, s, ct, depth)
  BY <1>3 DEF Visited
<1>5. PICK k, n \in Nat : k = Cardinality(Places(c, s.seen)) /\ n = Len(rest)
  <2>1. Len(rest) \in Nat
    BY <1>2, LenProperties
  <2>2. Cardinality(Places(c, s.seen)) \in Nat
    BY <1>1, PlacesFinite
  <2> QED
    BY <2>1, <2>2
<1>6. Len(s.stack) = n + 1
  <2>1. Len(rest) = Len(s.stack) - 1 /\ Len(s.stack) \in Nat
    BY <1>1, <1>2, HeadTailProperties, LenProperties
  <2> QED
    BY <1>5, <2>1
<1>7. CASE ct \in s.seen \/ depth > MaxDepth
  <2>1. v.stack = rest /\ v.seen = s.seen
    BY <1>2, <1>4, <1>7 DEF Visit, Walks
  <2> QED
    BY <1>5, <1>6, <2>1
<1>8. CASE ~(ct \in s.seen \/ depth > MaxDepth)
  <2>1. PICK heirs \in Seq(ContentTypes) : heirs = Resolve(c, ct).inherits
    BY DEF Heirs
  <2>2. PICK above : above = [i \in DOMAIN heirs |-> <<heirs[i], depth + 1>>]
    OBVIOUS
  <2>3. v.stack = above \o rest /\ v.seen = s.seen \cup {ct}
    <3>1. v = Entered(s, ct, depth, Resolve(c, ct))
      BY <1>4, <1>8 DEF Visit
    <3>2. /\ v.stack = [i \in DOMAIN Resolve(c, ct).inherits |->
                          <<Resolve(c, ct).inherits[i], depth + 1>>] \o Tail(s.stack)
          /\ v.seen = s.seen \cup {ct}
      BY <3>1 DEF Entered
    <3> QED
      BY <1>2, <2>1, <2>2, <3>2
  <2>4. PICK m \in Nat : m = Len(heirs)
    BY <2>1
  <2>5. above \in Seq(ContentTypes \X Nat) /\ Len(above) = m
    <3>1. above = [i \in 1..m |-> <<heirs[i], depth + 1>>]
      BY <2>1, <2>2, <2>4
    <3>2. \A i \in 1..m : <<heirs[i], depth + 1>> \in ContentTypes \X Nat
      BY <2>1, <2>4
    <3>3. above \in Seq(ContentTypes \X Nat) /\ DOMAIN above = 1..m
      BY <3>1, <3>2
    <3> QED
      BY <3>3, LenProperties
  <2>6. Cardinality(Places(c, v.seen)) = k + m
    BY <1>1, <1>5, <1>8, <2>1, <2>3, <2>4, PlacesGrow
  <2>7. Len(v.stack) = m + n
    BY <1>5, <2>3, <2>5, ConcatProperties
  <2> QED
    BY <1>5, <1>6, <2>6, <2>7
<1> QED
  BY <1>7, <1>8

\* Nothing is left on the stack after so many visits.
LEMMA WalkEnds ==
  ASSUME NEW c, Heirs(c), NEW ct \in ContentTypes, NEW s \in Walks
  PROVE  Walk(c, ct, s).stack = <<>>
<1> DEFINE s0 == [s EXCEPT !.stack = <<<<ct, 0>>>>]
           w == CHOOSE f : f = [n \in Nat |-> IF n = 0 THEN s0 ELSE Visited(c, f[n - 1])]
<1>1. s0 \in Walks /\ Len(s0.stack) = 1
  <2>1. <<ct, 0>> \in ContentTypes \X Nat
    OBVIOUS
  <2>2. <<<<ct, 0>>>> \in Seq(ContentTypes \X Nat) /\ Len(<<<<ct, 0>>>>) = 1
    BY <2>1
  <2>3. s0.stack = <<<<ct, 0>>>>
    BY DEF Walks
  <2>4. s0 \in Walks
    BY <2>2 DEF Walks
  <2> QED
    BY <2>2, <2>3, <2>4
<1>2. Walk(c, ct, s) = w[Visits(c)]
  BY DEF Walk
<1> HIDE DEF s0
<1>3. w = [n \in Nat |-> IF n = 0 THEN s0 ELSE Visited(c, w[n - 1])]
  BY WalkUnfolds
<1> HIDE DEF w
<1>4. \A n \in Nat : w[n] = IF n = 0 THEN s0 ELSE Visited(c, w[n - 1])
  BY <1>3
<1> DEFINE Good(n) ==
             /\ w[n] \in Walks
             /\ w[n].stack # <<>> =>
                  n + Len(w[n].stack) - Cardinality(Places(c, w[n].seen)) <= 1
<1>5. \A n \in Nat : Good(n)
  <2> DEFINE S == {n \in Nat : ~Good(n)}
  <2> SUFFICES ASSUME S # {} PROVE FALSE
    OBVIOUS
  <2>1. PICK n \in S : \A k \in S : n <= k
    BY Least
  <2>2. n \in Nat /\ ~Good(n)
    BY <2>1
  <2>3. CASE n = 0
    <3>1. w[n] = s0
      BY <1>4, <2>3
    <3>2. s0.seen \in SUBSET ContentTypes
      BY <1>1 DEF Walks
    <3>3. PICK k \in Nat : k = Cardinality(Places(c, w[n].seen))
      BY <3>1, <3>2, PlacesFinite
    <3>4. n + Len(w[n].stack) - k <= 1
      <4>1. Len(w[n].stack) = 1
        BY <1>1, <3>1
      <4> QED
        BY <2>3, <4>1
    <3> QED
      BY <1>1, <2>2, <3>1, <3>3, <3>4
  <2>4. CASE n # 0
    <3>1. PICK m \in Nat : n = m + 1 /\ m = n - 1 /\ m \notin S
      <4>1. n - 1 \in Nat /\ n = (n - 1) + 1 /\ ~(n <= n - 1)
        BY <2>2, <2>4
      <4> QED
        BY <2>1, <4>1
    <3>2. Good(m) /\ w[n] = Visited(c, w[m])
      BY <1>4, <2>2, <2>4, <3>1
    <3>3. w[n] \in Walks
      BY <3>2, VisitedType
    <3>4. CASE w[m].stack = <<>>
      <4>1. w[n].stack = <<>>
        BY <3>2, <3>4 DEF Visited
      <4> QED
        BY <2>2, <3>3, <4>1
    <3>5. CASE w[m].stack # <<>>
      <4>1. /\ Len(w[m].stack) \in Nat /\ Len(w[n].stack) \in Nat
            /\ Len(w[n].stack) - Cardinality(Places(c, w[n].seen)) =
                 Len(w[m].stack) - Cardinality(Places(c, w[m].seen)) - 1
        BY <3>2, <3>5, VisitedEnds
      <4>2. w[m].seen \in SUBSET ContentTypes /\ w[n].seen \in SUBSET ContentTypes
        BY <3>2, <3>3 DEF Walks
      <4>3. Cardinality(Places(c, w[m].seen)) \in Nat /\ Cardinality(Places(c, w[n].seen)) \in Nat
        BY <4>2, PlacesFinite
      <4>4. m + Len(w[m].stack) - Cardinality(Places(c, w[m].seen)) <= 1
        BY <3>2, <3>5
      <4>5. n + Len(w[n].stack) - Cardinality(Places(c, w[n].seen)) <= 1
        BY <3>1, <4>1, <4>3, <4>4
      <4> QED
        BY <2>2, <3>3, <4>5
    <3> QED
      BY <3>4, <3>5
  <2> QED
    BY <2>3, <2>4
<1>6. PICK n \in Nat : n = Visits(c)
  BY VisitsType
<1>7. w[n].seen \in SUBSET ContentTypes /\ w[n].stack \in Seq(ContentTypes \X Nat)
  BY <1>5 DEF Walks
<1>8. Cardinality(Places(c, w[n].seen)) <= n - 1 /\ Cardinality(Places(c, w[n].seen)) \in Nat
  BY <1>6, <1>7, PlacesWithin, PlacesFinite
<1>9. w[n].stack # <<>> => Len(w[n].stack) \in Nat /\ Len(w[n].stack) # 0
  BY <1>7, EmptySeq
<1>10. w[n].stack = <<>>
  BY <1>5, <1>6, <1>8, <1>9
<1> QED
  BY <1>2, <1>6, <1>10

LEMMA WalksEndHere ==
  ASSUME Heirs(cache), NEW ct \in ContentTypes PROVE WalksEnd(ct)
<1> DEFINE s0 == [stack |-> <<>>, seen |-> {}, out |-> <<>>]
           own == Walk(cache, ct, s0)
           wide == Categorised(cache, ct, own)
<1>1. s0 \in Walks
  BY DEF Walks
<1> HIDE DEF s0
<1>2. own \in Walks /\ own.stack = <<>>
  BY <1>1, WalkType, WalkEnds
<1>3. Root \in ContentTypes /\ (Category[ct] # NoType => Category[ct] \in ContentTypes)
  BY TypesAssumption
<1> HIDE DEF own
<1>4. wide \in Walks /\ wide.stack = <<>>
  BY <1>2, <1>3, WalkType, WalkEnds DEF Categorised
<1> HIDE DEF wide
<1>5. Walk(cache, Root, wide).stack = <<>>
  BY <1>3, <1>4, WalkEnds
<1> QED
  BY <1>2, <1>4, <1>5 DEF WalksEnd, s0, own, wide

LEMMA LineageType ==
  ASSUME NEW c, Heirs(c), NEW ct \in ContentTypes
  PROVE  Lineage(c, ct) \in Seq(ContentTypes)
<1> DEFINE s0 == [stack |-> <<>>, seen |-> {}, out |-> <<>>]
           s1x == Walk(c, ct, s0)
           s2x == Categorised(c, ct, s1x)
<1>1. s0 \in Walks
  BY DEF Walks
<1> HIDE DEF s0
<1>2. s1x \in Walks
  BY <1>1, WalkType
<1>3. Root \in ContentTypes /\ (Category[ct] # NoType => Category[ct] \in ContentTypes)
  BY TypesAssumption
<1> HIDE DEF s1x
<1>4. s2x \in Walks
  BY <1>2, <1>3, WalkType DEF Categorised
<1>5. Lineage(c, ct) = Walk(c, Root, s2x).out
  BY DEF Lineage, s0, s1x
<1> HIDE DEF s2x
<1>6. Walk(c, Root, s2x) \in Walks
  BY <1>3, <1>4, WalkType
<1> QED
  BY <1>5, <1>6 DEF Walks

\* An operation that is resolved is declared by a type of the registry, and one that the
\* lineage declares is resolved.
LEMMA ResolvedIsDeclared ==
  ASSUME NEW c, Heirs(c), NEW ct \in ContentTypes, NEW name
  PROVE  \/ /\ ResolveOperation(c, ct, name) = NoOp
            /\ \A i \in DOMAIN Lineage(c, ct) : name \notin DOMAIN Resolve(c, Lineage(c, ct)[i]).ops
         \/ \E declaring \in ContentTypes :
              /\ name \in DOMAIN Resolve(c, declaring).ops
              /\ ResolveOperation(c, ct, name) = Resolve(c, declaring).ops[name]
<1> DEFINE line == Lineage(c, ct)
           D == {i \in DOMAIN line : name \in DOMAIN Resolve(c, line[i]).ops}
<1>1. line \in Seq(ContentTypes)
  BY LineageType
<1>2. ResolveOperation(c, ct, name) =
        IF D = {} THEN NoOp
        ELSE Resolve(c, line[CHOOSE i \in D : \A j \in D : i <= j]).ops[name]
  BY DEF ResolveOperation, FirstOf
<1> HIDE DEF line
<1>3. ASSUME D # {}
      PROVE  \E i \in D : ResolveOperation(c, ct, name) = Resolve(c, line[i]).ops[name]
  <2>1. D \in SUBSET Nat
    BY <1>1
  <2>2. \E i \in D : \A j \in D : i <= j
    BY <1>3, <2>1, Least
  <2> HIDE DEF D
  <2>3. (CHOOSE i \in D : \A j \in D : i <= j) \in D
    BY <2>2
  <2> QED
    BY <1>2, <1>3, <2>3
<1>4. \A i \in D : line[i] \in ContentTypes /\ name \in DOMAIN Resolve(c, line[i]).ops
  BY <1>1
<1>5. D = {} => \A i \in DOMAIN line : name \notin DOMAIN Resolve(c, line[i]).ops
  OBVIOUS
<1> HIDE DEF D
<1>6. CASE D = {}
  BY <1>2, <1>5, <1>6 DEF line
<1>7. CASE D # {}
  BY <1>3, <1>4, <1>7
<1> QED
  BY <1>6, <1>7

----------------------------------------------------------------------------
(* The operations of a type, all at once and one by one *)

\* What a fold over the sequence r has made of each set of the first k places.
Folded(c, r, g, k) ==
  g = [S \in SUBSET (1..k) |->
         IF S = {} THEN <<>> ELSE Updated(g[S \ {Max(S)}], Resolve(c, r[Max(S)]).ops)]

LEMMA MaxIs ==
  ASSUME NEW k \in Nat, NEW S \in SUBSET (1..k), k \in S
  PROVE  Max(S) = k
<1>1. k \in S /\ \A y \in S : k >= y
  OBVIOUS
<1>2. Max(S) \in S /\ \A y \in S : Max(S) >= y
  BY <1>1 DEF Max
<1>3. \A x \in S : x >= k => x = k
  OBVIOUS
<1> QED
  BY <1>1, <1>2, <1>3

LEMMA FoldExists ==
  ASSUME NEW c, NEW r, NEW k \in Nat
  PROVE  \E g : Folded(c, r, g, k)
<1> DEFINE T == {n \in Nat : ~\E g : Folded(c, r, g, n)}
<1> SUFFICES ASSUME T # {} PROVE FALSE
  OBVIOUS
<1>1. PICK n \in T : \A m \in T : n <= m
  BY Least
<1>2. CASE n = 0
  <2> DEFINE h == [S \in SUBSET (1..0) |-> <<>>]
  <2>1. \A S \in SUBSET (1..0) : S = {}
    OBVIOUS
  <2>2. h = [S \in SUBSET (1..0) |->
               IF S = {} THEN <<>> ELSE Updated(h[S \ {Max(S)}], Resolve(c, r[Max(S)]).ops)]
    BY <2>1
  <2> HIDE DEF h
  <2>3. Folded(c, r, h, 0)
    BY <2>2 DEF Folded
  <2> QED
    BY <1>1, <1>2, <2>3
<1>3. CASE n # 0
  <2>1. n \in Nat /\ n - 1 \in Nat /\ n - 1 \notin T
    BY <1>1, <1>3
  <2>2. PICK g : Folded(c, r, g, n - 1)
    BY <2>1
  <2> DEFINE h == [S \in SUBSET (1..n) |->
                     IF n \in S THEN Updated(g[S \ {n}], Resolve(c, r[n]).ops) ELSE g[S]]
             made(f, S) == IF S = {} THEN <<>>
                           ELSE Updated(f[S \ {Max(S)}], Resolve(c, r[Max(S)]).ops)
  <2>3. \A S \in SUBSET (1..n - 1) : g[S] = made(g, S)
    BY <2>2 DEF Folded
  <2>4. \A S \in SUBSET (1..n) : n \notin S => S \in SUBSET (1..n - 1) /\ h[S] = g[S]
    BY <2>1
  <2>5. \A S \in SUBSET (1..n) : h[S] = made(h, S)
    <3> SUFFICES ASSUME NEW S \in SUBSET (1..n) PROVE h[S] = made(h, S)
      OBVIOUS
    <3>1. CASE n \in S
      <4>1. Max(S) = n
        BY <2>1, <3>1, MaxIs
      <4>2. S \ {n} \in SUBSET (1..n) /\ n \notin S \ {n}
        OBVIOUS
      <4>3. h[S \ {n}] = g[S \ {n}]
        BY <2>4, <4>2
      <4>4. h[S] = Updated(g[S \ {n}], Resolve(c, r[n]).ops)
        BY <3>1
      <4> QED
        BY <3>1, <4>1, <4>3, <4>4
    <3>2. CASE n \notin S
      <4>1. h[S] = made(g, S)
        BY <2>3, <2>4, <3>2
      <4>2. S # {} => h[S \ {Max(S)}] = g[S \ {Max(S)}]
        <5>1. S \ {Max(S)} \in SUBSET (1..n) /\ n \notin S \ {Max(S)}
          BY <3>2
        <5> QED
          BY <2>4, <5>1
      <4> QED
        BY <4>1, <4>2
    <3> QED
      BY <3>1, <3>2
  <2>6. h = [S \in SUBSET (1..n) |-> h[S]]
    OBVIOUS
  <2> HIDE DEF h
  <2>7. Folded(c, r, h, n)
    BY <2>5, <2>6 DEF Folded
  <2> QED
    BY <1>1, <2>7
<1> QED
  BY <1>2, <1>3

\* The last of n places that declares a name.
LastOf(c, r, n, name, i) ==
  /\ i \in 1..n /\ name \in DOMAIN Resolve(c, r[i]).ops
  /\ \A j \in 1..n : name \in DOMAIN Resolve(c, r[j]).ops => j <= i

\* Of all the places, the last that declares a name has it.
LEMMA FoldTakesLast ==
  ASSUME NEW c, NEW r, NEW n \in Nat, NEW g, Folded(c, r, g, n), NEW name
  PROVE  /\ name \in DOMAIN g[1..n] <=> \E i \in 1..n : name \in DOMAIN Resolve(c, r[i]).ops
         /\ \A i : LastOf(c, r, n, name, i) => g[1..n][name] = Resolve(c, r[i]).ops[name]
<1> DEFINE D(m) == {i \in 1..m : name \in DOMAIN Resolve(c, r[i]).ops}
           Says(m) == /\ name \in DOMAIN g[1..m] <=> D(m) # {}
                      /\ \A i \in D(m) : (\A j \in D(m) : j <= i) =>
                            g[1..m][name] = Resolve(c, r[i]).ops[name]
           T == {m \in Nat : m <= n /\ ~Says(m)}
<1>0. SUFFICES T = {}
  <2>1. T = {} => Says(n)
    OBVIOUS
  <2> QED
    BY <2>1 DEF LastOf
<1> SUFFICES ASSUME T # {} PROVE FALSE
  OBVIOUS
<1>1. PICK m \in T : \A l \in T : m <= l
  BY Least
<1>2. m \in Nat /\ m <= n
  BY <1>1
<1>3. \A S \in SUBSET (1..n) :
        g[S] = IF S = {} THEN <<>> ELSE Updated(g[S \ {Max(S)}], Resolve(c, r[Max(S)]).ops)
  BY DEF Folded
<1>4. CASE m = 0
  <2>1. 1..m = {} /\ D(m) = {}
    BY <1>4
  <2>2. g[1..m] = <<>>
    BY <1>3, <2>1
  <2>3. name \notin DOMAIN <<>>
    OBVIOUS
  <2>4. Says(m)
    BY <2>1, <2>2, <2>3
  <2> QED
    BY <1>1, <2>4
<1>5. CASE m # 0
  <2> DEFINE l == m - 1
             own == Resolve(c, r[m]).ops
  <2>1. l \in 0..n /\ l \notin T /\ l \in Nat /\ m = l + 1
    BY <1>1, <1>2, <1>5
  <2>2. Says(l)
    BY <2>1
  <2>3. 1..m \in SUBSET (1..n) /\ m \in 1..m /\ 1..m # {}
    BY <1>2, <1>5
  <2>4. Max(1..m) = m
    BY <1>2, <2>3, MaxIs
  <2>5. (1..m) \ {m} = 1..l
    BY <2>1
  <2>6. g[1..m] = Updated(g[1..l], own)
    BY <1>3, <2>3, <2>4, <2>5
  <2>7. /\ DOMAIN g[1..m] = DOMAIN g[1..l] \cup DOMAIN own
        /\ \A x \in DOMAIN g[1..l] \cup DOMAIN own :
             g[1..m][x] = IF x \in DOMAIN own THEN own[x] ELSE g[1..l][x]
    BY <2>6 DEF Updated
  <2>8. CASE name \in DOMAIN own
    <3>1. m \in D(m) /\ \A j \in D(m) : j <= m
      BY <1>2, <2>3, <2>8
    <3>2. \A i \in D(m) : (\A j \in D(m) : j <= i) => i = m
      BY <1>2, <3>1
    <3>3. name \in DOMAIN g[1..m] /\ g[1..m][name] = own[name]
      BY <2>7, <2>8
    <3>4. Says(m)
      BY <3>1, <3>2, <3>3
    <3> QED
      BY <1>1, <3>4
  <2>9. CASE name \notin DOMAIN own
    <3>1. D(m) = D(l)
      BY <2>1, <2>9
    <3>2. /\ name \in DOMAIN g[1..m] <=> name \in DOMAIN g[1..l]
          /\ name \in DOMAIN g[1..m] => g[1..m][name] = g[1..l][name]
      BY <2>7, <2>9
    <3>3. Says(m)
      BY <2>2, <3>1, <3>2
    <3> QED
      BY <1>1, <3>3
  <2> QED
    BY <2>8, <2>9
<1> QED
  BY <1>4, <1>5

\* The operations of a type are the fold over its lineage, turned round.
LEMMA OperationsAreFolded ==
  ASSUME NEW c, NEW ct, Lineage(c, ct) \in Seq(ContentTypes)
  PROVE  \E g : /\ Folded(c, Reverse(Lineage(c, ct)), g, Len(Lineage(c, ct)))
                /\ OperationsOf(c, ct) = g[1..Len(Lineage(c, ct))]
<1> DEFINE r == Reverse(Lineage(c, ct))
           n == Len(Lineage(c, ct))
           g == CHOOSE f : f = [S \in SUBSET DOMAIN r |->
                  IF S = {} THEN <<>> ELSE Updated(f[S \ {Max(S)}], Resolve(c, r[Max(S)]).ops)]
<1>1. DOMAIN r = 1..n /\ n \in Nat
  BY DEF Reverse
<1>2. OperationsOf(c, ct) = g[DOMAIN r]
  BY DEF OperationsOf, FoldLeft, MapThenFoldSet
<1> HIDE DEF r, n
<1>3. PICK f : Folded(c, r, f, n)
  BY <1>1, FoldExists
<1>4. f = [S \in SUBSET DOMAIN r |->
             IF S = {} THEN <<>> ELSE Updated(f[S \ {Max(S)}], Resolve(c, r[Max(S)]).ops)]
  BY <1>1, <1>3 DEF Folded
<1>5. g = [S \in SUBSET DOMAIN r |->
             IF S = {} THEN <<>> ELSE Updated(g[S \ {Max(S)}], Resolve(c, r[Max(S)]).ops)]
  BY <1>4
<1> HIDE DEF g
<1>6. Folded(c, r, g, n)
  BY <1>1, <1>5 DEF Folded
<1> QED
  BY <1>1, <1>2, <1>6 DEF r, n

\* r is the lineage turned round, of n places.
Turned(line, r, n) == DOMAIN line = 1..n /\ \A i \in 1..n : r[i] = line[n - i + 1]

\* What a fold over a lineage, turned round, has of a name is what the first of the
\* lineage that declares it has.
LEMMA FoldIsFirst ==
  ASSUME NEW c, NEW n \in Nat, NEW line, NEW r, Turned(line, r, n), NEW g, Folded(c, r, g, n), NEW name
  PROVE  /\ \A i \in 1..n : name \in DOMAIN Resolve(c, line[i]).ops => name \in DOMAIN g[1..n]
         /\ FirstOf(c, line, name) = IF name \in DOMAIN g[1..n] THEN g[1..n][name] ELSE NoOp
<1> DEFINE has(i) == name \in DOMAIN Resolve(c, line[i]).ops
           D == {i \in 1..n : has(i)}
<1>1. name \in DOMAIN g[1..n] <=> \E i \in 1..n : name \in DOMAIN Resolve(c, r[i]).ops
  BY FoldTakesLast
<1>2. \A i \in 1..n : n - i + 1 \in 1..n /\ n - (n - i + 1) + 1 = i
  OBVIOUS
<1>3. \A i \in 1..n : r[i] = line[n - i + 1] /\ r[n - i + 1] = line[i]
  <2> SUFFICES ASSUME NEW i \in 1..n PROVE r[i] = line[n - i + 1] /\ r[n - i + 1] = line[i]
    OBVIOUS
  <2>1. n - i + 1 \in 1..n /\ n - (n - i + 1) + 1 = i
    OBVIOUS
  <2>2. r[n - i + 1] = line[n - (n - i + 1) + 1]
    BY <2>1 DEF Turned
  <2> QED
    BY <2>1, <2>2 DEF Turned
<1>4. name \in DOMAIN g[1..n] <=> D # {}
  BY <1>1, <1>2, <1>3
<1>5. FirstOf(c, line, name) =
        IF D = {} THEN NoOp
        ELSE Resolve(c, line[CHOOSE i \in D : \A j \in D : i <= j]).ops[name]
  BY DEF FirstOf, Turned
<1>6. \A i \in 1..n : has(i) => name \in DOMAIN g[1..n]
  BY <1>4
<1>7. CASE D # {}
  <2> DEFINE first == CHOOSE i \in D : \A j \in D : i <= j
  <2>1. \E i \in D : \A j \in D : i <= j
    <3>1. D \in SUBSET Nat
      OBVIOUS
    <3> HIDE DEF D
    <3> QED
      BY <1>7, <3>1, Least
  <2>2. first \in D /\ \A j \in D : first <= j
    BY <2>1
  <2>3. FirstOf(c, line, name) = Resolve(c, line[first]).ops[name]
    BY <1>5, <1>7
  <2>4. PICK i \in 1..n : i = first /\ has(i) /\ \A j \in 1..n : has(j) => i <= j
    BY <2>2
  <2> HIDE DEF first
  <2>5. PICK k \in 1..n : k = n - i + 1 /\ r[k] = line[i]
    BY <1>2, <1>3
  <2>6. \A j \in 1..n : name \in DOMAIN Resolve(c, r[j]).ops => j <= k
    <3> SUFFICES ASSUME NEW j \in 1..n, name \in DOMAIN Resolve(c, r[j]).ops PROVE j <= k
      OBVIOUS
    <3>1. n - j + 1 \in 1..n /\ has(n - j + 1)
      BY <1>2, <1>3
    <3>2. i <= n - j + 1
      BY <2>4, <3>1
    <3> QED
      BY <2>5, <3>2
  <2>7. g[1..n][name] = Resolve(c, line[i]).ops[name]
    <3>1. name \in DOMAIN Resolve(c, r[k]).ops
      BY <2>4, <2>5
    <3>2. LastOf(c, r, n, name, k)
      BY <2>6, <3>1 DEF LastOf
    <3>3. g[1..n][name] = Resolve(c, r[k]).ops[name]
      BY <3>2, FoldTakesLast
    <3> QED
      BY <2>5, <3>3
  <2>8. name \in DOMAIN g[1..n]
    BY <1>4, <1>7
  <2>9. FirstOf(c, line, name) = g[1..n][name]
    BY <2>3, <2>4, <2>7
  <2> QED
    BY <1>6, <2>8, <2>9
<1>8. CASE D = {}
  <2>1. name \notin DOMAIN g[1..n] /\ FirstOf(c, line, name) = NoOp
    BY <1>4, <1>5, <1>8
  <2> QED
    BY <1>6, <2>1
<1> QED
  BY <1>7, <1>8

\* The operations of a type are those its lineage declares, each as the first of the
\* lineage that declares it does.
LEMMA OperationsAreResolved ==
  ASSUME NEW c, NEW ct, Lineage(c, ct) \in Seq(ContentTypes), NEW name
  PROVE  /\ \A i \in DOMAIN Lineage(c, ct) :
              name \in DOMAIN Resolve(c, Lineage(c, ct)[i]).ops => name \in DOMAIN OperationsOf(c, ct)
         /\ ResolveOperation(c, ct, name) =
              IF name \in DOMAIN OperationsOf(c, ct) THEN OperationsOf(c, ct)[name] ELSE NoOp
<1>1. PICK line, r : line = Lineage(c, ct) /\ r = Reverse(line)
  OBVIOUS
<1>2. line \in Seq(ContentTypes)
  BY <1>1
<1>3. PICK n \in Nat : n = Len(line)
  BY <1>2
<1>4. DOMAIN line = 1..n /\ Turned(line, r, n)
  BY <1>1, <1>2, <1>3 DEF Reverse, Turned
<1>5. PICK g : Folded(c, r, g, n) /\ OperationsOf(c, ct) = g[1..n]
  BY <1>1, <1>3, OperationsAreFolded
<1>6. \A i \in 1..n : name \in DOMAIN Resolve(c, line[i]).ops => name \in DOMAIN g[1..n]
  BY <1>4, <1>5, FoldIsFirst
<1>7. FirstOf(c, line, name) = IF name \in DOMAIN g[1..n] THEN g[1..n][name] ELSE NoOp
  BY <1>4, <1>5, FoldIsFirst
<1>8. ResolveOperation(c, ct, name) = FirstOf(c, line, name)
  BY <1>1 DEF ResolveOperation
<1> QED
  BY <1>1, <1>4, <1>5, <1>6, <1>7, <1>8

----------------------------------------------------------------------------
(* The root is in every lineage *)

\* Every type walked that is declared is in the lineage.
Listed(c, s) ==
  \A ct \in s.seen : Resolve(c, ct) = NoDef \/ \E i \in DOMAIN s.out : s.out[i] = ct

LEMMA VisitedListed ==
  ASSUME NEW c, Heirs(c), NEW s \in Walks, Listed(c, s)
  PROVE  /\ Listed(c, Visited(c, s))
         /\ s.seen \subseteq Visited(c, s).seen
         /\ s.stack # <<>> /\ Head(s.stack)[2] = 0 => Head(s.stack)[1] \in Visited(c, s).seen
<1>1. CASE s.stack = <<>>
  BY <1>1 DEF Visited
<1>2. CASE s.stack # <<>>
  <2> DEFINE ct == Head(s.stack)[1]
             depth == Head(s.stack)[2]
             td == Resolve(c, ct)
             v == Visited(c, s)
  <2>1. Visited(c, s) = Visit(c, s, ct, depth)
    BY <1>2 DEF Visited
  <2>2. CASE ct \in s.seen \/ depth > MaxDepth
    <3>1. v.seen = s.seen /\ v.out = s.out
      BY <2>1, <2>2 DEF Visit, Walks
    <3>2. depth = 0 => ct \in s.seen
      BY <2>2, TypesAssumption
    <3> HIDE DEF v
    <3>3. Listed(c, v)
      BY <3>1 DEF Listed
    <3> QED
      BY <3>1, <3>2, <3>3 DEF v
  <2>3. CASE ~(ct \in s.seen \/ depth > MaxDepth)
    <3>1. /\ v.seen = s.seen \cup {ct}
          /\ v.out = IF td = NoDef THEN s.out ELSE Append(s.out, ct)
      BY <2>1, <2>3 DEF Visit, Entered
    <3>2. s.out \in Seq(ContentTypes)
      BY DEF Walks
    <3> HIDE DEF v, ct
    <3>3. \A i \in DOMAIN s.out : i \in DOMAIN v.out /\ v.out[i] = s.out[i]
      BY <3>1, <3>2
    <3>4. td = NoDef \/ \E i \in DOMAIN v.out : v.out[i] = ct
      <4> SUFFICES ASSUME td # NoDef PROVE \E i \in DOMAIN v.out : v.out[i] = ct
        OBVIOUS
      <4>1. v.out = Append(s.out, ct)
        BY <3>1
      <4>2. Len(s.out) + 1 \in DOMAIN v.out /\ v.out[Len(s.out) + 1] = ct
        BY <3>2, <4>1
      <4> QED
        BY <4>2
    <3>5. Listed(c, v)
      BY <3>1, <3>3, <3>4 DEF Listed
    <3> QED
      BY <3>1, <3>5 DEF v, ct
  <2> QED
    BY <2>2, <2>3
<1> QED
  BY <1>1, <1>2

LEMMA WalkListed ==
  ASSUME NEW c, Heirs(c), NEW ct \in ContentTypes, NEW s \in Walks, Listed(c, s)
  PROVE  Listed(c, Walk(c, ct, s)) /\ ct \in Walk(c, ct, s).seen
<1> DEFINE s0 == [s EXCEPT !.stack = <<<<ct, 0>>>>]
           w == CHOOSE f : f = [n \in Nat |-> IF n = 0 THEN s0 ELSE Visited(c, f[n - 1])]
<1>1. s0 \in Walks /\ Listed(c, s0) /\ s0.stack = <<<<ct, 0>>>>
  <2>1. <<ct, 0>> \in ContentTypes \X Nat
    OBVIOUS
  <2>2. <<<<ct, 0>>>> \in Seq(ContentTypes \X Nat)
    BY <2>1
  <2>3. s0 \in Walks /\ s0.stack = <<<<ct, 0>>>> /\ s0.seen = s.seen /\ s0.out = s.out
    BY <2>2 DEF Walks
  <2> HIDE DEF s0
  <2>4. Listed(c, s0)
    BY <2>3 DEF Listed
  <2> QED
    BY <2>3, <2>4
<1>2. Walk(c, ct, s) = w[Visits(c)]
  BY DEF Walk
<1> HIDE DEF s0
<1>3. w = [n \in Nat |-> IF n = 0 THEN s0 ELSE Visited(c, w[n - 1])]
  BY WalkUnfolds
<1> HIDE DEF w
<1>4. \A n \in Nat : w[n] = IF n = 0 THEN s0 ELSE Visited(c, w[n - 1])
  BY <1>3
<1> DEFINE Good(n) == w[n] \in Walks /\ Listed(c, w[n]) /\ (n # 0 => ct \in w[n].seen)
<1>5. \A n \in Nat : Good(n)
  <2> DEFINE S == {n \in Nat : ~Good(n)}
  <2> SUFFICES ASSUME S # {} PROVE FALSE
    OBVIOUS
  <2>1. PICK n \in S : \A k \in S : n <= k
    BY Least
  <2>2. n # 0
    BY <1>1, <1>4, <2>1
  <2>3. n - 1 \in Nat /\ n - 1 \notin S
    BY <2>1, <2>2
  <2>4. Good(n - 1)
    BY <2>3
  <2>5. w[n] = Visited(c, w[n - 1]) /\ n \in Nat
    BY <1>4, <2>1, <2>2
  <2>6. w[n] \in Walks
    BY <2>4, <2>5, VisitedType
  <2>7. Listed(c, w[n]) /\ w[n - 1].seen \subseteq w[n].seen
    BY <2>4, <2>5, VisitedListed
  <2>8. ct \in w[n].seen
    <3>1. CASE n - 1 = 0
      <4>1. w[n - 1] = s0
        BY <1>4, <2>3, <3>1
      <4>2. s0.stack # <<>> /\ Head(s0.stack)[2] = 0 /\ Head(s0.stack)[1] = ct
        BY <1>1
      <4> QED
        BY <1>1, <2>5, <4>1, <4>2, VisitedListed
    <3>2. CASE n - 1 # 0
      BY <2>4, <2>7, <3>2
    <3> QED
      BY <3>1, <3>2
  <2> QED
    BY <2>1, <2>6, <2>7, <2>8
<1>6. Visits(c) \in Nat /\ Visits(c) # 0
  BY VisitsType
<1> QED
  BY <1>2, <1>5, <1>6

LEMMA LineageEndsAtRoot ==
  ASSUME NEW c, Heirs(c), NEW ct \in ContentTypes
  PROVE  Resolve(c, Root) = NoDef \/ \E i \in DOMAIN Lineage(c, ct) : Lineage(c, ct)[i] = Root
<1> DEFINE s0 == [stack |-> <<>>, seen |-> {}, out |-> <<>>]
           s1x == Walk(c, ct, s0)
           s2x == Categorised(c, ct, s1x)
<1>1. s0 \in Walks /\ Listed(c, s0)
  BY DEF Walks, Listed
<1> HIDE DEF s0
<1>2. s1x \in Walks /\ Listed(c, s1x)
  BY <1>1, WalkType, WalkListed
<1>3. Root \in ContentTypes /\ (Category[ct] # NoType => Category[ct] \in ContentTypes)
  BY TypesAssumption
<1> HIDE DEF s1x
<1>4. s2x \in Walks /\ Listed(c, s2x)
  BY <1>2, <1>3, WalkType, WalkListed DEF Categorised
<1>5. Lineage(c, ct) = Walk(c, Root, s2x).out
  BY DEF Lineage, s0, s1x
<1> HIDE DEF s2x
<1>6. Listed(c, Walk(c, Root, s2x)) /\ Root \in Walk(c, Root, s2x).seen
  BY <1>3, <1>4, WalkListed
<1> QED
  BY <1>5, <1>6 DEF Listed

----------------------------------------------------------------------------
(* The inductive invariant of Dispatch *)

\* Records are records, and functions have the domain they were made with.
Shaped ==
  /\ cache = [ct \in ContentTypes |-> cache[ct]]
  /\ build = [s \in Servers |-> build[s]]
  /\ published = [s \in Servers |-> published[s]]
  /\ task = [n \in Registrations |-> [server |-> task[n].server, attempt |-> task[n].attempt,
                                      at |-> task[n].at, defs |-> task[n].defs]]

\* What the registry has of a persona is what that persona registered last.
FromBuilds ==
  \A ct \in ContentTypes :
    cache[ct] # NoDef =>
      LET s == cache[ct].server
      IN s \in Servers /\ ct \in DOMAIN build[s] /\ cache[ct] = ParsedDef(s, build[s][ct])

Within(f, g) == /\ f.grants \subseteq g.grants /\ f.tools \subseteq g.tools
                /\ f.endpoints \subseteq g.endpoints /\ f.ops \subseteq g.ops

Present == Now(topology, build, held, lately)

\* The request in progress remembers what holds at present.
Remembers == req # NoReq => Within(Present, req.since)

MayRead(r) == <<r.artifact, "read">> \in r.since.grants
MayDo(r) == r.op.needs = NoNeed \/ <<r.artifact, r.op.needs>> \in r.since.grants
MayCall(r) == <<r.server, r.tool>> \in OfferedTools => <<r.server, r.tool>> \in r.since.tools

\* What a request has been shown to be allowed by the time it awaits what it awaits.
Proven(r) ==
  r.kind = "dispatch" =>
    /\ r.at \notin {"nothing", "fetch"} \/ (r.answered /\ r.ok) => MayRead(r)
    /\ r.at \notin {"nothing", "fetch", "access"} \/ (r.at = "access" /\ r.answered /\ r.ok) =>
         MayDo(r)

Gated(r) == r.at = "call" \/ (r.at = "gate" /\ r.answered /\ r.ok) => MayCall(r)

Declared(r) ==
  r.kind \in {"dispatch", "create"} /\ r.op # NoOp => <<r.name, r.op>> \in r.since.ops

Placed(r) ==
  /\ r.endpoint # 0 => <<r.server, r.endpoint>> \in r.since.endpoints
  /\ r.at = "call" => r.endpoint # 0
  /\ r.at \notin {"call", "gate"} => r.endpoint = 0

Sound(r) ==
  /\ Proven(r) /\ Gated(r) /\ Declared(r) /\ Placed(r)
  /\ r.ok => r.answered
  /\ r.at = "access" => r.op \in Ops
  /\ r.at = "fetch" => r.kind = "dispatch" /\ r.artifact \in Artifacts

Requested ==
  /\ Remembers /\ Sound(req)
  /\ effect = NoReq \/ (effect.at \in {"crud", "call"} /\ Sound(effect))

\* What s has registered, as it is to be stored.
Parsed(b, s) == [ct \in DOMAIN b |-> ParsedDef(s, b[ct])]

LastTask(n) == \A m \in Registrations : task[m].server = task[n].server => m <= n

\* A publish is of a registration that happened; the last of a persona has its last build.
TasksBegun ==
  \A n \in Registrations :
    task[n] # NoTask =>
      /\ identity /\ n <= count /\ task[n].server \in Servers
      /\ DOMAIN task[n].defs \subseteq ContentTypes
      /\ task[n].at = "sleep" => task[n].attempt < Attempts
      /\ LastTask(n) => task[n].defs = Parsed(build[task[n].server], task[n].server)

\* Unless publishes of a persona overlapped, only its last is still to end, and what that
\* one stored is what Mantle has.
InOrder ==
  \A n \in Registrations :
    task[n] # NoTask /\ ~raced[task[n].server] =>
      /\ ~LastTask(n) => task[n].at \notin {"put", "sleep"}
      /\ LastTask(n) /\ task[n].at = "stored" => published[task[n].server] = task[n].defs

DispatchInv == /\ TypeOK /\ Shaped /\ FromBuilds /\ Requested /\ TasksBegun /\ InOrder

----------------------------------------------------------------------------
(* What is declared *)

LEMMA ParsedOpType ==
  ASSUME NEW name \in OpNames, NEW op \in RawOps
  PROVE  ParsedOp(name, op) \in Ops
BY DEF ParsedOp, RawOps, Ops, Kinds

LEMMA ParsedOpSame ==
  ASSUME NEW name, NEW op \in Ops
  PROVE  ParsedOp(name, op) = op
<1>1. op.kind # Absent /\ op.verb # Absent
  BY DispatchAssumption DEF DispatchAssumption, Ops, Kinds, Verbs, Absent
<1> QED
  BY <1>1 DEF ParsedOp, Ops

LEMMA NoOpIsNoOp == NoOp \notin Ops
BY DEF NoOp, RawOp, Ops, Kinds, Absent

\* The builds that personas register, and the one of a persona that never did.
BuildsTyped(bld) == \A s \in Servers : bld[s] \in Builds[s] \cup {NoBuild}

LEMMA BuildsAreBuilds ==
  ASSUME NEW bld, BuildsTyped(bld), NEW s \in Servers
  PROVE  IsBuild(bld[s])
<1>1. IsBuild(NoBuild)
  BY DEF IsBuild, NoBuild
<1> QED
  BY <1>1, DispatchAssumption DEF BuildsTyped, DispatchAssumption

LEMMA DeclaredInBuild ==
  ASSUME NEW b, IsBuild(b)
  PROVE  DeclaredIn(b) \subseteq OpNames \X Ops
<1> SUFFICES ASSUME NEW ct \in DOMAIN b, NEW name \in DOMAIN b[ct].ops
             PROVE  <<name, ParsedOp(name, b[ct].ops[name])>> \in OpNames \X Ops
  BY DEF DeclaredIn
<1>1. name \in OpNames /\ b[ct].ops[name] \in RawOps
  BY DEF IsBuild, Defines
<1> QED
  BY <1>1, ParsedOpType

LEMMA DeclaredByPlatform == DeclaredIn(Builtin) \subseteq OpNames \X Ops
<1> SUFFICES ASSUME NEW ct \in DOMAIN Builtin, NEW name \in DOMAIN Builtin[ct].ops
             PROVE  <<name, ParsedOp(name, Builtin[ct].ops[name])>> \in OpNames \X Ops
  BY DEF DeclaredIn
<1>1. Builtin[ct] # NoDef
  BY DEF NoDef, Def
<1>2. name \in OpNames /\ Builtin[ct].ops[name] \in Ops
  BY <1>1, DispatchAssumption DEF DispatchAssumption, Defines
<1> QED
  BY <1>2, ParsedOpSame

LEMMA NowIsFacts ==
  ASSUME NEW top \in [Servers -> 0..MaxRegistrations], NEW bld, BuildsTyped(bld),
         NEW grants \in SUBSET (Artifacts \X Grants), NEW tools \in SUBSET OfferedTools
  PROVE  Now(top, bld, grants, tools) \in Facts
<1>1. (UNION {DeclaredIn(bld[s]) : s \in Servers}) \cup DeclaredIn(Builtin) \in SUBSET (OpNames \X Ops)
  BY BuildsAreBuilds, DeclaredInBuild, DeclaredByPlatform
<1>2. {<<s, top[s]>> : s \in {s \in Servers : top[s] # 0}} \in SUBSET (Servers \X Registrations)
  <2>1. \A s \in Servers : top[s] # 0 => top[s] \in Registrations
    BY DispatchAssumption DEF Registrations
  <2> QED
    BY <2>1
<1> QED
  BY <1>1, <1>2 DEF Now, Facts

\* An operation the registry resolves is declared by a builtin type or by the build some
\* persona registered last.
LEMMA RegistryTyped ==
  ASSUME FromBuilds, BuildsTyped(build)
  PROVE  Heirs(cache)
<1> SUFFICES ASSUME NEW ct \in ContentTypes PROVE Resolve(cache, ct).inherits \in Seq(ContentTypes)
  BY DEF Heirs
<1>1. CASE cache[ct] # NoDef
  <2> DEFINE s == cache[ct].server
  <2>1. s \in Servers /\ ct \in DOMAIN build[s] /\ cache[ct] = ParsedDef(s, build[s][ct])
    BY <1>1 DEF FromBuilds
  <2>2. build[s][ct].inherits \in Seq(ContentTypes)
    BY <2>1, BuildsAreBuilds DEF IsBuild, Defines
  <2>3. cache[ct].inherits = build[s][ct].inherits
    BY <2>1 DEF ParsedDef, Def
  <2> QED
    BY <1>1, <2>2, <2>3 DEF Resolve
<1>2. CASE cache[ct] = NoDef /\ Builtin[ct] # NoDef
  BY <1>2, DispatchAssumption DEF Resolve, DispatchAssumption, Defines
<1>3. CASE cache[ct] = NoDef /\ Builtin[ct] = NoDef
  BY <1>3 DEF Resolve, NoDef, Def
<1> QED
  BY <1>1, <1>2, <1>3

LEMMA DeclaredIsPresent ==
  ASSUME FromBuilds, BuildsTyped(build), NEW d \in ContentTypes,
         NEW name \in DOMAIN Resolve(cache, d).ops, NEW op, op = Resolve(cache, d).ops[name]
  PROVE  op \in Ops /\ <<name, op>> \in Present.ops
<1>1. /\ \A s \in Servers : DeclaredIn(build[s]) \subseteq Present.ops
      /\ DeclaredIn(Builtin) \subseteq Present.ops
  <2>1. Present.ops = (UNION {DeclaredIn(build[s]) : s \in Servers}) \cup DeclaredIn(Builtin)
    BY DEF Present, Now
  <2> QED
    BY <2>1
<1>2. CASE cache[d] # NoDef
  <2> DEFINE s == cache[d].server
  <2>1. s \in Servers /\ d \in DOMAIN build[s] /\ cache[d] = ParsedDef(s, build[s][d])
    BY <1>2 DEF FromBuilds
  <2>2. cache[d].ops = [x \in DOMAIN build[s][d].ops |-> ParsedOp(x, build[s][d].ops[x])]
    BY <2>1 DEF ParsedDef, Def
  <2>3. name \in DOMAIN build[s][d].ops /\ op = ParsedOp(name, build[s][d].ops[name])
    BY <1>2, <2>2 DEF Resolve
  <2>4. <<name, op>> \in DeclaredIn(build[s])
    BY <2>1, <2>3 DEF DeclaredIn
  <2>5. <<name, op>> \in OpNames \X Ops
    BY <2>1, <2>4, BuildsAreBuilds, DeclaredInBuild
  <2> QED
    BY <1>1, <2>1, <2>4, <2>5
<1>3. CASE cache[d] = NoDef
  <2>1. name \in DOMAIN Builtin[d].ops /\ op = Builtin[d].ops[name]
    BY <1>3 DEF Resolve
  <2>2. Builtin[d] # NoDef
    BY <2>1 DEF NoDef, Def
  <2>3. op \in Ops /\ d \in DOMAIN Builtin
    BY <2>1, <2>2, DispatchAssumption DEF DispatchAssumption, Defines
  <2>4. <<name, op>> \in DeclaredIn(Builtin)
    BY <2>1, <2>3, ParsedOpSame DEF DeclaredIn
  <2> QED
    BY <1>1, <2>3, <2>4
<1> QED
  BY <1>2, <1>3

LEMMA ResolvedIsPresent ==
  ASSUME FromBuilds, BuildsTyped(build), NEW ct \in ContentTypes, NEW name
  PROVE  LET op == ResolveOperation(cache, ct, name)
         IN op = NoOp \/ (op \in Ops /\ <<name, op>> \in Present.ops)
<1> DEFINE op == ResolveOperation(cache, ct, name)
<1> SUFFICES ASSUME op # NoOp PROVE op \in Ops /\ <<name, op>> \in Present.ops
  OBVIOUS
<1>1. PICK d \in ContentTypes : name \in DOMAIN Resolve(cache, d).ops
                                /\ op = Resolve(cache, d).ops[name]
  BY RegistryTyped, ResolvedIsDeclared
<1> HIDE DEF op
<1> QED
  BY <1>1, DeclaredIsPresent

----------------------------------------------------------------------------
(* The handlers *)

Calls == {"nothing", "fetch", "access", "crud", "links", "gate", "call"}

\* What an await changes of a request, and that nothing else does.
SameAsk(r, x) == /\ x.kind = r.kind /\ x.artifact = r.artifact /\ x.name = r.name
                 /\ x.op = r.op /\ x.since = r.since

LEMMA AwaitIs ==
  ASSUME NEW r \in Requests, NEW at \in Calls
  PROVE  /\ Await(r, at) \in Requests
         /\ SameAsk(r, Await(r, at))
         /\ Await(r, at).at = at /\ ~Await(r, at).answered /\ ~Await(r, at).ok
         /\ Await(r, at).server = r.server /\ Await(r, at).tool = r.tool
         /\ Await(r, at).endpoint = r.endpoint
<1> DEFINE x == Await(r, at)
<1>1. x \in Requests
  BY DEF Await, Requests, Calls
<1>2. x.at = at /\ x.answered = FALSE /\ x.ok = FALSE
  BY DEF Await, Requests
<1>3. SameAsk(r, x)
  BY DEF Await, Requests, SameAsk
<1>4. x.server = r.server /\ x.tool = r.tool /\ x.endpoint = r.endpoint
  BY DEF Await, Requests
<1> QED
  BY <1>1, <1>2, <1>3, <1>4

LEMMA NoReqIsSound == NoReq \in Requests /\ Sound(NoReq)
<1>1. NoFacts \in Facts
  BY DEF NoFacts, Facts
<1>2. NoReq \in Requests
  BY <1>1, DispatchAssumption DEF NoReq, Requests, DispatchAssumption
<1> QED
  BY <1>2 DEF NoReq, Sound, Proven, Gated, Declared, Placed

\* A request that may be carried out: it is for something declared, and shown to be allowed.
Ready(r) ==
  /\ r \in Requests /\ Within(Present, r.since) /\ Declared(r)
  /\ r.kind = "dispatch" => MayRead(r) /\ MayDo(r)

\* How a handler leaves a request.
Left(r, x) == x \in Requests /\ Sound(x) /\ (x = NoReq \/ x.since = r.since)

LEMMA NoReqIsLeft == ASSUME NEW r PROVE Left(r, NoReq)
BY NoReqIsSound DEF Left

LEMMA ReadyIsSound ==
  ASSUME NEW r, Ready(r), NEW x \in Requests, SameAsk(r, x), ~x.answered, ~x.ok,
         x.at \in {"crud", "links", "gate", "call"}, Placed(x), x.at = "call" => MayCall(x)
  PROVE  Left(r, x)
<1>1. Proven(x)
  BY DEF Ready, SameAsk, Proven, MayRead, MayDo
<1>2. Gated(x) /\ Declared(x)
  BY DEF Ready, SameAsk, Gated, Declared
<1> QED
  BY <1>1, <1>2 DEF Sound, Left, SameAsk

\* The registration that the topology names for s is one of a request's.
LEMMA EndpointKnown ==
  ASSUME TypeOK, NEW r, Within(Present, r.since), NEW s \in Servers, topology[s] # 0
  PROVE  <<s, topology[s]>> \in r.since.endpoints /\ topology[s] \in 0..MaxRegistrations
<1>1. <<s, topology[s]>> \in Present.endpoints
  BY DEF Present, Now
<1> QED
  BY <1>1 DEF Within, TypeOK

LEMMA ViaGatewayLeft ==
  ASSUME TypeOK, NEW r, Ready(r), r.server \in Servers => MayCall(r)
  PROVE  Left(r, ViaGateway(r))
<1>0. r \in Requests /\ Relay \in Servers
  BY DispatchAssumption DEF Ready, DispatchAssumption
<1> DEFINE a == Await(r, "call")
<1>1. /\ a \in Requests /\ SameAsk(r, a) /\ a.at = "call" /\ ~a.answered /\ ~a.ok
      /\ a.server = r.server /\ a.tool = r.tool
  BY <1>0, AwaitIs DEF Calls
<1>2. CASE r.server \in Servers /\ topology[r.server] # 0
  <2> DEFINE x == [a EXCEPT !.endpoint = topology[r.server]]
  <2>1. /\ <<r.server, topology[r.server]>> \in r.since.endpoints
        /\ topology[r.server] \in 0..MaxRegistrations
    BY <1>2, EndpointKnown DEF Ready
  <2> HIDE DEF a
  <2>2. /\ x \in Requests /\ SameAsk(r, x) /\ x.at = "call" /\ ~x.answered /\ ~x.ok
        /\ x.server = r.server /\ x.tool = r.tool /\ x.endpoint = topology[r.server]
    BY <1>1, <2>1 DEF Requests, SameAsk
  <2> HIDE DEF x
  <2>3. Placed(x) /\ MayCall(x)
    BY <1>2, <2>1, <2>2 DEF Placed, MayCall, SameAsk
  <2>4. Left(r, x)
    BY <2>2, <2>3, ReadyIsSound
  <2> QED
    BY <1>2, <2>4 DEF ViaGateway, x, a
<1>3. CASE r.server \notin Servers /\ topology[Relay] # 0
  <2> DEFINE x == [a EXCEPT !.server = Relay, !.tool = RelayTool, !.endpoint = topology[Relay]]
  <2>1. /\ <<Relay, topology[Relay]>> \in r.since.endpoints
        /\ topology[Relay] \in 0..MaxRegistrations
    BY <1>0, <1>3, EndpointKnown DEF Ready
  <2> HIDE DEF a
  <2>2. /\ x \in Requests /\ SameAsk(r, x) /\ x.at = "call" /\ ~x.answered /\ ~x.ok
        /\ x.server = Relay /\ x.tool = RelayTool /\ x.endpoint = topology[Relay]
    BY <1>0, <1>1, <2>1 DEF Requests, SameAsk
  <2> HIDE DEF x
  <2>3. Placed(x)
    BY <1>3, <2>1, <2>2 DEF Placed, SameAsk
  <2>4. MayCall(x)
    BY <2>2, DispatchAssumption DEF MayCall, DispatchAssumption
  <2>5. Left(r, x)
    BY <2>2, <2>3, <2>4, ReadyIsSound
  <2> QED
    BY <1>3, <2>5 DEF ViaGateway, x, a
<1>4. CASE /\ r.server \in Servers => topology[r.server] = 0
           /\ r.server \notin Servers => topology[Relay] = 0
  BY <1>4, NoReqIsLeft DEF ViaGateway
<1> QED
  BY <1>2, <1>3, <1>4

LEMMA ToPersonaLeft ==
  ASSUME TypeOK, NEW r, Ready(r)
  PROVE  Left(r, ToPersona(r))
<1>1. CASE r.server \in Servers /\ topology[r.server] # 0
  <2> DEFINE a == Await(r, "gate")
             x == [a EXCEPT !.endpoint = topology[r.server]]
  <2>1. /\ a \in Requests /\ SameAsk(r, a) /\ a.at = "gate" /\ ~a.answered /\ ~a.ok
        /\ a.server = r.server /\ a.tool = r.tool
    BY AwaitIs DEF Calls, Ready
  <2>2. /\ <<r.server, topology[r.server]>> \in r.since.endpoints
        /\ topology[r.server] \in 0..MaxRegistrations
    BY <1>1, EndpointKnown DEF Ready
  <2> HIDE DEF a
  <2>3. /\ x \in Requests /\ SameAsk(r, x) /\ x.at = "gate" /\ ~x.answered /\ ~x.ok
        /\ x.server = r.server /\ x.endpoint = topology[r.server]
    BY <2>1, <2>2 DEF Requests, SameAsk
  <2> HIDE DEF x
  <2>4. Placed(x)
    BY <2>2, <2>3 DEF Placed, SameAsk
  <2>5. Left(r, x)
    BY <2>3, <2>4, ReadyIsSound
  <2> QED
    BY <1>1, <2>5 DEF ToPersona, x, a
<1>2. CASE ~(r.server \in Servers /\ topology[r.server] # 0)
  <2>1. CASE r.server \in Servers
    BY <1>2, <2>1, NoReqIsLeft DEF ToPersona, ViaGateway
  <2>2. CASE r.server \notin Servers
    BY <1>2, <2>2, ViaGatewayLeft DEF ToPersona
  <2> QED
    BY <2>1, <2>2
<1> QED
  BY <1>1, <1>2

LEMMA McpToolLeft ==
  ASSUME TypeOK, NEW r, Ready(r), r.op \in Ops, r.endpoint = 0
  PROVE  Left(r, McpTool(r))
<1> DEFINE named == [r EXCEPT !.server = r.op.server, !.tool = r.op.tool]
<1>1. r.op.server \in Servers \cup Added \cup {NoServer} /\ r.op.tool \in Tools \cup {NoToolName}
  BY DEF Ops
<1>2. /\ named \in Requests /\ SameAsk(r, named) /\ named.endpoint = 0
  BY <1>1 DEF Ready, Requests, SameAsk
<1>3. McpTool(r) \in {NoReq, ToPersona(named), Await(named, "links")}
  BY DEF McpTool
<1> HIDE DEF named
<1>4. Ready(named)
  BY <1>2 DEF Ready, SameAsk, Declared, MayRead, MayDo
<1>5. Left(r, ToPersona(named))
  BY <1>2, <1>4, ToPersonaLeft DEF Left, SameAsk
<1>6. Left(r, Await(named, "links"))
  <2> DEFINE x == Await(named, "links")
  <2>1. /\ x \in Requests /\ SameAsk(named, x) /\ x.at = "links" /\ ~x.answered
        /\ ~x.ok /\ x.endpoint = 0
    BY <1>2, AwaitIs DEF Calls
  <2> HIDE DEF x
  <2>2. Left(named, x)
    BY <1>4, <2>1, ReadyIsSound DEF Placed
  <2> QED
    BY <1>2, <2>2 DEF x, Left, SameAsk
<1> QED
  BY <1>3, <1>5, <1>6, NoReqIsLeft

LEMMA CrudLeft ==
  ASSUME NEW r, Ready(r), r.endpoint = 0
  PROVE  Left(r, Await(r, "crud"))
<1> DEFINE x == Await(r, "crud")
<1>1. /\ x \in Requests /\ SameAsk(r, x) /\ x.at = "crud" /\ ~x.answered /\ ~x.ok /\ x.endpoint = 0
  BY AwaitIs DEF Calls, Ready
<1> HIDE DEF x
<1>2. Left(r, x)
  BY <1>1, ReadyIsSound DEF Placed
<1> QED
  BY <1>2 DEF x

LEMMA CarryOutLeft ==
  ASSUME TypeOK, NEW r, Ready(r), r.op \in Ops, r.endpoint = 0
  PROVE  Left(r, CarryOut(r))
<1>1. r.op.kind \in Kinds
  BY DEF Ops
<1>2. CarryOut(r) \in {NoReq, Await(r, "crud"), McpTool(r)}
  BY <1>1 DEF CarryOut, Kinds
<1> QED
  BY <1>2, NoReqIsLeft, CrudLeft, McpToolLeft

\* What is found is declared.
LEMMA FoundIs ==
  ASSUME TypeOK, FromBuilds, NEW r \in Requests, Within(Present, r.since), NEW ct \in ContentTypes
  PROVE  /\ Found(r, ct) \in Requests /\ Declared(Found(r, ct))
         /\ Found(r, ct) = [r EXCEPT !.op = Found(r, ct).op]
         /\ Found(r, ct).op = NoOp \/ Found(r, ct).op \in Ops
<1> DEFINE op == ResolveOperation(cache, ct, r.name)
<1>1. BuildsTyped(build)
  BY DEF TypeOK, BuildsTyped
<1>2. op = NoOp \/ (op \in Ops /\ <<r.name, op>> \in Present.ops)
  BY <1>1, ResolvedIsPresent
<1>3. Found(r, ct) = [r EXCEPT !.op = op]
  BY DEF Found
<1> HIDE DEF op
<1>4. Found(r, ct).op = op /\ Found(r, ct) \in Requests /\ Found(r, ct).name = r.name
      /\ Found(r, ct).since = r.since
  BY <1>2, <1>3 DEF Requests
<1>5. Declared(Found(r, ct))
  BY <1>2, <1>4 DEF Declared, Within
<1> QED
  BY <1>2, <1>3, <1>4, <1>5

LEMMA RoutedLeft ==
  ASSUME TypeOK, FromBuilds, NEW r \in Requests, Within(Present, r.since),
         r.kind = "dispatch", r.artifact \in Artifacts, MayRead(r), r.endpoint = 0
  PROVE  Left(r, Routed(r))
<1> DEFINE x == Found(r, TypeOf[r.artifact])
<1>1. TypeOf[r.artifact] \in ContentTypes
  BY DispatchAssumption DEF DispatchAssumption
<1>2. /\ x \in Requests /\ Declared(x) /\ x = [r EXCEPT !.op = x.op]
      /\ x.op = NoOp \/ x.op \in Ops
  BY <1>1, FoundIs
<1>3. Routed(r) = Guarded(x)
  BY DEF Routed
<1> HIDE DEF x
<1>4. /\ x.kind = r.kind /\ x.artifact = r.artifact /\ x.since = r.since /\ x.endpoint = 0
      /\ x.name = r.name
  BY <1>2 DEF Requests
<1>5. MayRead(x)
  BY <1>4 DEF MayRead
<1>6. CASE x.op = NoOp
  BY <1>3, <1>6, NoReqIsLeft DEF Guarded
<1>7. CASE x.op # NoOp /\ x.op.needs \notin Unguarded
  <2> DEFINE y == Await(x, "access")
  <2>1. /\ y \in Requests /\ SameAsk(x, y) /\ y.at = "access" /\ ~y.answered /\ ~y.ok /\ y.endpoint = 0
    BY <1>2, <1>4, AwaitIs DEF Calls
  <2>2. Guarded(x) = y
    BY <1>7 DEF Guarded
  <2> HIDE DEF y
  <2>3. Proven(y) /\ Gated(y) /\ Placed(y)
    BY <1>5, <2>1 DEF Proven, Gated, Placed, MayRead, SameAsk
  <2>4. Declared(y) /\ y.op \in Ops
    BY <1>2, <1>7, <2>1 DEF Declared, SameAsk
  <2> QED
    BY <1>3, <1>4, <2>1, <2>2, <2>3, <2>4 DEF Left, Sound, SameAsk
<1>8. CASE x.op # NoOp /\ x.op.needs \in Unguarded
  <2>1. Ready(x)
    BY <1>2, <1>4, <1>5, <1>8 DEF Ready, MayDo, MayRead, Unguarded
  <2>2. Left(x, CarryOut(x))
    BY <1>2, <1>4, <1>8, <2>1, CarryOutLeft
  <2> QED
    BY <1>3, <1>4, <1>8, <2>2 DEF Guarded, Left
<1> QED
  BY <1>6, <1>7, <1>8

LEMMA CreatedLeft ==
  ASSUME TypeOK, NEW r, Ready(r), r.kind = "create", r.op = NoOp \/ r.op \in Ops, r.endpoint = 0
  PROVE  Left(r, Created(r))
<1>1. CASE r.op = NoOp \/ r.op.kind \in {"native", "artifact_crud"}
  BY <1>1, CrudLeft DEF Created
<1>2. CASE ~(r.op = NoOp \/ r.op.kind \in {"native", "artifact_crud"})
  BY <1>2, McpToolLeft DEF Created
<1> QED
  BY <1>1, <1>2

\* Past the fetch and the check of what it requires, a request in progress is ready.
LEMMA RequestReady ==
  ASSUME TypeOK, Requested, req # NoReq,
         \/ req.at \in {"links", "gate"}
         \/ req.at = "access" /\ req.answered /\ req.ok
  PROVE  Ready(req)
<1>1. req \in Requests /\ Within(Present, req.since) /\ Declared(req)
  BY DEF TypeOK, Requested, Remembers, Sound
<1>2. req.kind = "dispatch" => MayRead(req) /\ MayDo(req)
  BY DEF Requested, Sound, Proven
<1> QED
  BY <1>1, <1>2 DEF Ready

----------------------------------------------------------------------------
(* The steps of a request *)

\* A step that only concerns the request.
LEMMA AskStep ==
  ASSUME DispatchInv, UNCHANGED <<registryVars, accessVars, publishVars>>,
         req' \in Requests, Sound(req'), req' # NoReq => Within(Present, req'.since),
         \/ effect' = NoReq
         \/ effect' \in Requests /\ effect'.at \in {"crud", "call"} /\ Sound(effect')
  PROVE  DispatchInv'
<1> USE DEF registryVars, accessVars, publishVars
<1>1. TypeOK'
  <2>1. effect' \in Requests
    BY NoReqIsSound
  <2> QED
    BY <2>1 DEF DispatchInv, TypeOK
<1>2. Shaped' /\ FromBuilds'
  BY DEF DispatchInv, Shaped, FromBuilds
<1>3. Requested'
  <2>1. Present' = Present
    BY DEF Present
  <2>2. Remembers'
    BY <2>1 DEF Remembers
  <2> QED
    BY <2>2 DEF Requested
<1>4. TasksBegun' /\ InOrder'
  <2>1. \A n \in Registrations : LastTask(n)' = LastTask(n)
    BY DEF LastTask
  <2> QED
    BY <2>1 DEF DispatchInv, TasksBegun, InOrder
<1> QED
  BY <1>1, <1>2, <1>3, <1>4 DEF DispatchInv

\* The handler has its answer.
LEMMA TakeStep ==
  ASSUME DispatchInv, NEW at, NEW next, Take(at, next), req.ok => Left(req, next)
  PROVE  DispatchInv'
<1>1. Left(req, req')
  BY NoReqIsLeft DEF Take
<1>2. req # NoReq => Within(Present, req.since)
  BY DEF DispatchInv, Requested, Remembers
<1>3. req # NoReq
  BY DEF Take, NoReq
<1> QED
  BY <1>1, <1>2, <1>3, AskStep DEF Take, Left

LEMMA ServeStep ==
  ASSUME DispatchInv, Serve
  PROVE  DispatchInv'
<1>1. /\ req \in Requests /\ Sound(req) /\ req # NoReq /\ Within(Present, req.since)
      /\ ~req.answered /\ req.at # "nothing"
  BY DEF Serve, DispatchInv, TypeOK, Requested, Remembers, NoReq
<1>2. \A yes \in BOOLEAN :
        LET x == [req EXCEPT !.answered = TRUE, !.ok = yes]
        IN /\ x \in Requests /\ x.since = req.since /\ SameAsk(req, x) /\ x.at = req.at
           /\ x.ok = yes /\ x.answered
           /\ x.server = req.server /\ x.tool = req.tool /\ x.endpoint = req.endpoint
  <2> TAKE yes \in BOOLEAN
  <2> DEFINE x == [req EXCEPT !.answered = TRUE, !.ok = yes]
  <2>1. x \in Requests
    BY <1>1 DEF Requests
  <2>2. x.since = req.since /\ SameAsk(req, x)
    BY <1>1 DEF Requests, SameAsk
  <2>3. x.at = req.at /\ x.ok = yes /\ x.answered
    BY <1>1 DEF Requests
  <2>4. x.server = req.server /\ x.tool = req.tool /\ x.endpoint = req.endpoint
    BY <1>1 DEF Requests
  <2> QED
    BY <2>1, <2>2, <2>3, <2>4
<1>3. /\ req.at = "fetch" /\ Verdict(req) => MayRead(req)
      /\ req.at = "access" /\ Verdict(req) => MayDo(req)
      /\ req.at = "gate" /\ Verdict(req) => MayCall(req)
  <2>1. held \subseteq req.since.grants /\ lately \subseteq req.since.tools
    BY <1>1 DEF Within, Present, Now
  <2> QED
    BY <2>1 DEF Verdict, MayRead, MayDo, MayCall
<1>4. ASSUME NEW x \in Requests, SameAsk(req, x), x.at = req.at, x.answered,
             x.server = req.server, x.tool = req.tool, x.endpoint = req.endpoint,
             x.ok => Verdict(req)
      PROVE  Sound(x)
  <2>1. Proven(x)
    <3>1. /\ MayRead(x) = MayRead(req) /\ MayDo(x) = MayDo(req)
          /\ x.kind = req.kind /\ x.at = req.at
      BY <1>4 DEF SameAsk, MayRead, MayDo
    <3>2. Proven(req)
      BY <1>1 DEF Sound
    <3> QED
      BY <1>1, <1>3, <1>4, <3>1, <3>2 DEF Proven
  <2>2. Gated(x)
    BY <1>1, <1>3, <1>4 DEF Sound, Gated, SameAsk, MayCall
  <2>3. Declared(x) /\ Placed(x)
    BY <1>1, <1>4 DEF Sound, Declared, Placed, SameAsk
  <2> QED
    BY <1>1, <1>4, <2>1, <2>2, <2>3 DEF Sound, SameAsk
<1>5. CASE /\ Verdict(req)
           /\ req' = [req EXCEPT !.answered = TRUE, !.ok = TRUE]
           /\ effect' = IF req.at \in {"crud", "call"} THEN req ELSE NoReq
  <2>1. /\ req' \in Requests /\ SameAsk(req, req') /\ req'.at = req.at /\ req'.answered
        /\ req'.server = req.server /\ req'.tool = req.tool /\ req'.endpoint = req.endpoint
        /\ req'.since = req.since
    BY <1>2, <1>5
  <2>2. Sound(req')
    BY <1>4, <1>5, <2>1
  <2> QED
    BY <1>1, <1>5, <2>1, <2>2, AskStep DEF Serve
<1>6. CASE /\ req' = [req EXCEPT !.answered = TRUE]
           /\ effect' = NoReq
  <2>1. req' = [req EXCEPT !.answered = TRUE, !.ok = req.ok]
    BY <1>1, <1>6 DEF Requests
  <2>2. req.ok \in BOOLEAN
    BY <1>1 DEF Requests
  <2>3. /\ req' \in Requests /\ SameAsk(req, req') /\ req'.at = req.at /\ req'.answered
        /\ req'.server = req.server /\ req'.tool = req.tool /\ req'.endpoint = req.endpoint
        /\ req'.since = req.since /\ req'.ok = req.ok
    BY <1>2, <2>1, <2>2
  <2>4. Sound(req')
    BY <1>1, <1>4, <2>3 DEF Sound
  <2> QED
    BY <1>1, <1>6, <2>3, <2>4, AskStep DEF Serve
<1> QED
  BY <1>5, <1>6 DEF Serve

\* The handlers take their answers.
LEMMA TakeArtifactStep == ASSUME DispatchInv, TakeArtifact PROVE DispatchInv'
<1>1. ASSUME req.ok PROVE Left(req, Routed(req))
  <2>1. /\ req.at = "fetch" /\ req.answered /\ req \in Requests /\ Sound(req)
        /\ Within(Present, req.since)
    BY DEF TakeArtifact, Take, DispatchInv, TypeOK, Requested, Remembers, NoReq
  <2>2. /\ req.kind = "dispatch" /\ req.artifact \in Artifacts /\ MayRead(req)
        /\ req.endpoint = 0
    BY <1>1, <2>1 DEF Sound, Proven, Placed
  <2> QED
    BY <2>1, <2>2, RoutedLeft DEF DispatchInv
<1> QED
  BY <1>1, TakeStep DEF TakeArtifact

LEMMA TakeAccessStep == ASSUME DispatchInv, TakeAccess PROVE DispatchInv'
<1>1. ASSUME req.ok PROVE Left(req, CarryOut(req))
  <2>1. /\ req.at = "access" /\ req.answered /\ req # NoReq
    BY DEF TakeAccess, Take, NoReq
  <2>2. Ready(req) /\ req.op \in Ops /\ req.endpoint = 0
    BY <1>1, <2>1, RequestReady DEF DispatchInv, Requested, Sound, Placed
  <2> QED
    BY <2>2, CarryOutLeft DEF DispatchInv
<1> QED
  BY <1>1, TakeStep DEF TakeAccess

LEMMA TakeLinksStep == ASSUME DispatchInv, TakeLinks PROVE DispatchInv'
<1>1. req.at = "links" /\ req # NoReq
  BY DEF TakeLinks, Take, NoReq
<1>2. Left(req, ToPersona(req))
  BY <1>1, RequestReady, ToPersonaLeft DEF DispatchInv
<1> QED
  BY <1>2, TakeStep DEF TakeLinks

LEMMA TakeGateStep == ASSUME DispatchInv, TakeGate PROVE DispatchInv'
<1> DEFINE next == IF req.endpoint # 0 THEN Await(req, "call") ELSE ViaGateway(req)
<1>1. ASSUME req.ok PROVE Left(req, next)
  <2>1. /\ req.at = "gate" /\ req.answered /\ req # NoReq
    BY DEF TakeGate, Take, NoReq
  <2>2. Ready(req) /\ MayCall(req) /\ Placed(req)
    BY <1>1, <2>1, RequestReady DEF DispatchInv, Requested, Sound, Gated
  <2>3. CASE req.endpoint # 0
    <3> DEFINE x == Await(req, "call")
    <3>1. /\ x \in Requests /\ SameAsk(req, x) /\ x.at = "call" /\ ~x.answered /\ ~x.ok
          /\ x.server = req.server /\ x.tool = req.tool /\ x.endpoint = req.endpoint
      BY <2>2, AwaitIs DEF Calls, Ready
    <3> HIDE DEF x
    <3>2. Placed(x) /\ MayCall(x)
      BY <2>2, <2>3, <3>1 DEF Placed, MayCall, SameAsk
    <3>3. Left(req, x)
      BY <2>2, <3>1, <3>2, ReadyIsSound
    <3> QED
      BY <2>3, <3>3 DEF x
  <2>4. CASE req.endpoint = 0
    BY <2>2, <2>4, ViaGatewayLeft DEF DispatchInv
  <2> QED
    BY <2>3, <2>4
<1> HIDE DEF next
<1>2. Take("gate", next)
  BY DEF TakeGate, next
<1> QED
  BY <1>1, <1>2, TakeStep

LEMMA TakeResultStep == ASSUME DispatchInv, TakeResult PROVE DispatchInv'
<1>1. Left(req, NoReq)
  BY NoReqIsLeft
<1> QED
  BY <1>1, TakeStep DEF TakeResult

\* A request starts knowing what holds at present, and was shown nothing yet.
LEMMA StartedIs ==
  ASSUME DispatchInv, NEW kind \in {"dispatch", "create", "tool"}
  PROVE  LET r == Started(kind)
         IN /\ r \in Requests /\ Within(Present, r.since) /\ r.kind = kind /\ r.op = NoOp
            /\ r.endpoint = 0 /\ ~r.ok /\ ~r.answered
<1>1. Present \in Facts
  BY NowIsFacts DEF DispatchInv, TypeOK, BuildsTyped, Present
<1>2. Started(kind) = [NoReq EXCEPT !.kind = kind, !.since = Present]
  BY DEF Started, Present
<1>3. NoReq \in Requests
  BY NoReqIsSound
<1> DEFINE r == [NoReq EXCEPT !.kind = kind, !.since = Present]
<1>4. r \in Requests
  BY <1>1, <1>3 DEF Requests
<1>5. /\ r.since = Present /\ r.kind = kind /\ r.op = NoOp /\ r.endpoint = 0 /\ ~r.ok
      /\ ~r.answered
  BY DEF NoReq
<1> QED
  BY <1>2, <1>4, <1>5 DEF Within

LEMMA BeginStep ==
  ASSUME DispatchInv, NEW r, Begin(r), r \in Requests, Sound(r),
         r # NoReq => Within(Present, r.since)
  PROVE  DispatchInv'
BY AskStep DEF Begin

LEMMA BeginOperationStep ==
  ASSUME DispatchInv, NEW a \in Artifacts, NEW name \in OpNames, BeginOperation(a, name)
  PROVE  DispatchInv'
<1> DEFINE r == Started("dispatch")
           w == Await(r, "fetch")
           x == [w EXCEPT !.artifact = a, !.name = name]
<1>1. /\ r \in Requests /\ Within(Present, r.since) /\ r.kind = "dispatch" /\ r.op = NoOp
      /\ r.endpoint = 0
  BY StartedIs
<1> HIDE DEF r
<1>2. /\ w \in Requests /\ SameAsk(r, w) /\ w.at = "fetch" /\ ~w.answered /\ ~w.ok
      /\ w.endpoint = 0
  BY <1>1, AwaitIs DEF Calls
<1> HIDE DEF w
<1>3. /\ x \in Requests /\ x.since = r.since /\ x.kind = "dispatch" /\ x.op = NoOp
      /\ x.at = "fetch" /\ ~x.answered /\ ~x.ok /\ x.endpoint = 0 /\ x.artifact = a
  BY <1>1, <1>2 DEF Requests, SameAsk
<1>4. Begin(x)
  BY DEF BeginOperation, x, w, r
<1> HIDE DEF x
<1>5. Sound(x)
  BY <1>3 DEF Sound, Proven, Gated, Declared, Placed
<1> QED
  BY <1>1, <1>3, <1>4, <1>5, BeginStep

LEMMA BeginCreateStep ==
  ASSUME DispatchInv, NEW ct \in ContentTypes, BeginCreate(ct)
  PROVE  DispatchInv'
<1> DEFINE r == Started("create")
           n == [r EXCEPT !.name = "create"]
           f == Found(n, ct)
<1>1. /\ r \in Requests /\ Within(Present, r.since) /\ r.kind = "create" /\ r.op = NoOp
      /\ r.endpoint = 0
  BY StartedIs
<1> HIDE DEF r
<1>2. n \in Requests /\ n.since = r.since /\ n.kind = "create" /\ n.endpoint = 0
  BY <1>1, DispatchAssumption DEF Requests, DispatchAssumption
<1> HIDE DEF n
<1>3. /\ f \in Requests /\ Declared(f) /\ f = [n EXCEPT !.op = f.op]
      /\ f.op = NoOp \/ f.op \in Ops
  BY <1>1, <1>2, FoundIs DEF DispatchInv
<1> HIDE DEF f
<1>4. f.kind = "create" /\ f.since = r.since /\ f.endpoint = 0
  BY <1>2, <1>3 DEF Requests
<1>5. Ready(f)
  BY <1>1, <1>3, <1>4 DEF Ready
<1>6. Left(f, Created(f))
  BY <1>3, <1>4, <1>5, CreatedLeft DEF DispatchInv
<1>7. Begin(Created(f))
  BY DEF BeginCreate, f, n, r
<1> QED
  BY <1>1, <1>4, <1>6, <1>7, BeginStep DEF Left

LEMMA BeginToolStep ==
  ASSUME DispatchInv, NEW s \in Servers \cup Added, NEW t \in Tools, BeginTool(s, t)
  PROVE  DispatchInv'
<1> DEFINE r == Started("tool")
           w == Await(r, "gate")
           x == [w EXCEPT !.server = s, !.tool = t]
<1>1. /\ r \in Requests /\ Within(Present, r.since) /\ r.kind = "tool" /\ r.op = NoOp
      /\ r.endpoint = 0
  BY StartedIs
<1> HIDE DEF r
<1>2. /\ w \in Requests /\ SameAsk(r, w) /\ w.at = "gate" /\ ~w.answered /\ ~w.ok
      /\ w.endpoint = 0
  BY <1>1, AwaitIs DEF Calls
<1> HIDE DEF w
<1>3. /\ x \in Requests /\ x.since = r.since /\ x.kind = "tool" /\ x.op = NoOp
      /\ x.at = "gate" /\ ~x.answered /\ ~x.ok /\ x.endpoint = 0
  BY <1>1, <1>2 DEF Requests, SameAsk
<1>4. Begin(x)
  BY DEF BeginTool, x, w, r
<1> HIDE DEF x
<1>5. Sound(x)
  BY <1>3 DEF Sound, Proven, Gated, Declared, Placed
<1> QED
  BY <1>1, <1>3, <1>4, <1>5, BeginStep

----------------------------------------------------------------------------
(* What a request remembers only grows *)

LEMMA AndIs ==
  ASSUME NEW f \in Facts, NEW g \in Facts
  PROVE  And(f, g) \in Facts /\ Within(f, And(f, g)) /\ Within(g, And(f, g))
<1>1. And(f, g) = [grants |-> f.grants \cup g.grants, tools |-> f.tools \cup g.tools,
                   endpoints |-> f.endpoints \cup g.endpoints, ops |-> f.ops \cup g.ops]
  <2>1. DOMAIN f = {"grants", "tools", "endpoints", "ops"}
    BY DEF Facts
  <2>2. And(f, g) = [x \in {"grants", "tools", "endpoints", "ops"} |-> f[x] \cup g[x]]
    BY <2>1 DEF And
  <2> QED
    BY <2>2
<1> QED
  BY <1>1 DEF Within, Facts

LEMMA SoundGrows ==
  ASSUME NEW r \in Requests, Sound(r), NEW f \in Facts, Within(r.since, f)
  PROVE  /\ [r EXCEPT !.since = f] \in Requests /\ Sound([r EXCEPT !.since = f])
         /\ [r EXCEPT !.since = f].since = f
<1> DEFINE x == [r EXCEPT !.since = f]
<1>1. x \in Requests
  BY DEF Requests
<1>2. /\ x.since = f /\ x.kind = r.kind /\ x.artifact = r.artifact /\ x.name = r.name
      /\ x.op = r.op /\ x.at = r.at /\ x.answered = r.answered /\ x.ok = r.ok
      /\ x.server = r.server /\ x.tool = r.tool /\ x.endpoint = r.endpoint
  BY DEF Requests
<1> HIDE DEF x
<1>3. /\ MayRead(r) => MayRead(x)
      /\ MayDo(r) => MayDo(x)
      /\ MayCall(r) => MayCall(x)
  BY <1>2 DEF MayRead, MayDo, MayCall, Within
<1>4. Proven(x)
  BY <1>2, <1>3 DEF Sound, Proven
<1>5. Gated(x)
  BY <1>2, <1>3 DEF Sound, Gated
<1>6. Declared(x) /\ Placed(x)
  BY <1>2 DEF Sound, Declared, Placed, Within
<1>7. Sound(x)
  BY <1>2, <1>4, <1>5, <1>6 DEF Sound
<1> QED
  BY <1>1, <1>2, <1>7 DEF x

LEMMA RememberKeeps ==
  ASSUME DispatchInv, Remember, Present' \in Facts, effect' = NoReq
  PROVE  req' \in Requests /\ effect' \in Requests /\ Requested'
<1>1. req \in Requests /\ Sound(req) /\ NoReq \in Requests
  BY NoReqIsSound DEF DispatchInv, TypeOK, Requested
<1>2. CASE req = NoReq
  <2>1. req' = NoReq
    BY <1>2 DEF Remember
  <2> QED
    BY <1>1, <2>1, NoReqIsSound DEF Requested, Remembers
<1>3. CASE req # NoReq
  <2> DEFINE f == And(req.since, Present')
  <2>1. f \in Facts /\ Within(req.since, f) /\ Within(Present', f)
    BY <1>1, AndIs DEF Requests
  <2>2. req' = [req EXCEPT !.since = f]
    BY <1>1, <1>3 DEF Remember, Present, Requests
  <2> HIDE DEF f
  <2>3. req' \in Requests /\ Sound(req') /\ Within(Present', req'.since)
    BY <1>1, <2>1, <2>2, SoundGrows
  <2> QED
    BY <1>1, <2>3 DEF Requested, Remembers
<1> QED
  BY <1>2, <1>3

----------------------------------------------------------------------------
(* The steps of the registry, of Mantle and of the publishes *)

LEMMA RegrantStep == ASSUME DispatchInv, Regrant PROVE DispatchInv'
<1> USE DEF registryVars, publishVars
<1>1. /\ held' \in SUBSET (Artifacts \X Grants) /\ mayRun' \subseteq lately'
      /\ lately' \in SUBSET OfferedTools
  BY DEF Regrant, DispatchInv, TypeOK
<1>2. regrants' \in 0..MaxRegrants
  BY DispatchAssumption DEF Regrant, DispatchInv, TypeOK, DispatchAssumption
<1>3. Present' \in Facts
  <2>1. Now(topology, build, held', lately') \in Facts
    BY <1>1, NowIsFacts DEF DispatchInv, TypeOK, BuildsTyped
  <2> QED
    BY <2>1 DEF Regrant, Present
<1>4. req' \in Requests /\ effect' \in Requests /\ Requested'
  BY <1>3, RememberKeeps DEF Regrant
<1>5. TypeOK'
  BY <1>1, <1>2, <1>4 DEF Regrant, DispatchInv, TypeOK
<1>6. Shaped' /\ FromBuilds'
  BY DEF Regrant, DispatchInv, Shaped, FromBuilds
<1>7. TasksBegun' /\ InOrder'
  <2>1. \A n \in Registrations : LastTask(n)' = LastTask(n)
    BY DEF LastTask, Regrant
  <2> QED
    BY <2>1 DEF Regrant, DispatchInv, TasksBegun, InOrder
<1> QED
  BY <1>4, <1>5, <1>6, <1>7 DEF DispatchInv

\* What the gate may still answer with only shrinks, and was remembered.
LEMMA ForgottenStep ==
  ASSUME DispatchInv, NEW t \in OfferedTools, Forgotten(t) PROVE DispatchInv'
<1> USE DEF registryVars, publishVars
<1>1. lately' \in SUBSET OfferedTools /\ mayRun' \subseteq lately'
  BY DEF Forgotten, DispatchInv, TypeOK
<1>2. NoReq \in Requests
  BY NoReqIsSound
<1>3. Requested'
  <2>1. Within(Present', Present)
    BY DEF Present, Now, Within, Forgotten
  <2>2. req # NoReq => Within(Present', req.since)
    BY <2>1 DEF DispatchInv, Requested, Remembers, Within
  <2> QED
    BY <1>2, <2>2, NoReqIsSound DEF Forgotten, DispatchInv, Requested, Remembers
<1>4. TypeOK'
  BY <1>1, <1>2 DEF Forgotten, DispatchInv, TypeOK
<1>5. Shaped' /\ FromBuilds'
  BY DEF Forgotten, DispatchInv, Shaped, FromBuilds
<1>6. TasksBegun' /\ InOrder'
  <2>1. \A n \in Registrations : LastTask(n)' = LastTask(n)
    BY DEF LastTask, Forgotten
  <2> QED
    BY <2>1 DEF Forgotten, DispatchInv, TasksBegun, InOrder
<1> QED
  BY <1>3, <1>4, <1>5, <1>6 DEF DispatchInv

\* The tasks keep what they have in hand, except that n is at another point.
Moved(n, at, attempt) ==
  task' = [task EXCEPT ![n] = [server |-> task[n].server, attempt |-> attempt, at |-> at,
                               defs |-> task[n].defs]]

LEMMA MovedIs ==
  ASSUME DispatchInv, NEW n \in Registrations, NEW at, NEW attempt, Moved(n, at, attempt)
  PROVE  /\ task'[n] = [server |-> task[n].server, attempt |-> attempt, at |-> at,
                        defs |-> task[n].defs]
         /\ \A m \in Registrations : m # n => task'[m] = task[m]
         /\ \A m \in Registrations : task'[m].server = task[m].server /\ task'[m].defs = task[m].defs
         /\ \A m \in Registrations : LastTask(m)' = LastTask(m)
         /\ (task = [m \in Registrations |-> [server |-> task[m].server, attempt |-> task[m].attempt,
                                              at |-> task[m].at, defs |-> task[m].defs]])'
<1>1. DOMAIN task = Registrations
  BY DEF DispatchInv, Shaped
<1>2. task'[n] = [server |-> task[n].server, attempt |-> attempt, at |-> at, defs |-> task[n].defs]
  BY <1>1 DEF Moved
<1>3. \A m \in Registrations : m # n => task'[m] = task[m]
  BY <1>1 DEF Moved
<1>4. \A m \in Registrations : task'[m].server = task[m].server /\ task'[m].defs = task[m].defs
  BY <1>2, <1>3
<1>5. \A m \in Registrations : LastTask(m)' = LastTask(m)
  BY <1>4 DEF LastTask
<1>6. \A m \in Registrations :
        task'[m] = [server |-> task'[m].server, attempt |-> task'[m].attempt,
                    at |-> task'[m].at, defs |-> task'[m].defs]
  BY <1>2, <1>3 DEF DispatchInv, Shaped
<1>7. task' = [m \in Registrations |-> task'[m]]
  BY <1>1 DEF Moved
<1>8. task' = [m \in Registrations |-> [server |-> task'[m].server, attempt |-> task'[m].attempt,
                                        at |-> task'[m].at, defs |-> task'[m].defs]]
  BY <1>6, <1>7
<1> QED
  BY <1>2, <1>3, <1>4, <1>5, <1>8

\* A publish moves on, and has stored what it has in hand or has not.
LEMMA MovesStep ==
  ASSUME DispatchInv, NEW n \in Registrations, task[n].at \in {"put", "sleep"},
         NEW at \in {"put", "sleep", "stored", "gaveUp"}, NEW attempt \in 0..Attempts,
         Moved(n, at, attempt), at = "sleep" => attempt < Attempts,
         published' \in {published, [published EXCEPT ![task[n].server] = task[n].defs]},
         at = "stored" => published' = [published EXCEPT ![task[n].server] = task[n].defs],
         effect' = NoReq, UNCHANGED <<registryVars, accessVars, req, raced>>
  PROVE  DispatchInv'
<1> USE DEF registryVars, accessVars
<1>1. /\ task[n] # NoTask /\ identity /\ task[n].server \in Servers
      /\ DOMAIN task[n].defs \subseteq ContentTypes
  <2>1. task[n] # NoTask
    BY DEF NoTask
  <2> QED
    BY <2>1 DEF DispatchInv, TasksBegun
<1>2. /\ task'[n] = [server |-> task[n].server, attempt |-> attempt, at |-> at,
                     defs |-> task[n].defs]
      /\ \A m \in Registrations : m # n => task'[m] = task[m]
      /\ \A m \in Registrations : task'[m].server = task[m].server /\ task'[m].defs = task[m].defs
      /\ \A m \in Registrations : LastTask(m)' = LastTask(m)
      /\ (task = [m \in Registrations |-> [server |-> task[m].server, attempt |-> task[m].attempt,
                                           at |-> task[m].at, defs |-> task[m].defs]])'
  BY MovedIs
<1>3. /\ \A s \in Servers : s # task[n].server => published'[s] = published[s]
      /\ published'[task[n].server] \in {published[task[n].server], task[n].defs}
      /\ at = "stored" => published'[task[n].server] = task[n].defs
      /\ published' = [s \in Servers |-> published'[s]]
  <2>1. published = [s \in Servers |-> published[s]]
    BY DEF DispatchInv, Shaped
  <2> QED
    BY <1>1, <2>1
<1>4. req' \in Requests /\ effect' \in Requests /\ Requested'
  <2>1. NoReq \in Requests
    BY NoReqIsSound
  <2>2. Present' = Present
    BY DEF Present
  <2> QED
    BY <2>1, <2>2 DEF DispatchInv, TypeOK, Requested, Remembers
<1>5. TypeOK'
  <2>1. \A m \in Registrations :
          /\ task'[m].attempt \in 0..Attempts
          /\ task'[m].at \in {"none", "put", "sleep", "stored", "gaveUp"}
          /\ \A ct \in DOMAIN task'[m].defs : task'[m].defs[ct].server = task'[m].server
    BY <1>2 DEF DispatchInv, TypeOK
  <2>2. \A s \in Servers : DOMAIN published'[s] \subseteq ContentTypes
    BY <1>1, <1>3 DEF DispatchInv, TypeOK
  <2> QED
    BY <1>4, <2>1, <2>2 DEF DispatchInv, TypeOK
<1>6. Shaped' /\ FromBuilds'
  BY <1>2, <1>3 DEF DispatchInv, Shaped, FromBuilds
<1>7. \A m \in Registrations : task'[m] # NoTask => task[m] # NoTask
  BY <1>1, <1>2
<1>8. TasksBegun'
  <2> SUFFICES ASSUME NEW m \in Registrations, task'[m] # NoTask
               PROVE  /\ identity /\ m <= count /\ task'[m].server \in Servers
                      /\ DOMAIN task'[m].defs \subseteq ContentTypes
                      /\ task'[m].at = "sleep" => task'[m].attempt < Attempts
                      /\ LastTask(m) =>
                           task'[m].defs = Parsed(build[task'[m].server], task'[m].server)
    BY <1>2 DEF TasksBegun
  <2>1. task[m] # NoTask
    BY <1>7
  <2>2. task'[m].at = "sleep" => task'[m].attempt < Attempts
    BY <1>2, <2>1 DEF DispatchInv, TasksBegun
  <2> QED
    BY <1>2, <2>1, <2>2 DEF DispatchInv, TasksBegun
<1>9. InOrder'
  <2> SUFFICES ASSUME NEW m \in Registrations, task'[m] # NoTask, ~raced[task[m].server]
               PROVE  /\ ~LastTask(m) => task'[m].at \notin {"put", "sleep"}
                      /\ LastTask(m) /\ task'[m].at = "stored" =>
                           published'[task[m].server] = task[m].defs
    BY <1>2 DEF InOrder
  <2>1. task[m] # NoTask
    BY <1>7
  <2>2. /\ ~LastTask(m) => task[m].at \notin {"put", "sleep"}
        /\ LastTask(m) /\ task[m].at = "stored" => published[task[m].server] = task[m].defs
    BY <2>1 DEF DispatchInv, InOrder
  <2>3. CASE m = n
    BY <1>2, <1>3, <2>2, <2>3
  <2>4. CASE m # n
    <3>1. task'[m] = task[m] /\ task[m].server \in Servers
      BY <1>2, <2>1, <2>4 DEF DispatchInv, TasksBegun
    <3>2. CASE task[m].server # task[n].server
      BY <1>3, <2>2, <3>1, <3>2
    <3>3. CASE task[m].server = task[n].server
      <4>1. LastTask(n)
        BY <1>1, <3>3 DEF DispatchInv, InOrder
      <4>2. ~LastTask(m)
        BY <2>4, <3>3, <4>1 DEF LastTask, Registrations
      <4> QED
        BY <2>2, <3>1, <4>2
    <3> QED
      BY <3>2, <3>3
  <2> QED
    BY <2>3, <2>4
<1> QED
  BY <1>4, <1>5, <1>6, <1>8, <1>9 DEF DispatchInv

LEMMA PublishStep == ASSUME DispatchInv, NEW n \in Registrations, Publish(n) PROVE DispatchInv'
<1>1. task[n].at = "put" /\ task[n].attempt \in 0..Attempts /\ effect' = NoReq
      /\ UNCHANGED <<registryVars, accessVars, req, raced>>
  BY DEF Publish, DispatchInv, TypeOK
<1>2. \A at : task' = [task EXCEPT ![n].at = at] => Moved(n, at, task[n].attempt)
  BY DEF Moved, DispatchInv, Shaped
<1> DEFINE stored == [published EXCEPT ![task[n].server] = task[n].defs]
<1>3. CASE published' = stored /\ task' = [task EXCEPT ![n].at = "stored"]
  BY <1>1, <1>2, <1>3, MovesStep
<1>4. CASE /\ published' \in {published, stored}
           /\ task' = [task EXCEPT ![n].at = IF task[n].attempt = Attempts THEN "gaveUp" ELSE "sleep"]
  <2> DEFINE at == IF task[n].attempt = Attempts THEN "gaveUp" ELSE "sleep"
  <2>1. at = "sleep" => task[n].attempt < Attempts
    BY <1>1, DispatchAssumption DEF DispatchAssumption
  <2>2. at \in {"sleep", "gaveUp"} /\ Moved(n, at, task[n].attempt)
    BY <1>2, <1>4
  <2> HIDE DEF at
  <2> QED
    BY <1>1, <1>4, <2>1, <2>2, MovesStep
<1>5. CASE task' = [task EXCEPT ![n].at = "gaveUp"] /\ UNCHANGED published
  BY <1>1, <1>2, <1>5, MovesStep
<1> QED
  BY <1>3, <1>4, <1>5 DEF Publish

\* A publish that is tried again.
Again(t) == [t EXCEPT !.at = "put", !.attempt = @ + 1]

LEMMA AgainIs ==
  ASSUME NEW t, NEW u, NEW a, NEW l, NEW d,
         t = [server |-> u, attempt |-> a, at |-> l, defs |-> d]
  PROVE  Again(t) = [server |-> u, attempt |-> a + 1, at |-> "put", defs |-> d]
<1>1. t \in [server : {u}, attempt : {a}, at : {l}, defs : {d}]
  OBVIOUS
<1>2. Again(t) \in [server : {u}, attempt : {a + 1}, at : {"put"}, defs : {d}]
  BY <1>1 DEF Again
<1>3. \A x \in [server : {u}, attempt : {a + 1}, at : {"put"}, defs : {d}] :
        x = [server |-> u, attempt |-> a + 1, at |-> "put", defs |-> d]
  OBVIOUS
<1> QED
  BY <1>2, <1>3

LEMMA PublishAgainStep ==
  ASSUME DispatchInv, NEW n \in Registrations, PublishAgain(n)
  PROVE  DispatchInv'
<1>1. task[n].at = "sleep" /\ effect' = NoReq
      /\ UNCHANGED <<registryVars, accessVars, req, published, raced>>
  BY DEF PublishAgain
<1>2. task[n].attempt + 1 \in 0..Attempts
  <2>1. task[n] # NoTask
    BY <1>1 DEF NoTask
  <2> QED
    BY <1>1, <2>1, DispatchAssumption DEF DispatchInv, TypeOK, TasksBegun, DispatchAssumption
<1>3. Moved(n, "put", task[n].attempt + 1)
  <2>1. task[n] = [server |-> task[n].server, attempt |-> task[n].attempt, at |-> task[n].at,
                   defs |-> task[n].defs]
    BY DEF DispatchInv, Shaped
  <2>2. Again(task[n]) = [server |-> task[n].server, attempt |-> task[n].attempt + 1,
                          at |-> "put", defs |-> task[n].defs]
    BY <2>1, AgainIs
  <2>3. task' = [task EXCEPT ![n] = Again(task[n])]
    <3>1. n \in DOMAIN task /\ task' = [task EXCEPT ![n].at = "put", ![n].attempt = @ + 1]
      BY DEF PublishAgain, DispatchInv, Shaped
    <3> QED
      BY <3>1 DEF Again
  <2> QED
    BY <2>2, <2>3 DEF Moved
<1> QED
  BY <1>1, <1>2, <1>3, MovesStep

\* What the registry takes in of a persona, and gives out of it again.
LEMMA TakenIn ==
  ASSUME DispatchInv, NEW s \in Servers, NEW b \in Builds[s],
         cache' = RegisterTypes(RemoveServer(cache, s), s, b)
  PROVE  /\ \A ct \in DOMAIN b : cache'[ct] = ParsedDef(s, b[ct]) /\ cache'[ct].server = s
         /\ \A ct \in ContentTypes \ DOMAIN b :
              cache'[ct] = NoDef \/ (cache'[ct] = cache[ct] /\ cache[ct].server # s)
         /\ \A ct \in ContentTypes : cache'[ct].server \in Servers \cup {NoServer}
         /\ cache' = [ct \in ContentTypes |-> cache'[ct]]
         /\ DefinitionsFrom(cache', s) = Parsed(b, s)
<1>1. DOMAIN b \subseteq ContentTypes
  BY DispatchAssumption DEF DispatchAssumption, IsBuild
<1>2. \A ct \in ContentTypes :
        cache'[ct] = IF ct \in DOMAIN b THEN ParsedDef(s, b[ct])
                     ELSE IF cache[ct].server = s THEN NoDef ELSE cache[ct]
  BY DEF RegisterTypes, RemoveServer
<1>3. \A ct \in DOMAIN b : cache'[ct] = ParsedDef(s, b[ct]) /\ cache'[ct].server = s
  BY <1>1, <1>2 DEF ParsedDef, Def
<1>4. \A ct \in ContentTypes \ DOMAIN b :
        cache'[ct] = NoDef \/ (cache'[ct] = cache[ct] /\ cache[ct].server # s)
  BY <1>2
<1>5. NoDef.server = NoServer /\ NoServer # s
  BY TypesAssumption DEF NoDef, Def
<1>6. \A ct \in ContentTypes : cache'[ct].server \in Servers \cup {NoServer}
  <2> SUFFICES ASSUME NEW ct \in ContentTypes
               PROVE  cache'[ct].server \in Servers \cup {NoServer}
    OBVIOUS
  <2>1. CASE ct \in DOMAIN b
    BY <1>3, <2>1
  <2>2. CASE ct \notin DOMAIN b
    BY <1>4, <1>5, <2>2 DEF DispatchInv, TypeOK
  <2> QED
    BY <2>1, <2>2
<1>7. cache' = [ct \in ContentTypes |-> cache'[ct]]
  BY DEF RegisterTypes
<1>8. {ct \in ContentTypes : cache'[ct].server = s} = DOMAIN b
  BY <1>1, <1>3, <1>4, <1>5
<1>9. DefinitionsFrom(cache', s) = Parsed(b, s)
  BY <1>3, <1>8 DEF DefinitionsFrom, Parsed
<1> QED
  BY <1>3, <1>4, <1>6, <1>7, <1>9

\* What a persona registers again and again is answered for by its last build only.
LEMMA RegisterStep ==
  ASSUME DispatchInv, NEW s \in Servers, NEW b \in Builds[s], RegisterServer(s, b)
  PROVE  DispatchInv'
<1>0. PICK n \in Registrations : n = count + 1
  BY DispatchAssumption DEF RegisterServer, DispatchInv, TypeOK, Registrations, DispatchAssumption
<1> USE DEF accessVars
<1>1. /\ n = count + 1 /\ n \in Registrations /\ count' = n /\ count \in Nat
  BY <1>0 DEF RegisterServer, DispatchInv, TypeOK
<1>2. /\ cache' = RegisterTypes(RemoveServer(cache, s), s, b)
      /\ topology' = [topology EXCEPT ![s] = n] /\ build' = [build EXCEPT ![s] = b]
      /\ effect' = NoReq /\ UNCHANGED <<identity, accessVars, published>> /\ Remember
  BY <1>1 DEF RegisterServer
<1>3. /\ \A ct \in DOMAIN b : cache'[ct] = ParsedDef(s, b[ct]) /\ cache'[ct].server = s
      /\ \A ct \in ContentTypes \ DOMAIN b :
           cache'[ct] = NoDef \/ (cache'[ct] = cache[ct] /\ cache[ct].server # s)
      /\ \A ct \in ContentTypes : cache'[ct].server \in Servers \cup {NoServer}
      /\ cache' = [ct \in ContentTypes |-> cache'[ct]]
      /\ DefinitionsFrom(cache', s) = Parsed(b, s)
  BY <1>2, TakenIn
<1>4. /\ build'[s] = b /\ \A u \in Servers \ {s} : build'[u] = build[u]
      /\ build' = [u \in Servers |-> build'[u]]
  BY <1>2 DEF DispatchInv, Shaped
<1>5. topology' \in [Servers -> 0..MaxRegistrations] /\ BuildsTyped(build')
  BY <1>1, <1>2, <1>4 DEF DispatchInv, TypeOK, Registrations, BuildsTyped
<1>6. Present' \in Facts
  <2>1. held' \in SUBSET (Artifacts \X Grants) /\ lately' \in SUBSET OfferedTools
    BY <1>2 DEF DispatchInv, TypeOK
  <2> QED
    BY <1>5, <2>1, NowIsFacts DEF Present
<1>7. req' \in Requests /\ effect' \in Requests /\ Requested'
  BY <1>2, <1>6, RememberKeeps
<1>8. FromBuilds'
  <2> SUFFICES ASSUME NEW ct \in ContentTypes, cache'[ct] # NoDef
               PROVE  LET u == cache'[ct].server
                      IN /\ u \in Servers /\ ct \in DOMAIN build'[u]
                         /\ cache'[ct] = ParsedDef(u, build'[u][ct])
    BY DEF FromBuilds
  <2>1. CASE ct \in DOMAIN b
    BY <1>3, <1>4, <2>1
  <2>2. CASE ct \notin DOMAIN b
    <3>1. cache'[ct] = cache[ct] /\ cache[ct].server # s
      BY <1>3, <2>2
    <3> QED
      BY <1>4, <3>1 DEF DispatchInv, FromBuilds
  <2> QED
    BY <2>1, <2>2
<1>9. CASE ~identity
  <2>1. UNCHANGED <<task, raced>>
    BY <1>9 DEF RegisterServer
  <2>2. \A m \in Registrations : task[m] = NoTask
    BY <1>9 DEF DispatchInv, TasksBegun
  <2>3. TypeOK'
    BY <1>1, <1>2, <1>3, <1>5, <1>7, <2>1 DEF DispatchInv, TypeOK, BuildsTyped, Registrations
  <2>4. Shaped'
    BY <1>2, <1>3, <1>4, <2>1 DEF DispatchInv, Shaped
  <2>5. TasksBegun' /\ InOrder'
    BY <2>1, <2>2 DEF TasksBegun, InOrder
  <2> QED
    BY <1>7, <1>8, <2>3, <2>4, <2>5 DEF DispatchInv
<1>10. CASE identity
  <2> DEFINE begun == [server |-> s, attempt |-> 1, at |-> "put", defs |-> Parsed(b, s)]
  <2>1. task' = [task EXCEPT ![n] = begun] /\ raced' = [raced EXCEPT ![s] = Pending(s) # {}]
    BY <1>1, <1>3, <1>10 DEF RegisterServer
  <2>2. /\ task'[n] = begun /\ \A m \in Registrations \ {n} : task'[m] = task[m]
        /\ task' = [m \in Registrations |-> task'[m]]
    BY <1>1, <2>1 DEF DispatchInv, Shaped
  <2>3. /\ raced'[s] = (Pending(s) # {}) /\ \A u \in Servers \ {s} : raced'[u] = raced[u]
        /\ raced' \in [Servers -> BOOLEAN]
    BY <2>1 DEF DispatchInv, TypeOK
  <2>4. DOMAIN Parsed(b, s) \subseteq ContentTypes
        /\ \A ct \in DOMAIN Parsed(b, s) : Parsed(b, s)[ct].server = s
    BY DispatchAssumption DEF DispatchAssumption, IsBuild, Parsed, ParsedDef, Def
  <2>5. TypeOK'
    <3>1. \A m \in Registrations :
            /\ task'[m].attempt \in 0..Attempts
            /\ task'[m].at \in {"none", "put", "sleep", "stored", "gaveUp"}
            /\ \A ct \in DOMAIN task'[m].defs : task'[m].defs[ct].server = task'[m].server
      BY <2>2, <2>4, DispatchAssumption DEF DispatchInv, TypeOK, DispatchAssumption
    <3> QED
      BY <1>1, <1>2, <1>3, <1>5, <1>7, <2>3, <3>1 DEF DispatchInv, TypeOK, BuildsTyped, Registrations
  <2>6. Shaped'
    <3>1. \A m \in Registrations :
            task'[m] = [server |-> task'[m].server, attempt |-> task'[m].attempt,
                        at |-> task'[m].at, defs |-> task'[m].defs]
      BY <2>2 DEF DispatchInv, Shaped
    <3>2. task' = [m \in Registrations |-> [server |-> task'[m].server, attempt |-> task'[m].attempt,
                                            at |-> task'[m].at, defs |-> task'[m].defs]]
      BY <2>2, <3>1
    <3> QED
      BY <1>2, <1>3, <1>4, <3>2 DEF DispatchInv, Shaped
  <2>7. \A m \in Registrations \ {n} :
          task'[m] # NoTask => task[m] # NoTask /\ m <= count
    BY <2>2 DEF DispatchInv, TasksBegun
  <2>8. \A m \in Registrations \ {n} : task'[m] # NoTask =>
          IF task[m].server = s THEN ~LastTask(m)' ELSE LastTask(m)' = LastTask(m)
    <3> SUFFICES ASSUME NEW m \in Registrations \ {n}, task'[m] # NoTask
                 PROVE  IF task[m].server = s THEN ~LastTask(m)' ELSE LastTask(m)' = LastTask(m)
      OBVIOUS
    <3>1. task'[m] = task[m] /\ task[m] # NoTask /\ m <= count /\ m \in Nat
      BY <2>2, <2>7 DEF Registrations
    <3>2. CASE task[m].server = s
      <4>1. task'[n].server = task'[m].server /\ ~(n <= m)
        BY <1>1, <2>2, <3>1, <3>2
      <4> QED
        BY <1>1, <3>2, <4>1 DEF LastTask
    <3>3. CASE task[m].server # s
      <4>1. task[n].server # task[m].server
        <5>1. task[n] = NoTask
          BY <1>1 DEF DispatchInv, TasksBegun
        <5>2. task[m].server \in Servers
          BY <3>1 DEF DispatchInv, TasksBegun
        <5> QED
          BY <5>1, <5>2, TypesAssumption DEF NoTask
      <4>2. task'[n].server # task'[m].server
        BY <2>2, <3>1, <3>3
      <4>3. \A l \in Registrations :
              task'[l].server = task'[m].server <=> task[l].server = task[m].server
        BY <2>2, <3>1, <4>1, <4>2
      <4> QED
        BY <3>3, <4>3 DEF LastTask
    <3> QED
      BY <3>2, <3>3
  <2>9. TasksBegun'
    <3> SUFFICES ASSUME NEW m \in Registrations, task'[m] # NoTask
                 PROVE  /\ identity' /\ m <= count' /\ task'[m].server \in Servers
                        /\ DOMAIN task'[m].defs \subseteq ContentTypes
                        /\ task'[m].at = "sleep" => task'[m].attempt < Attempts
                        /\ LastTask(m)' =>
                             task'[m].defs = Parsed(build'[task'[m].server], task'[m].server)
      BY DEF TasksBegun
    <3>1. CASE m = n
      BY <1>1, <1>2, <1>4, <1>10, <2>2, <2>4, <3>1
    <3>2. CASE m # n
      <4>1. task'[m] = task[m] /\ task[m] # NoTask /\ m <= count /\ m \in Nat
        BY <2>2, <2>7, <3>2 DEF Registrations
      <4>2. /\ identity' /\ m <= count' /\ task'[m].server \in Servers
            /\ DOMAIN task'[m].defs \subseteq ContentTypes
            /\ task'[m].at = "sleep" => task'[m].attempt < Attempts
        BY <1>1, <1>2, <1>10, <4>1 DEF DispatchInv, TasksBegun
      <4>3. ASSUME LastTask(m)'
            PROVE  task'[m].defs = Parsed(build'[task'[m].server], task'[m].server)
        <5>1. task[m].server # s /\ LastTask(m)
          BY <2>8, <3>2, <4>3
        <5> QED
          BY <1>4, <4>1, <4>2, <5>1 DEF DispatchInv, TasksBegun
      <4> QED
        BY <4>2, <4>3
    <3> QED
      BY <3>1, <3>2
  <2>10. InOrder'
    <3> SUFFICES ASSUME NEW m \in Registrations, task'[m] # NoTask, ~raced'[task'[m].server]
                 PROVE  /\ ~LastTask(m)' => task'[m].at \notin {"put", "sleep"}
                        /\ LastTask(m)' /\ task'[m].at = "stored" =>
                             published'[task'[m].server] = task'[m].defs
      BY DEF InOrder
    <3>1. CASE m = n
      <4>1. LastTask(n)'
        <5> SUFFICES ASSUME NEW l \in Registrations, task'[l].server = s PROVE l <= n
          BY <2>2 DEF LastTask
        <5>1. CASE l = n
          BY <1>1, <5>1
        <5>2. CASE l # n
          <6>1. task'[l] # NoTask
            BY TypesAssumption DEF NoTask
          <6>2. l <= count /\ l \in Nat
            BY <2>7, <5>2, <6>1 DEF Registrations
          <6> QED
            BY <1>1, <6>2
        <5> QED
          BY <5>1, <5>2
      <4> QED
        BY <2>2, <3>1, <4>1
    <3>2. CASE m # n /\ task[m].server = s
      <4>1. task'[m] = task[m] /\ ~LastTask(m)'
        BY <2>2, <2>8, <3>2
      <4>2. Pending(s) = {}
        BY <2>3, <3>2, <4>1
      <4> QED
        BY <3>2, <4>1, <4>2 DEF Pending
    <3>3. CASE m # n /\ task[m].server # s
      <4>1. task'[m] = task[m] /\ LastTask(m)' = LastTask(m) /\ task[m] # NoTask
        BY <2>2, <2>7, <2>8, <3>3
      <4>2. task[m].server \in Servers /\ ~raced[task[m].server]
        BY <2>3, <3>3, <4>1 DEF DispatchInv, TasksBegun
      <4> QED
        BY <1>2, <4>1, <4>2 DEF DispatchInv, InOrder
    <3> QED
      BY <3>1, <3>2, <3>3
  <2> QED
    BY <1>7, <1>8, <2>5, <2>6, <2>9, <2>10 DEF DispatchInv
<1> QED
  BY <1>9, <1>10

LEMMA StutterStep == ASSUME DispatchInv, UNCHANGED vars PROVE DispatchInv'
<1> USE DEF vars, registryVars, accessVars, publishVars
<1>1. TypeOK'
  BY DEF DispatchInv, TypeOK
<1>2. Shaped' /\ FromBuilds'
  BY DEF DispatchInv, Shaped, FromBuilds
<1>3. Requested'
  <2>1. Present' = Present
    BY DEF Present
  <2> QED
    BY <2>1 DEF DispatchInv, Requested, Remembers
<1>4. TasksBegun' /\ InOrder'
  <2>1. \A n \in Registrations : LastTask(n)' = LastTask(n)
    BY DEF LastTask
  <2> QED
    BY <2>1 DEF DispatchInv, TasksBegun, InOrder
<1> QED
  BY <1>1, <1>2, <1>3, <1>4 DEF DispatchInv

LEMMA DispatchInit == Init => DispatchInv
<1> SUFFICES ASSUME Init PROVE DispatchInv
  OBVIOUS
<1>1. NoReq \in Requests /\ Sound(NoReq)
  BY NoReqIsSound
<1>2. TypeOK
  BY <1>1, DispatchAssumption DEF Init, TypeOK, NoDef, Def, NoBuild, NoTask, DispatchAssumption
<1>3. Shaped
  BY DEF Init, Shaped, NoTask
<1>4. FromBuilds /\ Requested
  BY <1>1 DEF Init, FromBuilds, Requested, Remembers
<1>5. TasksBegun /\ InOrder
  BY DEF Init, TasksBegun, InOrder
<1> QED
  BY <1>2, <1>3, <1>4, <1>5 DEF DispatchInv

LEMMA DispatchNext == DispatchInv /\ [Next]_vars => DispatchInv'
<1> SUFFICES ASSUME DispatchInv, [Next]_vars PROVE DispatchInv'
  OBVIOUS
<1>1. CASE UNCHANGED vars
  BY <1>1, StutterStep
<1>2. ASSUME NEW s \in Servers, NEW b \in Builds[s], RegisterServer(s, b) PROVE DispatchInv'
  BY <1>2, RegisterStep
<1>3. ASSUME NEW n \in Registrations, Publish(n) \/ PublishAgain(n) PROVE DispatchInv'
  BY <1>3, PublishStep, PublishAgainStep
<1>4. CASE Regrant \/ \E t \in OfferedTools : Forgotten(t)
  BY <1>4, RegrantStep, ForgottenStep
<1>5. ASSUME NEW a \in Artifacts, NEW name \in OpNames, BeginOperation(a, name) PROVE DispatchInv'
  BY <1>5, BeginOperationStep
<1>6. ASSUME NEW ct \in ContentTypes, BeginCreate(ct) PROVE DispatchInv'
  BY <1>6, BeginCreateStep
<1>7. ASSUME NEW s \in Servers \cup Added, NEW t \in Tools, BeginTool(s, t) PROVE DispatchInv'
  BY <1>7, BeginToolStep
<1>8. CASE Serve
  BY <1>8, ServeStep
<1>9. CASE TakeArtifact \/ TakeAccess \/ TakeLinks \/ TakeGate \/ TakeResult
  BY <1>9, TakeArtifactStep, TakeAccessStep, TakeLinksStep, TakeGateStep, TakeResultStep
<1> QED
  BY <1>1, <1>2, <1>3, <1>4, <1>5, <1>6, <1>7, <1>8, <1>9 DEF Next

----------------------------------------------------------------------------
(* What the invariant says *)

LEMMA SaysAuthorised == DispatchInv => Authorised
<1> SUFFICES ASSUME DispatchInv PROVE Authorised
  OBVIOUS
<1>1. CASE effect = NoReq
  BY <1>1 DEF Authorised, NoReq
<1>2. CASE effect.at \in {"crud", "call"} /\ Sound(effect)
  BY <1>2 DEF Authorised, Sound, Proven, Gated, MayRead, MayDo, MayCall
<1> QED
  BY <1>1, <1>2 DEF DispatchInv, Requested

LEMMA SaysAsDeclared == DispatchInv => AsDeclared
<1> SUFFICES ASSUME DispatchInv PROVE AsDeclared
  OBVIOUS
<1>1. CASE effect = NoReq
  BY <1>1 DEF AsDeclared, NoReq
<1>2. CASE effect.at \in {"crud", "call"} /\ Sound(effect)
  BY <1>2 DEF AsDeclared, Sound, Declared, Placed
<1> QED
  BY <1>1, <1>2 DEF DispatchInv, Requested

\* Whatever personas registered.
LEMMA SaysAgree == DispatchInv => RegistryAgrees
<1> SUFFICES ASSUME DispatchInv, NEW ct \in ContentTypes
             PROVE  LET answer == ResolveType(cache, ct)
                    IN /\ WalksEnd(ct)
                       /\ answer.found =>
                            /\ DOMAIN Resolve(cache, Root).ops \subseteq DOMAIN answer.ops
                            /\ \A name \in OpNames :
                                 ResolveOperation(cache, ct, name) =
                                   IF name \in DOMAIN answer.ops THEN answer.ops[name] ELSE NoOp
                       /\ ~answer.found =>
                            /\ cache[ct] = NoDef /\ Builtin[ct] = NoDef
                            /\ \A name \in DOMAIN Resolve(cache, Root).ops :
                                 ResolveOperation(cache, ct, name) # NoOp
  BY DEF RegistryAgrees
<1>1. Heirs(cache) /\ FromBuilds /\ BuildsTyped(build)
  BY RegistryTyped DEF DispatchInv, TypeOK, BuildsTyped
<1>2. Lineage(cache, ct) \in Seq(ContentTypes) /\ WalksEnd(ct)
  BY <1>1, LineageType, WalksEndHere
<1>3. \A name \in OpNames :
        ResolveOperation(cache, ct, name) =
          IF name \in DOMAIN OperationsOf(cache, ct) THEN OperationsOf(cache, ct)[name] ELSE NoOp
  BY <1>2, OperationsAreResolved
<1>4. ASSUME NEW name \in DOMAIN Resolve(cache, Root).ops
      PROVE  name \in DOMAIN OperationsOf(cache, ct) /\ ResolveOperation(cache, ct, name) # NoOp
  <2>1. Resolve(cache, Root) # NoDef
    BY DEF NoDef, Def
  <2>2. PICK i \in DOMAIN Lineage(cache, ct) : Lineage(cache, ct)[i] = Root
    BY <1>1, <2>1, LineageEndsAtRoot
  <2>3. PICK d \in ContentTypes : /\ name \in DOMAIN Resolve(cache, d).ops
                                  /\ ResolveOperation(cache, ct, name) = Resolve(cache, d).ops[name]
    BY <1>1, <2>2, ResolvedIsDeclared
  <2>4. ResolveOperation(cache, ct, name) # NoOp
    BY <1>1, <2>3, DeclaredIsPresent, NoOpIsNoOp
  <2> QED
    BY <1>2, <2>2, <2>4, OperationsAreResolved
<1>5. CASE Resolve(cache, ct) = NoDef
  <2>1. ResolveType(cache, ct).found = FALSE
    BY <1>5 DEF ResolveType, NotFound
  <2>2. cache[ct] = NoDef /\ Builtin[ct] = NoDef
    BY <1>5 DEF Resolve
  <2> QED
    BY <1>2, <1>4, <2>1, <2>2
<1>6. CASE Resolve(cache, ct) # NoDef
  <2>1. ResolveType(cache, ct).found = TRUE /\ ResolveType(cache, ct).ops = OperationsOf(cache, ct)
    BY <1>6 DEF ResolveType
  <2> QED
    BY <1>2, <1>3, <1>4, <2>1
<1> QED
  BY <1>5, <1>6

\* Among the publishes of a persona there is a last one.
LEMMA LastTaskExists ==
  ASSUME NEW S \in SUBSET Registrations, S # {}
  PROVE  \E n \in S : \A m \in S : m <= n
<1>1. MaxRegistrations \in Nat
  BY DispatchAssumption
<1> DEFINE above == {k \in Nat : \A m \in S : m <= k}
<1>2. above # {}
  BY <1>1 DEF Registrations
<1>3. PICK n \in above : \A k \in above : n <= k
  BY <1>2, Least
<1>4. n \in S
  <2> SUFFICES ASSUME n \notin S PROVE FALSE
    OBVIOUS
  <2>1. \A m \in S : m \in Nat /\ m >= 1 /\ m <= n /\ m # n
    BY <1>3 DEF Registrations
  <2>2. n - 1 \in Nat /\ \A m \in S : m <= n - 1
    BY <1>3, <2>1
  <2> QED
    BY <1>3, <2>2
<1> QED
  BY <1>3, <1>4

LEMMA SaysPublished == DispatchInv => PublishedUnlessRaced
<1> SUFFICES ASSUME DispatchInv, NEW s \in Servers,
                    {n \in Registrations : task[n].server = s} # {}, ~raced[s],
                    \A n \in {n \in Registrations : task[n].server = s} :
                      (\A m \in {n_1 \in Registrations : task[n_1].server = s} : m <= n) =>
                        task[n].at = "stored"
             PROVE  published[s] = Parsed(build[s], s)
  BY DEF PublishedUnlessRaced, Parsed
<1>1. PICK n \in Registrations : task[n].server = s
                                 /\ \A m \in Registrations : task[m].server = s => m <= n
  <2> DEFINE S == {n \in Registrations : task[n].server = s}
  <2>1. S \in SUBSET Registrations
    OBVIOUS
  <2>2. PICK n \in S : \A m \in S : m <= n
    BY <2>1, LastTaskExists
  <2> QED
    BY <2>2
<1>2. task[n] # NoTask
  BY <1>1, TypesAssumption DEF NoTask
<1>3. LastTask(n) /\ task[n].at = "stored"
  BY <1>1 DEF LastTask
<1> QED
  BY <1>1, <1>2, <1>3 DEF DispatchInv, TasksBegun, InOrder

----------------------------------------------------------------------------
(* The operator gate *)

\* Mantle's verdict on t for c is not the one in answer a.
Outdated(a, c, t) == ~(t \in a <=> t \in Gate!Withheld(offered, may[c]))

\* No clock of the model is ahead, and no read outlives its bound.
TimesOrdered ==
  /\ \A c \in Callers, t \in GateTools : since[c][t] <= clock
  /\ \A c \in Callers : seen[c].at <= clock
  /\ \A k \in Checks : pc[k] # "idle" => /\ start[k] <= clock
                                          /\ clock <= start[k] + MaxLatency

\* A kept answer Mantle would not give now is older than the change.
CacheHonest ==
  \A c \in Callers, t \in GateTools :
    seen[c].kept /\ Outdated(seen[c].answer, c, t) => seen[c].at <= since[c][t]

\* So is a reply that is on its way.
ReplyHonest ==
  \A k \in Checks, t \in GateTools :
    pc[k] = "answered" /\ Outdated(reply[k], who[k], t) => start[k] <= since[who[k]][t]

GateInv == /\ Gate!TypeOK /\ TimesOrdered /\ CacheHonest /\ ReplyHonest
        /\ Gate!WithdrawalReaches /\ Gate!GrantReaches

\* A check that is running has a caller and a tool of the model.
LEMMA RunningHasCaller ==
  ASSUME Gate!TypeOK, NEW k \in Checks, pc[k] # "idle"
  PROVE  who[k] \in Callers
BY DEF Gate!TypeOK

\* The dict the gate builds withholds what the grants withhold.
LEMMA OfferedIsWithheld ==
  ASSUME NEW o \in SUBSET Operators, NEW m \in SUBSET Operators
  PROVE  Gate!Offered(o, m) = Gate!Withheld(o, m)
BY GateHolds DEF Gate!GateAssumption, Gate!Offered, Gate!Withheld

\* What the cache holds after a reply is the reply, or what it held, or nothing.
LEMMA StoredCases ==
  ASSUME Gate!TypeOK, NEW k \in Checks, pc[k] # "idle", NEW c \in Callers
  PROVE  /\ Gate!Stored(k) \in [Callers -> Gate!Entries]
         /\ c = who[k] => Gate!Stored(k)[c] = [kept |-> TRUE, at |-> start[k], answer |-> reply[k]]
         /\ c # who[k] => Gate!Stored(k)[c] \in {seen[c], Gate!NoEntry}
<1>1. Gate!NoEntry \in Gate!Entries
  BY DEF Gate!NoEntry, Gate!Entries, Gate!Answers
<1>2. /\ Gate!Pruned(start[k]) \in [Callers -> Gate!Entries]
      /\ \A d \in Callers : Gate!Pruned(start[k])[d] \in {seen[d], Gate!NoEntry}
  BY <1>1 DEF Gate!Pruned, Gate!TypeOK
<1>3. [kept |-> TRUE, at |-> start[k], answer |-> reply[k]] \in Gate!Entries
  BY DEF Gate!TypeOK, Gate!Entries
<1> QED
  BY <1>2, <1>3, RunningHasCaller DEF Gate!Stored

LEMMA GateInit == Gate!Init => GateInv
BY GateHolds DEF Gate!GateAssumption, Gate!Init, GateInv, Gate!TypeOK, TimesOrdered, CacheHonest,
   ReplyHonest, Gate!WithdrawalReaches,
   Gate!GrantReaches, Gate!NoEntry, Gate!Entries, Gate!Answers, Gate!NoOutcome, Gate!Outcomes

\* Mantle changes what it offers or grants: what the change makes outdated was
\* asked for no later than now.
LEMMA MantleStep ==
  ASSUME GateInv, NEW offers \in SUBSET Operators, NEW grants \in [Callers -> SUBSET Operators],
         Gate!MantleChanges(offers, grants)
  PROVE  GateInv'
<1> USE DEF Gate!MantleChanges, Gate!checkVars
<1>1. Gate!TypeOK'
  BY DEF GateInv, Gate!TypeOK, Gate!NoOutcome, Gate!Outcomes
<1>2. \A c \in Callers, t \in GateTools :
        /\ since'[c][t] \in {since[c][t], clock}
        /\ ~(t \in Gate!Withheld(offers, grants[c]) <=> t \in Gate!Withheld(offered, may[c]))
           => since'[c][t] = clock
  OBVIOUS
<1>3. TimesOrdered'
  BY <1>2 DEF GateInv, Gate!TypeOK, TimesOrdered
<1>4. CacheHonest'
  <2> SUFFICES ASSUME NEW c \in Callers, NEW t \in GateTools, seen[c].kept,
                      ~(t \in seen[c].answer <=> t \in Gate!Withheld(offers, grants[c]))
               PROVE  seen[c].at <= since'[c][t]
    BY DEF CacheHonest, Outdated, Gate!Withheld
  <2>1. CASE t \in Gate!Withheld(offers, grants[c]) <=> t \in Gate!Withheld(offered, may[c])
    <3>1. since'[c][t] = since[c][t]
      BY <2>1
    <3> QED
      BY <3>1, <2>1 DEF GateInv, CacheHonest, Outdated
  <2>2. CASE ~(t \in Gate!Withheld(offers, grants[c]) <=> t \in Gate!Withheld(offered, may[c]))
    BY <2>2, <1>2 DEF GateInv, TimesOrdered
  <2> QED
    BY <2>1, <2>2
<1>5. ReplyHonest'
  <2> SUFFICES ASSUME NEW k \in Checks, NEW t \in GateTools, pc[k] = "answered",
                      ~(t \in reply[k] <=> t \in Gate!Withheld(offers, grants[who[k]]))
               PROVE  start[k] <= since'[who[k]][t]
    BY DEF ReplyHonest, Outdated, Gate!Withheld
  <2>0. who[k] \in Callers
    BY RunningHasCaller DEF GateInv
  <2>1. CASE t \in Gate!Withheld(offers, grants[who[k]]) <=> t \in Gate!Withheld(offered, may[who[k]])
    <3>1. since'[who[k]][t] = since[who[k]][t]
      BY <2>0, <2>1
    <3> QED
      BY <3>1, <2>1 DEF GateInv, ReplyHonest, Outdated
  <2>2. CASE ~(t \in Gate!Withheld(offers, grants[who[k]]) <=> t \in Gate!Withheld(offered, may[who[k]]))
    BY <2>0, <2>2, <1>2 DEF GateInv, TimesOrdered
  <2> QED
    BY <2>1, <2>2
<1>6. Gate!WithdrawalReaches' /\ Gate!GrantReaches'
  BY DEF Gate!WithdrawalReaches, Gate!GrantReaches, Gate!NoOutcome
<1> QED
  BY <1>1, <1>3, <1>4, <1>5, <1>6 DEF GateInv

\* Every step of the gate and of its surroundings keeps the invariant.
LEMMA GateNext == GateInv /\ [Gate!Next]_Gate!vars => GateInv'
<1> SUFFICES ASSUME GateInv, [Gate!Next]_Gate!vars PROVE GateInv'
  OBVIOUS
<1> USE GateHolds DEF Gate!GateAssumption, Gate!mantleVars, Gate!checkVars
<1>1. CASE Gate!OffersChange
  <2>1. PICK p \in Operators : Gate!MantleChanges((offered \ {p}) \cup ({p} \ offered), may)
    BY <1>1 DEF Gate!OffersChange
  <2> QED
    BY <2>1, MantleStep DEF GateInv, Gate!TypeOK
<1>2. CASE Gate!GrantsChange
  <2>1. PICK c \in Callers, m \in SUBSET Operators :
          Gate!MantleChanges(offered, [may EXCEPT ![c] = m])
    BY <1>2 DEF Gate!GrantsChange
  <2>2. [may EXCEPT ![c] = m] \in [Callers -> SUBSET Operators] /\ offered \in SUBSET Operators
    BY DEF GateInv, Gate!TypeOK
  <2> QED
    BY <2>1, <2>2, MantleStep
<1>3. CASE Gate!Tick
  <2>1. Gate!TypeOK'
    BY <1>3 DEF Gate!Tick, GateInv, Gate!TypeOK, Gate!NoOutcome, Gate!Outcomes
  <2>2. TimesOrdered'
    BY <1>3 DEF Gate!Tick, GateInv, Gate!TypeOK, TimesOrdered, Gate!Entries
  <2>3. CacheHonest' /\ ReplyHonest' /\ Gate!WithdrawalReaches' /\ Gate!GrantReaches'
    BY <1>3 DEF Gate!Tick, GateInv, CacheHonest, ReplyHonest, Outdated, Gate!Withheld,
                Gate!WithdrawalReaches,
                Gate!GrantReaches, Gate!NoOutcome
  <2> QED
    BY <2>1, <2>2, <2>3 DEF GateInv
<1>4. ASSUME NEW c \in Callers, NEW t \in GateTools, Gate!OwnServer(c, t) PROVE GateInv'
  <2>1. Gate!TypeOK' /\ TimesOrdered'
    BY <1>4 DEF Gate!OwnServer, Gate!Ended, GateInv, Gate!TypeOK, TimesOrdered, Gate!Outcomes
  <2>2. CacheHonest' /\ ReplyHonest'
    BY <1>4 DEF Gate!OwnServer, GateInv, CacheHonest, ReplyHonest, Outdated, Gate!Withheld
  <2>3. Gate!WithdrawalReaches' /\ Gate!GrantReaches'
    BY <1>4 DEF Gate!OwnServer, Gate!Ended, Gate!WithdrawalReaches, Gate!GrantReaches
  <2> QED
    BY <2>1, <2>2, <2>3 DEF GateInv
<1>5. ASSUME NEW c \in Callers, NEW t \in GateTools, Gate!Hit(c, t) PROVE GateInv'
  <2>1. Gate!TypeOK' /\ TimesOrdered'
    BY <1>5 DEF Gate!Hit, Gate!Answered, Gate!Ended, GateInv, Gate!TypeOK, TimesOrdered, Gate!Outcomes
  <2>2. CacheHonest' /\ ReplyHonest'
    BY <1>5 DEF Gate!Hit, GateInv, CacheHonest, ReplyHonest, Outdated, Gate!Withheld
  <2>3. Outdated(seen[c].answer, c, t) => clock < since[c][t] + TTL
    BY <1>5 DEF Gate!Hit, Gate!Fresh, GateInv, Gate!TypeOK, CacheHonest, Gate!Entries
  <2>4. Gate!WithdrawalReaches' /\ Gate!GrantReaches'
    BY <1>5, <2>3 DEF Gate!Hit, Gate!Answered, Gate!Ended, Outdated, Gate!WithdrawalReaches,
                      Gate!GrantReaches, Gate!Withheld
  <2> QED
    BY <2>1, <2>2, <2>4 DEF GateInv
<1>6. ASSUME NEW k \in Checks, NEW c \in Callers, NEW t \in GateTools, Gate!Miss(k, c, t) PROVE GateInv'
  <2>1. Gate!TypeOK'
    BY <1>6 DEF Gate!Miss, GateInv, Gate!TypeOK, Gate!NoOutcome, Gate!Outcomes
  <2>2. TimesOrdered'
    BY <1>6 DEF Gate!Miss, GateInv, Gate!TypeOK, TimesOrdered
  <2>3. CacheHonest' /\ ReplyHonest' /\ Gate!WithdrawalReaches' /\ Gate!GrantReaches'
    BY <1>6 DEF Gate!Miss, GateInv, Gate!TypeOK, CacheHonest, ReplyHonest, Outdated, Gate!Withheld,
                Gate!WithdrawalReaches, Gate!GrantReaches, Gate!NoOutcome
  <2> QED
    BY <2>1, <2>2, <2>3 DEF GateInv
<1>7. ASSUME NEW k \in Checks, Gate!MantleReads(k) PROVE GateInv'
  <2>0. reply' = [reply EXCEPT ![k] = Gate!Withheld(offered, may[who[k]])]
    <3>1. who[k] \in Callers
      BY <1>7, RunningHasCaller DEF Gate!MantleReads, GateInv
    <3>2. Gate!Offered(offered, may[who[k]]) = Gate!Withheld(offered, may[who[k]])
      BY <3>1, OfferedIsWithheld DEF GateInv, Gate!TypeOK
    <3> QED
      BY <1>7, <3>2 DEF Gate!MantleReads
  <2>1. Gate!TypeOK'
    BY <1>7, <2>0 DEF Gate!MantleReads, GateInv, Gate!TypeOK, Gate!NoOutcome, Gate!Outcomes,
                      Gate!Answers, Gate!Withheld, Gate!GateAssumption
  <2>2. TimesOrdered'
    BY <1>7 DEF Gate!MantleReads, GateInv, Gate!TypeOK, TimesOrdered
  <2>3. CacheHonest'
    BY <1>7 DEF Gate!MantleReads, GateInv, CacheHonest, Outdated, Gate!Withheld
  <2>4. ReplyHonest'
    <3> SUFFICES ASSUME NEW l \in Checks, NEW t \in GateTools, pc'[l] = "answered",
                        ~(t \in reply'[l] <=> t \in Gate!Withheld(offered, may[who[l]]))
                 PROVE  start[l] <= since[who[l]][t]
      BY <1>7 DEF Gate!MantleReads, ReplyHonest, Outdated, Gate!Withheld
    <3>1. l # k
      BY <1>7, <2>0 DEF Gate!MantleReads, GateInv, Gate!TypeOK
    <3>2. pc[l] = "answered" /\ reply'[l] = reply[l]
      BY <1>7, <2>0, <3>1 DEF Gate!MantleReads, GateInv, Gate!TypeOK
    <3> QED
      BY <3>2 DEF GateInv, ReplyHonest, Outdated
  <2>5. Gate!WithdrawalReaches' /\ Gate!GrantReaches'
    BY <1>7 DEF Gate!MantleReads, Gate!WithdrawalReaches, Gate!GrantReaches, Gate!NoOutcome
  <2> QED
    BY <2>1, <2>2, <2>3, <2>4, <2>5 DEF GateInv
<1>8. ASSUME NEW k \in Checks, Gate!Return(k), UNCHANGED <<clock, Gate!mantleVars>>,
             ReplyHonest, TimesOrdered, Gate!TypeOK
      PROVE  /\ ReplyHonest'
             /\ \A l \in Checks : pc'[l] # "idle" => /\ start'[l] <= clock'
                                                      /\ clock' <= start'[l] + MaxLatency
  <2>1. \A l \in Checks : pc'[l] # "idle" =>
          /\ l # k /\ pc[l] = pc'[l] /\ reply'[l] = reply[l]
          /\ start'[l] = start[l] /\ who'[l] = who[l]
    BY <1>8 DEF Gate!Return, Gate!TypeOK
  <2> QED
    BY <1>8, <2>1 DEF ReplyHonest, TimesOrdered, Outdated, Gate!Withheld
<1>9. ASSUME NEW k \in Checks, Gate!Arrives(k) PROVE GateInv'
  <2>0. pc[k] = "answered" /\ who[k] \in Callers /\ tool[k] \in GateTools \cup {NoTool}
    BY <1>9, RunningHasCaller DEF Gate!Arrives, GateInv, Gate!TypeOK
  <2>1. Gate!TypeOK'
    BY <1>9, <2>0, StoredCases DEF Gate!Arrives, Gate!Return, Gate!Answered, Gate!Ended, GateInv,
                                   Gate!TypeOK, Gate!Outcomes, Gate!Answers
  <2>2. \A c \in Callers : /\ c = who[k] => seen'[c] = [kept |-> TRUE, at |-> start[k],
                                                         answer |-> reply[k]]
                           /\ c # who[k] => seen'[c] \in {seen[c], Gate!NoEntry}
    BY <1>9, <2>0, StoredCases DEF Gate!Arrives, GateInv
  <2>3. TimesOrdered'
    <3>1. start[k] <= clock /\ clock' = clock /\ since' = since /\ clock \in Nat
      BY <1>9, <2>0 DEF Gate!Arrives, GateInv, Gate!TypeOK, TimesOrdered
    <3>2. \A c \in Callers : seen'[c].at <= clock
      BY <2>2, <3>1 DEF GateInv, TimesOrdered, Gate!NoEntry
    <3>3. \A l \in Checks : pc'[l] # "idle" => /\ start'[l] <= clock'
                                               /\ clock' <= start'[l] + MaxLatency
      BY <1>8, <1>9 DEF Gate!Arrives, GateInv
    <3>4. \A c \in Callers, t \in GateTools : since[c][t] <= clock
      BY DEF GateInv, TimesOrdered
    <3> QED
      BY <3>1, <3>2, <3>3, <3>4 DEF TimesOrdered
  <2>4. CacheHonest'
    <3> SUFFICES ASSUME NEW c \in Callers, NEW t \in GateTools, seen'[c].kept,
                        Outdated(seen'[c].answer, c, t)
                 PROVE  seen'[c].at <= since[c][t]
      BY <1>9 DEF Gate!Arrives, CacheHonest, Outdated, Gate!Withheld
    <3>1. CASE c = who[k]
      BY <3>1, <2>0, <2>2 DEF GateInv, ReplyHonest
    <3>2. CASE c # who[k]
      BY <3>2, <2>2 DEF GateInv, CacheHonest, Gate!NoEntry
    <3> QED
      BY <3>1, <3>2
  <2>5. ReplyHonest'
    BY <1>8, <1>9 DEF Gate!Arrives, GateInv
  <2>6. \A t \in GateTools : Outdated(reply[k], who[k], t) => clock < since[who[k]][t] + TTL
    BY <2>0 DEF GateInv, Gate!TypeOK, TimesOrdered, ReplyHonest
  <2>7. tool[k] # NoTool
    BY <2>0 DEF GateInv, Gate!TypeOK
  <2>8. Gate!WithdrawalReaches' /\ Gate!GrantReaches'
    BY <1>9, <2>0, <2>6, <2>7 DEF Gate!Arrives, Gate!Answered, Gate!Ended, Outdated,
                                  Gate!WithdrawalReaches, Gate!GrantReaches,
       Gate!Withheld
  <2> QED
    BY <2>1, <2>3, <2>4, <2>5, <2>8 DEF GateInv
<1>10. ASSUME NEW k \in Checks, Gate!Fails(k) PROVE GateInv'
  <2>0. who[k] \in Callers
    BY <1>10, RunningHasCaller DEF Gate!Fails, GateInv
  <2>1. Gate!TypeOK'
    BY <1>10, <2>0 DEF Gate!Fails, Gate!Return, Gate!Ended, GateInv, Gate!TypeOK, Gate!Outcomes,
                       Gate!Answers
  <2>2. TimesOrdered' /\ ReplyHonest'
    BY <1>8, <1>10 DEF Gate!Fails, GateInv, Gate!TypeOK, TimesOrdered
  <2>3. CacheHonest' /\ Gate!WithdrawalReaches' /\ Gate!GrantReaches'
    BY <1>10 DEF Gate!Fails, Gate!Ended, GateInv, CacheHonest, Outdated, Gate!Withheld,
                 Gate!WithdrawalReaches, Gate!GrantReaches
  <2> QED
    BY <2>1, <2>2, <2>3 DEF GateInv
<1>11. CASE UNCHANGED Gate!vars
  BY <1>11 DEF Gate!vars, GateInv, Gate!TypeOK, TimesOrdered, CacheHonest, ReplyHonest, Outdated,
               Gate!Withheld,
               Gate!WithdrawalReaches, Gate!GrantReaches
<1> QED
  BY <1>1, <1>2, <1>3, <1>4, <1>5, <1>6, <1>7, <1>9, <1>10, <1>11 DEF Gate!Next

----------------------------------------------------------------------------
(* The run: the gate and the gateway side by side *)

Inv == DispatchInv /\ GateInv

LEMMA AccessInv == AccessSpec => []Inv
<1>1. AccessInit => Inv
  BY DispatchInit, GateInit DEF AccessInit, Inv
<1>2. Inv /\ [AccessNext]_<<side, vars, gateVars>> => Inv'
  <2> SUFFICES ASSUME Inv, [AccessNext]_<<side, vars, gateVars>> PROVE Inv'
    OBVIOUS
  <2>1. gateVars = Gate!vars
    BY DEF gateVars, Gate!vars
  <2>2. [Next]_vars
    BY DEF AccessNext
  <2>3. [Gate!Next]_Gate!vars
    BY <2>1 DEF AccessNext, gateVars, Gate!vars
  <2> QED
    BY <2>2, <2>3, DispatchNext, GateNext DEF Inv
<1> QED
  BY <1>1, <1>2, PTL DEF AccessSpec

\* Every variable of the gateway and of the gate keeps its type, for any types, builds,
\* personas, artifacts, grants, callers, operators and checks.
THEOREM AccessTypesOK == AccessSpec => []TypesOK
<1>1. Inv => TypesOK
  BY DEF Inv, DispatchInv, GateInv, TypesOK
<1> QED
  BY <1>1, AccessInv, PTL

\* Nothing is done for a caller who was not allowed it at some time during the request or,
\* for an offered tool, less than the gate's TTL before (dispatcher.py 111-123 and 384,
\* main.py 446, operator_gate.py 36-39).
THEOREM AlwaysAuthorised == AccessSpec => []Authorised
<1>1. Inv => Authorised
  BY SaysAuthorised DEF Inv
<1> QED
  BY <1>1, AccessInv, PTL

\* Only what was declared during the request is carried out, at an endpoint that was
\* registered during it (main.py 315-321).
THEOREM AlwaysAsDeclared == AccessSpec => []AsDeclared
<1>1. Inv => AsDeclared
  BY SaysAsDeclared DEF Inv
<1> QED
  BY <1>1, AccessInv, PTL

\* What GET /resolve lists for a declared type is what is dispatched for it, the root's
\* operations among it; a type that nobody declares, a 404 there, is dispatched the root's all
\* the same; and the walk over what types inherit ends, whatever inherits from what: in every
\* state, not only in those where the run looks (type_registry.py 166-214, main.py 338-355).
THEOREM OperationsAlwaysAgree == AccessSpec => []RegistryAgrees /\ []OperationsAgree
<1>1. Inv => RegistryAgrees /\ OperationsAgree
  BY SaysAgree DEF Inv, OperationsAgree
<1> QED
  BY <1>1, AccessInv, PTL

\* A last publish that went through and overlapped no other left the last build at Mantle
\* (main.py 294-310, type_publish.py).
THEOREM AlwaysPublishedUnlessRaced == AccessSpec => []PublishedUnlessRaced
<1>1. Inv => PublishedUnlessRaced
  BY SaysPublished DEF Inv
<1> QED
  BY <1>1, AccessInv, PTL

\* operator_gate.py 11-12: a withdrawn grant stops clearing its tool within the TTL.
THEOREM WithdrawalAlwaysReaches == AccessSpec => []WithdrawalReaches
<1>1. Inv => WithdrawalReaches
  BY DEF Inv, GateInv, WithdrawalReaches
<1> QED
  BY <1>1, AccessInv, PTL

\* A grant that is given stops being refused within the TTL.
THEOREM GrantAlwaysReaches == AccessSpec => []GrantReaches
<1>1. Inv => GrantReaches
  BY DEF Inv, GateInv, GrantReaches
<1> QED
  BY <1>1, AccessInv, PTL
=============================================================================
