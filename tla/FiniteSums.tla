----------------------------- MODULE FiniteSums -----------------------------
(***************************************************************************)
(* Sums of integers over finite sets, as MapThenSumSet adds them up: what  *)
(* they are does not depend on the order in which it chooses.  The         *)
(* induction is well-founded, over the proper subsets of a finite set.     *)
(***************************************************************************)
EXTENDS Integers, FiniteSets, FiniteSetsExt, FiniteSetTheorems, WellFoundedInduction, TLAPS

SumOver(f, S) == MapThenSumSet(LAMBDA i : f[i], S)

Chosen(s) == CHOOSE x \in s : TRUE
Rest(s) == s \ {Chosen(s)}

LEMMA RestOf ==
    ASSUME NEW s, s # {}
    PROVE  Chosen(s) \in s /\ Rest(s) \subseteq s /\ Rest(s) # s
BY DEF Chosen, Rest

\* What MapThenFoldSet takes a fixed point of.
Summing(f, S, g) ==
    [s \in SUBSET S |-> IF s = {} THEN 0 ELSE f[Chosen(s)] + g[Rest(s)]]

LEMMA SumChosen ==
    ASSUME NEW f, NEW S
    PROVE  SumOver(f, S) = (CHOOSE g : g = Summing(f, S, g))[S]
BY DEF SumOver, Summing, Chosen, Rest, MapThenSumSet, MapThenFoldSet

\* Induction: a set of subsets of a finite set has a minimal one.
LEMMA MinimalSubset ==
    ASSUME NEW S, IsFiniteSet(S), NEW T, T \subseteq SUBSET S, T # {}
    PROVE  \E s \in T : \A u \in T : u \subseteq s => u = s
<1>1. IsWellFoundedOn(StrictSubsetOrdering(S), FiniteSubsetsOf(S))
    BY FS_StrictSubsetOrderingWellFounded
<1>2. T \subseteq FiniteSubsetsOf(S)
    BY FS_Subset DEF FiniteSubsetsOf
<1>3. PICK s \in T : \A u \in T : <<u, s>> \notin StrictSubsetOrdering(S)
    BY <1>1, <1>2, WFMin
<1>4. \A u \in T : u \subseteq s => u = s
    BY <1>3 DEF StrictSubsetOrdering
<1>5. QED
    BY <1>4

LEMMA SummingAt ==
    ASSUME NEW f, NEW S, NEW g, g = Summing(f, S, g), NEW s \in SUBSET S
    PROVE  /\ s = {} => g[s] = 0
           /\ s # {} => g[s] = f[Chosen(s)] + g[Rest(s)]
<1>1. g[s] = Summing(f, S, g)[s]
    BY Zenon
<1>2. QED
    BY <1>1 DEF Summing

LEMMA SummingUnique ==
    ASSUME NEW f, NEW S, IsFiniteSet(S),
           NEW g, g = Summing(f, S, g), NEW h, h = Summing(f, S, h)
    PROVE  /\ \A s \in SUBSET S : g[s] = h[s]
           /\ g = h
<1> DEFINE Bad == {s \in SUBSET S : g[s] # h[s]}
<1>1. ASSUME NEW m \in Bad, \A u \in Bad : u \subseteq m => u = m
      PROVE  FALSE
    <2>1. m \in SUBSET S /\ g[m] # h[m]
        OBVIOUS
    <2>2. CASE m = {}
        <3>1. g[m] = 0 /\ h[m] = 0
            BY <2>1, <2>2, SummingAt
        <3>2. QED
            BY <2>1, <3>1
    <2>3. CASE m # {}
        <3>1. g[m] = f[Chosen(m)] + g[Rest(m)]
            BY <2>1, <2>3, SummingAt
        <3>2. h[m] = f[Chosen(m)] + h[Rest(m)]
            BY <2>1, <2>3, SummingAt
        <3>3. g[Rest(m)] = h[Rest(m)]
            BY <1>1, <2>1, <2>3, RestOf
        <3>4. QED
            BY <2>1, <3>1, <3>2, <3>3
    <2>4. QED
        BY <2>2, <2>3
<1>2. Bad \subseteq SUBSET S
    OBVIOUS
<1>3. Bad = {}
    <2> HIDE DEF Bad
    <2>1. QED
        BY <1>1, <1>2, MinimalSubset
<1>4. \A s \in SUBSET S : g[s] = h[s]
    BY <1>3
<1>5. g = h
    <2>1. Summing(f, S, g) = Summing(f, S, h)
        BY <1>4, RestOf DEF Summing
    <2>2. QED
        BY <2>1, Zenon
<1>6. QED
    BY <1>4, <1>5

LEMMA SummingRestricted ==
    ASSUME NEW f, NEW S, NEW g, g = Summing(f, S, g), NEW u \in SUBSET S
    PROVE  \E k : k = Summing(f, u, k) /\ \A s \in SUBSET u : k[s] = g[s]
<1> DEFINE k == [s \in SUBSET u |-> g[s]]
<1>1. ASSUME NEW s \in SUBSET u
      PROVE  k[s] = IF s = {} THEN 0 ELSE f[Chosen(s)] + k[Rest(s)]
    <2>1. s \in SUBSET S /\ k[s] = g[s]
        OBVIOUS
    <2>2. CASE s = {}
        BY <2>1, <2>2, SummingAt
    <2>3. CASE s # {}
        <3>1. g[s] = f[Chosen(s)] + g[Rest(s)]
            BY <2>1, <2>3, SummingAt
        <3>2. Rest(s) \in SUBSET u
            BY <2>3, RestOf
        <3>3. k[Rest(s)] = g[Rest(s)]
            BY <3>2
        <3> HIDE DEF k
        <3>4. QED
            BY <2>1, <2>3, <3>1, <3>3
    <2>4. QED
        BY <2>2, <2>3
<1>2. k = Summing(f, u, k)
    <2>1. k = [s \in SUBSET u |-> k[s]]
        OBVIOUS
    <2> HIDE DEF k
    <2>2. QED
        BY <1>1, <2>1 DEF Summing
<1>3. QED
    BY <1>2

LEMMA SummingExists ==
    ASSUME NEW f, NEW S, IsFiniteSet(S)
    PROVE  \E g : g = Summing(f, S, g)
<1> DEFINE Bad == {s \in SUBSET S : ~ \E g : g = Summing(f, s, g)}
           H(s) == CHOOSE g : g = Summing(f, s, g)
<1>1. ASSUME NEW m \in Bad, \A u \in Bad : u \subseteq m => u = m
      PROVE  FALSE
    <2> DEFINE G == [s \in SUBSET m |->
                        IF s # m THEN H(s)[s]
                        ELSE IF m = {} THEN 0 ELSE f[Chosen(m)] + H(Rest(m))[Rest(m)]]
    <2>1. m \in SUBSET S /\ ~ \E g : g = Summing(f, m, g)
        OBVIOUS
    <2>2. ASSUME NEW s \in SUBSET m, s # m PROVE H(s) = Summing(f, s, H(s))
        <3>1. s \notin Bad /\ s \in SUBSET S
            BY <1>1, <2>2
        <3>2. \E g : g = Summing(f, s, g)
            BY <3>1
        <3>3. QED
            BY <3>2, Zenon
    <2>3. /\ \A s \in SUBSET m : s # m => G[s] = H(s)[s]
          /\ m # {} => G[m] = f[Chosen(m)] + H(Rest(m))[Rest(m)]
          /\ m = {} => G[m] = 0
          /\ G = [s \in SUBSET m |-> G[s]]
        OBVIOUS
    <2> HIDE DEF H, G, Bad
    <2>4. ASSUME NEW s \in SUBSET m
          PROVE  G[s] = IF s = {} THEN 0 ELSE f[Chosen(s)] + G[Rest(s)]
        <3>1. CASE s = {} /\ m = {}
            BY <2>3, <3>1
        <3>2. CASE s = {} /\ m # {}
            <4>1. H(s)[s] = 0
                BY <2>2, <3>2, SummingAt
            <4>2. QED
                BY <2>3, <3>2, <4>1
        <3>3. CASE s # {}
            <4>1. Rest(s) \in SUBSET s /\ Rest(s) # s /\ Rest(s) \in SUBSET m /\ Rest(s) # m
                BY <3>3, RestOf
            <4>2. G[Rest(s)] = H(Rest(s))[Rest(s)]
                BY <2>3, <4>1
            <4>3. CASE s = m
                BY <2>3, <3>3, <4>2, <4>3
            <4>4. CASE s # m
                <5>1. H(s) = Summing(f, s, H(s)) /\ H(Rest(s)) = Summing(f, Rest(s), H(Rest(s)))
                    BY <2>2, <4>1, <4>4
                <5>2. H(s)[s] = f[Chosen(s)] + H(s)[Rest(s)]
                    BY <3>3, <5>1, SummingAt
                <5>3. PICK k : /\ k = Summing(f, Rest(s), k)
                               /\ \A r \in SUBSET Rest(s) : k[r] = H(s)[r]
                    BY <4>1, <5>1, SummingRestricted
                <5>4. IsFiniteSet(Rest(s))
                    BY <2>1, <4>1, FS_Subset
                <5>5. k[Rest(s)] = H(Rest(s))[Rest(s)]
                    BY <5>1, <5>3, <5>4, SummingUnique
                <5>6. k[Rest(s)] = H(s)[Rest(s)]
                    BY <5>3
                <5>7. QED
                    BY <2>3, <3>3, <4>2, <4>4, <5>2, <5>5, <5>6
            <4>5. QED
                BY <4>3, <4>4
        <3>4. QED
            BY <3>1, <3>2, <3>3
    <2>5. G = Summing(f, m, G)
        BY <2>3, <2>4 DEF Summing
    <2>6. QED
        BY <2>1, <2>5
<1>2. Bad \subseteq SUBSET S
    OBVIOUS
<1>3. Bad = {}
    <2> HIDE DEF Bad
    <2>1. QED
        BY <1>1, <1>2, MinimalSubset
<1>4. QED
    BY <1>3

-----------------------------------------------------------------------------
(***************************************************************************)
(* Laws of sums.                                                           *)
(***************************************************************************)
LEMMA SumIsSummed ==
    ASSUME NEW f, NEW S, IsFiniteSet(S)
    PROVE  \E g : g = Summing(f, S, g) /\ SumOver(f, S) = g[S]
<1>1. \E g : g = Summing(f, S, g)
    BY SummingExists
<1>2. (CHOOSE g : g = Summing(f, S, g)) = Summing(f, S, CHOOSE g : g = Summing(f, S, g))
    BY <1>1, Zenon
<1>3. QED
    BY <1>2, SumChosen, Zenon

LEMMA SumUnfolds ==
    ASSUME NEW f, NEW S, IsFiniteSet(S)
    PROVE  /\ S = {} => SumOver(f, S) = 0
           /\ S # {} => SumOver(f, S) = f[Chosen(S)] + SumOver(f, Rest(S))
<1>1. PICK g : g = Summing(f, S, g) /\ SumOver(f, S) = g[S]
    BY SumIsSummed
<1>2. CASE S = {}
    BY <1>1, <1>2, SummingAt
<1>3. CASE S # {}
    <2>1. g[S] = f[Chosen(S)] + g[Rest(S)]
        BY <1>1, <1>3, SummingAt
    <2>2. Rest(S) \in SUBSET S /\ IsFiniteSet(Rest(S))
        BY <1>3, RestOf, FS_Subset
    <2>3. PICK h : h = Summing(f, Rest(S), h) /\ SumOver(f, Rest(S)) = h[Rest(S)]
        BY <2>2, SumIsSummed
    <2>4. PICK k : /\ k = Summing(f, Rest(S), k)
                   /\ \A r \in SUBSET Rest(S) : k[r] = g[r]
        BY <1>1, <2>2, SummingRestricted
    <2>5. h[Rest(S)] = k[Rest(S)]
        BY <2>2, <2>3, <2>4, SummingUnique
    <2>6. k[Rest(S)] = g[Rest(S)]
        BY <2>4
    <2>7. QED
        BY <1>1, <1>3, <2>1, <2>3, <2>5, <2>6
<1>4. QED
    BY <1>2, <1>3

LEMMA SumType ==
    ASSUME NEW f, NEW S, IsFiniteSet(S), \A x \in S : f[x] \in Int
    PROVE  SumOver(f, S) \in Int
<1> DEFINE Bad == {s \in SUBSET S : SumOver(f, s) \notin Int}
<1>1. ASSUME NEW m \in Bad, \A u \in Bad : u \subseteq m => u = m
      PROVE  FALSE
    <2>1. m \in SUBSET S /\ IsFiniteSet(m) /\ SumOver(f, m) \notin Int
        BY FS_Subset
    <2>2. m # {}
        BY <2>1, SumUnfolds
    <2>3. SumOver(f, m) = f[Chosen(m)] + SumOver(f, Rest(m))
        BY <2>1, <2>2, SumUnfolds
    <2>4. Chosen(m) \in S /\ SumOver(f, Rest(m)) \in Int
        BY <1>1, <2>1, <2>2, RestOf
    <2>5. QED
        BY <2>1, <2>3, <2>4
<1>2. Bad \subseteq SUBSET S
    OBVIOUS
<1>3. Bad = {}
    <2> HIDE DEF Bad
    <2>1. QED
        BY <1>1, <1>2, MinimalSubset
<1>4. QED
    BY <1>3

\* Any element can be taken out of a sum first.
LEMMA SumRemoves ==
    ASSUME NEW f, NEW S, IsFiniteSet(S), \A x \in S : f[x] \in Int
    PROVE  \A x \in S : SumOver(f, S) = f[x] + SumOver(f, S \ {x})
<1> DEFINE Good(s) == \A x \in s : SumOver(f, s) = f[x] + SumOver(f, s \ {x})
           Bad == {s \in SUBSET S : ~Good(s)}
<1>1. ASSUME NEW m \in Bad, \A u \in Bad : u \subseteq m => u = m
      PROVE  FALSE
    <2>1. m \in SUBSET S /\ IsFiniteSet(m)
        BY FS_Subset
    <2>2. ASSUME NEW x \in m PROVE SumOver(f, m) = f[x] + SumOver(f, m \ {x})
        <3>1. PICK c : c = Chosen(m)
            OBVIOUS
        <3>2. c \in m /\ Rest(m) = m \ {c} /\ SumOver(f, m) = f[c] + SumOver(f, m \ {c})
            BY <2>1, <3>1, SumUnfolds, RestOf DEF Rest
        <3>3. CASE x = c
            BY <3>2, <3>3
        <3>4. CASE x # c
            <4>1. PICK mc, mx, mxc : mc = m \ {c} /\ mx = m \ {x} /\ mxc = m \ {x, c}
                OBVIOUS
            <4>2. /\ mc \in SUBSET S /\ mc # m /\ mc \subseteq m /\ x \in mc
                  /\ mc \ {x} = mxc
                BY <2>1, <3>2, <3>4, <4>1
            <4>3. /\ mx \in SUBSET S /\ mx # m /\ mx \subseteq m /\ c \in mx
                  /\ mx \ {c} = mxc
                BY <2>1, <3>2, <3>4, <4>1
            <4>4. Good(mc) /\ Good(mx)
                BY <1>1, <4>2, <4>3
            <4>5. SumOver(f, mc) = f[x] + SumOver(f, mxc)
                BY <4>2, <4>4
            <4>6. SumOver(f, mx) = f[c] + SumOver(f, mxc)
                BY <4>3, <4>4
            <4>7. mxc \in SUBSET S /\ IsFiniteSet(mxc)
                BY <2>1, <4>1, FS_Subset
            <4>8. SumOver(f, mxc) \in Int /\ f[x] \in Int /\ f[c] \in Int
                BY <2>1, <3>2, <4>7, SumType
            <4>9. SumOver(f, m) = f[c] + SumOver(f, mc)
                BY <3>2, <4>1
            <4>10. SumOver(f, m) = f[x] + SumOver(f, mx)
                BY <4>5, <4>6, <4>8, <4>9
            <4>11. QED
                BY <4>1, <4>10
        <3>5. QED
            BY <3>3, <3>4
    <2>3. QED
        BY <2>2
<1>2. Bad \subseteq SUBSET S
    OBVIOUS
<1>3. Bad = {}
    <2> HIDE DEF Bad
    <2>1. QED
        BY <1>1, <1>2, MinimalSubset
<1>4. QED
    BY <1>3

LEMMA SumSame ==
    ASSUME NEW f, NEW h, NEW S, IsFiniteSet(S), \A x \in S : f[x] = h[x]
    PROVE  SumOver(f, S) = SumOver(h, S)
<1> DEFINE Bad == {s \in SUBSET S : SumOver(f, s) # SumOver(h, s)}
<1>1. ASSUME NEW m \in Bad, \A u \in Bad : u \subseteq m => u = m
      PROVE  FALSE
    <2>1. m \in SUBSET S /\ IsFiniteSet(m) /\ SumOver(f, m) # SumOver(h, m)
        BY FS_Subset
    <2>2. CASE m = {}
        <3>1. SumOver(f, m) = 0 /\ SumOver(h, m) = 0
            BY <2>1, <2>2, SumUnfolds
        <3>2. QED
            BY <2>1, <3>1
    <2>3. CASE m # {}
        <3>1. /\ SumOver(f, m) = f[Chosen(m)] + SumOver(f, Rest(m))
              /\ SumOver(h, m) = h[Chosen(m)] + SumOver(h, Rest(m))
            BY <2>1, <2>3, SumUnfolds
        <3>2. f[Chosen(m)] = h[Chosen(m)]
            BY <2>1, <2>3, RestOf
        <3>3. SumOver(f, Rest(m)) = SumOver(h, Rest(m))
            BY <1>1, <2>1, <2>3, RestOf
        <3>4. QED
            BY <2>1, <3>1, <3>2, <3>3
    <2>4. QED
        BY <2>2, <2>3
<1>2. Bad \subseteq SUBSET S
    OBVIOUS
<1>3. Bad = {}
    <2> HIDE DEF Bad
    <2>1. QED
        BY <1>1, <1>2, MinimalSubset
<1>4. QED
    BY <1>3

LEMMA SumConstant ==
    ASSUME NEW f, NEW S, IsFiniteSet(S), NEW n \in Int, \A x \in S : f[x] = n
    PROVE  SumOver(f, S) = n * Cardinality(S)
<1> DEFINE Bad == {s \in SUBSET S : SumOver(f, s) # n * Cardinality(s)}
<1>1. ASSUME NEW m \in Bad, \A u \in Bad : u \subseteq m => u = m
      PROVE  FALSE
    <2>1. m \in SUBSET S /\ IsFiniteSet(m) /\ SumOver(f, m) # n * Cardinality(m)
        BY FS_Subset
    <2>2. CASE m = {}
        <3>1. SumOver(f, m) = 0 /\ Cardinality(m) = 0
            BY <2>1, <2>2, SumUnfolds, FS_EmptySet
        <3>2. QED
            BY <2>1, <3>1
    <2>3. CASE m # {}
        <3>1. SumOver(f, m) = f[Chosen(m)] + SumOver(f, Rest(m))
            BY <2>1, <2>3, SumUnfolds
        <3>2. f[Chosen(m)] = n
            BY <2>1, <2>3, RestOf
        <3>3. SumOver(f, Rest(m)) = n * Cardinality(Rest(m))
            BY <1>1, <2>1, <2>3, RestOf
        <3>4. Cardinality(Rest(m)) = Cardinality(m) - 1
            BY <2>1, <2>3, RestOf, FS_RemoveElement DEF Rest
        <3>5. PICK k \in Nat : k = Cardinality(m)
            BY <2>1, FS_CardinalityType
        <3>6. n + n * (k - 1) = n * k
            OBVIOUS
        <3>7. QED
            BY <2>1, <3>1, <3>2, <3>3, <3>4, <3>5, <3>6
    <2>4. QED
        BY <2>2, <2>3
<1>2. Bad \subseteq SUBSET S
    OBVIOUS
<1>3. Bad = {}
    <2> HIDE DEF Bad
    <2>1. QED
        BY <1>1, <1>2, MinimalSubset
<1>4. QED
    BY <1>3

\* What one element gains another loses.
LEMMA SumTransferred ==
    ASSUME NEW f, NEW h, NEW S, IsFiniteSet(S), NEW x \in S, NEW y \in S, x # y, NEW a \in Int,
           \A z \in S : f[z] \in Int,
           h[x] = f[x] - a, h[y] = f[y] + a,
           \A z \in S : z # x /\ z # y => h[z] = f[z]
    PROVE  SumOver(h, S) = SumOver(f, S)
<1>1. ASSUME NEW z \in S PROVE h[z] \in Int
    <2>1. f[z] \in Int /\ f[x] \in Int /\ f[y] \in Int
        OBVIOUS
    <2>2. CASE z = x
        BY <2>1, <2>2
    <2>3. CASE z = y
        BY <2>1, <2>3
    <2>4. CASE z # x /\ z # y
        BY <2>1, <2>4
    <2>5. QED
        BY <2>2, <2>3, <2>4
<1>2. PICK U, R : U = S \ {x} /\ R = U \ {y}
    OBVIOUS
<1>3. /\ IsFiniteSet(U) /\ IsFiniteSet(R) /\ y \in U
      /\ U \subseteq S /\ R \subseteq S
      /\ \A z \in R : h[z] = f[z]
    BY <1>2, FS_Subset
<1>4. /\ SumOver(f, S) = f[x] + SumOver(f, U)
      /\ SumOver(h, S) = h[x] + SumOver(h, U)
    BY <1>1, <1>2, SumRemoves
<1>5. /\ SumOver(f, U) = f[y] + SumOver(f, R)
      /\ SumOver(h, U) = h[y] + SumOver(h, R)
    <2>1. (\A z \in U : f[z] \in Int) /\ (\A z \in U : h[z] \in Int)
        BY <1>1, <1>3
    <2>2. QED
        BY <1>2, <1>3, <2>1, SumRemoves
<1>6. SumOver(h, R) = SumOver(f, R)
    BY <1>3, SumSame
<1>7. SumOver(f, R) \in Int /\ f[x] \in Int /\ f[y] \in Int
    BY <1>3, SumType
<1>8. QED
    BY <1>4, <1>5, <1>6, <1>7

\* One term that changes.
LEMMA SumChanged ==
    ASSUME NEW f, NEW h, NEW S, IsFiniteSet(S), NEW x \in S, NEW a \in Int,
           \A z \in S : f[z] \in Int,
           h[x] = f[x] + a, \A z \in S : z # x => h[z] = f[z]
    PROVE  SumOver(h, S) = SumOver(f, S) + a
<1>1. ASSUME NEW z \in S PROVE h[z] \in Int
    <2>1. f[z] \in Int /\ f[x] \in Int
        OBVIOUS
    <2>2. QED
        BY <2>1
<1>2. SumOver(h, S) = h[x] + SumOver(h, S \ {x})
    BY <1>1, SumRemoves
<1>3. SumOver(f, S) = f[x] + SumOver(f, S \ {x})
    BY SumRemoves
<1>4. SumOver(h, S \ {x}) = SumOver(f, S \ {x})
    <2>1. IsFiniteSet(S \ {x}) /\ \A z \in S \ {x} : h[z] = f[z]
        BY FS_Subset
    <2>2. QED
        BY <2>1, SumSame
<1>5. SumOver(f, S \ {x}) \in Int
    <2>1. IsFiniteSet(S \ {x}) /\ \A z \in S \ {x} : f[z] \in Int
        BY FS_Subset
    <2>2. QED
        BY <2>1, SumType
<1>6. f[x] \in Int
    OBVIOUS
<1>7. QED
    BY <1>2, <1>3, <1>4, <1>5, <1>6

\* Terms that add nothing.
LEMMA SumExtended ==
    ASSUME NEW f, NEW S, NEW T, IsFiniteSet(T), S \subseteq T,
           \A z \in T : f[z] \in Int, \A z \in T \ S : f[z] = 0
    PROVE  SumOver(f, T) = SumOver(f, S)
<1> DEFINE Bad == {s \in SUBSET T : S \subseteq s /\ SumOver(f, s) # SumOver(f, S)}
<1>1. ASSUME NEW m \in Bad, \A u \in Bad : u \subseteq m => u = m
      PROVE  FALSE
    <2>1. m \in SUBSET T /\ S \subseteq m /\ m # S /\ SumOver(f, m) # SumOver(f, S)
        OBVIOUS
    <2>2. PICK x \in m : x \notin S
        BY <2>1
    <2>3. IsFiniteSet(m) /\ \A z \in m : f[z] \in Int
        BY <2>1, FS_Subset
    <2>4. SumOver(f, m) = f[x] + SumOver(f, m \ {x})
        BY <2>3, SumRemoves
    <2>5. m \ {x} \notin Bad
        <3>1. m \ {x} \subseteq m /\ m \ {x} # m
            BY <2>2
        <3>2. QED
            BY <1>1, <3>1
    <2>6. m \ {x} \in SUBSET T /\ S \subseteq m \ {x}
        BY <2>1, <2>2
    <2>7. SumOver(f, m \ {x}) = SumOver(f, S)
        BY <2>5, <2>6
    <2>8. f[x] = 0
        BY <2>1, <2>2
    <2>9. SumOver(f, S) \in Int
        <3>1. IsFiniteSet(S) /\ \A z \in S : f[z] \in Int
            BY FS_Subset
        <3>2. QED
            BY <3>1, SumType
    <2>10. QED
        BY <2>1, <2>4, <2>7, <2>8, <2>9
<1>2. Bad \subseteq SUBSET T
    OBVIOUS
<1> HIDE DEF Bad
<1>3. Bad = {}
    BY <1>1, <1>2, MinimalSubset
<1>4. QED
    BY <1>3 DEF Bad
=============================================================================
