--------------------------- MODULE Topology_proofs ---------------------------
(***************************************************************************)
(* Quorum arithmetic, sharding and rotation for every layout.              *)
(***************************************************************************)
EXTENDS Topology, FiniteSetTheorems, TLAPS

LEMMA FaultBound ==
    ASSUME NEW n \in Nat \ {0}
    PROVE  /\ F(n) \in Nat
           /\ 3 * F(n) + 1 <= n
           /\ n <= 3 * F(n) + 3
<1>1. /\ (n - 1) \div 3 \in Nat
      /\ 3 * ((n - 1) \div 3) <= n - 1
      /\ n - 1 <= 3 * ((n - 1) \div 3) + 2
  OBVIOUS
<1>2. QED
  BY <1>1 DEF F

\* With f replicas silent a quorum is left, in every layout.
THEOREM QuorumsReachable == Spec => []QuorumReachable
<1>1. Init => topo \in Layout
  BY DEF Init
<1>2. topo \in Layout /\ [Next]_vars => (topo \in Layout)'
  BY DEF Next, InstallView, vars
<1>3. topo \in Layout => QuorumReachable
  <2> SUFFICES ASSUME topo \in Layout PROVE QuorumReachable
    OBVIOUS
  <2>1. topo.size \in Nat \ {0}
    BY LayoutAssumption
  <2>2. /\ F(topo.size) \in Nat
        /\ 3 * F(topo.size) + 1 <= topo.size
    BY <2>1, FaultBound
  <2>3. QED
    BY <2>1, <2>2 DEF QuorumReachable, Quorum, CollectorQuorum
<1>4. QED
  BY <1>1, <1>2, <1>3, PTL DEF Spec

\* Two sets of a cluster share at least the excess of their sizes.
LEMMA Overlap ==
    ASSUME NEW R, IsFiniteSet(R), NEW A \in SUBSET R, NEW B \in SUBSET R
    PROVE  /\ Cardinality(A \cap B) \in Nat
           /\ Cardinality(A) \in Nat /\ Cardinality(B) \in Nat /\ Cardinality(R) \in Nat
           /\ Cardinality(A) + Cardinality(B) - Cardinality(R) <= Cardinality(A \cap B)
<1>1. IsFiniteSet(A) /\ IsFiniteSet(B) /\ IsFiniteSet(A \cap B) /\ A \cup B \subseteq R
  BY FS_Subset, A \cap B \subseteq R
<1>2. Cardinality(A \cup B) <= Cardinality(R) /\ IsFiniteSet(A \cup B)
  BY <1>1, FS_Subset
<1>3. Cardinality(A \cup B) = Cardinality(A) + Cardinality(B) - Cardinality(A \cap B)
  BY <1>1, FS_Union
<1>4. /\ Cardinality(A) \in Nat /\ Cardinality(B) \in Nat /\ Cardinality(R) \in Nat
      /\ Cardinality(A \cap B) \in Nat
  BY <1>1, FS_CardinalityType
<1>5. QED
  BY <1>2, <1>3, <1>4

\* Two quorums of 2f + 1 have f + 1 replicas in common when the cluster has
\* exactly 3f + 1 replicas (Quorum).  In the default cluster of 12, with
\* f = 3, two quorums of 7 may have 2 replicas in common.
THEOREM QuorumsIntersect ==
    ASSUME NEW R, IsFiniteSet(R), Cardinality(R) = 3 * F(Cardinality(R)) + 1,
           NEW A \in SUBSET R, Cardinality(A) >= Quorum(Cardinality(R)),
           NEW B \in SUBSET R, Cardinality(B) >= Quorum(Cardinality(R))
    PROVE  Cardinality(A \cap B) >= F(Cardinality(R)) + 1
<1> DEFINE n == Cardinality(R)
<1>1. /\ Cardinality(A \cap B) \in Nat
      /\ Cardinality(A) \in Nat /\ Cardinality(B) \in Nat /\ n \in Nat
      /\ Cardinality(A) + Cardinality(B) - n <= Cardinality(A \cap B)
  BY Overlap
<1>2. n # 0
  <2> SUFFICES ASSUME n = 0 PROVE FALSE
    OBVIOUS
  <2>1. F(n) = (0 - 1) \div 3 /\ (0 - 1) \div 3 = -1
    BY DEF F
  <2>2. n = 3 * F(n) + 1
    OBVIOUS
  <2> HIDE DEF n
  <2>3. QED
    BY <2>1, <2>2
<1>3. F(n) \in Nat
  BY <1>1, <1>2, FaultBound
<1> HIDE DEF n
<1>4. QED
  BY <1>1, <1>3 DEF Quorum, n

\* Two quorums of n - f always have f + 1 replicas in common.
THEOREM CollectorQuorumsIntersect ==
    ASSUME NEW R, IsFiniteSet(R), R # {},
           NEW A \in SUBSET R, Cardinality(A) >= CollectorQuorum(Cardinality(R)),
           NEW B \in SUBSET R, Cardinality(B) >= CollectorQuorum(Cardinality(R))
    PROVE  Cardinality(A \cap B) >= F(Cardinality(R)) + 1
<1> DEFINE n == Cardinality(R)
<1>1. /\ Cardinality(A \cap B) \in Nat
      /\ Cardinality(A) \in Nat /\ Cardinality(B) \in Nat /\ n \in Nat
      /\ Cardinality(A) + Cardinality(B) - n <= Cardinality(A \cap B)
  BY Overlap
<1>2. n # 0
  BY FS_EmptySet
<1>3. F(n) \in Nat /\ 3 * F(n) + 1 <= n
  BY <1>1, <1>2, FaultBound
<1> HIDE DEF n
<1>4. QED
  BY <1>1, <1>3 DEF CollectorQuorum, n

-----------------------------------------------------------------------------
(***************************************************************************)
(* Division with remainder.                                                *)
(***************************************************************************)
LEMMA Division ==
    ASSUME NEW a \in Int, NEW b \in Nat \ {0}
    PROVE  /\ a \div b \in Int /\ a % b \in 0 .. b - 1
           /\ a = b * (a \div b) + (a % b)
OBVIOUS

LEMMA Quotient ==
    ASSUME NEW a \in Int, NEW b \in Nat \ {0}, NEW q \in Int, NEW r \in 0 .. b - 1,
           a = b * q + r
    PROVE  a \div b = q /\ a % b = r
OBVIOUS

LEMMA QuotientMonotone ==
    ASSUME NEW a \in Int, NEW b \in Nat \ {0}, NEW c \in Int, a <= c
    PROVE  a \div b <= c \div b
OBVIOUS

-----------------------------------------------------------------------------
(***************************************************************************)
(* The layout is fixed; every fact about it holds in every state.          *)
(***************************************************************************)
LayoutInv == topo \in Layout /\ view \in Nat

LEMMA LayoutInvariant == Spec => []LayoutInv
<1>1. Init => LayoutInv
  BY DEF Init, LayoutInv
<1>2. LayoutInv /\ [Next]_vars => LayoutInv'
  BY LayoutAssumption DEF LayoutInv, Next, InstallView, vars
<1>3. QED
  BY <1>1, <1>2, PTL DEF Spec

LEMMA ShareOfACluster ==
    ASSUME LayoutInv
    PROVE  /\ topo.clusters \in Nat \ {0} /\ topo.items \in Nat \ {0}
           /\ ItemsPerCluster(topo) \in Nat \ {0}
           /\ topo.clusters * ItemsPerCluster(topo) <= topo.items
<1> DEFINE m == topo.clusters
           n == topo.items
           k == n \div m
<1>1. m \in Nat \ {0} /\ n \in Nat \ {0} /\ n >= m
  BY LayoutAssumption DEF LayoutInv
<1> HIDE DEF m, n
<1>2. k \in Int /\ n % m \in 0 .. m - 1 /\ n = m * k + (n % m)
  BY <1>1, Division
<1>3. 1 <= k
  <2>1. m \div m = 1
    BY <1>1, m = m * 1 + 0, 0 \in 0 .. m - 1, Quotient
  <2>2. m \div m <= n \div m
    BY <1>1, QuotientMonotone
  <2>3. QED
    BY <2>1, <2>2
<1> HIDE DEF k
<1>4. m * k <= n
  <2>1. m * k \in Int
    BY <1>1, <1>2
  <2>2. QED
    BY <2>1, <1>1, <1>2
<1>5. k \in Nat \ {0}
  BY <1>2, <1>3
<1>6. QED
  BY <1>1, <1>4, <1>5 DEF ItemsPerCluster, m, n, k

\* Cluster c owns at least the block of items that starts after those of
\* the clusters before it.
LEMMA OwnBlock ==
    ASSUME LayoutInv, NEW c \in 1 .. topo.clusters,
           NEW i \in (c - 1) * ItemsPerCluster(topo) + 1 .. c * ItemsPerCluster(topo)
    PROVE  i \in 1 .. topo.items /\ ClusterOf(topo, i) = c
<1> DEFINE m == topo.clusters
           k == ItemsPerCluster(topo)
<1>1. /\ m \in Nat \ {0} /\ topo.items \in Nat \ {0} /\ k \in Nat \ {0}
      /\ m * k <= topo.items /\ c \in 1 .. m
  BY ShareOfACluster
<1>2. i \in (c - 1) * k + 1 .. c * k
  OBVIOUS
<1> HIDE DEF m, k
<1>3. c \in Int /\ c - 1 \in Nat /\ c * k = (c - 1) * k + k /\ (c - 1) * k \in Nat
  BY <1>1
<1>4. PICK r \in 0 .. k - 1 : i - 1 = k * (c - 1) + r
  <2>1. i - 1 - k * (c - 1) \in 0 .. k - 1
    BY <1>1, <1>2, <1>3
  <2>2. QED
    BY <1>1, <1>2, <1>3, <2>1
<1>5. (i - 1) \div k = c - 1
  <2>1. i - 1 \in Int /\ c - 1 \in Int
    BY <1>1, <1>2, <1>3
  <2>2. QED
    BY <1>1, <1>4, <2>1, Quotient
<1>6. c * k <= m * k
  BY <1>1
<1>7. i \in 1 .. topo.items
  BY <1>1, <1>2, <1>3, <1>4, <1>6
<1>8. ClusterOf(topo, i) = c
  BY <1>1, <1>5 DEF ClusterOf, k, m
<1>9. QED
  BY <1>7, <1>8

\* Each cluster owns a contiguous block of at least its share of the items,
\* and every item has a cluster, however many items and clusters there are
\* (ClusterOf, ItemsPerCluster).
THEOREM Sharding == Spec => []ItemsAreSharded
<1>1. LayoutInv => ItemsAreSharded
  <2> SUFFICES ASSUME LayoutInv PROVE ItemsAreSharded
    OBVIOUS
  <2> DEFINE m == topo.clusters
             n == topo.items
             k == ItemsPerCluster(topo)
             owned(c) == {i \in 1 .. n : ClusterOf(topo, i) = c}
  <2>1. /\ m \in Nat \ {0} /\ n \in Nat \ {0} /\ k \in Nat \ {0}
    BY ShareOfACluster
  <2>2. ASSUME NEW c \in 1 .. m
        PROVE  Cardinality(owned(c)) >= k
    <3> DEFINE block == (c - 1) * k + 1 .. c * k
    <3>1. block \subseteq owned(c)
      BY OwnBlock
    <3>2. IsFiniteSet(1 .. n) /\ owned(c) \subseteq 1 .. n
      <4>1. n \in Int /\ 1 \in Int
        BY <2>1
      <4>2. IsFiniteSet(1 .. n)
        BY ONLY <4>1, FS_Interval
      <4>3. QED
        BY <4>2
    <3>3. IsFiniteSet(owned(c))
      BY <3>2, FS_Subset
    <3>4. Cardinality(block) = k
      <4> HIDE DEF k, m
      <4>1. (c - 1) * k + 1 \in Int /\ c * k \in Int /\ c * k = (c - 1) * k + k
        BY <2>1
      <4>2. Cardinality(block) =
                IF (c - 1) * k + 1 > c * k THEN 0 ELSE c * k - ((c - 1) * k + 1) + 1
        BY <4>1, FS_Interval
      <4> HIDE DEF block
      <4>3. QED
        BY <2>1, <4>1, <4>2
    <3>5. Cardinality(block) <= Cardinality(owned(c))
      BY <3>1, <3>3, FS_Subset
    <3>6. Cardinality(owned(c)) \in Nat
      BY <3>3, FS_CardinalityType
    <3> HIDE DEF owned, block, k
    <3>7. QED
      BY <2>1, <3>4, <3>5, <3>6
  <2>3. ASSUME NEW i \in 1 .. n
        PROVE  /\ (i - 1) \div k \in Nat
               /\ ClusterOf(topo, i) = IF (i - 1) \div k >= m THEN m ELSE (i - 1) \div k + 1
    <3>1. 0 \div k = 0
      BY <2>1, 0 = k * 0 + 0, 0 \in 0 .. k - 1, Quotient
    <3>2. i - 1 \in Int /\ 0 <= i - 1
      BY <2>1
    <3>3. (i - 1) \div k \in Int /\ 0 \div k <= (i - 1) \div k
      <4> HIDE DEF k
      <4>1. (i - 1) \div k \in Int
        BY <2>1, <3>2, Division
      <4>2. 0 \div k <= (i - 1) \div k
        BY <2>1, <3>2, QuotientMonotone
      <4>3. QED
        BY <4>1, <4>2
    <3>4. QED
      BY <3>1, <3>3 DEF ClusterOf
  <2>4. ASSUME NEW i \in 1 .. n, NEW j \in 1 .. n, i < j
        PROVE  ClusterOf(topo, i) <= ClusterOf(topo, j)
    <3>1. (i - 1) \div k <= (j - 1) \div k
      <4>1. i - 1 \in Int /\ j - 1 \in Int /\ i - 1 <= j - 1
        BY <2>1, <2>4
      <4>2. QED
        BY <2>1, <4>1, QuotientMonotone
    <3> HIDE DEF k, m
    <3>2. QED
      BY <2>1, <2>3, <3>1
  <2>5. ASSUME NEW i \in 1 .. n
        PROVE  ClusterOf(topo, i) \in 1 .. m
    <3> HIDE DEF k, m
    <3>1. QED
      BY <2>1, <2>3
  <2>6. QED
    BY <2>2, <2>4, <2>5 DEF ItemsAreSharded
<1>2. QED
  BY <1>1, LayoutInvariant, PTL

\* Whatever view a cluster of any size is in, one round of views makes each
\* of its replicas the primary once, and no other server (PrimaryOf).
THEOREM Rotation == Spec => []EveryReplicaLeads
<1>1. LayoutInv => EveryReplicaLeads
  <2> SUFFICES ASSUME LayoutInv, NEW c \in 1 .. topo.clusters
               PROVE  {PrimaryOf(topo, c, v) : v \in view .. view + topo.size - 1}
                          = ServersInCluster(topo, c)
    BY DEF EveryReplicaLeads
  <2> DEFINE n == topo.size
             base == (c - 1) * n
  <2>1. n \in Nat \ {0} /\ view \in Nat /\ c \in Nat \ {0}
    BY LayoutAssumption DEF LayoutInv
  <2>2. base \in Int /\ c * n = base + n
    <3> HIDE DEF n
    <3>1. QED
      BY <2>1
  <2>3. ServersInCluster(topo, c) = base + 1 .. base + n
    BY <2>2 DEF ServersInCluster
  <2>4. \A v : PrimaryOf(topo, c, v) = base + (v % n) + 1
    BY DEF PrimaryOf
  <2> HIDE DEF base, n
  <2>5. ASSUME NEW v \in view .. view + n - 1
        PROVE  PrimaryOf(topo, c, v) \in base + 1 .. base + n
    <3>1. v % n \in 0 .. n - 1
      BY <2>1, Division
    <3>2. base + (v % n) + 1 \in base + 1 .. base + n
      BY <2>1, <2>2, <3>1
    <3>3. QED
      BY <2>4, <3>2
  <2>6. ASSUME NEW s \in base + 1 .. base + n
        PROVE  \E v \in view .. view + n - 1 : PrimaryOf(topo, c, v) = s
    <3> DEFINE d == s - base - 1
               e == (d - view) % n
               q == (d - view) \div n
    <3>1. d \in 0 .. n - 1
      BY <2>1, <2>2
    <3>2. e \in 0 .. n - 1 /\ q \in Int /\ d - view = n * q + e
      <4>1. d - view \in Int
        BY <2>1, <3>1
      <4> HIDE DEF d
      <4>2. QED
        BY <2>1, <4>1, Division
    <3> HIDE DEF e, q
    <3>3. view + e \in view .. view + n - 1
      BY <2>1, <3>2
    <3>4. view + e = n * (0 - q) + d
      <4>1. n * (0 - q) = 0 - n * q /\ n * q \in Int
        BY <2>1, <3>2
      <4> HIDE DEF d
      <4>2. QED
        BY <2>1, <3>1, <3>2, <4>1
    <3>5. (view + e) % n = d
      <4>1. view + e \in Int /\ 0 - q \in Int
        BY <2>1, <3>2
      <4>2. QED
        BY <2>1, <3>1, <3>4, <4>1, Quotient
    <3>6. PrimaryOf(topo, c, view + e) = s
      BY <2>2, <2>4, <3>5
    <3>7. QED
      BY <3>3, <3>6
  <2>7. QED
    BY <2>3, <2>5, <2>6 DEF n
<1>2. QED
  BY <1>1, LayoutInvariant, PTL
=============================================================================
