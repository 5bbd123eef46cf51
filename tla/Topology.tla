------------------------------ MODULE Topology ------------------------------
(***************************************************************************)
(* The static layout of ByzBank (internal/config/topology.go): clusters of *)
(* equal size, quorum sizes derived from the cluster size, the sharding of *)
(* the items and the rotation of the primary.  The layout is read from the *)
(* environment once (config.Load, which validates nothing); afterwards     *)
(* only the view of a cluster moves.                                       *)
(***************************************************************************)
EXTENDS Integers, FiniteSets

CONSTANTS
    Layout,   \* layouts a process may be started with
    MaxView   \* bound: highest view

ASSUME LayoutAssumption ==
    /\ Layout \subseteq [clusters : Nat \ {0}, size : Nat \ {0}, items : Nat \ {0}]
    /\ \A t \in Layout : t.items >= t.clusters
    /\ MaxView \in Nat

VARIABLES
    topo,  \* the layout of this deployment
    view   \* the view of a cluster

vars == <<topo, view>>

-----------------------------------------------------------------------------
\* Mutant: the largest f with 3f <= n.
MutantF(n) == n \div 3

\* The largest f with 3f + 1 <= n.
F(n) == (n - 1) \div 3

Quorum(n) == 2 * F(n) + 1
CollectorQuorum(n) == n - F(n)
ClientQuorum(n) == F(n) + 1

\* Servers are numbered in contiguous blocks, one block per cluster.
ServersInCluster(t, c) == (c - 1) * t.size + 1 .. c * t.size

ItemsPerCluster(t) == t.items \div t.clusters

\* Mutant: items are numbered from 0.
MutantClusterOf(t, item) ==
    LET idx == item \div ItemsPerCluster(t)
    IN  IF idx >= t.clusters THEN t.clusters ELSE idx + 1

\* The remainder of an uneven division goes to the last cluster.
ClusterOf(t, item) ==
    LET idx == (item - 1) \div ItemsPerCluster(t)
    IN  IF idx >= t.clusters THEN t.clusters ELSE idx + 1

\* Mutant: the view is not wrapped around.
MutantPrimaryOf(t, c, v) == (c - 1) * t.size + v + 1

PrimaryOf(t, c, v) == (c - 1) * t.size + (v % t.size) + 1

-----------------------------------------------------------------------------
Init == topo \in Layout /\ view = 0

\* A view change installs a higher view.
InstallView ==
    /\ view' \in view + 1 .. MaxView
    /\ UNCHANGED topo

Next == InstallView

Spec == Init /\ [][Next]_vars

-----------------------------------------------------------------------------
\* With f replicas silent the others still form a quorum, so waiting for
\* one never blocks on faulty replicas (Quorum, CollectorQuorum).
QuorumReachable == Quorum(topo.size) <= CollectorQuorum(topo.size)

\* Every cluster owns a contiguous block of at least ItemsPerCluster items,
\* in cluster order, also when the items do not divide evenly (ClusterOf).
ItemsAreSharded ==
    LET owned(c) == {i \in 1 .. topo.items : ClusterOf(topo, i) = c}
    IN  /\ \A c \in 1 .. topo.clusters : Cardinality(owned(c)) >= ItemsPerCluster(topo)
        /\ \A i, j \in 1 .. topo.items :
            i < j => ClusterOf(topo, i) <= ClusterOf(topo, j)
        /\ \A i \in 1 .. topo.items : ClusterOf(topo, i) \in 1 .. topo.clusters

\* From any view on, each replica of a cluster, and nobody else, becomes its
\* primary within one round of views (PrimaryOf).
EveryReplicaLeads ==
    \A c \in 1 .. topo.clusters :
        {PrimaryOf(topo, c, v) : v \in view .. view + topo.size - 1}
            = ServersInCluster(topo, c)
=============================================================================
