----------------------------- MODULE MCTopology -----------------------------
(* Topology for small layouts.                                             *)
EXTENDS Topology

SmallLayouts ==
    {t \in [clusters : 1 .. 3, size : 1 .. 7, items : {3, 7, 10}] : t.items >= t.clusters}
=============================================================================
