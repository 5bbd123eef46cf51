---------------------------- MODULE MCViewChange ----------------------------
(* Small instances of ViewChange: four replicas, views 0 and 1.             *)
EXTENDS ViewChange, TLC

CONSTANTS a, b, c, d, alice, bob, i1, i2, i3, i4

\* a leads view 0, b leads view 1.
Leaders == [v \in View |-> IF v = 0 THEN a ELSE b]

Symmetric == Permutations({c, d})

Transfer(client, ts, x, y) == [client |-> client, ts |-> ts, x |-> x, y |-> y]

Alice == Transfer(alice, 1, i1, i2)
Bob == Transfer(bob, 1, i3, i4)
BobContends == Transfer(bob, 1, i1, i3)

\* Which replicas the clients get their requests to: two backups; the new
\* primary and a backup; the old primary for one and two backups for the other.
TwoBackups == [req \in Request |-> {c, d}]
NewPrimaryAndBackup == [req \in Request |-> {b, c}]
Divided == [req \in Request |-> IF req.client = alice THEN {a} ELSE {c, d}]

JustAlice == {Alice}
TwoTransfers == {Alice, Bob}
Contending == {Alice, BobContends}
=============================================================================
