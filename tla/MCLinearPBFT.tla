---------------------------- MODULE MCLinearPBFT ----------------------------
(* Small instances of LinearPBFT: one primary, three backups, F = 1.        *)
EXTENDS LinearPBFT, TLC

CONSTANTS p, b1, b2, b3, alice, bob, carol, i1, i2, i3, i4

\* Backups with the same fault configuration are interchangeable.
Backups == Permutations({b1, b2, b3})
LiveBackups == Permutations({b1, b2})

Transfer(c, ts, x, y, amt) == [client |-> c, ts |-> ts, x |-> x, y |-> y, amt |-> amt]

\* Two transfers from one item: the second waits for the first one's lock.
ContendingTransfers == {Transfer(alice, 1, i1, i2, 3), Transfer(bob, 1, i1, i3, 4)}

\* Two transfers that share nothing, and one from an item to itself.
DisjointTransfers ==
    {Transfer(alice, 1, i1, i2, 3), Transfer(bob, 1, i3, i4, 4),
     Transfer(carol, 1, i1, i1, 3)}

\* The second transfer needs the credit of the first.
ChainedTransfers == {Transfer(alice, 1, i1, i2, 4), Transfer(bob, 1, i2, i3, 12)}

\* The second transfer needs the credit of the first, and a third one would
\* overdraw i1 together with the first.
CompetingTransfers ==
    {Transfer(alice, 1, i1, i2, 4), Transfer(bob, 1, i2, i3, 12),
     Transfer(carol, 1, i1, i3, 8)}

\* Two transfers of one client that does not wait for the first one's reply.
OpenLoopTransfers == {Transfer(alice, 1, i1, i2, 3), Transfer(alice, 2, i3, i4, 4)}
=============================================================================
