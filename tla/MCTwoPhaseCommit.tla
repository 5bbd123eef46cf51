-------------------------- MODULE MCTwoPhaseCommit --------------------------
(* Small instances of TwoPhaseCommit.                                       *)
EXTENDS TwoPhaseCommit, TLC

CONSTANTS c1, c2, a1, a2, b1, b2, alice, bob

T(c, ts, x, y, amt) == [client |-> c, ts |-> ts, x |-> x, y |-> y, amt |-> amt]

TwoClusters == [i \in Item |-> IF i \in {a1, a2} THEN c1 ELSE c2]

\* One transfer.
Single == {T(alice, 1, a1, b1, 4)}

\* Two transfers that each credit the item the other one debits.
Crossing == {T(alice, 1, a1, b1, 4), T(bob, 1, b1, a1, 3)}

\* Two transfers from one item that it cannot cover together.
SharedSender == {T(alice, 1, a1, b1, 4), T(bob, 1, a1, b2, 7)}
=============================================================================
