----------------------------- MODULE MCSmallBank -----------------------------
(* A small instance of SmallBank: one customer in each of two clusters.     *)
EXTENDS SmallBank

\* Customer 1 pays customer 2 in an Amalgamate, customer 2 pays customer 1 in
\* a SendPayment.
OppositeDraws == [kind \in ToSet(UniformKinds) |->
                     IF kind \in {"WC", "SP"} THEN {<<2, 1>>} ELSE {<<1, 2>>}]
=============================================================================
