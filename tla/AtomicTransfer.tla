--------------------------- MODULE AtomicTransfer ---------------------------
(***************************************************************************)
(* What ByzBank promises of a transfer, whatever protocol carries it out:  *)
(* it moves its amount from one item to another in one step or not at all, *)
(* and what was decided about it stays decided.                            *)
(***************************************************************************)
EXTENDS Integers

CONSTANTS Item, Transfer, InitialBalance

VARIABLES
    balance,   \* units of every item
    outcome    \* what was decided about every transfer

vars == <<balance, outcome>>

Init ==
    /\ balance = [i \in Item |-> InitialBalance]
    /\ outcome = [t \in Transfer |-> "open"]

Commit(t) ==
    /\ outcome[t] = "open"
    /\ balance[t.x] >= t.amt
    /\ balance' = [balance EXCEPT ![t.x] = @ - t.amt, ![t.y] = balance[t.y] + t.amt]
    /\ outcome' = [outcome EXCEPT ![t] = "commit"]

Abort(t) ==
    /\ outcome[t] = "open"
    /\ outcome' = [outcome EXCEPT ![t] = "abort"]
    /\ UNCHANGED balance

Next == \E t \in Transfer : Commit(t) \/ Abort(t)

Spec == Init /\ [][Next]_vars
=============================================================================
