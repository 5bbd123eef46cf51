---------------------------- MODULE ReplicatedLog ----------------------------
(***************************************************************************)
(* What the consensus engine of a cluster promises: one log that all       *)
(* replicas share.  A replica learns for good which request a sequence     *)
(* number stands for, never another one than a replica that learnt it      *)
(* before, and starts the requests it has learnt in the order of their     *)
(* numbers, each at most once.  Numbers may stay unused.                   *)
(***************************************************************************)
EXTENDS Integers

CONSTANTS Replica, SeqNo, Request, NoRequest

VARIABLES
    learned,  \* per replica and sequence number, the request learnt
    started   \* per replica, the sequence numbers it has begun to execute

vars == <<learned, started>>

Init ==
    /\ learned = [r \in Replica |-> [s \in SeqNo |-> NoRequest]]
    /\ started = [r \in Replica |-> {}]

Learn(r, s, req) ==
    /\ \A q \in Replica : learned[q][s] \in {NoRequest, req}
    /\ learned' = [learned EXCEPT ![r][s] = req]

\* What was learnt in the same step may be started.
Start(r, s) ==
    /\ learned'[r][s] # NoRequest
    /\ \A t \in started[r] : t < s
    /\ started' = [started EXCEPT ![r] = @ \cup {s}]

Next ==
    /\ \/ \E r \in Replica, s \in SeqNo, req \in Request : Learn(r, s, req)
       \/ UNCHANGED learned
    /\ \/ \E r \in Replica, s \in SeqNo : Start(r, s)
       \/ UNCHANGED started

Spec == Init /\ [][Next]_vars
=============================================================================
