------------------------------ MODULE SmallBank ------------------------------
(***************************************************************************)
(* The SmallBank benchmark (internal/smallbank): its layout of accounts on *)
(* items, the requests each kind of operation stands for, and the driver,  *)
(* which sends them without waiting, collects what it can in two rounds,   *)
(* waits until no 2PC is under way and checks that no money has appeared   *)
(* or vanished.                                                            *)
(*                                                                         *)
(* The clusters are what the other modules show of them, seen at their     *)
(* primaries: a request inside a cluster takes effect at once or never; a  *)
(* transfer between two is debited, credited, decided and settled, and an  *)
(* abort undoes what was done.  Each request is sent once; one that is     *)
(* refused, or dropped for its timestamp, stays "sent".  A reply is there  *)
(* for the driver some time after the effect, so every deadline may pass   *)
(* before or after any other step.                                         *)
(***************************************************************************)
EXTENDS Integers, Sequences, SequencesExt, FiniteSets, FiniteSetsExt

CONSTANTS
    NumClusters,
    ItemsPerCluster,
    CustomersPerCluster,
    FundCustomers,    \* customers per cluster that fund the treasury
    FundAmt,          \* what each of them pays
    Txns,             \* operations of the benchmark
    Amt,              \* amount of an operation
    InitialBalance,   \* initial units of every item
    Draws             \* Draws[kind] are the pairs of customers that are picked

ASSUME LayoutAssumption ==
    /\ NumClusters \in 1 .. 3
    /\ CustomersPerCluster \in Nat \ {0}
    /\ ItemsPerCluster \in Nat
    /\ 2 * CustomersPerCluster < ItemsPerCluster
    /\ FundCustomers \in 0 .. CustomersPerCluster

ASSUME AmountAssumption ==
    /\ Txns \in Nat
    /\ FundAmt \in Nat \ {0}
    /\ Amt \in Nat \ {0, 1}
    /\ InitialBalance \in Nat

-----------------------------------------------------------------------------
(***************************************************************************)
(* The schema.                                                             *)
(***************************************************************************)
Cluster == 1 .. NumClusters
Customer == 1 .. NumClusters * CustomersPerCluster
Item == 1 .. NumClusters * ItemsPerCluster

ClusterOf(i) == (i - 1) \div ItemsPerCluster + 1
ClusterBase(c) == (c - 1) * ItemsPerCluster + 1
CustCluster(n) == (n - 1) \div CustomersPerCluster + 1
SavingsItem(n) == ClusterBase(CustCluster(n)) + ((n - 1) % CustomersPerCluster) * 2
CheckingItem(n) == SavingsItem(n) + 1
TreasuryItem(c) == ClusterBase(c) + ItemsPerCluster - 1

AccountItems == {SavingsItem(n) : n \in Customer} \cup {CheckingItem(n) : n \in Customer}

AllTrackedItems == AccountItems \cup {TreasuryItem(c) : c \in Cluster}

(***************************************************************************)
(* The requests of one operation of each kind, in the order in which they  *)
(* are sent, for every choice of customers.                                *)
(***************************************************************************)
Request == [x : Item, y : Item, amt : Nat]
Pay(x, y, amt) == [x |-> x, y |-> y, amt |-> amt]

DepositChecking(n) == <<Pay(TreasuryItem(CustCluster(n)), CheckingItem(n), Amt)>>

\* RandomOp deposits Amt or withdraws half of it.
TransactSavings(n) ==
    {<<Pay(TreasuryItem(CustCluster(n)), SavingsItem(n), Amt)>>,
     <<Pay(SavingsItem(n), TreasuryItem(CustCluster(n)), Amt \div 2)>>}

Amalgamate(n, m) == <<Pay(SavingsItem(n), CheckingItem(m), Amt),
                      Pay(CheckingItem(n), CheckingItem(m), Amt \div 2)>>

\* RandomOp calls every check covered: there is never a penalty.
WriteCheck(n) == <<Pay(CheckingItem(n), TreasuryItem(CustCluster(n)), Amt)>>

SendPayment(n, m) == <<Pay(CheckingItem(n), CheckingItem(m), Amt)>>

UniformKinds == <<"Bal", "DC", "TS", "Amg", "WC", "SP">>

\* The customers an operation is about: n alone for most kinds.
ASSUME DrawsAssumption ==
    Draws \in [ToSet(UniformKinds) -> SUBSET {p \in Customer \X Customer : p[1] # p[2]}]

OpsFor(kind, n, m) ==
    CASE kind = "Bal" -> {<<>>}
      [] kind = "DC"  -> {DepositChecking(n)}
      [] kind = "TS"  -> TransactSavings(n)
      [] kind = "Amg" -> {Amalgamate(n, m)}
      [] kind = "WC"  -> {WriteCheck(n)}
      [] kind = "SP"  -> {SendPayment(n, m)}

RandomOp(kind) == UNION {OpsFor(kind, p[1], p[2]) : p \in Draws[kind]}

\* What every customer that funds the treasury of its cluster pays.
FundRequests ==
    LET Funder(i) == ((i - 1) \div FundCustomers) * CustomersPerCluster
                         + ((i - 1) % FundCustomers) + 1
    IN  [i \in 1 .. NumClusters * FundCustomers |->
            Pay(CheckingItem(Funder(i)), TreasuryItem(CustCluster(Funder(i))), FundAmt)]

-----------------------------------------------------------------------------
VARIABLES
    \* the clusters
    bal,        \* per item, its balance at the primary
    reqs,       \* the requests generated so far; a timestamp is an index
    stage,      \* per request, how far the cluster of x is with it
    credit,     \* per request between clusters, how far the cluster of y is
    \* the driver
    phase,
    meta,       \* the operations sent, each with its last request
    records,    \* the metrics: for every operation, with which results
    tries,      \* how many operations of the mix were generated
    probe,      \* the next cluster to poll, or the next item to read
    walSeen,    \* WAL entries seen in this round of polls
    walClear,   \* whether the round before saw none
    total,      \* the sum of the items read so far
    moved       \* history: money moved since the last round of polls began

ledgerVars == <<bal, stage, credit>>
checkVars == <<probe, walSeen, walClear, total>>
driverVars == <<reqs, phase, meta, records, tries, checkVars>>
vars == <<ledgerVars, driverVars, moved>>

TS == DOMAIN reqs
Phase == {"fund", "submit", "wait", "settle", "drain", "quiesce", "sum", "ok", "violated", "stranded"}

OpMeta == [first : Nat, last : Nat, kind : ToSet(UniformKinds), done : BOOLEAN]

Init ==
    /\ bal = [i \in Item |-> InitialBalance]
    /\ reqs = <<>>
    /\ stage = <<>>
    /\ credit = <<>>
    /\ phase = "fund"
    /\ meta = <<>>
    /\ records = {}
    /\ tries = 0
    /\ probe = 1
    /\ walSeen = 0
    /\ walClear = FALSE
    /\ total = 0
    /\ moved = FALSE

-----------------------------------------------------------------------------
(***************************************************************************)
(* The clusters.                                                           *)
(***************************************************************************)
Coord(t) == ClusterOf(reqs[t].x)
Part(t) == ClusterOf(reqs[t].y)
CrossShard(t) == Coord(t) # Part(t)

\* A lock that outlives a step is that of a transfer between clusters.
Locked(i) ==
    \E t \in TS : \/ stage[t] = "prepared" /\ reqs[t].x = i
                  \/ credit[t] = "prepared" /\ reqs[t].y = i

\* Mutant: a lock does not keep a request off the item.
MutantStartable(t) ==
    /\ stage[t] = "sent"
    /\ bal[reqs[t].x] >= reqs[t].amt

Startable(t) ==
    /\ stage[t] = "sent"
    /\ ~Locked(reqs[t].x)
    /\ bal[reqs[t].x] >= reqs[t].amt

Moves == moved' = TRUE

ExecuteIntra(t) ==
    /\ ~CrossShard(t)
    /\ Startable(t)
    /\ ~Locked(reqs[t].y)
    /\ bal' = [bal EXCEPT ![reqs[t].x] = @ - reqs[t].amt, ![reqs[t].y] = @ + reqs[t].amt]
    /\ stage' = [stage EXCEPT ![t] = "committed"]
    /\ Moves
    /\ UNCHANGED <<credit, driverVars>>

ExecuteCoordPrepare(t) ==
    /\ CrossShard(t)
    /\ Startable(t)
    /\ bal' = [bal EXCEPT ![reqs[t].x] = @ - reqs[t].amt]
    /\ stage' = [stage EXCEPT ![t] = "prepared"]
    /\ Moves
    /\ UNCHANGED <<credit, driverVars>>

\* The participant may work on a PREPARE when the coordinator has given up.
ExecutePartPrepare(t) ==
    /\ stage[t] \in {"prepared", "aborted"}
    /\ CrossShard(t)
    /\ credit[t] = "none"
    /\ ~Locked(reqs[t].y)
    /\ bal' = [bal EXCEPT ![reqs[t].y] = @ + reqs[t].amt]
    /\ credit' = [credit EXCEPT ![t] = "prepared"]
    /\ Moves
    /\ UNCHANGED <<stage, driverVars>>

ExecuteCoordCommit(t) ==
    /\ stage[t] = "prepared"
    /\ credit[t] = "prepared"
    /\ stage' = [stage EXCEPT ![t] = "committed"]
    /\ UNCHANGED <<bal, credit, driverVars, moved>>

\* The participant has refused, or has not answered in time.
ExecuteCoordAbort(t) ==
    /\ stage[t] = "prepared"
    /\ stage' = [stage EXCEPT ![t] = "aborted"]
    /\ bal' = [bal EXCEPT ![reqs[t].x] = @ + reqs[t].amt]
    /\ Moves
    /\ UNCHANGED <<credit, driverVars>>

ExecutePartSettle(t) ==
    /\ credit[t] = "prepared"
    /\ credit' = [credit EXCEPT ![t] = "settled"]
    /\ \/ stage[t] = "committed" /\ UNCHANGED <<bal, moved>>
       \/ /\ stage[t] = "aborted"
          /\ bal' = [bal EXCEPT ![reqs[t].y] = @ - reqs[t].amt]
          /\ Moves
    /\ UNCHANGED <<stage, driverVars>>

\* Mutant: only what a cluster coordinates is outstanding.
MutantOutstandingWAL(c) == Cardinality({t \in TS : stage[t] = "prepared" /\ Coord(t) = c})

\* WAL entries that the primary of cluster c reports.
OutstandingWAL(c) ==
    Cardinality({t \in TS : stage[t] = "prepared" /\ Coord(t) = c}) +
    Cardinality({t \in TS : credit[t] = "prepared" /\ Part(t) = c})

\* f + 1 replicas of the cluster of x can have the same reply.  A refusal is
\* recorded by the primary alone.
Answered(t) == stage[t] \in {"committed", "aborted"}

-----------------------------------------------------------------------------
(***************************************************************************)
(* The driver: funding and submission.                                     *)
(***************************************************************************)
\* nextReq numbers all requests of an operation; sent are those it sends now.
Generate(new, sent) ==
    /\ reqs' = reqs \o new
    /\ stage' = stage \o [i \in DOMAIN new |-> IF i <= sent THEN "sent" ELSE "unsent"]
    /\ credit' = credit \o [i \in DOMAIN new |-> "none"]

\* fundTreasury waits for every reply, for 30 s at most, and ignores it.
FundTreasury ==
    /\ phase = "fund"
    /\ IF Len(reqs) < Len(FundRequests)
       THEN Generate(<<FundRequests[Len(reqs) + 1]>>, 1) /\ UNCHANGED phase
       ELSE phase' = "submit" /\ UNCHANGED <<reqs, stage, credit>>
    /\ UNCHANGED <<bal, meta, records, tries, checkVars, moved>>

Sent(kind, first, last) ==
    meta' = Append(meta, [first |-> first, last |-> last, kind |-> kind, done |-> FALSE])

\* A balance probe is recorded at once; an operation of one request is sent and
\* not waited for; of one of several requests the first is sent.
SubmitOp ==
    LET kind == UniformKinds[(tries % Len(UniformKinds)) + 1]
        next == Len(reqs) + 1
    IN  /\ phase = "submit"
        /\ tries < Txns
        /\ tries' = tries + 1
        /\ \E op \in RandomOp(kind) :
              /\ Generate(op, 1)
              /\ IF Len(op) = 1 THEN Sent(kind, next, next) ELSE UNCHANGED meta
              /\ phase' = IF Len(op) > 1 THEN "wait" ELSE phase
        /\ UNCHANGED <<bal, records, checkVars, moved>>

\* Mutant: the result of the first leg is not looked at.
MutantFirstLegCommitted(t) == TRUE

FirstLegCommitted(t) == stage[t] = "committed"

\* waitResult between the requests of an Amalgamate.
SendSecondLeg ==
    LET last == Len(reqs) IN
    /\ phase = "wait"
    /\ FirstLegCommitted(last - 1)
    /\ stage' = [stage EXCEPT ![last] = "sent"]
    /\ Sent("Amg", last - 1, last)
    /\ phase' = "submit"
    /\ UNCHANGED <<bal, credit, reqs, records, tries, checkVars, moved>>

\* MultiStepTimeout, or an abort: the second request is never sent.
GiveUpSecondLeg ==
    /\ phase = "wait"
    /\ Sent("Amg", Len(reqs) - 1, Len(reqs) - 1)
    /\ phase' = "submit"
    /\ UNCHANGED <<ledgerVars, reqs, records, tries, checkVars, moved>>

SubmitEnds ==
    /\ phase = "submit"
    /\ tries = Txns
    /\ phase' = "settle"
    /\ UNCHANGED <<ledgerVars, reqs, meta, records, tries, checkVars, moved>>

-----------------------------------------------------------------------------
(***************************************************************************)
(* The driver: collecting replies.                                         *)
(***************************************************************************)
Record(k, committed) == [op |-> k, committed |-> committed]

TryResolve(k) ==
    /\ phase \in {"settle", "drain"}
    /\ ~meta[k].done
    /\ Answered(meta[k].last)
    /\ meta' = [meta EXCEPT ![k].done = TRUE]
    /\ records' = records \cup {Record(k, stage[meta[k].last] = "committed")}
    /\ UNCHANGED <<ledgerVars, reqs, phase, tries, checkVars, moved>>

\* Everything is done, or SettleTimeout has passed: what is not done counts as
\* not committed, and is still looked for.
SettleEnds ==
    /\ phase = "settle"
    /\ phase' = "drain"
    /\ records' = records \cup {Record(k, FALSE) : k \in {j \in DOMAIN meta : ~meta[j].done}}
    /\ UNCHANGED <<ledgerVars, reqs, meta, tries, checkVars, moved>>

DrainEnds ==
    /\ phase = "drain"
    /\ phase' = "quiesce"
    /\ moved' = FALSE
    /\ UNCHANGED <<ledgerVars, reqs, meta, records, tries, checkVars>>

-----------------------------------------------------------------------------
(***************************************************************************)
(* The driver: Wait2PCQuiescence, SumBalances, CheckConservation.          *)
(***************************************************************************)
\* Two clear rounds, 3 s apart.
Quiet(seen) == walClear /\ seen = 0

PollWAL ==
    LET seen == walSeen + OutstandingWAL(probe) IN
    /\ phase = "quiesce"
    /\ moved' = (moved /\ probe # 1)
    /\ IF probe < NumClusters
       THEN /\ probe' = probe + 1
            /\ walSeen' = seen
            /\ UNCHANGED <<phase, walClear>>
       ELSE /\ probe' = 1
            /\ walSeen' = 0
            /\ walClear' = (seen = 0)
            /\ phase' = IF Quiet(seen) THEN "sum" ELSE phase
    /\ UNCHANGED <<ledgerVars, reqs, meta, records, tries, total>>

\* The deadline: the run ends with an error that names what is stranded.
QuiescenceTimesOut ==
    /\ phase = "quiesce"
    /\ phase' = "stranded"
    /\ UNCHANGED <<ledgerVars, reqs, meta, records, tries, checkVars, moved>>

InitialSum == InitialBalance * Cardinality(AllTrackedItems)

\* The items are read one by one, each at the primary of its cluster.
SumBalances ==
    /\ phase = "sum"
    /\ probe \in Item
    /\ total' = IF probe \in AllTrackedItems THEN total + bal[probe] ELSE total
    /\ probe' = probe + 1
    /\ UNCHANGED <<ledgerVars, reqs, phase, meta, records, tries, walSeen, walClear, moved>>

CheckConservation ==
    /\ phase = "sum"
    /\ probe \notin Item
    /\ phase' = IF total = InitialSum THEN "ok" ELSE "violated"
    /\ UNCHANGED <<ledgerVars, reqs, meta, records, tries, checkVars, moved>>

-----------------------------------------------------------------------------
Ledger(t) ==
    \/ ExecuteIntra(t)
    \/ ExecuteCoordPrepare(t)
    \/ ExecutePartPrepare(t)
    \/ ExecuteCoordCommit(t)
    \/ ExecuteCoordAbort(t)
    \/ ExecutePartSettle(t)

Driver ==
    \/ FundTreasury
    \/ SubmitOp
    \/ SendSecondLeg
    \/ GiveUpSecondLeg
    \/ SubmitEnds
    \/ \E k \in DOMAIN meta : TryResolve(k)
    \/ SettleEnds
    \/ DrainEnds
    \/ PollWAL
    \/ QuiescenceTimesOut
    \/ SumBalances
    \/ CheckConservation

Next == Driver \/ \E t \in TS : Ledger(t)

Spec == Init /\ [][Next]_vars

-----------------------------------------------------------------------------
(***************************************************************************)
(* Properties.                                                             *)
(***************************************************************************)
\* Every variable keeps its type.  A balance is never negative: the undo of a
\* credit finds the money still there.
TypeOK ==
    /\ bal \in [Item -> Nat]
    /\ reqs \in Seq(Request)
    /\ stage \in [TS -> {"unsent", "sent", "prepared", "committed", "aborted"}]
    /\ credit \in [TS -> {"none", "prepared", "settled"}]
    /\ phase \in Phase
    /\ meta \in Seq(OpMeta)
    /\ records \subseteq [op : DOMAIN meta, committed : BOOLEAN]
    /\ tries \in 0 .. Txns
    /\ probe \in Nat /\ walSeen \in Nat /\ total \in Nat
    /\ walClear \in BOOLEAN /\ moved \in BOOLEAN

\* The conservation check reports a violation only when money moved after the
\* last round of polls had begun: with two primaries polled one after the other,
\* no transfer that is half done escapes both.
NoFalseAlarm == phase = "violated" => moved

\* The second request of an Amalgamate moves money only if the first one did,
\* for good.
AmalgamateInOrder == \A k \in DOMAIN meta :
    meta[k].first < meta[k].last /\ stage[meta[k].last] \in {"prepared", "committed"} =>
        stage[meta[k].first] = "committed"
=============================================================================
