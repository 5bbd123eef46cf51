--------------------------- MODULE SmallBank_proofs ---------------------------
(***************************************************************************)
(* The benchmark on any number of accounts, operations and draws: balances *)
(* stay above zero, an Amalgamate moves its second amount only after the   *)
(* first, and the conservation check of the driver raises no false alarm.  *)
(***************************************************************************)
EXTENDS SmallBank, FiniteSums, SequenceTheorems

-----------------------------------------------------------------------------
(***************************************************************************)
(* The schema.                                                             *)
(***************************************************************************)
LEMMA Division ==
    ASSUME NEW a \in Int, NEW b \in Nat \ {0}
    PROVE  /\ a \div b \in Int /\ a % b \in 0 .. b - 1
           /\ a = b * (a \div b) + (a % b)
OBVIOUS

\* What lies below n blocks of size b lies in one of them.
LEMMA InABlock ==
    ASSUME NEW n \in 1 .. 3, NEW b \in Nat \ {0}, NEW a \in 0 .. n * b - 1
    PROVE  a \div b \in 0 .. n - 1
<1> DEFINE q == a \div b
           r == a % b
<1>1. a \in Int /\ n \in Int /\ n * b \in Int
    OBVIOUS
<1>2. q \in Int /\ r \in 0 .. b - 1 /\ a = b * q + r
    BY <1>1, Division
<1> HIDE DEF q, r
<1>3. q >= 0
    <2>1. CASE q <= -1
        <3>1. b * q <= -b
            BY <1>2, <2>1
        <3>2. b * q \in Int
            BY <1>2
        <3>3. QED
            BY <1>2, <3>1, <3>2
    <2>2. QED
        BY <1>2, <2>1
<1>4. q <= n - 1
    <2>1. CASE q >= n
        <3>1. b * q >= n * b
            BY <1>2, <2>1
        <3>2. b * q \in Int
            BY <1>2
        <3>3. QED
            BY <1>1, <1>2, <3>1, <3>2
    <2>2. QED
        BY <1>1, <1>2, <2>1
<1>5. QED
    BY <1>1, <1>2, <1>3, <1>4 DEF q

LEMMA ClusterRange ==
    ASSUME NEW c \in Cluster
    PROVE  /\ ItemsPerCluster \in Nat \ {0} /\ ClusterBase(c) \in Nat
           /\ ClusterBase(c) = (c - 1) * ItemsPerCluster + 1
           /\ 1 <= ClusterBase(c)
           /\ ClusterBase(c) + ItemsPerCluster - 1 <= NumClusters * ItemsPerCluster
           /\ NumClusters * ItemsPerCluster \in Nat
<1>1. /\ ItemsPerCluster \in Nat \ {0} /\ NumClusters \in 1 .. 3
      /\ c \in 1 .. NumClusters
    BY LayoutAssumption DEF Cluster
<1>2. /\ (c - 1) * ItemsPerCluster \in Nat /\ NumClusters * ItemsPerCluster \in Nat
      /\ c * ItemsPerCluster = (c - 1) * ItemsPerCluster + ItemsPerCluster
      /\ c * ItemsPerCluster <= NumClusters * ItemsPerCluster
    BY <1>1
<1>3. QED
    BY <1>1, <1>2 DEF ClusterBase

LEMMA ItemCluster ==
    ASSUME NEW i \in Item
    PROVE  ClusterOf(i) \in Cluster
<1>1. /\ ItemsPerCluster \in Nat \ {0} /\ NumClusters \in 1 .. 3
      /\ i - 1 \in 0 .. NumClusters * ItemsPerCluster - 1
    BY LayoutAssumption DEF Item
<1>2. (i - 1) \div ItemsPerCluster \in 0 .. NumClusters - 1
    BY <1>1, InABlock
<1>3. QED
    BY <1>1, <1>2 DEF ClusterOf, Cluster

LEMMA CustomerItems ==
    ASSUME NEW n \in Customer
    PROVE  CustCluster(n) \in Cluster /\ SavingsItem(n) \in Item /\ CheckingItem(n) \in Item
<1> DEFINE K == CustomersPerCluster
           r == (n - 1) % K
           c == CustCluster(n)
<1>1. /\ K \in Nat \ {0} /\ NumClusters \in 1 .. 3 /\ n - 1 \in Int
      /\ n - 1 \in 0 .. NumClusters * K - 1
    BY LayoutAssumption DEF Customer
<1>2. (n - 1) \div K \in 0 .. NumClusters - 1 /\ r \in 0 .. K - 1
    BY <1>1, InABlock, Division
<1>3. c \in Cluster
    BY <1>1, <1>2 DEF CustCluster, Cluster
<1>4. /\ ItemsPerCluster \in Nat /\ ClusterBase(c) \in Nat /\ 1 <= ClusterBase(c)
      /\ ClusterBase(c) + ItemsPerCluster - 1 <= NumClusters * ItemsPerCluster
      /\ NumClusters * ItemsPerCluster \in Nat
    BY <1>3, ClusterRange
<1>5. SavingsItem(n) = ClusterBase(c) + r * 2
    BY DEF SavingsItem
<1> HIDE DEF r, c
<1>6. r * 2 \in Nat /\ r * 2 <= 2 * K - 2 /\ 2 * K < ItemsPerCluster
    BY <1>1, <1>2, LayoutAssumption
<1>7. SavingsItem(n) \in Item /\ SavingsItem(n) + 1 \in Item
    BY <1>1, <1>4, <1>5, <1>6 DEF Item
<1>8. QED
    BY <1>3, <1>7 DEF CheckingItem, c

LEMMA TreasuryInItem ==
    ASSUME NEW c \in Cluster
    PROVE  TreasuryItem(c) \in Item
BY ClusterRange DEF TreasuryItem, Item

LEMMA TrackedItems ==
    /\ AllTrackedItems \subseteq Item /\ IsFiniteSet(AllTrackedItems)
    /\ \A n \in Customer : SavingsItem(n) \in AllTrackedItems /\ CheckingItem(n) \in AllTrackedItems
    /\ \A c \in Cluster : TreasuryItem(c) \in AllTrackedItems
<1>1. AllTrackedItems \subseteq Item
    BY CustomerItems, TreasuryInItem DEF AllTrackedItems, AccountItems
<1>2. IsFiniteSet(Item)
    <2>1. NumClusters * ItemsPerCluster \in Int
        BY LayoutAssumption
    <2>2. QED
        BY <2>1, FS_Interval DEF Item
<1>3. IsFiniteSet(AllTrackedItems)
    BY <1>1, <1>2, FS_Subset
<1>4. QED
    BY <1>1, <1>3 DEF AllTrackedItems, AccountItems

(***************************************************************************)
(* Operations consist of at most two requests, about tracked items.        *)
(***************************************************************************)
Payment == [x : AllTrackedItems, y : AllTrackedItems, amt : Nat]

LEMMA PayIsPayment ==
    ASSUME NEW x \in AllTrackedItems, NEW y \in AllTrackedItems, NEW n \in Nat
    PROVE  Pay(x, y, n) \in Payment
BY DEF Pay, Payment

LEMMA PaymentIsRequest == Payment \subseteq Request
BY TrackedItems DEF Payment, Request

Operation(op) == op \in Seq(Payment) /\ Len(op) <= 2

LEMMA NoRequests == Operation(<<>>)
BY DEF Operation

LEMMA OneRequest ==
    ASSUME NEW p \in Payment
    PROVE  Operation(<<p>>)
BY DEF Operation

LEMMA TwoRequests ==
    ASSUME NEW p \in Payment, NEW q \in Payment
    PROVE  Operation(<<p, q>>)
BY DEF Operation

LEMMA Amounts == Amt \in Nat /\ Amt \div 2 \in Nat /\ FundAmt \in Nat
BY AmountAssumption

LEMMA OperationTypes ==
    ASSUME NEW kind \in ToSet(UniformKinds), NEW n \in Customer, NEW m \in Customer,
           NEW op \in OpsFor(kind, n, m)
    PROVE  Operation(op)
<1> DEFINE c == CustCluster(n)
<1>1. /\ SavingsItem(n) \in AllTrackedItems /\ CheckingItem(n) \in AllTrackedItems
      /\ CheckingItem(m) \in AllTrackedItems /\ TreasuryItem(c) \in AllTrackedItems
    BY CustomerItems, TrackedItems
<1> HIDE DEF c
<1>2. \A y \in AllTrackedItems : Pay(TreasuryItem(c), y, Amt) \in Payment
    BY <1>1, Amounts, PayIsPayment
<1>3. /\ Pay(SavingsItem(n), TreasuryItem(c), Amt \div 2) \in Payment
      /\ Pay(SavingsItem(n), CheckingItem(m), Amt) \in Payment
      /\ Pay(CheckingItem(n), CheckingItem(m), Amt \div 2) \in Payment
      /\ Pay(CheckingItem(n), CheckingItem(m), Amt) \in Payment
      /\ Pay(CheckingItem(n), TreasuryItem(c), Amt) \in Payment
    BY <1>1, Amounts, PayIsPayment
<1>4. kind \in {"Bal", "DC", "TS", "Amg", "WC", "SP"}
    BY DEF ToSet, UniformKinds
<1>5. CASE kind = "Bal"
    <2>1. op = <<>>
        BY <1>5 DEF OpsFor
    <2>2. QED
        BY <2>1, NoRequests
<1>6. CASE kind = "DC"
    <2>1. op = <<Pay(TreasuryItem(c), CheckingItem(n), Amt)>>
        BY <1>6 DEF OpsFor, DepositChecking, c
    <2>2. QED
        BY <1>1, <1>2, <2>1, OneRequest
<1>7. CASE kind = "TS"
    <2>1. \/ op = <<Pay(TreasuryItem(c), SavingsItem(n), Amt)>>
          \/ op = <<Pay(SavingsItem(n), TreasuryItem(c), Amt \div 2)>>
        BY <1>7 DEF OpsFor, TransactSavings, c
    <2>2. QED
        BY <1>1, <1>2, <1>3, <2>1, OneRequest
<1>8. CASE kind = "Amg"
    <2>1. op = <<Pay(SavingsItem(n), CheckingItem(m), Amt),
                 Pay(CheckingItem(n), CheckingItem(m), Amt \div 2)>>
        BY <1>8 DEF OpsFor, Amalgamate
    <2>2. QED
        BY <1>3, <2>1, TwoRequests
<1>9. CASE kind = "WC"
    <2>1. op = <<Pay(CheckingItem(n), TreasuryItem(c), Amt)>>
        BY <1>9 DEF OpsFor, WriteCheck, c
    <2>2. QED
        BY <1>3, <2>1, OneRequest
<1>10. CASE kind = "SP"
    <2>1. op = <<Pay(CheckingItem(n), CheckingItem(m), Amt)>>
        BY <1>10 DEF OpsFor, SendPayment
    <2>2. QED
        BY <1>3, <2>1, OneRequest
<1>11. QED
    BY <1>4, <1>5, <1>6, <1>7, <1>8, <1>9, <1>10

LEMMA RandomOps ==
    ASSUME NEW kind \in ToSet(UniformKinds), NEW op \in RandomOp(kind)
    PROVE  Operation(op)
<1>1. PICK p \in Draws[kind] : op \in OpsFor(kind, p[1], p[2])
    BY DEF RandomOp
<1>2. p[1] \in Customer /\ p[2] \in Customer
    BY DrawsAssumption
<1>3. QED
    BY <1>1, <1>2, OperationTypes

LEMMA NextKind ==
    ASSUME NEW n \in Nat
    PROVE  UniformKinds[(n % Len(UniformKinds)) + 1] \in ToSet(UniformKinds)
<1>1. Len(UniformKinds) = 6 /\ DOMAIN UniformKinds = 1 .. 6
    BY DEF UniformKinds
<1>2. (n % 6) + 1 \in 1 .. 6
    OBVIOUS
<1>3. QED
    BY <1>1, <1>2 DEF ToSet

LEMMA FundingTypes ==
    /\ DOMAIN FundRequests = 1 .. NumClusters * FundCustomers
    /\ Len(FundRequests) = NumClusters * FundCustomers
    /\ \A i \in DOMAIN FundRequests : FundRequests[i] \in Payment
<1>1. /\ NumClusters \in 1 .. 3 /\ FundCustomers \in 0 .. CustomersPerCluster
      /\ CustomersPerCluster \in Nat \ {0} /\ NumClusters * FundCustomers \in Nat
    BY LayoutAssumption
<1> DEFINE Funder(i) == ((i - 1) \div FundCustomers) * CustomersPerCluster
                            + ((i - 1) % FundCustomers) + 1
           Paying(i) == Pay(CheckingItem(Funder(i)), TreasuryItem(CustCluster(Funder(i))), FundAmt)
<1>2. FundRequests = [i \in 1 .. NumClusters * FundCustomers |-> Paying(i)]
    BY DEF FundRequests
<1>3. ASSUME NEW i \in 1 .. NumClusters * FundCustomers
      PROVE  Paying(i) \in Payment
    <2> DEFINE q == (i - 1) \div FundCustomers
               r == (i - 1) % FundCustomers
    <2>1. FundCustomers \in Nat \ {0}
        BY <1>1
    <2>2. i - 1 \in Int /\ i - 1 \in 0 .. NumClusters * FundCustomers - 1
        BY <1>1
    <2>3. q \in 0 .. NumClusters - 1 /\ r \in 0 .. FundCustomers - 1
        BY <1>1, <2>1, <2>2, InABlock, Division
    <2>4. Funder(i) = q * CustomersPerCluster + r + 1
        OBVIOUS
    <2> HIDE DEF q, r
    <2>5. /\ q * CustomersPerCluster \in Nat
          /\ q * CustomersPerCluster <= NumClusters * CustomersPerCluster - CustomersPerCluster
          /\ NumClusters * CustomersPerCluster \in Nat
        BY <1>1, <2>3
    <2>6. Funder(i) \in Customer
        BY <1>1, <2>3, <2>4, <2>5 DEF Customer
    <2> HIDE DEF Funder
    <2>7. CheckingItem(Funder(i)) \in AllTrackedItems
          /\ TreasuryItem(CustCluster(Funder(i))) \in AllTrackedItems
        BY <2>6, CustomerItems, TrackedItems
    <2>8. QED
        BY <2>7, Amounts, PayIsPayment
<1> HIDE DEF Paying
<1>4. QED
    BY <1>1, <1>2, <1>3

-----------------------------------------------------------------------------
(***************************************************************************)
(* The invariant.  What the clusters have done: the money an undo takes    *)
(* back is still there (Covered), because the credited item is locked for  *)
(* one transfer (OneCredit).                                               *)
(***************************************************************************)
Stages == {"unsent", "sent", "prepared", "committed", "aborted"}
Credits == {"none", "prepared", "settled"}

LedgerType ==
    /\ bal \in [Item -> Nat]
    /\ reqs \in Seq(Payment)
    /\ stage \in [TS -> Stages]
    /\ credit \in [TS -> Credits]

Matched ==
    \A t \in TS : /\ stage[t] \in {"unsent", "sent"} => credit[t] = "none"
                  /\ credit[t] = "settled" => stage[t] \in {"committed", "aborted"}

Covered == \A t \in TS : credit[t] = "prepared" => bal[reqs[t].y] >= reqs[t].amt

OneCredit ==
    \A t, u \in TS : credit[t] = "prepared" /\ credit[u] = "prepared" /\ reqs[t].y = reqs[u].y => t = u

LedgerInv == LedgerType /\ Matched /\ Covered /\ OneCredit

(***************************************************************************)
(* Money: the tracked items together with what is on its way.              *)
(***************************************************************************)
Weight(t) ==
    IF stage[t] = "prepared" /\ credit[t] = "none" THEN reqs[t].amt
    ELSE IF stage[t] = "aborted" /\ credit[t] = "prepared" THEN -reqs[t].amt
    ELSE 0

MoneyInv ==
    \E b, w : /\ b = bal /\ w = [t \in TS |-> Weight(t)]
              /\ SumOver(b, AllTrackedItems) + SumOver(w, DOMAIN w) = InitialSum

-----------------------------------------------------------------------------
(***************************************************************************)
(* What a step of the clusters does.                                       *)
(***************************************************************************)
LEMMA RequestFields ==
    ASSUME LedgerType, NEW t \in TS
    PROVE  /\ reqs[t].x \in AllTrackedItems /\ reqs[t].y \in AllTrackedItems /\ reqs[t].amt \in Nat
           /\ reqs[t].x \in Item /\ reqs[t].y \in Item
           /\ bal[reqs[t].x] \in Nat /\ bal[reqs[t].y] \in Nat
           /\ Coord(t) \in Cluster /\ Part(t) \in Cluster
<1>1. reqs[t] \in Payment
    BY ElementOfSeq DEF LedgerType, TS
<1>2. /\ reqs[t].x \in AllTrackedItems /\ reqs[t].y \in AllTrackedItems /\ reqs[t].amt \in Nat
      /\ reqs[t].x \in Item /\ reqs[t].y \in Item
    BY <1>1, TrackedItems DEF Payment
<1>3. QED
    BY <1>2, ItemCluster DEF LedgerType, Coord, Part

\* One request within a cluster.
LEMMA IntraLedger ==
    ASSUME LedgerInv, NEW t \in TS, ExecuteIntra(t)
    PROVE  LedgerInv'
<1> DEFINE x == reqs[t].x
           y == reqs[t].y
           n == reqs[t].amt
<1>1. /\ x \in Item /\ y \in Item /\ n \in Nat /\ bal[x] \in Nat /\ bal[y] \in Nat
    BY RequestFields DEF LedgerInv
<1>2. /\ bal' = [bal EXCEPT ![x] = @ - n, ![y] = @ + n]
      /\ bal[x] >= n /\ ~Locked(x)
      /\ stage[t] = "sent" /\ stage' = [stage EXCEPT ![t] = "committed"]
      /\ credit' = credit /\ reqs' = reqs
    BY DEF ExecuteIntra, Startable, driverVars
<1> HIDE DEF x, y, n
<1>3. bal' \in [Item -> Nat] /\ \A i \in Item : i # x => bal'[i] >= bal[i]
    <2>1. bal \in [Item -> Nat]
        BY DEF LedgerInv, LedgerType
    <2>2. QED
        BY <1>1, <1>2, <2>1
<1>4. LedgerType'
    BY <1>2, <1>3 DEF LedgerInv, LedgerType, TS, Stages
<1>5. Matched'
    BY <1>2 DEF LedgerInv, LedgerType, Matched, TS
<1>6. ASSUME NEW u \in TS, credit[u] = "prepared"
      PROVE  bal'[reqs[u].y] >= reqs[u].amt
    <2>1. reqs[u].y # x
        BY <1>2, <1>6 DEF Locked
    <2>2. reqs[u].y \in Item /\ bal[reqs[u].y] \in Nat /\ reqs[u].amt \in Nat
        BY RequestFields DEF LedgerInv
    <2>3. bal[reqs[u].y] >= reqs[u].amt
        BY <1>6 DEF LedgerInv, Covered
    <2>4. bal'[reqs[u].y] \in Nat /\ bal'[reqs[u].y] >= bal[reqs[u].y]
        BY <1>3, <2>1, <2>2
    <2>5. QED
        BY <2>2, <2>3, <2>4
<1>7. Covered'
    BY <1>2, <1>6 DEF Covered, TS
<1>8. OneCredit'
    BY <1>2 DEF LedgerInv, OneCredit, TS
<1>9. QED
    BY <1>4, <1>5, <1>7, <1>8 DEF LedgerInv

\* What all steps of a transfer between clusters have in common.
LEMMA CrossLedger ==
    ASSUME LedgerInv, NEW t \in TS, reqs' = reqs, bal' \in [Item -> Nat],
           stage' \in [TS -> Stages], credit' \in [TS -> Credits],
           \A u \in TS : u # t => stage'[u] = stage[u] /\ credit'[u] = credit[u],
           stage'[t] \in {"unsent", "sent"} => credit'[t] = "none",
           credit'[t] = "settled" => stage'[t] \in {"committed", "aborted"},
           credit'[t] = "prepared" => bal'[reqs[t].y] >= reqs[t].amt,
           credit'[t] = "prepared" => credit[t] = "prepared" \/ ~Locked(reqs[t].y),
           \A u \in TS : u # t /\ credit[u] = "prepared" => bal'[reqs[u].y] >= bal[reqs[u].y]
    PROVE  LedgerInv'
<1>1. \A u \in TS : u # t => stage'[u] = stage[u] /\ credit'[u] = credit[u]
    OBVIOUS
<1>2. LedgerType'
    BY <1>1 DEF LedgerInv, LedgerType, TS
<1>3. Matched'
    BY <1>1 DEF LedgerInv, Matched, TS
<1>4. ASSUME NEW u \in TS, credit'[u] = "prepared"
      PROVE  bal'[reqs[u].y] >= reqs[u].amt
    <2>1. CASE u = t
        BY <1>1, <1>4, <2>1
    <2>2. CASE u # t
        <3>1. credit[u] = "prepared" /\ bal[reqs[u].y] >= reqs[u].amt
            BY <1>1, <1>4, <2>2 DEF LedgerInv, Covered
        <3>2. bal'[reqs[u].y] >= bal[reqs[u].y]
            BY <2>2, <3>1
        <3>3. reqs[u].y \in Item /\ bal[reqs[u].y] \in Nat /\ reqs[u].amt \in Nat
            BY RequestFields DEF LedgerInv
        <3>4. bal'[reqs[u].y] \in Nat
            BY <3>3
        <3>5. QED
            BY <3>1, <3>2, <3>3, <3>4
    <2>3. QED
        BY <2>1, <2>2
<1>5. Covered'
    BY <1>4 DEF Covered, TS
<1>6. ASSUME NEW u \in TS, NEW v \in TS, credit'[u] = "prepared", credit'[v] = "prepared",
             reqs[u].y = reqs[v].y
      PROVE  u = v
    <2>1. CASE u # t /\ v # t
        BY <1>1, <1>6, <2>1 DEF LedgerInv, OneCredit
    <2>2. CASE credit[t] = "prepared"
        BY <1>1, <1>6, <2>2 DEF LedgerInv, OneCredit
    <2>3. CASE credit[t] # "prepared" /\ (u = t \/ v = t)
        <3>1. ~Locked(reqs[t].y)
            BY <1>1, <1>6, <2>3
        <3>2. \A o \in TS : credit[o] = "prepared" => reqs[o].y # reqs[t].y
            BY <3>1 DEF Locked
        <3>3. QED
            BY <1>1, <1>6, <2>3, <3>2
    <2>4. QED
        BY <2>1, <2>2, <2>3
<1>7. OneCredit'
    BY <1>6 DEF OneCredit, TS
<1>8. QED
    BY <1>2, <1>3, <1>5, <1>7 DEF LedgerInv

\* How the balances change.
LEMMA BalanceAdded ==
    ASSUME LedgerType, NEW i \in Item, NEW n \in Int, bal[i] + n \in Nat,
           bal' = [bal EXCEPT ![i] = bal[i] + n]
    PROVE  /\ bal' \in [Item -> Nat]
           /\ bal'[i] = bal[i] + n
           /\ \A j \in Item : j # i => bal'[j] = bal[j]
BY DEF LedgerType

LEMMA LedgerStep ==
    ASSUME LedgerInv, NEW t \in TS, Ledger(t)
    PROVE  LedgerInv'
<1> DEFINE x == reqs[t].x
           y == reqs[t].y
           n == reqs[t].amt
<1>1. /\ x \in Item /\ y \in Item /\ n \in Nat /\ bal[x] \in Nat /\ bal[y] \in Nat
      /\ bal \in [Item -> Nat] /\ stage[t] \in Stages /\ credit[t] \in Credits
      /\ stage \in [TS -> Stages] /\ credit \in [TS -> Credits] /\ LedgerType
      /\ -n \in Int
    BY RequestFields DEF LedgerInv, LedgerType
<1>2. /\ stage[t] \in {"unsent", "sent"} => credit[t] = "none"
      /\ credit[t] = "settled" => stage[t] \in {"committed", "aborted"}
      /\ credit[t] = "prepared" => bal[y] >= n
    BY DEF LedgerInv, Matched, Covered
<1>3. \A u \in TS : reqs[u].y \in Item /\ bal[reqs[u].y] \in Nat
    BY RequestFields DEF LedgerInv
<1>4. \A u \in TS : u # t /\ credit[u] = "prepared" /\ credit[t] = "prepared" => reqs[u].y # y
    BY DEF LedgerInv, OneCredit
<1>5. stage = [stage EXCEPT ![t] = stage[t]] /\ credit = [credit EXCEPT ![t] = credit[t]]
    BY <1>1
<1>6. "committed" \in Stages /\ "prepared" \in Stages /\ "aborted" \in Stages
      /\ "prepared" \in Credits /\ "settled" \in Credits
    BY DEF Stages, Credits
<1>7. \A i \in Item, m \in Nat : bal[i] - m = bal[i] + (-m)
    BY <1>1
<1> HIDE DEF x, y, n
<1>8. CASE ExecuteIntra(t)
    BY <1>8, IntraLedger
<1>9. CASE ExecuteCoordPrepare(t)
    <2>1. /\ stage[t] = "sent" /\ stage' = [stage EXCEPT ![t] = "prepared"]
          /\ credit' = credit /\ reqs' = reqs
          /\ ~Locked(x) /\ bal[x] >= n /\ bal' = [bal EXCEPT ![x] = bal[x] + (-n)]
        BY <1>1, <1>7, <1>9 DEF ExecuteCoordPrepare, Startable, driverVars, x, n
    <2>2. bal' \in [Item -> Nat] /\ \A j \in Item : j # x => bal'[j] = bal[j]
        BY <1>1, <2>1, BalanceAdded
    <2>3. \A u \in TS : credit[u] = "prepared" => reqs[u].y # x
        BY <2>1 DEF Locked
    <2>4. \A u \in TS : u # t /\ credit[u] = "prepared" => bal'[reqs[u].y] >= bal[reqs[u].y]
        BY <1>3, <2>2, <2>3
    <2>5. credit[t] = "none"
        BY <1>2, <2>1
    <2>6. QED
        BY <1>1, <1>2, <1>5, <1>6, <2>1, <2>2, <2>4, <2>5, CrossLedger DEF y, n
<1>10. CASE ExecutePartPrepare(t)
    <2>1. /\ stage[t] \in {"prepared", "aborted"} /\ stage' = stage /\ reqs' = reqs
          /\ credit' = [credit EXCEPT ![t] = "prepared"]
          /\ ~Locked(y) /\ bal' = [bal EXCEPT ![y] = bal[y] + n]
        BY <1>1, <1>10 DEF ExecutePartPrepare, driverVars, y, n
    <2>2. bal' \in [Item -> Nat] /\ bal'[y] = bal[y] + n /\ \A j \in Item : j # y => bal'[j] = bal[j]
        BY <1>1, <2>1, BalanceAdded
    <2>3. \A u \in TS : u # t /\ credit[u] = "prepared" => bal'[reqs[u].y] >= bal[reqs[u].y]
        BY <1>1, <1>3, <2>2
    <2>4. bal'[y] >= n
        BY <1>1, <2>2
    <2>5. QED
        BY <1>1, <1>5, <1>6, <2>1, <2>2, <2>3, <2>4, CrossLedger DEF y, n
<1>11. CASE ExecuteCoordCommit(t)
    <2>1. /\ stage[t] = "prepared" /\ stage' = [stage EXCEPT ![t] = "committed"]
          /\ credit[t] = "prepared" /\ credit' = credit /\ reqs' = reqs /\ bal' = bal
        BY <1>11 DEF ExecuteCoordCommit, driverVars
    <2>2. \A u \in TS : u # t /\ credit[u] = "prepared" => bal'[reqs[u].y] >= bal[reqs[u].y]
        BY <1>3, <2>1
    <2>3. QED
        BY <1>1, <1>2, <1>5, <1>6, <2>1, <2>2, CrossLedger DEF y, n
<1>12. CASE ExecuteCoordAbort(t)
    <2>1. /\ stage[t] = "prepared" /\ stage' = [stage EXCEPT ![t] = "aborted"]
          /\ credit' = credit /\ reqs' = reqs /\ bal' = [bal EXCEPT ![x] = bal[x] + n]
        BY <1>1, <1>12 DEF ExecuteCoordAbort, driverVars, x, n
    <2>2. bal' \in [Item -> Nat] /\ bal'[x] = bal[x] + n /\ \A j \in Item : j # x => bal'[j] = bal[j]
        BY <1>1, <2>1, BalanceAdded
    <2>3. \A j \in Item : bal'[j] >= bal[j]
        BY <1>1, <2>2
    <2>4. \A u \in TS : u # t /\ credit[u] = "prepared" => bal'[reqs[u].y] >= bal[reqs[u].y]
        BY <1>3, <2>3
    <2>5. credit[t] = "prepared" => bal'[y] >= n
        <3>1. bal'[y] \in Nat /\ bal'[y] >= bal[y]
            BY <1>1, <2>2, <2>3
        <3>2. QED
            BY <1>1, <1>2, <3>1
    <2>6. credit'[t] = "prepared" => bal'[reqs[t].y] >= reqs[t].amt
        BY <2>1, <2>5 DEF y, n
    <2>7. QED
        BY <1>1, <1>2, <1>6, <2>1, <2>2, <2>4, <2>6, CrossLedger
<1>13. CASE ExecutePartSettle(t)
    <2>1. /\ credit[t] = "prepared" /\ credit' = [credit EXCEPT ![t] = "settled"]
          /\ stage' = stage /\ reqs' = reqs /\ stage[t] \in {"committed", "aborted"}
          /\ bal' = bal \/ bal' = [bal EXCEPT ![y] = bal[y] + (-n)]
        BY <1>1, <1>7, <1>13 DEF ExecutePartSettle, driverVars, y, n
    <2>2. bal[y] + (-n) \in Nat
        BY <1>1, <1>2, <2>1
    <2>3. bal' \in [Item -> Nat] /\ \A j \in Item : j # y => bal'[j] = bal[j]
        BY <1>1, <2>1, <2>2, BalanceAdded
    <2>4. \A u \in TS : u # t /\ credit[u] = "prepared" => bal'[reqs[u].y] >= bal[reqs[u].y]
        BY <1>3, <1>4, <2>1, <2>3
    <2>5. QED
        BY <1>1, <1>5, <1>6, <2>1, <2>3, <2>4, CrossLedger DEF y, n
<1>14. QED
    BY <1>8, <1>9, <1>10, <1>11, <1>12, <1>13 DEF Ledger

-----------------------------------------------------------------------------
(***************************************************************************)
(* No step makes or destroys money.                                        *)
(***************************************************************************)
LEMMA WeightType ==
    ASSUME LedgerType, NEW t \in TS
    PROVE  Weight(t) \in Int
BY RequestFields DEF Weight

LEMMA FiniteDomain ==
    ASSUME NEW S, NEW s \in Seq(S)
    PROVE  IsFiniteSet(DOMAIN s)
<1>1. DOMAIN s = 1 .. Len(s) /\ Len(s) \in Nat
    BY LenProperties
<1>2. QED
    BY <1>1, FS_Interval

LEMMA FiniteTS ==
    ASSUME LedgerType
    PROVE  IsFiniteSet(TS)
BY FiniteDomain DEF LedgerType, TS

\* The sums, of what are functions of the state.
LEMMA MoneyIs ==
    ASSUME LedgerType, MoneyInv,
           NEW b, b = bal, NEW w, w = [t \in TS |-> Weight(t)]
    PROVE  /\ SumOver(b, AllTrackedItems) + SumOver(w, TS) = InitialSum
           /\ \A i \in AllTrackedItems : b[i] \in Int
           /\ \A t \in TS : w[t] = Weight(t) /\ w[t] \in Int
           /\ SumOver(b, AllTrackedItems) \in Int /\ SumOver(w, TS) \in Int
<1>1. SumOver(b, AllTrackedItems) + SumOver(w, TS) = InitialSum
    BY DEF MoneyInv
<1>2. \A i \in AllTrackedItems : b[i] \in Int
    BY TrackedItems DEF LedgerType
<1>3. \A t \in TS : w[t] = Weight(t) /\ w[t] \in Int
    BY WeightType
<1>4. QED
    BY <1>1, <1>2, <1>3, FiniteTS, TrackedItems, SumType

LEMMA MoneyFor ==
    ASSUME NEW b, b = bal', NEW w, DOMAIN w = TS', \A t \in TS' : w[t] = Weight(t)',
           w = [t \in DOMAIN w |-> w[t]],
           SumOver(b, AllTrackedItems) + SumOver(w, TS') = InitialSum
    PROVE  MoneyInv'
<1>1. w = [t \in TS' |-> Weight(t)']
    OBVIOUS
<1>2. QED
    BY <1>1 DEF MoneyInv

LEMMA MoneySame ==
    ASSUME MoneyInv, UNCHANGED <<bal, reqs, stage, credit>>
    PROVE  MoneyInv'
<1>1. PICK b, w : /\ b = bal /\ w = [t \in TS |-> Weight(t)]
                  /\ SumOver(b, AllTrackedItems) + SumOver(w, DOMAIN w) = InitialSum
    BY DEF MoneyInv
<1>2. b = bal' /\ w = [t \in TS' |-> Weight(t)']
    BY <1>1 DEF TS, Weight
<1>3. QED
    BY <1>1, <1>2 DEF MoneyInv

\* What leaves an account is on its way, and the other way round.
LEMMA MoneyShifted ==
    ASSUME LedgerInv, MoneyInv, NEW t \in TS, NEW i \in AllTrackedItems, NEW a \in Int,
           reqs' = reqs, bal'[i] = bal[i] + a, \A j \in Item : j # i => bal'[j] = bal[j],
           \A u \in TS : u # t => stage'[u] = stage[u] /\ credit'[u] = credit[u],
           Weight(t)' = Weight(t) - a
    PROVE  MoneyInv'
<1> DEFINE S == AllTrackedItems
<1>1. PICK b : b = bal
    OBVIOUS
<1>2. PICK w : w = [u \in TS |-> Weight(u)]
    OBVIOUS
<1>3. /\ SumOver(b, S) + SumOver(w, TS) = InitialSum
      /\ \A j \in S : b[j] \in Int
      /\ \A u \in TS : w[u] = Weight(u) /\ w[u] \in Int
      /\ SumOver(b, S) \in Int /\ SumOver(w, TS) \in Int
    BY <1>1, <1>2, MoneyIs DEF LedgerInv
<1>4. PICK c : c = bal'
    OBVIOUS
<1>5. PICK v : v = [u \in TS |-> IF u = t THEN w[t] - a ELSE w[u]]
    OBVIOUS
<1>6. c[i] = b[i] + a /\ \A j \in S : j # i => c[j] = b[j]
    BY <1>1, <1>4, TrackedItems
<1>7. SumOver(c, S) = SumOver(b, S) + a
    BY <1>3, <1>6, TrackedItems, SumChanged
<1>8. v[t] = w[t] + (-a) /\ \A u \in TS : u # t => v[u] = w[u]
    BY <1>3, <1>5
<1>9. SumOver(v, TS) = SumOver(w, TS) + (-a)
    <2>1. IsFiniteSet(TS) /\ -a \in Int
        BY FiniteTS DEF LedgerInv
    <2>2. QED
        BY <1>3, <1>8, <2>1, SumChanged
<1>10. TS' = TS
    BY DEF TS
<1>11. \A u \in TS : u # t => Weight(u)' = Weight(u)
    BY DEF Weight
<1>12. \A u \in TS : v[u] = Weight(u)'
    BY <1>3, <1>5, <1>11
<1>13. SumOver(c, S) + SumOver(v, TS) = InitialSum
    BY <1>3, <1>7, <1>9
<1>14. DOMAIN v = TS /\ v = [u \in DOMAIN v |-> v[u]]
    BY <1>5
<1>15. QED
    BY <1>4, <1>10, <1>12, <1>13, <1>14, MoneyFor

LEMMA MoneyIntra ==
    ASSUME LedgerInv, MoneyInv, NEW t \in TS, ExecuteIntra(t)
    PROVE  MoneyInv'
<1> DEFINE S == AllTrackedItems
           x == reqs[t].x
           y == reqs[t].y
           n == reqs[t].amt
<1>1. x \in S /\ y \in S /\ n \in Int /\ x \in Item /\ y \in Item /\ bal[x] \in Int /\ bal[y] \in Int
    BY RequestFields DEF LedgerInv
<1>2. /\ bal' = [bal EXCEPT ![x] = @ - n, ![y] = @ + n]
      /\ stage[t] = "sent" /\ stage' = [stage EXCEPT ![t] = "committed"]
      /\ credit' = credit /\ reqs' = reqs
    BY DEF ExecuteIntra, Startable, driverVars
<1> HIDE DEF x, y, n
<1>3. PICK b : b = bal
    OBVIOUS
<1>4. PICK w : w = [u \in TS |-> Weight(u)]
    OBVIOUS
<1>5. /\ SumOver(b, S) + SumOver(w, TS) = InitialSum
      /\ \A j \in S : b[j] \in Int
    BY <1>3, <1>4, MoneyIs DEF LedgerInv
<1>6. TS' = TS
    BY <1>2 DEF TS
<1>7. \A u \in TS : w[u] = Weight(u)'
    <2>1. \A u \in TS : Weight(u)' = Weight(u)
        BY <1>2 DEF LedgerInv, LedgerType, Weight
    <2>2. QED
        BY <1>4, <2>1
<1>8. PICK c : c = bal'
    OBVIOUS
<1>9. SumOver(c, S) = SumOver(b, S)
    <2>1. bal \in [Item -> Nat]
        BY DEF LedgerInv, LedgerType
    <2>2. CASE x = y
        <3>1. \A j \in Item : bal'[j] = bal[j]
            BY <1>1, <1>2, <2>1, <2>2
        <3>2. \A j \in S : c[j] = b[j]
            BY <1>3, <1>8, <3>1, TrackedItems
        <3>3. QED
            BY <3>2, TrackedItems, SumSame
    <2>3. CASE x # y
        <3>1. c[x] = b[x] - n /\ c[y] = b[y] + n
              /\ \A j \in Item : j # x /\ j # y => c[j] = b[j]
            BY <1>1, <1>2, <1>3, <1>8, <2>1, <2>3
        <3>2. \A j \in S : j # x /\ j # y => c[j] = b[j]
            BY <3>1, TrackedItems
        <3>3. QED
            BY <1>1, <1>5, <2>3, <3>1, <3>2, TrackedItems, SumTransferred
    <2>4. QED
        BY <2>2, <2>3
<1>10. DOMAIN w = TS /\ w = [u \in DOMAIN w |-> w[u]]
    BY <1>4
<1>11. QED
    BY <1>5, <1>6, <1>7, <1>8, <1>9, <1>10, MoneyFor

LEMMA MoneyStep ==
    ASSUME LedgerInv, MoneyInv, NEW t \in TS, Ledger(t)
    PROVE  MoneyInv'
<1> DEFINE x == reqs[t].x
           y == reqs[t].y
           n == reqs[t].amt
<1>1. /\ x \in AllTrackedItems /\ y \in AllTrackedItems /\ n \in Int /\ -n \in Int /\ 0 \in Int
      /\ x \in Item /\ y \in Item /\ bal[x] \in Int /\ bal[y] \in Int
      /\ bal \in [Item -> Nat] /\ stage \in [TS -> Stages] /\ credit \in [TS -> Credits]
      /\ LedgerType
    BY RequestFields DEF LedgerInv, LedgerType
<1>2. /\ stage[t] \in {"unsent", "sent"} => credit[t] = "none"
      /\ credit[t] = "settled" => stage[t] \in {"committed", "aborted"}
      /\ credit[t] \in {"none", "prepared", "settled"}
    BY <1>1 DEF LedgerInv, Matched, Credits
<1>3. /\ Weight(t) = IF stage[t] = "prepared" /\ credit[t] = "none" THEN n
                     ELSE IF stage[t] = "aborted" /\ credit[t] = "prepared" THEN -n ELSE 0
      /\ reqs' = reqs =>
            Weight(t)' = IF stage'[t] = "prepared" /\ credit'[t] = "none" THEN n
                         ELSE IF stage'[t] = "aborted" /\ credit'[t] = "prepared" THEN -n ELSE 0
    BY DEF Weight
<1> HIDE DEF x, y, n
<1>4. CASE ExecuteIntra(t)
    BY <1>4, MoneyIntra
<1>5. CASE ExecuteCoordPrepare(t)
    <2>1. /\ stage[t] = "sent" /\ stage' = [stage EXCEPT ![t] = "prepared"]
          /\ credit' = credit /\ reqs' = reqs /\ bal' = [bal EXCEPT ![x] = @ - n]
        BY <1>5 DEF ExecuteCoordPrepare, Startable, driverVars, x, n
    <2>2. bal'[x] = bal[x] + (-n) /\ \A j \in Item : j # x => bal'[j] = bal[j]
        BY <1>1, <2>1
    <2>3. \A u \in TS : u # t => stage'[u] = stage[u] /\ credit'[u] = credit[u]
        BY <1>1, <2>1
    <2>4. Weight(t)' = Weight(t) - (-n)
        <3>1. stage'[t] = "prepared" /\ credit'[t] = "none"
            BY <1>1, <1>2, <2>1
        <3>2. QED
            BY <1>1, <1>3, <2>1, <3>1
    <2>5. QED
        BY <1>1, <2>1, <2>2, <2>3, <2>4, MoneyShifted
<1>6. CASE ExecutePartPrepare(t)
    <2>1. /\ stage[t] \in {"prepared", "aborted"} /\ stage' = stage /\ reqs' = reqs
          /\ credit[t] = "none" /\ credit' = [credit EXCEPT ![t] = "prepared"]
          /\ bal' = [bal EXCEPT ![y] = @ + n]
        BY <1>6 DEF ExecutePartPrepare, driverVars, y, n
    <2>2. bal'[y] = bal[y] + n /\ \A j \in Item : j # y => bal'[j] = bal[j]
        BY <1>1, <2>1
    <2>3. \A u \in TS : u # t => stage'[u] = stage[u] /\ credit'[u] = credit[u]
        BY <1>1, <2>1
    <2>4. Weight(t)' = Weight(t) - n
        <3>1. stage'[t] = stage[t] /\ credit'[t] = "prepared"
            BY <1>1, <2>1
        <3>2. QED
            BY <1>1, <1>3, <2>1, <3>1
    <2>5. QED
        BY <1>1, <2>1, <2>2, <2>3, <2>4, MoneyShifted
<1>7. CASE ExecuteCoordCommit(t)
    <2>1. /\ stage[t] = "prepared" /\ stage' = [stage EXCEPT ![t] = "committed"]
          /\ credit[t] = "prepared" /\ credit' = credit /\ reqs' = reqs /\ bal' = bal
        BY <1>7 DEF ExecuteCoordCommit, driverVars
    <2>2. bal'[x] = bal[x] + 0 /\ \A j \in Item : j # x => bal'[j] = bal[j]
        BY <1>1, <2>1
    <2>3. \A u \in TS : u # t => stage'[u] = stage[u] /\ credit'[u] = credit[u]
        BY <1>1, <2>1
    <2>4. Weight(t)' = Weight(t) - 0
        <3>1. stage'[t] = "committed"
            BY <1>1, <2>1
        <3>2. QED
            BY <1>1, <1>3, <2>1, <3>1
    <2>5. QED
        BY <1>1, <2>1, <2>2, <2>3, <2>4, MoneyShifted
<1>8. CASE ExecuteCoordAbort(t)
    <2>1. /\ stage[t] = "prepared" /\ stage' = [stage EXCEPT ![t] = "aborted"]
          /\ credit' = credit /\ reqs' = reqs /\ bal' = [bal EXCEPT ![x] = @ + n]
        BY <1>8 DEF ExecuteCoordAbort, driverVars, x, n
    <2>2. bal'[x] = bal[x] + n /\ \A j \in Item : j # x => bal'[j] = bal[j]
        BY <1>1, <2>1
    <2>3. \A u \in TS : u # t => stage'[u] = stage[u] /\ credit'[u] = credit[u]
        BY <1>1, <2>1
    <2>4. Weight(t)' = Weight(t) - n
        <3>1. stage'[t] = "aborted" /\ credit'[t] = credit[t] /\ credit[t] \in {"none", "prepared"}
            BY <1>1, <1>2, <2>1
        <3>2. QED
            BY <1>1, <1>3, <2>1, <3>1
    <2>5. QED
        BY <1>1, <2>1, <2>2, <2>3, <2>4, MoneyShifted
<1>9. CASE ExecutePartSettle(t)
    <2>1. /\ credit[t] = "prepared" /\ credit' = [credit EXCEPT ![t] = "settled"]
          /\ stage' = stage /\ reqs' = reqs
          /\ \/ stage[t] = "committed" /\ bal' = bal
             \/ stage[t] = "aborted" /\ bal' = [bal EXCEPT ![y] = @ - n]
        BY <1>9 DEF ExecutePartSettle, driverVars, y, n
    <2>2. \A u \in TS : u # t => stage'[u] = stage[u] /\ credit'[u] = credit[u]
        BY <1>1, <2>1
    <2>3. stage'[t] = stage[t] /\ credit'[t] = "settled"
        BY <1>1, <2>1
    <2>4. CASE stage[t] = "committed"
        <3>1. bal'[y] = bal[y] + 0 /\ \A j \in Item : j # y => bal'[j] = bal[j]
            BY <1>1, <2>1, <2>4
        <3>2. Weight(t)' = Weight(t) - 0
            BY <1>1, <1>3, <2>1, <2>3, <2>4
        <3>3. QED
            BY <1>1, <2>1, <2>2, <3>1, <3>2, MoneyShifted
    <2>5. CASE stage[t] = "aborted"
        <3>1. bal'[y] = bal[y] + (-n) /\ \A j \in Item : j # y => bal'[j] = bal[j]
            BY <1>1, <2>1, <2>5
        <3>2. Weight(t)' = Weight(t) - (-n)
            BY <1>1, <1>3, <2>1, <2>3, <2>5
        <3>3. QED
            BY <1>1, <2>1, <2>2, <3>1, <3>2, MoneyShifted
    <2>6. QED
        BY <2>1, <2>4, <2>5
<1>10. QED
    BY <1>4, <1>5, <1>6, <1>7, <1>8, <1>9 DEF Ledger

-----------------------------------------------------------------------------
(***************************************************************************)
(* The driver.  A round of polls in which no money moves and no WAL entry  *)
(* is seen leaves nothing prepared in the clusters polled so far (Clear),  *)
(* because an entry that appears moves money; after a whole round nothing  *)
(* is on its way, and what is read is a sum of the balances as they are.   *)
(***************************************************************************)
DriverType ==
    /\ phase \in Phase
    /\ meta \in Seq(OpMeta)
    /\ records \subseteq [op : DOMAIN meta, committed : BOOLEAN]
    /\ tries \in 0 .. Txns
    /\ probe \in Nat /\ walSeen \in Nat /\ total \in Nat
    /\ walClear \in BOOLEAN /\ moved \in BOOLEAN

\* The second request of an Amalgamate waits for the first to commit.
SecondLegWaits == phase = "wait" => Len(reqs) >= 2 /\ stage[Len(reqs)] = "unsent"

FirstLegIsFinal ==
    \A k \in DOMAIN meta : meta[k].first < meta[k].last =>
        meta[k].first \in TS /\ stage[meta[k].first] = "committed"

Clear(p) ==
    \A t \in TS : /\ stage[t] = "prepared" => Coord(t) >= p
                  /\ credit[t] = "prepared" => Part(t) >= p

NothingPrepared == \A t \in TS : stage[t] # "prepared" /\ credit[t] # "prepared"

\* The tracked items that SumBalances has read when it is at item p.
ReadBefore(p) == {i \in AllTrackedItems : i < p}

TotalIsRead == \E b : b = bal /\ total = SumOver(b, ReadBefore(probe))

PollInv ==
    /\ phase \in {"fund", "submit", "wait", "settle", "drain"} =>
          probe = 1 /\ walSeen = 0 /\ total = 0
    /\ phase = "quiesce" => probe \in Cluster /\ total = 0
    /\ phase = "quiesce" /\ ~moved /\ walSeen = 0 => Clear(probe)
    /\ phase = "sum" => probe \in Nat \ {0} /\ probe - 1 <= NumClusters * ItemsPerCluster
    /\ phase = "sum" /\ ~moved => NothingPrepared /\ TotalIsRead
    /\ phase = "violated" => moved

DriverInv == DriverType /\ SecondLegWaits /\ FirstLegIsFinal /\ PollInv

SmallBankInv == LedgerInv /\ MoneyInv /\ DriverInv

-----------------------------------------------------------------------------
(***************************************************************************)
(* Steps of the clusters.                                                  *)
(***************************************************************************)
LEMMA LedgerEffect ==
    ASSUME LedgerInv, NEW t \in TS, Ledger(t)
    PROVE  /\ UNCHANGED driverVars
           /\ \A u \in TS : stage[u] \in {"unsent", "committed"} => stage'[u] = stage[u]
           /\ moved' = TRUE \/ moved' = moved
           /\ moved' = TRUE \/ /\ bal' = bal
                               /\ \A u \in TS : /\ stage'[u] = "prepared" => stage[u] = "prepared"
                                                /\ credit'[u] = "prepared" => credit[u] = "prepared"
<1>1. stage \in [TS -> Stages] /\ credit \in [TS -> Credits]
    BY DEF LedgerInv, LedgerType
<1>2. CASE ExecuteIntra(t)
    BY <1>1, <1>2 DEF ExecuteIntra, Startable, Moves
<1>3. CASE ExecuteCoordPrepare(t)
    BY <1>1, <1>3 DEF ExecuteCoordPrepare, Startable, Moves
<1>4. CASE ExecutePartPrepare(t)
    BY <1>1, <1>4 DEF ExecutePartPrepare, Moves
<1>5. CASE ExecuteCoordCommit(t)
    BY <1>1, <1>5 DEF ExecuteCoordCommit
<1>6. CASE ExecuteCoordAbort(t)
    BY <1>1, <1>6 DEF ExecuteCoordAbort, Moves
<1>7. CASE ExecutePartSettle(t)
    BY <1>1, <1>7 DEF ExecutePartSettle, Moves
<1>8. QED
    BY <1>2, <1>3, <1>4, <1>5, <1>6, <1>7 DEF Ledger

LEMMA LedgerDriver ==
    ASSUME LedgerInv, DriverInv, NEW t \in TS, Ledger(t)
    PROVE  DriverInv'
<1>1. /\ reqs' = reqs /\ phase' = phase /\ meta' = meta /\ records' = records /\ tries' = tries
      /\ probe' = probe /\ walSeen' = walSeen /\ walClear' = walClear /\ total' = total
      /\ TS' = TS
    BY LedgerEffect DEF driverVars, checkVars, TS
<1>2. \A u \in TS : stage[u] \in {"unsent", "committed"} => stage'[u] = stage[u]
    BY LedgerEffect
<1>3. moved' \in BOOLEAN /\ (moved => moved')
    BY LedgerEffect DEF DriverInv, DriverType
<1>4. ~moved' => /\ bal' = bal
                 /\ \A u \in TS : /\ stage'[u] = "prepared" => stage[u] = "prepared"
                                  /\ credit'[u] = "prepared" => credit[u] = "prepared"
    BY LedgerEffect
<1>5. DriverType'
    BY <1>1, <1>3 DEF DriverInv, DriverType
<1>6. SecondLegWaits'
    <2>1. Len(reqs) >= 2 => Len(reqs) \in TS
        BY LenProperties DEF LedgerInv, LedgerType, TS
    <2>2. QED
        BY <1>1, <1>2, <2>1 DEF DriverInv, SecondLegWaits
<1>7. FirstLegIsFinal'
    BY <1>1, <1>2 DEF DriverInv, FirstLegIsFinal
<1>8. \A p : ~moved' /\ Clear(p) => Clear(p)'
    BY <1>1, <1>4 DEF Clear, Coord, Part
<1>9. ~moved' /\ NothingPrepared => NothingPrepared'
    BY <1>1, <1>4 DEF NothingPrepared
<1>10. ~moved' /\ TotalIsRead => TotalIsRead'
    BY <1>1, <1>4 DEF TotalIsRead
<1>11. PollInv'
    BY <1>1, <1>3, <1>8, <1>9, <1>10 DEF DriverInv, PollInv
<1>12. QED
    BY <1>5, <1>6, <1>7, <1>11 DEF DriverInv

-----------------------------------------------------------------------------
(***************************************************************************)
(* New requests.                                                           *)
(***************************************************************************)
LEMMA FunctionIsSeq ==
    ASSUME NEW S, NEW n \in Nat, NEW f \in [1 .. n -> S]
    PROVE  f \in Seq(S) /\ Len(f) = n
OBVIOUS

LEMMA Concatenated ==
    ASSUME NEW S, NEW s \in Seq(S), NEW u \in Seq(S), NEW r, r = s \o u
    PROVE  /\ r \in Seq(S) /\ Len(r) = Len(s) + Len(u)
           /\ \A i \in 1 .. Len(s) : r[i] = s[i]
           /\ \A i \in 1 .. Len(s) + Len(u) : ~(i <= Len(s)) => r[i] = u[i - Len(s)]
<1>1. Len(s) \in Nat /\ Len(u) \in Nat
    BY LenProperties
<1>2. /\ r \in Seq(S) /\ Len(r) = Len(s) + Len(u)
      /\ \A i \in 1 .. Len(s) + Len(u) : r[i] = IF i <= Len(s) THEN s[i] ELSE u[i - Len(s)]
    BY ConcatProperties
<1>3. QED
    BY <1>1, <1>2

LEMMA Generated ==
    ASSUME LedgerInv, NEW new \in Seq(Payment), NEW sent \in Nat, Generate(new, sent), bal' = bal
    PROVE  /\ Len(reqs') = Len(reqs) + Len(new)
           /\ TS \subseteq TS'
           /\ \A t \in TS : reqs'[t] = reqs[t] /\ stage'[t] = stage[t] /\ credit'[t] = credit[t]
           /\ \A t \in TS' \ TS : credit'[t] = "none" /\ stage'[t] \in {"unsent", "sent"}
           /\ Len(new) > 0 /\ sent < Len(new) => stage'[Len(reqs')] = "unsent"
           /\ LedgerType'
<1> DEFINE n == Len(reqs)
           k == Len(new)
           added == [i \in DOMAIN new |-> IF i <= sent THEN "sent" ELSE "unsent"]
           none == [i \in DOMAIN new |-> "none"]
<1>1. /\ n \in Nat /\ k \in Nat /\ TS = 1 .. n /\ DOMAIN new = 1 .. k
      /\ reqs \in Seq(Payment)
    BY LenProperties DEF LedgerInv, LedgerType, TS
<1>2. stage \in Seq(Stages) /\ Len(stage) = n /\ credit \in Seq(Credits) /\ Len(credit) = n
    <2>1. stage \in [1 .. n -> Stages] /\ credit \in [1 .. n -> Credits]
        BY <1>1 DEF LedgerInv, LedgerType
    <2>2. QED
        BY <1>1, <2>1, FunctionIsSeq
<1>3. added \in Seq(Stages) /\ Len(added) = k /\ none \in Seq(Credits) /\ Len(none) = k
    <2>1. added \in [1 .. k -> Stages] /\ none \in [1 .. k -> Credits]
        BY <1>1 DEF Stages, Credits
    <2>2. QED
        BY <1>1, <2>1, FunctionIsSeq
<1>4. reqs' = reqs \o new /\ stage' = stage \o added /\ credit' = credit \o none
    BY DEF Generate
<1>5. \A i \in 1 .. k : added[i] = (IF i <= sent THEN "sent" ELSE "unsent") /\ none[i] = "none"
    BY <1>1
<1>6. Len(reqs) = n /\ Len(new) = k
    OBVIOUS
<1> HIDE DEF n, k, added, none
<1>7. /\ reqs' \in Seq(Payment) /\ Len(reqs') = n + k
      /\ \A i \in 1 .. n : reqs'[i] = reqs[i]
    <2>1. reqs' \in Seq(Payment) /\ Len(reqs') = Len(reqs) + Len(new)
          /\ \A i \in 1 .. Len(reqs) : reqs'[i] = reqs[i]
        BY <1>1, <1>4, Concatenated
    <2>2. QED
        BY <1>6, <2>1
<1>8. /\ stage' \in Seq(Stages) /\ Len(stage') = n + k
      /\ \A i \in 1 .. n : stage'[i] = stage[i]
      /\ \A i \in 1 .. n + k : ~(i <= n) => stage'[i] = added[i - n]
    <2>1. stage \in Seq(Stages) /\ added \in Seq(Stages) /\ stage' = stage \o added
        BY <1>2, <1>3, <1>4
    <2>2. /\ stage' \in Seq(Stages) /\ Len(stage') = Len(stage) + Len(added)
          /\ \A i \in 1 .. Len(stage) : stage'[i] = stage[i]
          /\ \A i \in 1 .. Len(stage) + Len(added) : ~(i <= Len(stage)) => stage'[i] = added[i - Len(stage)]
        BY <2>1, Concatenated
    <2>3. QED
        BY <1>2, <1>3, <2>2
<1>9. /\ credit' \in Seq(Credits) /\ Len(credit') = n + k
      /\ \A i \in 1 .. n : credit'[i] = credit[i]
      /\ \A i \in 1 .. n + k : ~(i <= n) => credit'[i] = none[i - n]
    <2>1. credit \in Seq(Credits) /\ none \in Seq(Credits) /\ credit' = credit \o none
        BY <1>2, <1>3, <1>4
    <2>2. /\ credit' \in Seq(Credits) /\ Len(credit') = Len(credit) + Len(none)
          /\ \A i \in 1 .. Len(credit) : credit'[i] = credit[i]
          /\ \A i \in 1 .. Len(credit) + Len(none) : ~(i <= Len(credit)) => credit'[i] = none[i - Len(credit)]
        BY <2>1, Concatenated
    <2>3. QED
        BY <1>2, <1>3, <2>2
<1>10. TS' = 1 .. n + k
    BY <1>7, LenProperties DEF TS
<1>11. LedgerType'
    <2>1. stage' \in [TS' -> Stages] /\ credit' \in [TS' -> Credits]
        BY <1>8, <1>9, <1>10, LenProperties
    <2>2. QED
        BY <1>7, <2>1 DEF LedgerInv, LedgerType
<1>12. \A t \in TS : reqs'[t] = reqs[t] /\ stage'[t] = stage[t] /\ credit'[t] = credit[t]
    BY <1>1, <1>7, <1>8, <1>9
<1>13. ASSUME NEW t \in TS' \ TS
       PROVE  credit'[t] = "none" /\ stage'[t] \in {"unsent", "sent"}
    <2>1. t \in 1 .. n + k /\ ~(t <= n) /\ t - n \in 1 .. k
        BY <1>1, <1>10
    <2>2. stage'[t] = added[t - n] /\ credit'[t] = none[t - n]
        BY <1>8, <1>9, <2>1
    <2>3. QED
        BY <1>5, <2>1, <2>2
<1>14. ASSUME k > 0, sent < k
       PROVE  stage'[n + k] = "unsent"
    <2>1. n + k \in 1 .. n + k /\ ~(n + k <= n) /\ (n + k) - n = k /\ k \in 1 .. k
        BY <1>1, <1>14
    <2>2. stage'[n + k] = added[k]
        BY <1>8, <2>1
    <2>3. ~(k <= sent)
        BY <1>1, <1>14
    <2>4. QED
        BY <1>5, <2>1, <2>2, <2>3
<1>15. TS \subseteq TS' /\ Len(reqs') = Len(reqs) + Len(new)
    BY <1>1, <1>6, <1>7, <1>10
<1>16. Len(new) > 0 /\ sent < Len(new) => stage'[Len(reqs')] = "unsent"
    BY <1>6, <1>7, <1>14
<1>17. QED
    BY <1>11, <1>12, <1>13, <1>15, <1>16

LEMMA GeneratedLedger ==
    ASSUME LedgerInv, MoneyInv, NEW new \in Seq(Payment), NEW sent \in Nat,
           Generate(new, sent), bal' = bal
    PROVE  LedgerInv' /\ MoneyInv'
<1>1. /\ TS \subseteq TS' /\ LedgerType'
      /\ \A t \in TS : reqs'[t] = reqs[t] /\ stage'[t] = stage[t] /\ credit'[t] = credit[t]
      /\ \A t \in TS' \ TS : credit'[t] = "none" /\ stage'[t] \in {"unsent", "sent"}
    BY Generated
<1>2. Matched'
    <2>1. ASSUME NEW t \in TS'
          PROVE  /\ stage'[t] \in {"unsent", "sent"} => credit'[t] = "none"
                 /\ credit'[t] = "settled" => stage'[t] \in {"committed", "aborted"}
        <3>1. CASE t \in TS
            BY <1>1, <3>1 DEF LedgerInv, Matched
        <3>2. CASE t \notin TS
            BY <1>1, <3>2
        <3>3. QED
            BY <3>1, <3>2
    <2>2. QED
        BY <2>1 DEF Matched
<1>3. \A t \in TS' : credit'[t] = "prepared" => t \in TS
    BY <1>1
<1>4. Covered'
    BY <1>1, <1>3 DEF LedgerInv, Covered
<1>5. OneCredit'
    BY <1>1, <1>3 DEF LedgerInv, OneCredit
<1>6. LedgerInv'
    BY <1>1, <1>2, <1>4, <1>5 DEF LedgerInv
<1>7. MoneyInv'
    <2>1. PICK b : b = bal
        OBVIOUS
    <2>2. PICK w : w = [t \in TS |-> Weight(t)]
        OBVIOUS
    <2>3. /\ SumOver(b, AllTrackedItems) + SumOver(w, TS) = InitialSum
          /\ \A t \in TS : w[t] = Weight(t) /\ w[t] \in Int
        BY <2>1, <2>2, MoneyIs DEF LedgerInv
    <2>4. PICK v : v = [t \in TS' |-> IF t \in TS THEN w[t] ELSE 0]
        OBVIOUS
    <2>5. /\ \A t \in TS : v[t] = w[t]
          /\ \A t \in TS' \ TS : v[t] = 0
          /\ \A t \in TS' : v[t] \in Int
        BY <1>1, <2>3, <2>4
    <2>6. \A t \in TS' : v[t] = Weight(t)'
        <3>1. \A t \in TS : Weight(t)' = Weight(t)
            BY <1>1 DEF Weight
        <3>2. \A t \in TS' \ TS : Weight(t)' = 0
            BY <1>1 DEF Weight
        <3>3. QED
            BY <2>3, <2>5, <3>1, <3>2
    <2>7. SumOver(v, TS') = SumOver(w, TS)
        <3>1. IsFiniteSet(TS')
            BY <1>1, FiniteDomain DEF LedgerType, TS
        <3>2. SumOver(v, TS') = SumOver(v, TS)
            BY <1>1, <2>5, <3>1, SumExtended
        <3>3. SumOver(v, TS) = SumOver(w, TS)
            BY <2>5, FiniteTS, SumSame DEF LedgerInv
        <3>4. QED
            BY <3>2, <3>3
    <2>8. DOMAIN v = TS' /\ v = [t \in DOMAIN v |-> v[t]] /\ b = bal'
        BY <2>1, <2>4
    <2>9. QED
        BY <2>3, <2>6, <2>7, <2>8, MoneyFor
<1>8. QED
    BY <1>6, <1>7

-----------------------------------------------------------------------------
(***************************************************************************)
(* Steps of the driver.                                                    *)
(***************************************************************************)
LEMMA LedgerSame ==
    ASSUME LedgerInv, MoneyInv, UNCHANGED <<bal, reqs, stage, credit>>
    PROVE  LedgerInv' /\ MoneyInv'
<1>1. LedgerInv'
    BY DEF LedgerInv, LedgerType, Matched, Covered, OneCredit, TS
<1>2. QED
    BY <1>1, MoneySame

LEMMA FundTreasuryStep ==
    ASSUME SmallBankInv, FundTreasury
    PROVE  SmallBankInv'
<1> USE DEF SmallBankInv
<1>1. /\ phase = "fund" /\ bal' = bal /\ meta' = meta /\ records' = records /\ tries' = tries
      /\ probe' = probe /\ walSeen' = walSeen /\ walClear' = walClear /\ total' = total
      /\ moved' = moved
    BY DEF FundTreasury, checkVars
<1>2. CASE Len(reqs) < Len(FundRequests)
    <2>1. Generate(<<FundRequests[Len(reqs) + 1]>>, 1) /\ phase' = phase
        BY <1>2 DEF FundTreasury
    <2>2. FundRequests[Len(reqs) + 1] \in Payment
        <3>1. Len(reqs) \in Nat
            BY LenProperties DEF LedgerInv, LedgerType
        <3>2. NumClusters * FundCustomers \in Nat
            BY LayoutAssumption
        <3>3. Len(reqs) + 1 \in 1 .. NumClusters * FundCustomers
            BY <1>2, <3>1, <3>2, FundingTypes
        <3>4. Len(reqs) + 1 \in DOMAIN FundRequests
            BY <3>3, FundingTypes
        <3>5. QED
            BY <3>4, FundingTypes, Zenon
    <2>3. PICK new : new = <<FundRequests[Len(reqs) + 1]>>
        OBVIOUS
    <2>4. new \in Seq(Payment) /\ Generate(new, 1)
        BY <2>1, <2>2, <2>3, OneRequest DEF Operation
    <2>5. LedgerInv' /\ MoneyInv'
        BY <1>1, <2>4, GeneratedLedger
    <2>6. TS \subseteq TS' /\ \A t \in TS : stage'[t] = stage[t]
        BY <1>1, <2>4, Generated
    <2>7. DriverType' /\ SecondLegWaits' /\ FirstLegIsFinal' /\ PollInv'
        BY <1>1, <2>1, <2>6
        DEF DriverInv, DriverType, SecondLegWaits, FirstLegIsFinal, PollInv, Phase
    <2>8. QED
        BY <2>5, <2>7 DEF DriverInv
<1>3. CASE ~(Len(reqs) < Len(FundRequests))
    <2>1. phase' = "submit" /\ UNCHANGED <<bal, reqs, stage, credit>>
        BY <1>1, <1>3 DEF FundTreasury
    <2>2. LedgerInv' /\ MoneyInv'
        BY <2>1, LedgerSame
    <2>3. DriverType' /\ SecondLegWaits' /\ FirstLegIsFinal' /\ PollInv'
        BY <1>1, <2>1
        DEF DriverInv, DriverType, SecondLegWaits, FirstLegIsFinal, PollInv, Phase, TS
    <2>4. QED
        BY <2>2, <2>3 DEF DriverInv
<1>4. QED
    BY <1>2, <1>3

\* An operation is noted with its requests.
LEMMA Noted ==
    ASSUME meta \in Seq(OpMeta), NEW kind \in ToSet(UniformKinds), NEW first \in Nat, NEW last \in Nat,
           Sent(kind, first, last), records \subseteq [op : DOMAIN meta, committed : BOOLEAN]
    PROVE  /\ meta' \in Seq(OpMeta)
           /\ DOMAIN meta' = DOMAIN meta \cup {Len(meta) + 1}
           /\ records \subseteq [op : DOMAIN meta', committed : BOOLEAN]
           /\ \A k \in DOMAIN meta : meta'[k] = meta[k]
           /\ meta'[Len(meta) + 1].first = first /\ meta'[Len(meta) + 1].last = last
<1> DEFINE op == [first |-> first, last |-> last, kind |-> kind, done |-> FALSE]
<1>1. op \in OpMeta /\ op.first = first /\ op.last = last
    BY DEF OpMeta
<1>2. meta' = Append(meta, op)
    BY DEF Sent
<1> HIDE DEF op
<1>3. /\ meta' \in Seq(OpMeta) /\ Len(meta') = Len(meta) + 1
      /\ \A i \in 1 .. Len(meta) : meta'[i] = meta[i]
      /\ meta'[Len(meta) + 1] = op
    BY <1>1, <1>2, AppendProperties
<1>4. Len(meta) \in Nat /\ DOMAIN meta = 1 .. Len(meta) /\ DOMAIN meta' = 1 .. Len(meta) + 1
    BY <1>3, LenProperties
<1>5. DOMAIN meta' = DOMAIN meta \cup {Len(meta) + 1}
    BY <1>4
<1>6. QED
    BY <1>1, <1>3, <1>4, <1>5

LEMMA SubmitOpStep ==
    ASSUME SmallBankInv, SubmitOp
    PROVE  SmallBankInv'
<1> DEFINE kind == UniformKinds[(tries % Len(UniformKinds)) + 1]
           next == Len(reqs) + 1
<1> USE DEF SmallBankInv
<1>1. /\ phase = "submit" /\ bal' = bal /\ records' = records
      /\ tries < Txns /\ tries' = tries + 1
      /\ probe' = probe /\ walSeen' = walSeen /\ walClear' = walClear /\ total' = total
      /\ moved' = moved
    BY DEF SubmitOp, checkVars
<1>2. PICK op \in RandomOp(kind) :
          /\ Generate(op, 1)
          /\ IF Len(op) = 1 THEN Sent(kind, next, next) ELSE UNCHANGED meta
          /\ phase' = IF Len(op) > 1 THEN "wait" ELSE phase
    BY DEF SubmitOp
<1>3. kind \in ToSet(UniformKinds)
    <2>1. tries \in Nat
        BY DEF DriverInv, DriverType
    <2>2. QED
        BY <2>1, NextKind
<1>4. op \in Seq(Payment) /\ Len(op) \in Nat
    <2>1. op \in Seq(Payment)
        BY <1>3, RandomOps DEF Operation
    <2>2. QED
        BY <2>1, LenProperties
<1>5. next \in Nat /\ Len(reqs) \in Nat
    BY LenProperties DEF LedgerInv, LedgerType
<1> HIDE DEF kind, next
<1>6. LedgerInv' /\ MoneyInv'
    BY <1>1, <1>2, <1>4, GeneratedLedger
<1>7. /\ TS \subseteq TS' /\ \A t \in TS : stage'[t] = stage[t]
      /\ Len(reqs') = Len(reqs) + Len(op)
      /\ Len(op) > 1 => stage'[Len(reqs')] = "unsent"
    BY <1>1, <1>2, <1>4, Generated
<1>8. /\ meta' \in Seq(OpMeta) /\ records \subseteq [op : DOMAIN meta', committed : BOOLEAN]
      /\ \A k \in DOMAIN meta' : \/ k \in DOMAIN meta /\ meta'[k] = meta[k]
                                 \/ meta'[k].first = next /\ meta'[k].last = next
    <2>1. /\ meta \in Seq(OpMeta) /\ records \subseteq [op : DOMAIN meta, committed : BOOLEAN]
        BY DEF DriverInv, DriverType
    <2>2. CASE Len(op) = 1
        <3>1. Sent(kind, next, next)
            BY <1>2, <2>2
        <3>2. QED
            BY <1>3, <1>5, <2>1, <3>1, Noted
    <2>3. CASE Len(op) # 1
        <3>1. meta' = meta
            BY <1>2, <2>3
        <3>2. QED
            BY <2>1, <3>1
    <2>4. QED
        BY <2>2, <2>3
<1>9. FirstLegIsFinal'
    BY <1>5, <1>7, <1>8 DEF DriverInv, FirstLegIsFinal
<1>10. DriverType'
    <2>1. phase' \in Phase /\ tries' \in 0 .. Txns
        BY <1>1, <1>2, AmountAssumption DEF Phase, DriverInv, DriverType
    <2>2. QED
        BY <1>1, <1>8, <2>1 DEF DriverInv, DriverType
<1>11. SecondLegWaits'
    BY <1>1, <1>2, <1>4, <1>5, <1>7 DEF SecondLegWaits
<1>12. PollInv'
    BY <1>1, <1>2 DEF DriverInv, PollInv
<1>13. QED
    BY <1>6, <1>9, <1>10, <1>11, <1>12 DEF DriverInv

LEMMA SendSecondLegStep ==
    ASSUME SmallBankInv, SendSecondLeg
    PROVE  SmallBankInv'
<1> DEFINE last == Len(reqs)
<1> USE DEF SmallBankInv
<1>1. /\ phase = "wait" /\ phase' = "submit" /\ bal' = bal /\ credit' = credit /\ reqs' = reqs
      /\ records' = records /\ tries' = tries
      /\ probe' = probe /\ walSeen' = walSeen /\ walClear' = walClear /\ total' = total
      /\ moved' = moved
      /\ stage[last - 1] = "committed" /\ stage' = [stage EXCEPT ![last] = "sent"]
      /\ Sent("Amg", last - 1, last)
    BY DEF SendSecondLeg, checkVars, FirstLegCommitted
<1>2. last \in TS /\ last - 1 \in TS /\ last \in Nat /\ last - 1 \in Nat /\ stage[last] = "unsent"
    <2>1. last >= 2 /\ stage[last] = "unsent"
        BY <1>1 DEF DriverInv, SecondLegWaits
    <2>2. last \in Nat /\ TS = 1 .. last
        BY LenProperties DEF LedgerInv, LedgerType, TS
    <2>3. QED
        BY <2>1, <2>2
<1>3. TS' = TS /\ stage \in [TS -> Stages] /\ credit \in [TS -> Credits]
    BY <1>1 DEF TS, LedgerInv, LedgerType
<1> HIDE DEF last
<1>4. /\ stage' \in [TS -> Stages] /\ stage'[last] = "sent" /\ stage'[last - 1] = "committed"
      /\ \A t \in TS : t # last => stage'[t] = stage[t]
    <2>1. last - 1 # last
        BY <1>2
    <2>2. QED
        BY <1>1, <1>2, <1>3, <2>1 DEF Stages
<1>5. LedgerType'
    BY <1>1, <1>3, <1>4 DEF LedgerInv, LedgerType
<1>6. credit[last] = "none"
    BY <1>2 DEF LedgerInv, Matched
<1>7. Matched'
    BY <1>1, <1>3, <1>4, <1>6 DEF LedgerInv, Matched
<1>8. Covered' /\ OneCredit'
    BY <1>1, <1>3 DEF LedgerInv, Covered, OneCredit
<1>9. LedgerInv'
    BY <1>5, <1>7, <1>8 DEF LedgerInv
<1>10. MoneyInv'
    <2>1. PICK b, w : /\ b = bal /\ w = [t \in TS |-> Weight(t)]
                      /\ SumOver(b, AllTrackedItems) + SumOver(w, DOMAIN w) = InitialSum
        BY DEF MoneyInv
    <2>2. \A t \in TS : Weight(t)' = Weight(t)
        <3>1. \A t \in TS : t = last => Weight(t)' = Weight(t)
            BY <1>1, <1>2, <1>4, <1>6 DEF Weight
        <3>2. \A t \in TS : t # last => Weight(t)' = Weight(t)
            BY <1>1, <1>4 DEF Weight
        <3>3. QED
            BY <3>1, <3>2
    <2>3. b = bal' /\ w = [t \in TS' |-> Weight(t)']
        BY <1>1, <1>3, <2>1, <2>2
    <2>4. QED
        BY <2>1, <2>3 DEF MoneyInv
<1>11. /\ meta' \in Seq(OpMeta) /\ records \subseteq [op : DOMAIN meta', committed : BOOLEAN]
       /\ \A k \in DOMAIN meta' : \/ k \in DOMAIN meta /\ meta'[k] = meta[k]
                                  \/ meta'[k].first = last - 1 /\ meta'[k].last = last
    <2>1. meta \in Seq(OpMeta) /\ records \subseteq [op : DOMAIN meta, committed : BOOLEAN]
        BY DEF DriverInv, DriverType
    <2>2. "Amg" \in ToSet(UniformKinds)
        <3>1. UniformKinds[4] = "Amg" /\ 4 \in DOMAIN UniformKinds
            BY DEF UniformKinds
        <3>2. QED
            BY <3>1 DEF ToSet
    <2>3. QED
        BY <1>1, <1>2, <2>1, <2>2, Noted
<1>12. FirstLegIsFinal'
    <2>1. ASSUME NEW k \in DOMAIN meta', meta'[k].first < meta'[k].last
          PROVE  meta'[k].first \in TS /\ stage'[meta'[k].first] = "committed"
        <3>1. CASE k \in DOMAIN meta /\ meta'[k] = meta[k]
            <4>1. meta[k].first \in TS /\ stage[meta[k].first] = "committed"
                BY <2>1, <3>1 DEF DriverInv, FirstLegIsFinal
            <4>2. meta[k].first # last
                BY <1>2, <4>1
            <4>3. QED
                BY <1>4, <3>1, <4>1, <4>2
        <3>2. CASE meta'[k].first = last - 1 /\ meta'[k].last = last
            BY <1>2, <1>4, <3>2
        <3>3. QED
            BY <1>11, <3>1, <3>2
    <2>2. QED
        BY <1>3, <2>1 DEF FirstLegIsFinal
<1>13. DriverType'
    BY <1>1, <1>11 DEF DriverInv, DriverType, Phase
<1>14. SecondLegWaits' /\ PollInv'
    BY <1>1 DEF DriverInv, SecondLegWaits, PollInv
<1>15. QED
    BY <1>9, <1>10, <1>12, <1>13, <1>14 DEF DriverInv

LEMMA GiveUpSecondLegStep ==
    ASSUME SmallBankInv, GiveUpSecondLeg
    PROVE  SmallBankInv'
<1> DEFINE n == Len(reqs) - 1
<1> USE DEF SmallBankInv
<1>1. /\ phase = "wait" /\ phase' = "submit"
      /\ bal' = bal /\ reqs' = reqs /\ stage' = stage /\ credit' = credit
      /\ records' = records /\ tries' = tries
      /\ probe' = probe /\ walSeen' = walSeen /\ walClear' = walClear /\ total' = total
      /\ moved' = moved /\ Sent("Amg", n, n)
    BY DEF GiveUpSecondLeg, checkVars, ledgerVars
<1>2. LedgerInv' /\ MoneyInv'
    BY <1>1, LedgerSame
<1>3. n \in Nat
    <2>1. Len(reqs) >= 2 /\ Len(reqs) \in Nat
        BY <1>1, LenProperties DEF DriverInv, SecondLegWaits, LedgerInv, LedgerType
    <2>2. QED
        BY <2>1
<1> HIDE DEF n
<1>4. /\ meta' \in Seq(OpMeta) /\ records \subseteq [op : DOMAIN meta', committed : BOOLEAN]
      /\ \A k \in DOMAIN meta' : \/ k \in DOMAIN meta /\ meta'[k] = meta[k]
                                 \/ meta'[k].first = n /\ meta'[k].last = n
    <2>1. meta \in Seq(OpMeta) /\ records \subseteq [op : DOMAIN meta, committed : BOOLEAN]
        BY DEF DriverInv, DriverType
    <2>2. "Amg" \in ToSet(UniformKinds)
        <3>1. UniformKinds[4] = "Amg" /\ 4 \in DOMAIN UniformKinds
            BY DEF UniformKinds
        <3>2. QED
            BY <3>1 DEF ToSet
    <2>3. QED
        BY <1>1, <1>3, <2>1, <2>2, Noted
<1>5. FirstLegIsFinal'
    BY <1>1, <1>3, <1>4 DEF DriverInv, FirstLegIsFinal, TS
<1>6. DriverType'
    BY <1>1, <1>4 DEF DriverInv, DriverType, Phase
<1>7. SecondLegWaits' /\ PollInv'
    BY <1>1 DEF DriverInv, SecondLegWaits, PollInv
<1>8. QED
    BY <1>2, <1>5, <1>6, <1>7 DEF DriverInv

LEMMA TryResolveStep ==
    ASSUME SmallBankInv, NEW k \in DOMAIN meta, TryResolve(k)
    PROVE  SmallBankInv'
<1> USE DEF SmallBankInv
<1>1. /\ phase' = phase /\ bal' = bal /\ reqs' = reqs /\ stage' = stage /\ credit' = credit
      /\ tries' = tries /\ moved' = moved
      /\ probe' = probe /\ walSeen' = walSeen /\ walClear' = walClear /\ total' = total
      /\ meta' = [meta EXCEPT ![k].done = TRUE]
      /\ records' = records \cup {Record(k, stage[meta[k].last] = "committed")}
    BY DEF TryResolve, ledgerVars, checkVars
<1>2. LedgerInv' /\ MoneyInv'
    BY <1>1, LedgerSame
<1>3. meta \in Seq(OpMeta) /\ k \in 1 .. Len(meta) /\ DOMAIN meta = 1 .. Len(meta)
    BY LenProperties DEF DriverInv, DriverType
<1>4. PICK o : o = [meta[k] EXCEPT !.done = TRUE]
    OBVIOUS
<1>5. /\ o \in OpMeta /\ o.first = meta[k].first /\ o.last = meta[k].last
      /\ meta' = [meta EXCEPT ![k] = o]
    <2>1. meta[k] \in OpMeta
        BY <1>3, ElementOfSeq
    <2>2. QED
        BY <1>1, <1>4, <2>1 DEF OpMeta
<1>6. /\ meta' \in Seq(OpMeta) /\ DOMAIN meta' = DOMAIN meta
      /\ \A j \in DOMAIN meta : meta'[j].first = meta[j].first /\ meta'[j].last = meta[j].last
    <2>1. /\ meta' \in Seq(OpMeta) /\ Len(meta') = Len(meta)
          /\ \A j \in 1 .. Len(meta) : meta'[j] = IF j = k THEN o ELSE meta[j]
        BY <1>3, <1>5, ExceptSeq
    <2>2. QED
        BY <1>3, <1>5, <2>1, LenProperties
<1>7. records' \subseteq [op : DOMAIN meta', committed : BOOLEAN]
    <2>1. Record(k, stage[meta[k].last] = "committed") \in [op : DOMAIN meta, committed : BOOLEAN]
        BY DEF Record
    <2>2. QED
        BY <1>1, <1>6, <2>1 DEF DriverInv, DriverType
<1>8. FirstLegIsFinal'
    BY <1>1, <1>6 DEF DriverInv, FirstLegIsFinal, TS
<1>9. DriverType'
    BY <1>1, <1>6, <1>7 DEF DriverInv, DriverType
<1>10. SecondLegWaits'
    BY <1>1 DEF DriverInv, SecondLegWaits
<1>11. PollInv'
    BY <1>1 DEF DriverInv, PollInv, Clear, NothingPrepared, TotalIsRead, TS, Coord, Part
<1>12. QED
    BY <1>2, <1>8, <1>9, <1>10, <1>11 DEF DriverInv

LEMMA PhaseEnds ==
    ASSUME SmallBankInv, SubmitEnds \/ SettleEnds \/ DrainEnds \/ QuiescenceTimesOut
    PROVE  SmallBankInv'
<1> USE DEF SmallBankInv
<1>1. /\ bal' = bal /\ reqs' = reqs /\ stage' = stage /\ credit' = credit
      /\ meta' = meta /\ tries' = tries
      /\ probe' = probe /\ walSeen' = walSeen /\ walClear' = walClear /\ total' = total
      /\ \/ phase \in {"submit", "settle"} /\ phase' \in {"settle", "drain"} /\ moved' = moved
         \/ phase = "drain" /\ phase' = "quiesce" /\ moved' = FALSE
         \/ phase = "quiesce" /\ phase' = "stranded" /\ moved' = moved
    BY DEF SubmitEnds, SettleEnds, DrainEnds, QuiescenceTimesOut, ledgerVars, checkVars
<1>2. LedgerInv' /\ MoneyInv'
    BY <1>1, LedgerSame
<1>3. records' \subseteq [op : DOMAIN meta, committed : BOOLEAN]
    <2>1. records \subseteq [op : DOMAIN meta, committed : BOOLEAN]
        BY DEF DriverInv, DriverType
    <2>2. CASE SettleEnds
        <3>1. \A j \in DOMAIN meta : Record(j, FALSE) \in [op : DOMAIN meta, committed : BOOLEAN]
            BY DEF Record
        <3>2. records' = records \cup {Record(k, FALSE) : k \in {j \in DOMAIN meta : ~meta[j].done}}
            BY <2>2 DEF SettleEnds
        <3>3. QED
            BY <2>1, <3>1, <3>2
    <2>3. CASE ~SettleEnds
        <3>1. records' = records
            BY <2>3 DEF SubmitEnds, DrainEnds, QuiescenceTimesOut
        <3>2. QED
            BY <2>1, <3>1
    <2>4. QED
        BY <2>2, <2>3
<1>4. FirstLegIsFinal'
    BY <1>1 DEF DriverInv, FirstLegIsFinal, TS
<1>5. DriverType'
    BY <1>1, <1>3 DEF DriverInv, DriverType, Phase
<1>6. SecondLegWaits'
    BY <1>1 DEF SecondLegWaits
<1>7. Clear(1)'
    <2>1. \A t \in TS : Coord(t) >= 1 /\ Part(t) >= 1
        BY RequestFields DEF LedgerInv, Cluster
    <2>2. QED
        BY <1>1, <2>1 DEF Clear, TS, Coord, Part
<1>8. 1 \in Cluster
    BY LayoutAssumption DEF Cluster
<1>9. PollInv'
    BY <1>1, <1>7, <1>8 DEF DriverInv, PollInv
<1>10. QED
    BY <1>2, <1>4, <1>5, <1>6, <1>9 DEF DriverInv

LEMMA OutstandingNone ==
    ASSUME LedgerType, NEW c
    PROVE  /\ OutstandingWAL(c) \in Nat
           /\ OutstandingWAL(c) = 0 =>
                 \A t \in TS : /\ ~(stage[t] = "prepared" /\ Coord(t) = c)
                               /\ ~(credit[t] = "prepared" /\ Part(t) = c)
<1> DEFINE A == {t \in TS : stage[t] = "prepared" /\ Coord(t) = c}
           B == {t \in TS : credit[t] = "prepared" /\ Part(t) = c}
<1>1. IsFiniteSet(A) /\ IsFiniteSet(B)
    BY FiniteTS, FS_Subset
<1>2. OutstandingWAL(c) = Cardinality(A) + Cardinality(B)
    BY DEF OutstandingWAL
<1>3. \A t \in TS : /\ t \notin A => ~(stage[t] = "prepared" /\ Coord(t) = c)
                    /\ t \notin B => ~(credit[t] = "prepared" /\ Part(t) = c)
    OBVIOUS
<1> HIDE DEF A, B
<1>4. /\ Cardinality(A) \in Nat /\ Cardinality(B) \in Nat
      /\ Cardinality(A) = 0 => A = {}
      /\ Cardinality(B) = 0 => B = {}
    BY <1>1, FS_CardinalityType, FS_EmptySet
<1>5. OutstandingWAL(c) \in Nat
    BY <1>2, <1>4
<1>6. OutstandingWAL(c) = 0 => A = {} /\ B = {}
    BY <1>2, <1>4
<1>7. QED
    BY <1>3, <1>5, <1>6

LEMMA PollWALStep ==
    ASSUME SmallBankInv, PollWAL
    PROVE  SmallBankInv'
<1> DEFINE seen == walSeen + OutstandingWAL(probe)
<1> USE DEF SmallBankInv
<1>1. /\ phase = "quiesce" /\ moved' = (moved /\ probe # 1)
      /\ bal' = bal /\ reqs' = reqs /\ stage' = stage /\ credit' = credit
      /\ meta' = meta /\ records' = records /\ tries' = tries /\ total' = total
      /\ \/ /\ probe < NumClusters /\ probe' = probe + 1 /\ walSeen' = seen
            /\ phase' = phase /\ walClear' = walClear
         \/ /\ ~(probe < NumClusters) /\ probe' = 1 /\ walSeen' = 0 /\ walClear' = (seen = 0)
            /\ phase' = IF walClear /\ seen = 0 THEN "sum" ELSE phase
    BY DEF PollWAL, Quiet, ledgerVars
<1>2. LedgerInv' /\ MoneyInv'
    BY <1>1, LedgerSame
<1>3. /\ probe \in Cluster /\ probe \in 1 .. NumClusters /\ NumClusters \in 1 .. 3 /\ walSeen \in Nat
      /\ total = 0
    BY <1>1, LayoutAssumption DEF DriverInv, PollInv, DriverType, Cluster
<1>4. /\ OutstandingWAL(probe) \in Nat
      /\ OutstandingWAL(probe) = 0 =>
            \A t \in TS : /\ ~(stage[t] = "prepared" /\ Coord(t) = probe)
                          /\ ~(credit[t] = "prepared" /\ Part(t) = probe)
    BY OutstandingNone DEF LedgerInv
<1>5. seen \in Nat /\ (seen = 0 => walSeen = 0 /\ OutstandingWAL(probe) = 0)
    BY <1>3, <1>4
<1> HIDE DEF seen
<1>6. FirstLegIsFinal'
    BY <1>1 DEF DriverInv, FirstLegIsFinal, TS
<1>7. DriverType'
    <2>1. walClear' \in BOOLEAN /\ moved' \in BOOLEAN
        BY <1>1, Zenon DEF DriverInv, DriverType
    <2>2. probe' \in Nat /\ walSeen' \in Nat /\ total' \in Nat /\ phase' \in Phase
        BY <1>1, <1>3, <1>5 DEF Phase
    <2>3. QED
        BY <1>1, <2>1, <2>2 DEF DriverInv, DriverType
<1>8. SecondLegWaits'
    BY <1>1 DEF SecondLegWaits
<1>9. \A t \in TS : /\ Coord(t) \in 1 .. NumClusters /\ Part(t) \in 1 .. NumClusters
    BY RequestFields DEF LedgerInv, Cluster
<1>10. ~moved' /\ seen = 0 => Clear(probe)
    <2>1. CASE probe = 1
        BY <1>9, <2>1 DEF Clear
    <2>2. CASE probe # 1
        BY <1>1, <1>5, <2>2 DEF DriverInv, PollInv
    <2>3. QED
        BY <2>1, <2>2
<1>11. ~moved' /\ seen = 0 => Clear(probe + 1)
    <2>1. SUFFICES ASSUME ~moved', seen = 0 PROVE Clear(probe + 1)
        OBVIOUS
    <2>2. Clear(probe)
        BY <1>10, <2>1
    <2>3. \A t \in TS : /\ stage[t] = "prepared" => Coord(t) >= probe /\ Coord(t) # probe
                        /\ credit[t] = "prepared" => Part(t) >= probe /\ Part(t) # probe
        BY <1>4, <1>5, <2>1, <2>2 DEF Clear
    <2>4. \A t \in TS : /\ stage[t] = "prepared" => Coord(t) >= probe + 1
                        /\ credit[t] = "prepared" => Part(t) >= probe + 1
        BY <1>3, <1>9, <2>3
    <2>5. QED
        BY <2>4 DEF Clear
<1>12. CASE probe < NumClusters
    <2>1. probe + 1 \in Cluster
        BY <1>3, <1>12 DEF Cluster
    <2>2. ~moved' /\ walSeen' = 0 => Clear(probe)'
        <3>1. SUFFICES ASSUME ~moved', walSeen' = 0 PROVE Clear(probe)'
            OBVIOUS
        <3>2. Clear(probe + 1) /\ probe' = probe + 1
            BY <1>1, <1>11, <1>12, <3>1
        <3>3. QED
            BY <1>1, <3>2 DEF Clear, TS, Coord, Part
    <2>3. PollInv'
        BY <1>1, <1>3, <1>12, <2>1, <2>2 DEF PollInv
    <2>4. QED
        BY <1>2, <1>6, <1>7, <1>8, <2>3 DEF DriverInv
<1>13. CASE ~(probe < NumClusters)
    <2>1. probe' = 1 /\ walSeen' = 0 /\ phase' \in {"quiesce", "sum"}
          /\ (phase' = "sum" => seen = 0)
        BY <1>1, <1>13
    <2>2. 1 \in Cluster /\ NumClusters * ItemsPerCluster \in Nat
        BY LayoutAssumption DEF Cluster
    <2>3. Clear(1)'
        BY <1>1, <1>9 DEF Clear, TS, Coord, Part
    <2>4. ~moved' /\ seen = 0 => NothingPrepared'
        <3>1. ASSUME Clear(probe + 1) PROVE NothingPrepared
            BY <1>3, <1>9, <1>13, <3>1 DEF Clear, NothingPrepared
        <3>2. NothingPrepared => NothingPrepared'
            BY <1>1 DEF NothingPrepared, TS
        <3>3. QED
            BY <1>11, <3>1, <3>2
    <2>5. TotalIsRead'
        <3>1. PICK b : b = bal'
            OBVIOUS
        <3>2. ReadBefore(1) = {}
            <4>1. ASSUME NEW i \in AllTrackedItems PROVE ~(i < 1)
                <5>1. i \in Item
                    BY TrackedItems
                <5>2. QED
                    BY <5>1 DEF Item
            <4>2. QED
                BY <4>1 DEF ReadBefore
        <3>3. SumOver(b, {}) = 0
            BY FS_EmptySet, SumUnfolds
        <3>4. total' = SumOver(b, ReadBefore(probe'))
            BY <1>1, <1>3, <2>1, <3>2, <3>3
        <3>5. QED
            BY <3>1, <3>4 DEF TotalIsRead, ReadBefore
    <2>6. PollInv'
        BY <1>1, <1>3, <2>1, <2>2, <2>3, <2>4, <2>5 DEF PollInv
    <2>7. QED
        BY <1>2, <1>6, <1>7, <1>8, <2>6 DEF DriverInv
<1>14. QED
    BY <1>12, <1>13

LEMMA SumBalancesStep ==
    ASSUME SmallBankInv, SumBalances
    PROVE  SmallBankInv'
<1> USE DEF SmallBankInv
<1>1. /\ phase = "sum" /\ phase' = "sum" /\ probe \in Item /\ probe' = probe + 1
      /\ total' = IF probe \in AllTrackedItems THEN total + bal[probe] ELSE total
      /\ bal' = bal /\ reqs' = reqs /\ stage' = stage /\ credit' = credit
      /\ meta' = meta /\ records' = records /\ tries' = tries
      /\ walSeen' = walSeen /\ walClear' = walClear /\ moved' = moved
    BY DEF SumBalances, ledgerVars
<1>2. LedgerInv' /\ MoneyInv'
    BY <1>1, LedgerSame
<1>3. probe \in Nat /\ 1 <= probe /\ probe <= NumClusters * ItemsPerCluster
      /\ NumClusters * ItemsPerCluster \in Nat
    BY <1>1, LayoutAssumption DEF Item
<1>4. bal[probe] \in Nat /\ total \in Nat
    BY <1>1 DEF LedgerInv, LedgerType, DriverInv, DriverType
<1>5. FirstLegIsFinal'
    BY <1>1 DEF DriverInv, FirstLegIsFinal, TS
<1>6. DriverType'
    <2>1. total' \in Nat /\ probe' \in Nat
        BY <1>1, <1>3, <1>4
    <2>2. QED
        BY <1>1, <2>1 DEF DriverInv, DriverType
<1>7. SecondLegWaits'
    BY <1>1 DEF SecondLegWaits
<1>8. NothingPrepared => NothingPrepared'
    BY <1>1 DEF NothingPrepared, TS
<1>9. TotalIsRead => TotalIsRead'
    <2>1. SUFFICES ASSUME TotalIsRead PROVE TotalIsRead'
        OBVIOUS
    <2>2. PICK b : b = bal /\ total = SumOver(b, ReadBefore(probe))
        BY <2>1 DEF TotalIsRead
    <2>3. AllTrackedItems \subseteq Nat
        BY TrackedItems DEF Item
    <2>4. PICK R : R = ReadBefore(probe + 1)
        OBVIOUS
    <2>5. \A i \in AllTrackedItems : i < probe + 1 <=> i < probe \/ i = probe
        BY <1>3, <2>3
    <2>6. /\ \A i : i \in R <=> i \in AllTrackedItems /\ (i < probe \/ i = probe)
          /\ \A i : i \in ReadBefore(probe) <=> i \in AllTrackedItems /\ i < probe
        BY <2>4, <2>5 DEF ReadBefore
    <2>7. ~(probe < probe)
        BY <1>3
    <2>8. total' = SumOver(b, R)
        <3>1. CASE probe \in AllTrackedItems
            <4>1. probe \in R /\ R \ {probe} = ReadBefore(probe)
                BY <2>6, <2>7, <3>1
            <4>2. IsFiniteSet(R) /\ \A i \in R : b[i] \in Int
                <5>1. R \subseteq AllTrackedItems
                    BY <2>6
                <5>2. QED
                    BY <2>2, <5>1, TrackedItems, FS_Subset DEF LedgerInv, LedgerType
            <4>3. SumOver(b, R) = b[probe] + SumOver(b, ReadBefore(probe))
                BY <4>1, <4>2, SumRemoves
            <4>4. QED
                BY <1>1, <1>4, <2>2, <3>1, <4>3
        <3>2. CASE probe \notin AllTrackedItems
            <4>1. R = ReadBefore(probe)
                BY <2>6, <3>2
            <4>2. QED
                BY <1>1, <2>2, <3>2, <4>1
        <3>3. QED
            BY <3>1, <3>2
    <2>9. QED
        BY <1>1, <2>2, <2>4, <2>8 DEF TotalIsRead, ReadBefore
<1>10. PollInv'
    <2>1. probe + 1 \in Nat \ {0} /\ (probe + 1) - 1 <= NumClusters * ItemsPerCluster
        BY <1>3
    <2>2. QED
        BY <1>1, <1>8, <1>9, <2>1 DEF DriverInv, PollInv
<1>11. QED
    BY <1>2, <1>5, <1>6, <1>7, <1>10 DEF DriverInv

\* All tracked items have been read, and nothing is on its way.
LEMMA SumIsRight ==
    ASSUME LedgerInv, MoneyInv, PollInv, phase = "sum", probe \notin Item, ~moved
    PROVE  total = InitialSum
<1>1. PICK b : b = bal /\ total = SumOver(b, ReadBefore(probe))
    BY DEF PollInv, TotalIsRead
<1>2. PICK w : w = [t \in TS |-> Weight(t)]
    OBVIOUS
<1>3. /\ SumOver(b, AllTrackedItems) + SumOver(w, TS) = InitialSum
      /\ \A t \in TS : w[t] = Weight(t)
      /\ SumOver(b, AllTrackedItems) \in Int
    BY <1>1, <1>2, MoneyIs DEF LedgerInv
<1>4. \A t \in TS : w[t] = 0
    BY <1>3 DEF PollInv, NothingPrepared, Weight
<1>5. SumOver(w, TS) = 0
    <2>1. SumOver(w, TS) = 0 * Cardinality(TS) /\ Cardinality(TS) \in Nat
        BY <1>4, FiniteTS, FS_CardinalityType, SumConstant DEF LedgerInv
    <2>2. QED
        BY <2>1
<1>6. ReadBefore(probe) = AllTrackedItems
    <2>1. /\ probe \in Nat \ {0} /\ NumClusters * ItemsPerCluster \in Nat
        BY LayoutAssumption DEF PollInv
    <2>2. \A i \in Item : i < probe
        BY <2>1 DEF Item
    <2>3. QED
        BY <2>2, TrackedItems DEF ReadBefore
<1>7. QED
    BY <1>1, <1>3, <1>5, <1>6

LEMMA CheckConservationStep ==
    ASSUME SmallBankInv, CheckConservation
    PROVE  SmallBankInv'
<1> USE DEF SmallBankInv
<1>1. /\ phase = "sum" /\ probe \notin Item /\ phase' \in {"ok", "violated"}
      /\ phase' = "violated" => total # InitialSum
      /\ bal' = bal /\ reqs' = reqs /\ stage' = stage /\ credit' = credit
      /\ meta' = meta /\ records' = records /\ tries' = tries /\ moved' = moved
      /\ probe' = probe /\ walSeen' = walSeen /\ walClear' = walClear /\ total' = total
    BY DEF CheckConservation, ledgerVars, checkVars
<1>2. LedgerInv' /\ MoneyInv'
    BY <1>1, LedgerSame
<1>3. phase' = "violated" => moved'
    BY <1>1, SumIsRight DEF DriverInv
<1>4. FirstLegIsFinal'
    BY <1>1 DEF DriverInv, FirstLegIsFinal, TS
<1>5. DriverType' /\ SecondLegWaits' /\ PollInv'
    BY <1>1, <1>3 DEF DriverInv, DriverType, SecondLegWaits, PollInv, Phase
<1>6. QED
    BY <1>2, <1>4, <1>5 DEF DriverInv

-----------------------------------------------------------------------------
(***************************************************************************)
(* The theorems.                                                           *)
(***************************************************************************)
LEMMA SmallBankInit == Init => SmallBankInv
<1> SUFFICES ASSUME Init PROVE SmallBankInv
    OBVIOUS
<1>1. /\ bal = [i \in Item |-> InitialBalance] /\ InitialBalance \in Nat
      /\ reqs = <<>> /\ stage = <<>> /\ credit = <<>> /\ meta = <<>> /\ TS = {}
      /\ DOMAIN meta = {} /\ phase = "fund"
      /\ records = {} /\ tries = 0 /\ probe = 1 /\ walSeen = 0 /\ walClear = FALSE
      /\ total = 0 /\ moved = FALSE /\ Txns \in Nat
    BY AmountAssumption DEF Init, TS
<1>2. LedgerType
    <2>1. stage \in [TS -> Stages] /\ credit \in [TS -> Credits]
        BY <1>1
    <2>2. bal \in [Item -> Nat] /\ reqs \in Seq(Payment)
        BY <1>1
    <2>3. QED
        BY <2>1, <2>2 DEF LedgerType
<1>3. LedgerInv
    BY <1>1, <1>2 DEF LedgerInv, Matched, Covered, OneCredit
<1>4. MoneyInv
    <2>1. PICK b : b = bal
        OBVIOUS
    <2>2. PICK w : w = [t \in TS |-> Weight(t)]
        OBVIOUS
    <2>3. SumOver(b, AllTrackedItems) = InitialSum
        <3>1. \A i \in AllTrackedItems : b[i] = InitialBalance
            BY <1>1, <2>1, TrackedItems
        <3>2. InitialBalance \in Int
            BY <1>1
        <3>3. QED
            BY <3>1, <3>2, TrackedItems, SumConstant DEF InitialSum
    <2>4. DOMAIN w = {}
        BY <1>1, <2>2
    <2>5. SumOver(w, {}) = 0
        BY FS_EmptySet, SumUnfolds
    <2>6. InitialSum \in Int
        BY <1>1, TrackedItems, FS_CardinalityType DEF InitialSum
    <2>7. SumOver(b, AllTrackedItems) + SumOver(w, DOMAIN w) = InitialSum
        BY <2>3, <2>4, <2>5, <2>6
    <2>8. QED
        BY <2>1, <2>2, <2>7, Zenon DEF MoneyInv
<1>5. DriverInv
    <2>1. DriverType
        <3>1. /\ phase \in Phase /\ probe \in Nat /\ walSeen \in Nat /\ total \in Nat
              /\ walClear \in BOOLEAN /\ moved \in BOOLEAN
            BY <1>1 DEF Phase
        <3>2. meta \in Seq(OpMeta) /\ records \subseteq [op : DOMAIN meta, committed : BOOLEAN]
            BY <1>1
        <3>3. tries \in 0 .. Txns
            BY <1>1
        <3>4. QED
            BY <3>1, <3>2, <3>3 DEF DriverType
    <2>2. SecondLegWaits /\ FirstLegIsFinal /\ PollInv
        BY <1>1 DEF SecondLegWaits, FirstLegIsFinal, PollInv
    <2>3. QED
        BY <2>1, <2>2 DEF DriverInv
<1>6. QED
    BY <1>3, <1>4, <1>5 DEF SmallBankInv

LEMMA SmallBankUnchanged ==
    ASSUME SmallBankInv, UNCHANGED vars
    PROVE  SmallBankInv'
<1>1. /\ bal' = bal /\ reqs' = reqs /\ stage' = stage /\ credit' = credit
      /\ meta' = meta /\ records' = records /\ tries' = tries /\ moved' = moved /\ phase' = phase
      /\ probe' = probe /\ walSeen' = walSeen /\ walClear' = walClear /\ total' = total
    BY DEF vars, ledgerVars, driverVars, checkVars
<1>2. LedgerInv' /\ MoneyInv'
    BY <1>1, LedgerSame DEF SmallBankInv
<1>3. Clear(probe) => Clear(probe)'
    BY <1>1 DEF Clear, TS, Coord, Part
<1>4. PollInv'
    BY <1>1, <1>3 DEF SmallBankInv, DriverInv, PollInv, NothingPrepared, TotalIsRead, TS
<1>5. DriverType' /\ SecondLegWaits' /\ FirstLegIsFinal'
    BY <1>1 DEF SmallBankInv, DriverInv, DriverType, SecondLegWaits, FirstLegIsFinal, TS
<1>6. QED
    BY <1>2, <1>4, <1>5 DEF SmallBankInv, DriverInv

LEMMA SmallBankNext ==
    ASSUME SmallBankInv, [Next]_vars
    PROVE  SmallBankInv'
<1>1. ASSUME NEW t \in TS, Ledger(t)
      PROVE  SmallBankInv'
    BY <1>1, LedgerStep, MoneyStep, LedgerDriver DEF SmallBankInv
<1>2. CASE Driver
    BY <1>2, FundTreasuryStep, SubmitOpStep, SendSecondLegStep, GiveUpSecondLegStep,
       TryResolveStep, PhaseEnds, PollWALStep, SumBalancesStep, CheckConservationStep
    DEF Driver
<1>3. CASE UNCHANGED vars
    BY <1>3, SmallBankUnchanged
<1>4. QED
    BY <1>1, <1>2, <1>3 DEF Next

LEMMA SmallBankInvariant == Spec => []SmallBankInv
<1>1. SmallBankInv /\ [Next]_vars => SmallBankInv'
    BY SmallBankNext
<1>2. QED
    BY <1>1, SmallBankInit, PTL DEF Spec

\* Every variable keeps its type, for any number of customers, operations and
\* draws.  In particular no balance falls below zero: what an abort takes back
\* from the credited item is still there, because its lock keeps every other
\* request off it (applyTransfer, WALUndo).
THEOREM TypeCorrect == Spec => []TypeOK
<1>1. SmallBankInv => TypeOK
    <2> SUFFICES ASSUME SmallBankInv PROVE TypeOK
        OBVIOUS
    <2>1. reqs \in Seq(Request)
        BY PaymentIsRequest, SeqMonotonic DEF SmallBankInv, LedgerInv, LedgerType
    <2>2. QED
        BY <2>1 DEF SmallBankInv, LedgerInv, LedgerType, Stages, Credits, DriverInv, DriverType, TypeOK
<1>2. QED
    BY <1>1, SmallBankInvariant, PTL

\* CheckConservation reports a violation only when money moved after the last
\* round of polls had begun: two clear rounds of Wait2PCQuiescence are enough,
\* although the primaries are polled one after the other, for every schema
\* and every mix of operations.
THEOREM NoFalseAlarms == Spec => []NoFalseAlarm
<1>1. SmallBankInv => NoFalseAlarm
    BY DEF SmallBankInv, DriverInv, PollInv, NoFalseAlarm
<1>2. QED
    BY <1>1, SmallBankInvariant, PTL

\* The second request of an Amalgamate takes effect only after the first has
\* committed for good (Run, waitResult), whatever deadlines pass in between.
THEOREM AmalgamateOrdered == Spec => []AmalgamateInOrder
<1>1. SmallBankInv => AmalgamateInOrder
    BY DEF SmallBankInv, DriverInv, FirstLegIsFinal, AmalgamateInOrder
<1>2. QED
    BY <1>1, SmallBankInvariant, PTL
=============================================================================
